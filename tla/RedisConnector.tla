---- MODULE RedisConnector ----
(***************************************************************************)
(* The connection of one Redis worker: hiredis context, three timers, the  *)
(* count of time-outs and the commands that wait for an answer.            *)
(*                                                                         *)
(* Everything happens in the worker's thread, one event after the other,   *)
(* but an event runs a chain of nested calls: a callback calls             *)
(* setConnected, which emits connected(), whose slots send new commands.   *)
(* The state is therefore one record, and each function of the code an     *)
(* operator on it.  Two kinds of workers are modelled: one that keeps the  *)
(* ping timer and sends commands when asked to, like the stream producer,  *)
(* and the stream consumer, which always reads.  What the slots of other   *)
(* workers add to disconnected() is not modelled here.                     *)
(*                                                                         *)
(* hiredis is external.  It answers commands in order; when a context is   *)
(* freed or fails, it calls every pending callback with a null reply,      *)
(* accepts no new command meanwhile, and then calls disconnectCallback if  *)
(* the context had been connected.                                         *)
(***************************************************************************)
EXTENDS Naturals, Sequences

CONSTANTS
  Limits,      \* values of max_command_errors
  MaxPending   \* bound on the pending commands

ASSUME ConnectorAssumption ==
  /\ Limits \subseteq Nat
  /\ MaxPending \in Nat

VARIABLES
  conn,     \* the connector
  stalled   \* the server has stopped answering on the present connection

vars == <<conn, stalled>>

Commands == {"select", "ping", "incr", "read", "user"}

Connector ==
  [reader : BOOLEAN,           \* it is a StreamConsumer
   maxErrors : Limits,         \* max_command_errors, a quint16
   context : {"none", "connecting", "up", "closing"},   \* redisContext
   connected : BOOLEAN,        \* isConnected
   reconnectTimer : BOOLEAN,   \* the timers that run
   commandTimeout : BOOLEAN,
   pingTimer : BOOLEAN,
   errors : Nat,               \* commandTimeoutsCounter, a quint8
   pending : Seq(Commands)]    \* context->replies

\* onRun has called tryConnect.
Init ==
  /\ stalled = FALSE
  /\ \E r \in BOOLEAN, limit \in Limits :
       conn = [reader |-> r, maxErrors |-> limit, context |-> "connecting",
               connected |-> FALSE, reconnectTimer |-> FALSE, commandTimeout |-> FALSE,
               pingTimer |-> FALSE, errors |-> 0, pending |-> <<>>]
----------------------------------------------------------------------------
(* Commands. *)

\* redisAsyncCommand on a context that takes commands.
Accepts(c) == c.connected /\ c.context = "up"
Enqueue(c, cmd) == [c EXCEPT !.pending = Append(@, cmd)]

\* A command with a callback: startAsyncCommand stops the ping timer and
\* starts the time-out, again if it runs.
runAsyncCommand(c, cmd) ==
  IF Accepts(c)
  THEN [Enqueue(c, cmd) EXCEPT !.pingTimer = FALSE, !.commandTimeout = TRUE]
  ELSE c

\* A command without one is not tracked.
runWithoutCallback(c, cmd) == IF Accepts(c) THEN Enqueue(c, cmd) ELSE c

doRead(c) == runAsyncCommand(c, "read")

\* The slots of connected(): selectDb, reconnectTimer, and then the ping timer,
\* which a stream consumer has deleted, or INCR and doRead.
emitConnected(c) ==
  LET s == [runAsyncCommand(c, "select") EXCEPT !.reconnectTimer = FALSE]
  IN  IF c.reader
      THEN doRead(runWithoutCallback(s, "incr"))
      ELSE [s EXCEPT !.pingTimer = TRUE]

\* Variant for mutation: the reconnect timer is not started.
emitDisconnectedQuietly(c) == [c EXCEPT !.pingTimer = FALSE]

\* The slots of disconnected().
emitDisconnected(c) == [c EXCEPT !.reconnectTimer = TRUE, !.pingTimer = FALSE]

\* Variant for mutation: the time-out of the command just answered keeps running.
setConnectedKeepsTimeout(c, state) ==
  LET s == [c EXCEPT !.connected = state] IN
    IF state
    THEN [(IF c.connected THEN c ELSE emitConnected(s)) EXCEPT !.errors = 0]
    ELSE IF c.connected THEN emitDisconnected(s) ELSE c

\* setConnected(true) ends with the time-out stopped: the time-outs of commands
\* that connected() has just sent, and of commands still pending, included.
setConnected(c, state) ==
  LET s == [c EXCEPT !.connected = state] IN
    IF state
    THEN [(IF c.connected THEN c ELSE emitConnected(s))
            EXCEPT !.commandTimeout = FALSE, !.errors = 0]
    ELSE IF c.connected THEN emitDisconnected(s) ELSE c

\* commandsFinished() starts the ping timer again, or the next read.
emitCommandsFinished(c) ==
  IF c.reader THEN doRead(c) ELSE [c EXCEPT !.pingTimer = TRUE]

\* Variants for mutation: the commands left are not counted, or the signal is
\* not emitted.
finishWithoutCounting(c) == emitCommandsFinished(setConnected(c, TRUE))
finishSilently(c) == setConnected(c, TRUE)

finishAsyncCommand(c) ==
  LET s == setConnected(c, TRUE) IN
    IF s.pending = <<>> THEN emitCommandsFinished(s) ELSE s

\* The callback of cmd, then finishAsyncCommand.  A ping that fails disconnects,
\* and finishAsyncCommand then connects again.
privateCallback(c, cmd, good) ==
  IF cmd = "incr"
  THEN c
  ELSE finishAsyncCommand(IF cmd = "ping" THEN setConnected(c, good) ELSE c)
----------------------------------------------------------------------------
(* The end of a context. *)

HasCallback(c) == \E i \in DOMAIN c.pending : c.pending[i] # "incr"

\* hiredis answers the pending commands with null: each callback ends with
\* setConnected(true), so the second and the others repeat what the first did.
callPending(c) ==
  LET s == [c EXCEPT !.context = "closing", !.pending = <<>>]
  IN  IF HasCallback(c) THEN setConnected(s, TRUE) ELSE s

\* The pending callbacks and disconnectCallback.
disconnectCallback(c) ==
  [setConnected(callPending(c), FALSE) EXCEPT !.context = "none"]

\* A context that never was connected has nothing to call.
clearContext(c) ==
  IF c.context = "up" THEN disconnectCallback(c) ELSE [c EXCEPT !.context = "none"]
----------------------------------------------------------------------------
(* Events. *)

\* tryConnect, of a connector that is not connected: the attempt fails at once,
\* or is under way.
tryConnect(c) ==
  IF c.connected
  THEN {c}
  ELSE {[c EXCEPT !.context = "connecting"],
        [c EXCEPT !.context = "none", !.reconnectTimer = TRUE]}

\* The reconnect timer: clearContext and tryConnect.
reconnect ==
  /\ conn.reconnectTimer
  /\ conn' \in tryConnect(clearContext([conn EXCEPT !.reconnectTimer = FALSE]))
  /\ stalled' = FALSE

\* connectCallback(REDIS_OK).
connectSucceeds ==
  /\ conn.context = "connecting"
  /\ conn' = setConnected([conn EXCEPT !.context = "up"], TRUE)
  /\ UNCHANGED stalled

\* Variant for mutation: nobody will try again.
connectFailsQuietly ==
  /\ conn.context = "connecting"
  /\ conn' = [conn EXCEPT !.context = "none"]
  /\ UNCHANGED stalled

\* connectCallback with an error; hiredis frees the context.
connectFails ==
  /\ conn.context = "connecting"
  /\ conn' = [conn EXCEPT !.context = "none", !.reconnectTimer = TRUE]
  /\ UNCHANGED stalled

\* The oldest command is answered, perhaps when the connector has given up
\* already.  The bound is on such late answers.
answer ==
  /\ conn.context = "up"
  /\ ~stalled
  /\ conn.pending # <<>>
  /\ conn.connected \/ Len(conn.pending) < MaxPending
  /\ \E good \in BOOLEAN :
       conn' = privateCallback([conn EXCEPT !.pending = Tail(@)],
                               Head(conn.pending), good)
  /\ UNCHANGED stalled

\* The server closes the connection, or it breaks and hiredis notices.
serverCloses ==
  /\ conn.context = "up"
  /\ ~stalled
  /\ conn' = disconnectCallback(conn)
  /\ UNCHANGED stalled

\* The time-out of the last command started.
onCommandTimeout ==
  /\ conn.commandTimeout
  /\ LET c     == [conn EXCEPT !.commandTimeout = FALSE]
         count == (conn.errors + 1) % 256
     IN  conn' = IF count >= conn.maxErrors
                 THEN setConnected([c EXCEPT !.errors = conn.maxErrors % 256], FALSE)
                 ELSE [c EXCEPT !.errors = count]
  /\ UNCHANGED stalled

doPing ==
  /\ conn.pingTimer
  /\ conn' = runAsyncCommand(conn, "ping")
  /\ UNCHANGED stalled

\* A worker that is not a stream consumer runs a command of its own.
userCommand ==
  /\ ~conn.reader
  /\ Accepts(conn)
  /\ Len(conn.pending) < MaxPending
  /\ conn' = runAsyncCommand(conn, "user")
  /\ UNCHANGED stalled

\* The server hangs on this connection, which stays open: nothing tells hiredis.
serverStalls ==
  /\ conn.context = "up"
  /\ ~stalled
  /\ stalled' = TRUE
  /\ UNCHANGED conn
----------------------------------------------------------------------------
Next ==
  \/ reconnect
  \/ connectSucceeds
  \/ connectFails
  \/ answer
  \/ serverCloses
  \/ onCommandTimeout
  \/ doPing
  \/ userCommand
  \/ serverStalls

Spec == Init /\ [][Next]_vars

\* Timers that run fire, and an attempt to connect ends.
Fairness ==
  /\ WF_vars(reconnect)
  /\ WF_vars(onCommandTimeout)
  /\ WF_vars(doPing)
  /\ WF_vars(connectSucceeds \/ connectFails)

FairSpec == Spec /\ Fairness

\* The same, of a server that can be reached: attempts do not fail for ever.
ReachableSpec == FairSpec /\ SF_vars(connectSucceeds)
----------------------------------------------------------------------------
(* Properties. *)

TypeOK ==
  /\ conn \in Connector
  /\ conn.errors < 256
  /\ conn.context # "closing"
  /\ stalled \in BOOLEAN

\* The callbacks of a context that ends set the connector to connected, one
\* after the other: it never stays so without a context, where it would refuse
\* to connect for ever.
ConnectedIsUp == conn.connected => conn.context = "up"

\* A connector that is not connected is about to be: an attempt is under way or
\* the reconnect timer runs, whatever callbacks stopped and started it.
NeverAbandoned ==
  conn.connected \/ conn.reconnectTimer \/ conn.context = "connecting"

\* A connected stream consumer has one read pending, the last of its commands:
\* with none it would never read again, with two it would emit entries twice.
OneReadPending ==
  conn.reader /\ conn.connected =>
    LET n == Len(conn.pending) IN
      /\ n > 0
      /\ \A i \in 1..n : conn.pending[i] = "read" <=> i = n

\* The other connected workers have the ping timer running or a command whose
\* answer starts it again.
KeptAlive ==
  ~conn.reader /\ conn.connected => conn.pingTimer \/ HasCallback(conn)

\* No timer outlives what it was started for, through callbacks that connect and
\* disconnect within one event: a time-out is only counted against a command that
\* waits, a connection in use is never freed to reconnect, and a lost one not pinged.
TimersJustified ==
  /\ conn.commandTimeout => HasCallback(conn)
  /\ conn.reconnectTimer => ~conn.connected
  /\ conn.pingTimer => conn.connected

\* Commands wait on a connection only; those of a stream consumer are one read,
\* or what connected() sent, whose time-out setConnected has stopped.
CommandsInOrder ==
  /\ conn.context # "up" => conn.pending = <<>>
  /\ conn.reader =>
       /\ ~conn.pingTimer
       /\ conn.context = "up" =>
            \/ conn.pending = <<"read">>
            \/ /\ conn.connected
               /\ ~conn.commandTimeout
               /\ \/ conn.pending = <<"select", "incr", "read">>
                  \/ conn.pending = <<"incr", "read">>
  /\ ~conn.reader => conn.pending \in Seq({"select", "ping", "user"})

\* The inductive invariant of the connector.
ConnectorInvariant ==
  /\ TypeOK
  /\ ConnectedIsUp
  /\ NeverAbandoned
  /\ CommandsInOrder
  /\ KeptAlive

\* When the server can be reached, the connector is connected again and again.
Recovers == ~conn.connected ~> conn.connected

\* "Connection error or timeout. Trying new connection...": a connection on
\* which the server has fallen silent is given up in the end.
SilenceNoticed == stalled ~> ~stalled
====
