---- MODULE ModbusMaster ----
(***************************************************************************)
(* Modbus masters on one shared channel: queues of queries, the query in   *)
(* flight, the device connection with its reconnect timer, and the poll    *)
(* timer.  Each master runs in its own thread; the channel is SyncChannel, *)
(* whose variables and handlers this module uses.                          *)
(*                                                                         *)
(* QModbusClient and QModbusReply are Qt's: open, link and answers are     *)
(* modelled from how the master uses them.                                 *)
(***************************************************************************)
EXTENDS SyncChannel, SequencesExt

CONSTANTS
  Serial,      \* masters on a serial port, which opens synchronously
  Query,       \* read queries
  Queries,     \* Queries[u]: the merged read queries of u, in order
  Write,       \* a write in flight
  NoQuery,     \* nothing in flight
  MaxWrites    \* bound on the writes asked of one master

ASSUME MasterAssumption ==
  /\ Serial \subseteq Users
  /\ Queries \in [Users -> Seq(Query)]
  /\ MaxWrites \in Nat

VARIABLES
  device,          \* device[u]: state of the connection; d->connected follows it
  reconnectTimer,  \* reconnectTimer[u]: the timer runs
  readQueue,       \* readQueue[u]: queries waiting
  writeQueue,      \* writeQueue[u]: number of units waiting to be written
  flight,          \* flight[u]: what the reply in flight answers
  finished,        \* finished[u]: that reply is finished and will be deleted
  writes           \* writes[u]: writes asked for so far

masterVars == <<device, reconnectTimer, readQueue, writeQueue, flight, finished,
                writes>>
vars == <<chanVars, masterVars>>

connected(u) == device[u] = "connected"

MasterInit ==
  /\ Init
  /\ device = [u \in Users |-> "unconnected"]
  /\ reconnectTimer = [u \in Users |-> FALSE]
  /\ readQueue = [u \in Users |-> <<>>]
  /\ writeQueue = [u \in Users |-> 0]
  /\ flight = [u \in Users |-> NoQuery]
  /\ finished = [u \in Users |-> FALSE]
  /\ writes = [u \in Users |-> 0]
----------------------------------------------------------------------------
(* Signals to the channel. *)

\* queryDone is connected to onJobDone and, after it, to askTrigger.
queryDone(u) == Post(Job(u) \o Asks(u, 1))
allQueriesDone(u) == Post(Job(u))

\* Handlers that only ask: nothing else of the channel changes.
OnlyPosts == UNCHANGED <<gone, waiting, chosen, jobs>>

\* Bound: starts, reconnections and writes wait while the channel's queue is long.
Room == Len(chanQ) < MaxEvents
----------------------------------------------------------------------------
(* Connection and polling. *)

\* The queries enqeueRead adds, those not in the queue already, each with an ask.
Queued(u, q) == \E i \in DOMAIN readQueue[u] : readQueue[u][i] = q
Missing(u) == {i \in DOMAIN Queries[u] : ~Queued(u, Queries[u][i])}
Fresh(u) ==
  FoldLeft(LAMBDA added, q : IF Queued(u, q) THEN added ELSE Append(added, q),
           <<>>, Queries[u])

\* doRead() of a connected master, with more asks of the same handler after it.
doRead(u, more) ==
  /\ readQueue' = [readQueue EXCEPT ![u] = @ \o Fresh(u)]
  /\ Post(Asks(u, Cardinality(Missing(u)) + more))

HasWork(u) == writeQueue[u] > 0 \/ readQueue[u] # <<>>

\* Variant for mutation: queues left from before are not announced.
connectDeviceSilently(u) ==
  \/ /\ reconnectTimer' = [reconnectTimer EXCEPT ![u] = TRUE]
     /\ UNCHANGED <<device, readQueue, chanQ>>
  \/ /\ u \in Serial
     /\ device' = [device EXCEPT ![u] = "connected"]
     /\ reconnectTimer' = [reconnectTimer EXCEPT ![u] = FALSE]
     /\ doRead(u, 0)
  \/ /\ u \notin Serial
     /\ device' = [device EXCEPT ![u] = "connecting"]
     /\ reconnectTimer' = [reconnectTimer EXCEPT ![u] = FALSE]
     /\ UNCHANGED <<readQueue, chanQ>>

\* connectDevice(): opening fails at once, or a serial port is open and its
\* stateChanged has been handled, or a socket has begun to connect.
connectDevice(u) ==
  \/ /\ reconnectTimer' = [reconnectTimer EXCEPT ![u] = TRUE]
     /\ UNCHANGED <<device, readQueue, chanQ>>
  \/ /\ u \in Serial
     /\ device' = [device EXCEPT ![u] = "connected"]
     /\ reconnectTimer' = [reconnectTimer EXCEPT ![u] = FALSE]
     /\ doRead(u, IF HasWork(u) \/ Missing(u) # {} THEN 1 ELSE 0)
  \/ /\ u \notin Serial
     /\ device' = [device EXCEPT ![u] = "connecting"]
     /\ reconnectTimer' = [reconnectTimer EXCEPT ![u] = FALSE]
     /\ Post(Asks(u, IF HasWork(u) THEN 1 ELSE 0))
     /\ UNCHANGED readQueue

\* onRun: attachToChannel, connectDevice, start of the poll timer.
onRun(u) ==
  /\ u \notin registered
  /\ Room
  /\ registered' = registered \cup {u}
  /\ connectDevice(u)
  /\ OnlyPosts
  /\ UNCHANGED <<writeQueue, flight, finished, writes>>

reconnectTimeout(u) ==
  /\ reconnectTimer[u]
  /\ Room
  /\ connectDevice(u)
  /\ OnlyPosts
  /\ UNCHANGED <<registered, writeQueue, flight, finished, writes>>

\* onStateChanged(ConnectedState) of a socket.
established(u) ==
  /\ device[u] = "connecting"
  /\ device' = [device EXCEPT ![u] = "connected"]
  /\ doRead(u, 0)
  /\ OnlyPosts
  /\ UNCHANGED <<registered, reconnectTimer, writeQueue, flight, finished, writes>>

\* onStateChanged(UnconnectedState): the device closes by itself.  Qt finishes
\* the reply in flight with an error, whose handler then returns early.
connectionLost(u) ==
  /\ device[u] # "unconnected"
  /\ device' = [device EXCEPT ![u] = "unconnected"]
  /\ reconnectTimer' = [reconnectTimer EXCEPT ![u] = TRUE]
  /\ finished' = [finished EXCEPT ![u] = (flight[u] # NoQuery)]
  /\ UNCHANGED <<chanVars, readQueue, writeQueue, flight, writes>>

\* The poll timer.
poll(u) ==
  /\ u \in registered
  /\ connected(u)
  /\ doRead(u, 0)
  /\ OnlyPosts
  /\ UNCHANGED <<registered, device, reconnectTimer, writeQueue, flight, finished,
                 writes>>

\* onMsg: one unit to write, connected or not.
onMsg(u) ==
  /\ u \in registered
  /\ Room
  /\ writes[u] < MaxWrites
  /\ writes' = [writes EXCEPT ![u] = @ + 1]
  /\ writeQueue' = [writeQueue EXCEPT ![u] = @ + 1]
  /\ Post(Asks(u, 1))
  /\ OnlyPosts
  /\ UNCHANGED <<registered, device, reconnectTimer, readQueue, flight, finished>>
----------------------------------------------------------------------------
(* Jobs. *)

\* Variant for mutation: nobody will connect again.
reconnectWithoutTimer(u) ==
  /\ device' = [device EXCEPT ![u] = "unconnected"]
  /\ UNCHANGED reconnectTimer

\* reconnect() of a connected master: disconnectDevice and the timer.
reconnect(u) ==
  /\ device' = [device EXCEPT ![u] = "unconnected"]
  /\ reconnectTimer' = [reconnectTimer EXCEPT ![u] = TRUE]

\* executeRead and executeWrite: a reply is in flight; or it was finished when
\* it was returned and is deleted; or there is none, and the master reconnects.
execute(u, query) ==
  \/ /\ jobs' = [jobs EXCEPT ![u] = @ + 1]
     /\ flight' = [flight EXCEPT ![u] = query]
     /\ UNCHANGED <<chanQ, device, reconnectTimer>>
  \/ /\ queryDone(u)
     /\ UNCHANGED <<jobs, flight, device, reconnectTimer>>
  \/ /\ queryDone(u)
     /\ reconnect(u)
     /\ UNCHANGED <<jobs, flight>>

\* The trigger is for u: executeNext.
triggered(u) ==
  /\ trigQ[u] > 0
  /\ trigQ' = [trigQ EXCEPT ![u] = @ - 1]
  /\ UNCHANGED <<registered, gone, waiting, busy, lastBusy, since, frameTimer,
                 finished, writes>>

executeNothing(u) ==
  /\ triggered(u)
  /\ ~connected(u) \/ ~HasWork(u)
  /\ allQueriesDone(u)
  /\ UNCHANGED <<jobs, flight, device, reconnectTimer, readQueue, writeQueue>>

executeWrite(u) ==
  /\ triggered(u)
  /\ connected(u)
  /\ writeQueue[u] > 0
  /\ writeQueue' = [writeQueue EXCEPT ![u] = @ - 1]
  /\ execute(u, Write)
  /\ UNCHANGED readQueue

executeRead(u) ==
  /\ triggered(u)
  /\ connected(u)
  /\ writeQueue[u] = 0
  /\ readQueue[u] # <<>>
  /\ readQueue' = [readQueue EXCEPT ![u] = Tail(@)]
  /\ execute(u, Head(readQueue[u]))
  /\ UNCHANGED writeQueue

executeNext(u) == executeNothing(u) \/ executeWrite(u) \/ executeRead(u)

\* onReadReady and onWriteReady: the reply will be deleted later; an error makes
\* the master reconnect.
replyFinished(u) ==
  /\ flight[u] # NoQuery
  /\ ~finished[u]
  /\ finished' = [finished EXCEPT ![u] = TRUE]
  /\ \/ UNCHANGED <<device, reconnectTimer>>
     \/ connected(u) /\ reconnect(u)
  /\ UNCHANGED <<chanVars, readQueue, writeQueue, flight, writes>>

\* Variant for mutation: the report of the reply is sent twice.
replyDestroyedTwice(u) ==
  /\ finished[u]
  /\ flight' = [flight EXCEPT ![u] = NoQuery]
  /\ finished' = [finished EXCEPT ![u] = FALSE]
  /\ jobs' = [jobs EXCEPT ![u] = @ - 1]
  /\ Post(Job(u) \o Job(u) \o Asks(u, 1))
  /\ UNCHANGED <<registered, gone, waiting, chosen, device, reconnectTimer,
                 readQueue, writeQueue, writes>>

\* The reply is deleted, which emits queryDone.
replyDestroyed(u) ==
  /\ finished[u]
  /\ flight' = [flight EXCEPT ![u] = NoQuery]
  /\ finished' = [finished EXCEPT ![u] = FALSE]
  /\ jobs' = [jobs EXCEPT ![u] = @ - 1]
  /\ queryDone(u)
  /\ UNCHANGED <<registered, gone, waiting, chosen, device, reconnectTimer,
                 readQueue, writeQueue, writes>>
----------------------------------------------------------------------------
ChannelStep == (Serve \/ frameTimeout \/ Tick) /\ UNCHANGED masterVars

MasterStep(u) ==
  \/ onRun(u)
  \/ reconnectTimeout(u)
  \/ established(u)
  \/ connectionLost(u)
  \/ poll(u)
  \/ onMsg(u)
  \/ executeNext(u)
  \/ replyFinished(u)
  \/ replyDestroyed(u)

MasterNext == ChannelStep \/ \E u \in Users : MasterStep(u)

MasterSpec == MasterInit /\ [][MasterNext]_vars

\* Event loops and timers run, time passes, and Qt finishes every reply (its
\* own response time-out sees to it).  Whether a connection comes up, stays or
\* breaks, and whether anybody writes, is left open.
MasterFairness ==
  /\ WF_vars(Serve /\ UNCHANGED masterVars)
  /\ WF_vars(frameTimeout /\ UNCHANGED masterVars)
  /\ WF_vars(Tick /\ UNCHANGED masterVars)
  /\ \A u \in Users :
       /\ WF_vars(poll(u))
       /\ WF_vars(executeNext(u))
       /\ WF_vars(replyFinished(u))
       /\ WF_vars(replyDestroyed(u))

MasterFairSpec == MasterSpec /\ MasterFairness
----------------------------------------------------------------------------
(* Properties. *)

MasterTypeOK ==
  /\ TypeOK
  /\ device \in [Users -> {"unconnected", "connecting", "connected"}]
  /\ reconnectTimer \in [Users -> BOOLEAN]
  /\ readQueue \in [Users -> Seq(Query)]
  /\ writeQueue \in [Users -> Nat]
  /\ flight \in [Users -> Query \cup {Write, NoQuery}]
  /\ finished \in [Users -> BOOLEAN]
  /\ writes \in [Users -> 0..MaxWrites]

\* The channel and its users, when the asks are bounded by b.
Bounded(b) == INSTANCE SyncChannel WITH MaxBurst <- b, MaxEvents <- b

\* The masters keep the contract the channel relies on, each step for a bound as
\* large as the queue asks for: every trigger is answered by exactly one report,
\* whether the query was sent, refused, answered, timed out or cut off by the loss
\* of the connection.
KeepsChannelContract ==
  /\ Init
  /\ [][\E b \in {Len(chanQ) + Len(chanQ') + 1} : Bounded(b)!Next]_chanVars

\* One query on the line: the queues of the masters never have two replies in
\* flight, and the one there is belongs to the master the channel is busy with.
OneQueryOnLine ==
  \A u \in Users : flight[u] # NoQuery =>
    busy = u /\ \A v \in Users \ {u} : flight[v] = NoQuery

\* The channel knows, or will know, that u wants its turn.
Awake(u) ==
  \/ u \in waiting
  \/ trigQ[u] + jobs[u] > 0
  \/ \E i \in DOMAIN chanQ : chanQ[i] = [what |-> "ask", who |-> u]

\* A connected serial master with work in its queues is never forgotten: it or
\* the channel still has an ask, a trigger or a job that leads to executeNext.
NoLostWakeup ==
  \A u \in Serial : connected(u) /\ HasWork(u) => Awake(u)

\* What holds of the masters in every state of polling: types, and no lost wakeup.
PollingInvariant ==
  /\ MasterTypeOK
  /\ NoLostWakeup

\* Exactly the unconnected masters have their reconnect timer running: none
\* stays unconnected for ever, none connects twice.
ReconnectArmed ==
  \A u \in registered : reconnectTimer[u] <=> device[u] = "unconnected"

\* A master of S whose connection stays up keeps sending each of its queries.
KeepsPolling(S) ==
  \A u \in S : \A i \in DOMAIN Queries[u] :
    <>[]connected(u) =>
      []<><<executeRead(u) /\ Head(readQueue[u]) = Queries[u][i]>>_vars

\* poll_rate: "Poll rate is the time between two full updates": every master goes
\* on polling while its connection is up, whatever happened before.
PollsGoOn == KeepsPolling(Users)

\* The same of the masters whose port opens synchronously.
SerialPollsGoOn == KeepsPolling(Serial)
====
