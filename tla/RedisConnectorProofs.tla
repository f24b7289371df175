---- MODULE RedisConnectorProofs ----
(* Proofs about the Redis connector, for any limits and bounds. *)
EXTENDS RedisConnector, SequenceTheorems, TLAPS

\* d differs from c in at most the fields that callbacks assign.
Same(d, c) ==
  /\ d \in Connector
  /\ d.reader = c.reader
  /\ d.maxErrors = c.maxErrors
  /\ d.context = c.context
  /\ d.errors \in {0, c.errors}

\* What a worker that is not a stream consumer sends.
Plain == {"select", "ping", "user"}

\* A connector starts with its first attempt to connect, and nothing pending.
LEMMA InitSound ==
  ASSUME Init
  PROVE  ConnectorInvariant /\ TimersJustified
<1>1. PICK r \in BOOLEAN, limit \in Limits :
        conn = [reader |-> r, maxErrors |-> limit, context |-> "connecting",
                connected |-> FALSE, reconnectTimer |-> FALSE,
                commandTimeout |-> FALSE, pingTimer |-> FALSE, errors |-> 0,
                pending |-> <<>>]
  BY Zenon DEF Init
<1>2. TypeOK
  <2>1. conn \in Connector
    BY <1>1 DEF Connector
  <2>2. conn.context # "closing" /\ conn.errors < 256
    BY <1>1
  <2> QED
    BY <2>1, <2>2 DEF Init, TypeOK
<1>3. ConnectedIsUp /\ NeverAbandoned /\ KeptAlive
  BY <1>1 DEF ConnectedIsUp, NeverAbandoned, KeptAlive
<1>4. CommandsInOrder
  BY <1>1 DEF CommandsInOrder
<1>5. TimersJustified
  BY <1>1 DEF TimersJustified
<1> QED
  BY <1>2, <1>3, <1>4, <1>5 DEF ConnectorInvariant

----------------------------------------------------------------------------
(* What the functions of the connector return, field by field. *)

\* A command that is accepted is pending, and the time-out runs in place of the ping.
LEMMA RunCommand ==
  ASSUME NEW c \in Connector, NEW cmd \in Commands, Accepts(c)
  PROVE  LET d == runAsyncCommand(c, cmd) IN
           /\ Same(d, c) /\ d.connected
           /\ d.reconnectTimer = c.reconnectTimer
           /\ d.commandTimeout /\ ~d.pingTimer
           /\ d.pending = Append(c.pending, cmd)
<1> DEFINE s == [c EXCEPT !.pending = Append(c.pending, cmd), !.pingTimer = FALSE,
                          !.commandTimeout = TRUE]
<1>1. Append(c.pending, cmd) \in Seq(Commands)
  BY DEF Connector
<1>2. runAsyncCommand(c, cmd) = s
  BY DEF runAsyncCommand, Enqueue, Connector
<1>3. /\ Same(s, c) /\ s.connected /\ s.reconnectTimer = c.reconnectTimer
      /\ s.commandTimeout /\ ~s.pingTimer /\ s.pending = Append(c.pending, cmd)
  BY <1>1 DEF Same, Connector, Accepts
<1> HIDE DEF s
<1> QED
  BY <1>2, <1>3

\* A command without a callback is pending, and no timer is touched.
LEMMA RunUntracked ==
  ASSUME NEW c \in Connector, NEW cmd \in Commands, Accepts(c)
  PROVE  LET d == runWithoutCallback(c, cmd) IN
           /\ Same(d, c) /\ d.connected
           /\ d.reconnectTimer = c.reconnectTimer
           /\ d.pending = Append(c.pending, cmd)
<1>1. Append(c.pending, cmd) \in Seq(Commands)
  BY DEF Connector
<1> QED
  BY <1>1 DEF runWithoutCallback, Enqueue, Same, Connector, Accepts

\* A context that is ending takes no command.
LEMMA RunRefused ==
  ASSUME NEW c \in Connector, NEW cmd, ~Accepts(c)
  PROVE  runAsyncCommand(c, cmd) = c /\ runWithoutCallback(c, cmd) = c
  BY DEF runAsyncCommand, runWithoutCallback

\* What the slots of connected() send: a select, and for a stream consumer its reads.
LEMMA EmitConnected ==
  ASSUME NEW c \in Connector, c.connected, c.context = "up"
  PROVE  LET d == emitConnected(c) IN
           /\ Same(d, c) /\ d.connected /\ ~d.reconnectTimer
           /\ ~c.reader => d.pingTimer /\ d.pending = Append(c.pending, "select")
           /\ c.reader => /\ ~d.pingTimer
                          /\ d.pending = Append(Append(Append(c.pending, "select"),
                                                       "incr"), "read")
<1> DEFINE r == runAsyncCommand(c, "select")
           s == [r EXCEPT !.reconnectTimer = FALSE]
           t == runWithoutCallback(s, "incr")
<1>1. {"select", "incr", "read"} \subseteq Commands /\ Accepts(c)
  BY DEF Commands, Accepts
<1>2. Same(r, c) /\ r.connected /\ r.pending = Append(c.pending, "select")
  BY <1>1, RunCommand
<1> HIDE DEF r
<1>3. /\ Same(s, c) /\ s.connected /\ ~s.reconnectTimer
      /\ s.pending = Append(c.pending, "select")
  BY <1>2 DEF Same, Connector
<1>4. emitConnected(c) = IF c.reader THEN doRead(t) ELSE [s EXCEPT !.pingTimer = TRUE]
  BY DEF emitConnected, r
<1> HIDE DEF s
<1>5. CASE ~c.reader
  <2>1. LET d == [s EXCEPT !.pingTimer = TRUE] IN
          /\ Same(d, c) /\ d.connected /\ ~d.reconnectTimer /\ d.pingTimer
          /\ d.pending = Append(c.pending, "select")
    BY <1>3 DEF Same, Connector
  <2> QED
    BY <1>4, <1>5, <2>1
<1>6. CASE c.reader
  <2>1. s \in Connector /\ Accepts(s)
    BY <1>3 DEF Same, Accepts
  <2>2. /\ Same(t, s) /\ t.connected /\ ~t.reconnectTimer
        /\ t.pending = Append(s.pending, "incr")
    BY <1>1, <1>3, <2>1, RunUntracked
  <2> HIDE DEF t
  <2>3. t \in Connector /\ Accepts(t)
    BY <1>3, <2>2 DEF Same, Accepts
  <2>4. LET d == runAsyncCommand(t, "read") IN
          /\ Same(d, t) /\ d.connected /\ ~d.reconnectTimer /\ ~d.pingTimer
          /\ d.pending = Append(t.pending, "read")
    BY <1>1, <2>2, <2>3, RunCommand
  <2> QED
    BY <1>3, <1>4, <1>6, <2>2, <2>4 DEF doRead, Same
<1> QED
  BY <1>5, <1>6 DEF Connector

\* setConnected(true) of a connected connector.
LEMMA StaysConnected ==
  ASSUME NEW c \in Connector, c.connected
  PROVE  LET d == setConnected(c, TRUE) IN
           /\ Same(d, c) /\ d.connected
           /\ d.reconnectTimer = c.reconnectTimer /\ ~d.commandTimeout
           /\ d.pingTimer = c.pingTimer /\ d.pending = c.pending
  BY DEF setConnected, Same, Connector

\* setConnected(true) of an unconnected one, on a context that takes commands.
LEMMA BecomesConnected ==
  ASSUME NEW c \in Connector, ~c.connected, c.context = "up"
  PROVE  LET d == setConnected(c, TRUE) IN
           /\ Same(d, c) /\ d.connected /\ ~d.reconnectTimer /\ ~d.commandTimeout
           /\ ~c.reader => d.pingTimer /\ d.pending = Append(c.pending, "select")
           /\ c.reader => /\ ~d.pingTimer
                          /\ d.pending = Append(Append(Append(c.pending, "select"),
                                                       "incr"), "read")
<1> DEFINE s == [c EXCEPT !.connected = TRUE]
           e == emitConnected(s)
<1>1. Same(s, c) /\ s.connected /\ s.pending = c.pending
  BY DEF Same, Connector
<1>2. setConnected(c, TRUE) = [e EXCEPT !.commandTimeout = FALSE, !.errors = 0]
  BY DEF setConnected
<1> HIDE DEF s
<1>3. /\ Same(e, s) /\ e.connected /\ ~e.reconnectTimer
      /\ ~s.reader => e.pingTimer /\ e.pending = Append(s.pending, "select")
      /\ s.reader => /\ ~e.pingTimer
                     /\ e.pending = Append(Append(Append(s.pending, "select"),
                                                  "incr"), "read")
  BY <1>1, EmitConnected DEF Same
<1> HIDE DEF e
<1>4. LET d == [e EXCEPT !.commandTimeout = FALSE, !.errors = 0] IN
        /\ Same(d, e) /\ d.connected = e.connected /\ ~d.commandTimeout
        /\ d.reconnectTimer = e.reconnectTimer /\ d.pingTimer = e.pingTimer
        /\ d.pending = e.pending /\ d.errors = 0
  BY <1>3 DEF Same, Connector
<1> QED
  BY <1>1, <1>2, <1>3, <1>4 DEF Same

\* setConnected(false).
LEMMA Disconnects ==
  ASSUME NEW c \in Connector
  PROVE  LET d == setConnected(c, FALSE) IN
           /\ Same(d, c) /\ ~d.connected /\ d.errors = c.errors
           /\ d.pending = c.pending
           /\ d.commandTimeout = c.commandTimeout
           /\ c.connected => d.reconnectTimer /\ ~d.pingTimer
           /\ ~c.connected => d = c
<1>1. CASE c.connected
  BY <1>1 DEF setConnected, emitDisconnected, Same, Connector
<1>2. CASE ~c.connected
  BY <1>2 DEF setConnected, Same
<1> QED
  BY <1>1, <1>2 DEF Connector
----------------------------------------------------------------------------
(* The invariant of a record, which each event keeps. *)

Reading(c) ==
  \/ c.pending = <<"read">>
  \/ /\ c.connected
     /\ ~c.commandTimeout
     /\ \/ c.pending = <<"select", "incr", "read">>
        \/ c.pending = <<"incr", "read">>

Good(c) ==
  /\ c \in Connector /\ c.errors < 256
  /\ c.context # "closing"
  /\ c.connected => c.context = "up"
  /\ c.connected \/ c.reconnectTimer \/ c.context = "connecting"
  /\ c.connected => ~c.reconnectTimer
  /\ c.pingTimer => c.connected
  /\ c.commandTimeout => c.pending # <<>>
  /\ c.context # "up" => c.pending = <<>>
  /\ c.reader => ~c.pingTimer /\ (c.context = "up" => Reading(c))
  /\ ~c.reader => /\ c.pending \in Seq(Plain)
                  /\ c.connected => c.pingTimer \/ c.pending # <<>>

\* When a command is pending, one with a callback is.
LEMMA SomeCallback ==
  ASSUME NEW c, Good(c), c.pending # <<>>
  PROVE  HasCallback(c)
<1>1. c.context = "up"
  BY DEF Good
<1>2. CASE c.reader
  <2>1. \/ c.pending = <<"read">> \/ c.pending = <<"select", "incr", "read">>
        \/ c.pending = <<"incr", "read">>
    BY <1>1, <1>2 DEF Good, Reading
  <2>2. \E i \in DOMAIN c.pending : c.pending[i] = "read"
    <3>1. CASE c.pending = <<"read">>
      BY <3>1
    <3>2. CASE c.pending = <<"select", "incr", "read">>
      <4>1. 3 \in DOMAIN c.pending /\ c.pending[3] = "read"
        BY <3>2
      <4> QED
        BY <4>1
    <3>3. CASE c.pending = <<"incr", "read">>
      <4>1. 2 \in DOMAIN c.pending /\ c.pending[2] = "read"
        BY <3>3
      <4> QED
        BY <4>1
    <3> QED
      BY <2>1, <3>1, <3>2, <3>3
  <2> QED
    BY <2>2 DEF HasCallback
<1>3. CASE ~c.reader
  <2>1. c.pending \in Seq(Plain)
    BY <1>3 DEF Good
  <2>2. 1 \in DOMAIN c.pending /\ c.pending[1] \in Plain
    BY <2>1
  <2> QED
    BY <2>2 DEF HasCallback, Plain
<1> QED
  BY <1>2, <1>3 DEF Good, Connector

\* The invariant, and that of the timers, in terms of the record that the operators
\* work on.
LEMMA GoodInvariant ==
  ConnectorInvariant /\ TimersJustified <=> Good(conn) /\ stalled \in BOOLEAN
<1>1. ASSUME ConnectorInvariant, TimersJustified PROVE Good(conn) /\ stalled \in BOOLEAN
  <2>1. HasCallback(conn) => conn.pending # <<>>
    BY DEF HasCallback
  <2>2. ~conn.reader /\ conn.connected => conn.pingTimer \/ conn.pending # <<>>
    BY <1>1, <2>1 DEF ConnectorInvariant, KeptAlive
  <2>3. /\ conn.connected => ~conn.reconnectTimer
        /\ conn.pingTimer => conn.connected
        /\ conn.commandTimeout => conn.pending # <<>>
    BY <1>1, <2>1 DEF TimersJustified
  <2> QED
    BY <1>1, <2>2, <2>3 DEF ConnectorInvariant, TypeOK, ConnectedIsUp, NeverAbandoned,
         CommandsInOrder, Good, Reading, Plain
<1>2. ASSUME Good(conn), stalled \in BOOLEAN PROVE ConnectorInvariant /\ TimersJustified
  <2>1. TypeOK /\ ConnectedIsUp /\ NeverAbandoned /\ CommandsInOrder
    BY <1>2 DEF TypeOK, ConnectedIsUp, NeverAbandoned, CommandsInOrder, Good, Reading,
         Plain
  <2>2. conn.pending # <<>> => HasCallback(conn)
    BY <1>2, SomeCallback
  <2>3. KeptAlive /\ TimersJustified
    BY <1>2, <2>2 DEF KeptAlive, TimersJustified, Good
  <2> QED
    BY <2>1, <2>3 DEF ConnectorInvariant
<1> QED
  BY <1>1, <1>2

\* A context that ends leaves the connector unconnected, with nothing pending,
\* and with its reconnect timer running if nothing else had started it.
LEMMA Dropped ==
  ASSUME NEW c \in Connector, c.context = "up",
         c.commandTimeout => HasCallback(c), c.pingTimer => c.connected
  PROVE  LET d == disconnectCallback(c) IN
           /\ d \in Connector /\ d.reader = c.reader
           /\ d.context = "none" /\ ~d.connected
           /\ ~d.commandTimeout /\ ~d.pingTimer
           /\ c.connected \/ c.reconnectTimer => d.reconnectTimer
           /\ d.errors \in {0, c.errors}
           /\ d.pending = <<>>
<1> DEFINE s == [c EXCEPT !.context = "closing", !.pending = <<>>]
           p == callPending(c)
           q == setConnected(p, FALSE)
<1>1. /\ s \in Connector /\ s.reader = c.reader /\ s.context = "closing"
      /\ s.pending = <<>> /\ s.errors = c.errors /\ s.connected = c.connected
      /\ s.reconnectTimer = c.reconnectTimer /\ s.pingTimer = c.pingTimer
      /\ s.commandTimeout = c.commandTimeout
  <2>1. \A none \in Seq(Commands) :
          [c EXCEPT !.context = "closing", !.pending = none] \in Connector
    BY DEF Connector
  <2>2. s \in Connector
    <3>1. <<>> \in Seq(Commands)
      OBVIOUS
    <3> QED
      BY ONLY <2>1, <3>1
  <2> QED
    BY <2>2 DEF Connector
<1>2. p = IF HasCallback(c) THEN setConnected(s, TRUE) ELSE s
  BY DEF callPending
<1> HIDE DEF s, p
<1>3. /\ Same(p, s) /\ p.pending = <<>> /\ ~p.commandTimeout
      /\ p.connected \/ p = s
  <2>1. CASE ~HasCallback(c)
    BY <1>1, <1>2, <2>1 DEF Same
  <2>2. CASE HasCallback(c) /\ s.connected
    BY <1>1, <1>2, <2>2, StaysConnected
  <2>3. CASE HasCallback(c) /\ ~s.connected
    <3> DEFINE t == [s EXCEPT !.connected = TRUE]
               e == emitConnected(t)
    <3>1. Same(t, s) /\ t.connected /\ t.pending = <<>>
      BY <1>1 DEF Same, Connector
    <3>2. p = [e EXCEPT !.commandTimeout = FALSE, !.errors = 0]
      BY <1>2, <2>3 DEF setConnected
    <3> HIDE DEF t
    <3>3. Same(e, s) /\ e.connected /\ e.pending = <<>>
      <4> DEFINE r == [t EXCEPT !.reconnectTimer = FALSE]
      <4>1. Same(r, s) /\ r.connected /\ r.pending = <<>>
        BY <3>1 DEF Same, Connector
      <4>2. ~Accepts(t) /\ ~Accepts(r)
        BY <1>1, <3>1, <4>1 DEF Accepts, Same
      <4>3. e = IF t.reader THEN r ELSE [r EXCEPT !.pingTimer = TRUE]
        <5>1. t \in Connector /\ r \in Connector
          BY <3>1, <4>1 DEF Same
        <5>2. /\ runAsyncCommand(t, "select") = t
              /\ runWithoutCallback(r, "incr") = r /\ runAsyncCommand(r, "read") = r
          BY <4>2, <5>1, RunRefused
        <5> QED
          BY <5>2 DEF emitConnected, doRead
      <4> HIDE DEF r, e
      <4> QED
        BY <4>1, <4>3 DEF Same, Connector
    <3> HIDE DEF e
    <3> QED
      BY <3>2, <3>3 DEF Same, Connector
  <2> QED
    BY <2>1, <2>2, <2>3 DEF Connector
<1>4. /\ Same(q, p) /\ ~q.connected /\ q.errors = p.errors /\ q.pending = p.pending
      /\ q.commandTimeout = p.commandTimeout
      /\ p.connected => q.reconnectTimer /\ ~q.pingTimer
      /\ ~p.connected => q = p
  BY <1>3, Disconnects DEF Same
<1>5. disconnectCallback(c) = [q EXCEPT !.context = "none"]
  BY DEF disconnectCallback, p
<1> HIDE DEF q
<1>6. /\ q \in Connector /\ q.reader = c.reader
      /\ c.connected \/ c.reconnectTimer => q.reconnectTimer
      /\ q.errors \in {0, c.errors}
      /\ ~q.commandTimeout /\ ~q.pingTimer
  BY <1>1, <1>3, <1>4 DEF Same
<1> QED
  BY <1>3, <1>4, <1>5, <1>6 DEF Connector

\* What appending a command does.
LEMMA Appended ==
  ASSUME NEW p \in Seq(Commands), NEW cmd \in Commands
  PROVE  /\ Append(p, cmd) \in Seq(Commands)
         /\ Len(Append(p, cmd)) = Len(p) + 1
         /\ \A i \in 1..Len(p) : Append(p, cmd)[i] = p[i]
         /\ Append(p, cmd)[Len(p) + 1] = cmd
  BY AppendProperties

\* What connected() sends for a stream consumer with nothing pending.
LEMMA FirstCommands ==
  ASSUME NEW p \in Seq(Commands), p = <<>>
  PROVE  Append(Append(Append(p, "select"), "incr"), "read")
           = <<"select", "incr", "read">>
<1> DEFINE a == Append(p, "select")
           b == Append(a, "incr")
           q == Append(b, "read")
<1>0. {"select", "incr", "read"} \subseteq Commands
  BY DEF Commands
<1>1. a \in Seq(Commands) /\ Len(a) = 1 /\ a[1] = "select"
  BY <1>0
<1> HIDE DEF a
<1>2. b \in Seq(Commands) /\ Len(b) = 2 /\ b[1] = "select" /\ b[2] = "incr"
  <2>1. "incr" \in Commands
    BY <1>0
  <2>2. /\ b \in Seq(Commands) /\ Len(b) = Len(a) + 1
        /\ \A i \in 1..Len(a) : b[i] = a[i]
        /\ b[Len(a) + 1] = "incr"
    BY <1>1, <2>1, Appended
  <2> HIDE DEF b
  <2> QED
    BY <1>1, <2>2
<1> HIDE DEF b
<1>3. /\ q \in Seq(Commands) /\ Len(q) = 3
      /\ q[1] = "select" /\ q[2] = "incr" /\ q[3] = "read"
  <2>1. "read" \in Commands
    BY <1>0
  <2>2. /\ q \in Seq(Commands) /\ Len(q) = Len(b) + 1
        /\ \A i \in 1..Len(b) : q[i] = b[i]
        /\ q[Len(b) + 1] = "read"
    BY <1>2, <2>1, Appended
  <2> HIDE DEF q
  <2> QED
    BY <1>2, <2>2
<1> HIDE DEF q
<1>4. q = <<"select", "incr", "read">>
  BY <1>3
<1> QED
  BY <1>4 DEF q, b, a

\* An attempt to connect that succeeds keeps the invariant.
LEMMA ConnectSucceeds ==
  ASSUME Good(conn), connectSucceeds PROVE Good(conn')
<1> DEFINE c == [conn EXCEPT !.context = "up"]
<1>1. /\ c \in Connector /\ c.context = "up" /\ ~c.connected
      /\ c.reader = conn.reader /\ c.errors = conn.errors
      /\ c.pending = conn.pending /\ conn.pending = <<>>
  BY DEF Good, Connector, connectSucceeds
<1>2. conn' = setConnected(c, TRUE)
  BY DEF connectSucceeds
<1> HIDE DEF c
<1>3. /\ Same(conn', c) /\ conn'.connected
      /\ ~conn'.reconnectTimer /\ ~conn'.commandTimeout
      /\ ~c.reader => conn'.pingTimer /\ conn'.pending = Append(c.pending, "select")
      /\ c.reader => /\ ~conn'.pingTimer /\ ~conn'.commandTimeout
                     /\ conn'.pending = Append(Append(Append(c.pending, "select"),
                                                      "incr"), "read")
  BY <1>1, <1>2, BecomesConnected
<1>4. conn'.errors < 256
  BY <1>1, <1>3 DEF Same, Good, Connector
<1>5. CASE c.reader
  <2>1. conn'.pending = <<"select", "incr", "read">>
    BY <1>1, <1>3, <1>5, FirstCommands DEF Connector
  <2> QED
    BY <1>1, <1>3, <1>4, <1>5, <2>1 DEF Same, Good, Reading
<1>6. CASE ~c.reader
  <2>1. Append(c.pending, "select") \in Seq(Plain)
    BY <1>1, <1>6 DEF Good, Plain
  <2> QED
    BY <1>1, <1>3, <1>4, <1>6, <2>1 DEF Same, Good
<1> QED
  BY <1>1, <1>5, <1>6 DEF Connector

\* finishAsyncCommand of a worker that is not a stream consumer.
LEMMA PlainFinish ==
  ASSUME NEW c \in Connector, c.context = "up", ~c.reader, c.pending \in Seq(Plain),
         c.errors < 256, c.connected => ~c.reconnectTimer
  PROVE  Good(finishAsyncCommand(c))
<1> DEFINE s == setConnected(c, TRUE)
<1>1. /\ Same(s, c) /\ s.connected /\ ~s.reconnectTimer /\ ~s.commandTimeout
      /\ s.pending \in Seq(Plain)
  <2>1. CASE c.connected
    BY <2>1, StaysConnected
  <2>2. CASE ~c.connected
    <3>1. Append(c.pending, "select") \in Seq(Plain)
      BY DEF Plain
    <3> QED
      BY <2>2, <3>1, BecomesConnected
  <2> QED
    BY <2>1, <2>2 DEF Connector
<1>2. finishAsyncCommand(c) = IF s.pending = <<>> THEN emitCommandsFinished(s) ELSE s
  BY DEF finishAsyncCommand
<1> HIDE DEF s
<1>3. s.errors < 256
  BY <1>1 DEF Same, Connector
<1>4. CASE s.pending # <<>>
  BY <1>1, <1>2, <1>3, <1>4 DEF Good, Same
<1>5. CASE s.pending = <<>>
  <2> DEFINE d == [s EXCEPT !.pingTimer = TRUE]
  <2>1. /\ Same(d, s) /\ d.connected /\ d.pingTimer /\ d.pending = s.pending
        /\ d.errors = s.errors /\ ~d.reconnectTimer /\ ~d.commandTimeout
    BY <1>1 DEF Same, Connector
  <2>2. finishAsyncCommand(c) = d
    BY <1>1, <1>2, <1>5 DEF emitCommandsFinished, Same
  <2> HIDE DEF d
  <2>3. Good(d)
    BY <1>1, <1>3, <2>1 DEF Good, Same
  <2> QED
    BY <2>2, <2>3
<1> QED
  BY <1>4, <1>5

\* An answer to a worker that is no stream consumer keeps the invariant.
LEMMA PlainAnswer ==
  ASSUME Good(conn), answer, ~conn.reader PROVE Good(conn')
<1> DEFINE e == [conn EXCEPT !.pending = Tail(@)]
<1>1. conn.pending \in Seq(Plain) /\ conn.pending # <<>> /\ conn.context = "up"
  BY DEF Good, answer
<1>2. Head(conn.pending) \in Plain /\ Tail(conn.pending) \in Seq(Plain)
  BY <1>1
<1>3. Tail(conn.pending) \in Seq(Commands)
  BY <1>1 DEF Good, Connector
<1>4. /\ e \in Connector /\ e.context = "up" /\ ~e.reader /\ e.pending \in Seq(Plain)
      /\ e.errors < 256 /\ (e.connected => ~e.reconnectTimer)
  BY <1>1, <1>2, <1>3 DEF Good, Connector
<1>5. PICK good \in BOOLEAN : conn' = privateCallback(e, Head(conn.pending), good)
  BY DEF answer
<1> HIDE DEF e
<1>6. Head(conn.pending) # "incr"
  BY <1>2 DEF Plain
<1>7. CASE Head(conn.pending) # "ping"
  <2>1. conn' = finishAsyncCommand(e)
    BY <1>5, <1>6, <1>7 DEF privateCallback
  <2> QED
    BY <1>4, <2>1, PlainFinish
<1>8. CASE Head(conn.pending) = "ping"
  <2> DEFINE b == setConnected(e, good)
  <2>1. conn' = finishAsyncCommand(b)
    BY <1>5, <1>6, <1>8 DEF privateCallback
  <2>2. Same(b, e) /\ b.pending \in Seq(Plain) /\ (b.connected => ~b.reconnectTimer)
    <3>1. CASE good = FALSE
      BY <1>4, <3>1, Disconnects
    <3>2. CASE good = TRUE /\ e.connected
      BY <1>4, <3>2, StaysConnected
    <3>3. CASE good = TRUE /\ ~e.connected
      <4>1. Append(e.pending, "select") \in Seq(Plain)
        BY <1>4 DEF Plain
      <4> QED
        BY <1>4, <3>3, <4>1, BecomesConnected
    <3> QED
      BY <1>4, <3>1, <3>2, <3>3 DEF Connector
  <2> HIDE DEF b
  <2>3. /\ b \in Connector /\ b.context = "up" /\ ~b.reader /\ b.errors < 256
    BY <1>4, <2>2 DEF Same, Connector
  <2> QED
    BY <2>1, <2>2, <2>3, PlainFinish
<1> QED
  BY <1>7, <1>8

\* finishAsyncCommand of a stream consumer that is connected, commands left.
LEMMA ReaderWaits ==
  ASSUME NEW c \in Connector, c.connected, c.pending # <<>>
  PROVE  LET d == finishAsyncCommand(c) IN
           /\ Same(d, c) /\ d.connected /\ ~d.commandTimeout
           /\ d.reconnectTimer = c.reconnectTimer
           /\ d.pingTimer = c.pingTimer /\ d.pending = c.pending
<1> DEFINE s == setConnected(c, TRUE)
<1>1. /\ Same(s, c) /\ s.connected /\ ~s.commandTimeout
      /\ s.reconnectTimer = c.reconnectTimer
      /\ s.pingTimer = c.pingTimer /\ s.pending = c.pending
  BY StaysConnected
<1>2. finishAsyncCommand(c) = IF s.pending = <<>> THEN emitCommandsFinished(s) ELSE s
  BY DEF finishAsyncCommand
<1> HIDE DEF s
<1> QED
  BY <1>1, <1>2

\* The end of its read: the next one, or all that connected() sends.
LEMMA ReaderReadsOn ==
  ASSUME NEW c \in Connector, c.context = "up", c.reader, c.pending = <<>>, c.errors < 256,
         c.connected => ~c.reconnectTimer
  PROVE  Good(finishAsyncCommand(c))
<1> DEFINE s == setConnected(c, TRUE)
           d == finishAsyncCommand(c)
<1>1. d = IF s.pending = <<>> THEN emitCommandsFinished(s) ELSE s
  BY DEF finishAsyncCommand
<1>2. CASE c.connected
  <2>1. /\ Same(s, c) /\ s.connected /\ ~s.reconnectTimer /\ s.pending = <<>>
    BY <1>2, StaysConnected
  <2> HIDE DEF s, d
  <2>2. d = runAsyncCommand(s, "read")
    BY <1>1, <2>1 DEF emitCommandsFinished, doRead, Same
  <2>3. s \in Connector /\ "read" \in Commands /\ Accepts(s)
    BY <2>1 DEF Same, Accepts, Commands
  <2>4. /\ Same(d, s) /\ d.connected /\ ~d.pingTimer /\ ~d.reconnectTimer
        /\ d.pending = Append(s.pending, "read")
    BY <2>1, <2>2, <2>3, RunCommand
  <2>5. d.pending = <<"read">>
    <3>1. /\ s.pending \in Seq(Commands) /\ Len(s.pending) = 0
      BY <2>1, <2>3 DEF Connector
    <3>2. /\ d.pending \in Seq(Commands) /\ Len(d.pending) = 1
          /\ d.pending[1] = "read"
      BY <2>3, <2>4, <3>1, Appended
    <3> QED
      BY <3>2
  <2>6. d.errors < 256
    BY <2>1, <2>4 DEF Same, Connector
  <2> QED
    BY <2>1, <2>4, <2>5, <2>6 DEF Good, Same, Reading, d
<1>3. CASE ~c.connected
  <2>1. /\ Same(s, c) /\ s.connected /\ ~s.commandTimeout /\ ~s.pingTimer
        /\ ~s.reconnectTimer
        /\ s.pending = Append(Append(Append(c.pending, "select"), "incr"), "read")
    BY <1>3, BecomesConnected
  <2> HIDE DEF s, d
  <2>2. s.pending = <<"select", "incr", "read">>
    BY <2>1, FirstCommands DEF Connector
  <2>3. d = s
    BY <1>1, <2>2
  <2>4. s.errors < 256
    BY <2>1 DEF Same, Connector
  <2> QED
    BY <2>1, <2>2, <2>3, <2>4 DEF Good, Same, Reading, d
<1> QED
  BY <1>2, <1>3 DEF Connector

\* An answer to a stream consumer keeps the invariant: an answered read is followed by the next.
LEMMA ReaderAnswer ==
  ASSUME Good(conn), answer, conn.reader PROVE Good(conn')
<1> DEFINE e == [conn EXCEPT !.pending = Tail(@)]
<1>1. /\ conn \in Connector /\ conn.context = "up" /\ Reading(conn) /\ ~conn.pingTimer
      /\ conn.errors < 256
  BY DEF Good, answer
<1>2. Tail(conn.pending) \in Seq(Commands)
  BY <1>1 DEF Connector, Reading, answer
<1>3. /\ e \in Connector /\ e.context = "up" /\ e.reader /\ e.errors < 256 /\ ~e.pingTimer
      /\ e.connected = conn.connected /\ e.commandTimeout = conn.commandTimeout
      /\ e.pending = Tail(conn.pending) /\ e.reconnectTimer = conn.reconnectTimer
      /\ (e.connected => ~e.reconnectTimer)
  BY <1>1, <1>2 DEF Connector, Good
<1>4. PICK good \in BOOLEAN : conn' = privateCallback(e, Head(conn.pending), good)
  BY DEF answer
<1> HIDE DEF e
<1>5. CASE conn.pending = <<"read">>
  <2>1. Head(conn.pending) = "read" /\ e.pending = <<>>
    BY <1>3, <1>5
  <2>2. conn' = finishAsyncCommand(e)
    BY <1>4, <2>1 DEF privateCallback
  <2> QED
    BY <1>3, <2>1, <2>2, ReaderReadsOn
<1>6. CASE conn.connected /\ conn.pending = <<"select", "incr", "read">>
  <2>1. Head(conn.pending) = "select" /\ e.pending = <<"incr", "read">>
    BY <1>3, <1>6
  <2>2. conn' = finishAsyncCommand(e)
    BY <1>4, <2>1 DEF privateCallback
  <2>3. e.pending # <<>>
    BY <2>1
  <2>4. /\ Same(conn', e) /\ conn'.connected /\ ~conn'.commandTimeout
        /\ ~conn'.reconnectTimer
        /\ conn'.pingTimer = e.pingTimer /\ conn'.pending = e.pending
    BY <1>3, <1>6, <2>2, <2>3, ReaderWaits
  <2>5. conn'.errors < 256
    BY <1>3, <2>4 DEF Same, Connector
  <2> QED
    BY <1>3, <2>1, <2>4, <2>5 DEF Good, Same, Reading
<1>7. CASE conn.connected /\ ~conn.commandTimeout /\ conn.pending = <<"incr", "read">>
  <2>1. Head(conn.pending) = "incr" /\ e.pending = <<"read">>
    BY <1>3, <1>7
  <2>2. conn' = e
    BY <1>4, <2>1 DEF privateCallback
  <2> QED
    BY <1>3, <1>7, <2>1, <2>2 DEF Good, Reading
<1> QED
  BY <1>1, <1>5, <1>6, <1>7 DEF Reading

\* A new attempt frees the old context with its callbacks and keeps the invariant.
LEMMA Reconnects ==
  ASSUME Good(conn), reconnect PROVE Good(conn')
<1> DEFINE c == [conn EXCEPT !.reconnectTimer = FALSE]
           d == clearContext([conn EXCEPT !.reconnectTimer = FALSE])
<1>1. /\ c \in Connector /\ c.reader = conn.reader /\ c.errors = conn.errors
      /\ c.context = conn.context /\ c.connected = conn.connected
      /\ c.pending = conn.pending /\ c.pingTimer = conn.pingTimer
      /\ c.commandTimeout = conn.commandTimeout
  BY DEF Good, Connector
<1>2. conn' \in tryConnect(d)
  BY DEF reconnect
<1>3. d = clearContext(c)
  OBVIOUS
<1> HIDE DEF c, d
<1>4. /\ d \in Connector /\ d.reader = c.reader /\ ~d.connected /\ d.errors < 256
      /\ d.pending = <<>> /\ ~d.commandTimeout /\ ~d.pingTimer
  <2>1. CASE c.context # "up"
    <3>1. d = [c EXCEPT !.context = "none"]
      BY <1>3, <2>1 DEF clearContext
    <3> QED
      BY <1>1, <2>1, <3>1 DEF Good, Connector
  <2>2. CASE c.context = "up"
    <3>1. d = disconnectCallback(c)
      BY <1>3, <2>2 DEF clearContext
    <3>2. c.commandTimeout => HasCallback(c)
      BY <1>1, SomeCallback DEF Good, HasCallback
    <3>3. c.pingTimer => c.connected
      BY <1>1 DEF Good
    <3>4. /\ d \in Connector /\ d.reader = c.reader /\ ~d.connected
          /\ d.errors \in {0, c.errors} /\ d.pending = <<>>
          /\ ~d.commandTimeout /\ ~d.pingTimer
      BY <1>1, <2>2, <3>1, <3>2, <3>3, Dropped
    <3> QED
      BY <1>1, <3>4 DEF Good, Connector
  <2> QED
    BY <2>1, <2>2
<1>5. \/ conn' = [d EXCEPT !.context = "connecting"]
      \/ conn' = [d EXCEPT !.context = "none", !.reconnectTimer = TRUE]
  BY <1>2, <1>4 DEF tryConnect
<1>6. /\ conn' \in Connector /\ conn'.reader = d.reader /\ conn'.errors = d.errors
      /\ ~conn'.connected /\ conn'.context \in {"none", "connecting"}
      /\ conn'.reconnectTimer \/ conn'.context = "connecting"
      /\ conn'.pending = <<>> /\ ~conn'.pingTimer /\ ~conn'.commandTimeout
  <2>1. CASE conn' = [d EXCEPT !.context = "connecting"]
    BY <1>4, <2>1 DEF Connector
  <2>2. CASE conn' = [d EXCEPT !.context = "none", !.reconnectTimer = TRUE]
    BY <1>4, <2>2 DEF Connector
  <2> QED
    BY <1>5, <2>1, <2>2
<1>7. conn'.pending \in Seq(Plain)
  BY <1>6
<1> QED
  BY <1>4, <1>6, <1>7 DEF Good

\* An attempt to connect that fails keeps the invariant.
LEMMA ConnectFails ==
  ASSUME Good(conn), connectFails PROVE Good(conn')
  BY DEF connectFails, Good, Connector

\* A connection the server closes keeps the invariant.
LEMMA ServerCloses ==
  ASSUME Good(conn), serverCloses PROVE Good(conn')
<1>1. LET d == conn' IN
         /\ d \in Connector /\ d.reader = conn.reader
         /\ d.context = "none" /\ ~d.connected /\ d.reconnectTimer
         /\ d.errors \in {0, conn.errors}
         /\ d.pending = <<>> /\ ~d.commandTimeout /\ ~d.pingTimer
  BY SomeCallback, Dropped DEF serverCloses, Good
<1>2. conn'.errors < 256
  BY <1>1 DEF Good, Connector
<1> QED
  BY <1>1, <1>2 DEF Good, Plain

\* A time-out keeps the invariant, whether or not it is the one that disconnects.
LEMMA CommandTimeout ==
  ASSUME Good(conn), onCommandTimeout PROVE Good(conn')
<1> DEFINE c == [conn EXCEPT !.commandTimeout = FALSE]
           count == (conn.errors + 1) % 256
           limit == conn.maxErrors % 256
           f == [c EXCEPT !.errors = limit]
<1>1. conn.maxErrors \in Nat /\ conn.errors \in Nat
  BY ConnectorAssumption DEF Good, Connector
<1>2. count \in Nat /\ count < 256 /\ limit \in Nat /\ limit < 256
  BY <1>1
<1>3. conn' = [c EXCEPT !.errors = count] \/ conn' = setConnected(f, FALSE)
  BY DEF onCommandTimeout
<1>4. conn.reader /\ conn.context = "up" => conn.pending = <<"read">>
  BY DEF onCommandTimeout, Good, Reading
<1>5. \A n \in Nat : LET g == [c EXCEPT !.errors = n] IN
        /\ g \in Connector /\ g.context = conn.context /\ g.reader = conn.reader
        /\ g.connected = conn.connected /\ g.reconnectTimer = conn.reconnectTimer
        /\ g.pingTimer = conn.pingTimer /\ g.pending = conn.pending /\ g.errors = n
        /\ ~g.commandTimeout
  BY DEF Good, Connector
<1> HIDE DEF count, limit, c
<1>6. CASE conn' = [c EXCEPT !.errors = count]
  <2>1. /\ conn' \in Connector /\ conn'.context = conn.context
        /\ conn'.reader = conn.reader /\ conn'.connected = conn.connected
        /\ conn'.reconnectTimer = conn.reconnectTimer
        /\ conn'.pingTimer = conn.pingTimer /\ conn'.pending = conn.pending
        /\ conn'.errors < 256 /\ ~conn'.commandTimeout
    BY <1>2, <1>5, <1>6
  <2> QED
    BY <1>4, <2>1 DEF Good, Reading
<1>7. CASE conn' = setConnected(f, FALSE)
  <2>1. /\ f \in Connector /\ f.context = conn.context /\ f.reader = conn.reader
        /\ f.connected = conn.connected /\ f.reconnectTimer = conn.reconnectTimer
        /\ f.pingTimer = conn.pingTimer /\ f.pending = conn.pending /\ f.errors < 256
        /\ ~f.commandTimeout
    BY <1>2, <1>5
  <2> HIDE DEF f
  <2>2. /\ Same(conn', f) /\ ~conn'.connected /\ conn'.errors = f.errors
        /\ conn'.pending = f.pending
        /\ ~conn'.commandTimeout
        /\ f.connected => conn'.reconnectTimer /\ ~conn'.pingTimer
        /\ ~f.connected => conn' = f
    BY <1>7, <2>1, Disconnects
  <2> QED
    BY <1>4, <2>1, <2>2 DEF Good, Same, Reading
<1> QED
  BY <1>3, <1>6, <1>7

\* A ping, or a command of a worker that is not a stream consumer.
LEMMA RunsCommand ==
  ASSUME NEW cmd \in {"ping", "user"}, Good(conn), ~conn.reader,
         conn' = runAsyncCommand(conn, cmd)
  PROVE  Good(conn')
<1>1. CASE ~Accepts(conn)
  BY <1>1, RunRefused DEF Good
<1>2. CASE Accepts(conn)
  <2>1. cmd \in Commands /\ conn \in Connector
    BY DEF Commands, Good
  <2>2. /\ Same(conn', conn) /\ conn'.connected
        /\ conn'.reconnectTimer = conn.reconnectTimer /\ ~conn'.pingTimer
        /\ conn'.pending = Append(conn.pending, cmd)
    BY <1>2, <2>1, RunCommand
  <2>3. conn.pending \in Seq(Plain) /\ cmd \in Plain
    BY DEF Good, Plain
  <2>4. conn'.pending \in Seq(Plain) /\ conn'.pending # <<>>
    BY <2>2, <2>3, AppendProperties
  <2>5. conn'.errors < 256
    BY <2>1, <2>2 DEF Same, Good, Connector
  <2> QED
    BY <1>2, <2>2, <2>4, <2>5 DEF Good, Same, Accepts
<1> QED
  BY <1>1, <1>2
----------------------------------------------------------------------------
(* The theorems. *)

\* The invariant of the connector and that of its timers hold in every state.
LEMMA RecordSafety == Spec => [](ConnectorInvariant /\ TimersJustified)
<1> DEFINE Safe == Good(conn) /\ stalled \in BOOLEAN
<1>1. Init => Safe
  BY InitSound, GoodInvariant
<1>2. Safe /\ [Next]_vars => Safe'
  <2> SUFFICES ASSUME Safe, [Next]_vars PROVE Good(conn') /\ stalled' \in BOOLEAN
    OBVIOUS
  <2>1. Good(conn) /\ stalled \in BOOLEAN
    OBVIOUS
  <2> HIDE DEF Safe
  <2>2. Good(conn') /\ stalled' \in BOOLEAN
    <3>1. CASE reconnect
      BY <2>1, <3>1, Reconnects DEF reconnect
    <3>2. CASE connectSucceeds
      BY <2>1, <3>2, ConnectSucceeds DEF connectSucceeds
    <3>3. CASE answer
      BY <2>1, <3>3, PlainAnswer, ReaderAnswer DEF answer
    <3>4. CASE connectFails
      BY <2>1, <3>4, ConnectFails DEF connectFails
    <3>5. CASE serverCloses
      BY <2>1, <3>5, ServerCloses DEF serverCloses
    <3>6. CASE onCommandTimeout
      BY <2>1, <3>6, CommandTimeout DEF onCommandTimeout
    <3>7. CASE doPing
      BY <2>1, <3>7, RunsCommand DEF doPing, Good
    <3>8. CASE userCommand
      BY <2>1, <3>8, RunsCommand DEF userCommand
    <3>9. CASE serverStalls
      BY <2>1, <3>9 DEF serverStalls
    <3>10. CASE UNCHANGED vars
      BY <2>1, <3>10 DEF vars
    <3> QED
      BY <2>1, <3>1, <3>2, <3>3, <3>4, <3>5, <3>6, <3>7, <3>8, <3>9, <3>10 DEF Next
  <2> QED
    BY <2>2
<1>3. Safe => ConnectorInvariant /\ TimersJustified
  BY GoodInvariant
<1> QED
  BY <1>1, <1>2, <1>3, PTL DEF Spec

\* The invariant of the connector holds in every state.
THEOREM ConnectorSafety == Spec => []ConnectorInvariant
  BY RecordSafety, PTL

\* A time-out runs only while a command waits, the reconnect timer only while there
\* is no connection to lose, and the ping timer only while there is one.
THEOREM TimersAreJustified == Spec => []TimersJustified
  BY RecordSafety, PTL

\* A connected connector has a live context, whatever its callbacks did while
\* the last one was freed.
THEOREM ConnectionIsReal == Spec => []ConnectedIsUp
  BY ConnectorSafety, PTL DEF ConnectorInvariant

\* A connector is never left without a connection, an attempt or a timer.
THEOREM AlwaysRetried == Spec => []NeverAbandoned
  BY ConnectorSafety, PTL DEF ConnectorInvariant

\* A connected connector that is no stream consumer has its ping timer running or
\* waits for the answer to a command that will start it: none falls silent.
THEOREM AlwaysPinged == Spec => []KeptAlive
  BY ConnectorSafety, PTL DEF ConnectorInvariant

\* A connected stream consumer has exactly one read pending.
THEOREM OneRead == Spec => []OneReadPending
<1>1. ConnectorInvariant => OneReadPending
  <2> SUFFICES ASSUME ConnectorInvariant, conn.reader, conn.connected
               PROVE  LET n == Len(conn.pending) IN
                        /\ n > 0
                        /\ \A i \in 1..n : conn.pending[i] = "read" <=> i = n
    BY DEF OneReadPending
  <2>1. \/ conn.pending = <<"read">>
        \/ conn.pending = <<"incr", "read">>
        \/ conn.pending = <<"select", "incr", "read">>
    BY DEF ConnectorInvariant, CommandsInOrder, ConnectedIsUp
  <2>2. CASE conn.pending = <<"read">>
    BY <2>2
  <2>3. CASE conn.pending = <<"incr", "read">>
    <3>1. /\ Len(conn.pending) = 2
          /\ conn.pending[1] = "incr" /\ conn.pending[2] = "read"
      BY <2>3
    <3> QED
      BY <3>1
  <2>4. CASE conn.pending = <<"select", "incr", "read">>
    <3>1. /\ Len(conn.pending) = 3 /\ conn.pending[1] = "select"
          /\ conn.pending[2] = "incr" /\ conn.pending[3] = "read"
      BY <2>4
    <3> QED
      BY <3>1
  <2> QED
    BY <2>1, <2>2, <2>3, <2>4
<1> QED
  BY <1>1, ConnectorSafety, PTL
====
