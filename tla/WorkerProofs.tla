---- MODULE WorkerProofs ----
(***************************************************************************)
(* Proofs about three workers at the edge of the program, for any number   *)
(* of messages, lines, sockets, entries and times: a websocket client that *)
(* answers is never timed out; each message given to a process waits or is *)
(* handed to it, once; no entry of a stream between the first kept at a    *)
(* place and the last is passed over, and a consumer that has its place    *)
(* for itself repeats at most one entry for each crash.                    *)
(***************************************************************************)
EXTENDS ProcessWorker, WebsocketServer, Streams, SequenceLemmas

----------------------------------------------------------------------------
(* The websocket server. *)

\* A client that owes no answer has all its time before it, also when a socket
\* had its address before; so none such was timed out.
ServerInvariant ==
  /\ clients \subseteq Sockets
  /\ ttls \in [Sockets -> Int]
  /\ quiet \in [Sockets -> Nat]
  /\ \A c \in clients : quiet[c] = 0 => ttls[c] = Keepalive
  /\ AnsweringStays

\* A client with all its time is not timed out by one visit or two, and one that
\* is not visited loses nothing.
LEMMA FullTime ==
  /\ \A n \in 0..2 : n > 0 => ~(Keepalive - (n - 1) * Heartbeat < 0)
  /\ Less(Keepalive, 0) = Keepalive
  /\ \A t \in Int, n \in 0..2 : Less(t, n) \in Int
<1>1. Heartbeat \in Nat /\ Keepalive \in Nat /\ Heartbeat > 0 /\ Keepalive > Heartbeat
  BY ServerAssumption
<1>2. /\ 0 * Heartbeat = 0 /\ 1 * Heartbeat = Heartbeat
      /\ 2 * Heartbeat = Heartbeat + Heartbeat /\ -2 * Heartbeat = -(Heartbeat + Heartbeat)
  BY <1>1
<1>3. \A n \in 0..2 : n = 0 \/ n = 1 \/ n = 2
  OBVIOUS
<1>4. ASSUME NEW n \in 0..2, n > 0 PROVE ~(Keepalive - (n - 1) * Heartbeat < 0)
  <2>1. CASE n = 1
    BY <1>1, <1>2, <2>1
  <2>2. CASE n = 2
    BY <1>1, <1>2, <2>2
  <2> QED
    BY <1>3, <1>4, <2>1, <2>2
<1>5. Less(Keepalive, 0) = Keepalive
  BY <1>1, <1>2 DEF Less, Floor
<1>6. ASSUME NEW t \in Int, NEW n \in 0..2 PROVE Less(t, n) \in Int
  <2>1. n * Heartbeat \in Int /\ Floor \in Int
    BY <1>1, <1>2, <1>3 DEF Floor
  <2> QED
    BY <2>1 DEF Less
<1> QED
  BY <1>4, <1>5, <1>6

\* A tick closes only clients that owe an answer, and whoever it visits owes one.
LEMMA TickStep ==
  ASSUME ServerInvariant, checkClients
  PROVE  ServerInvariant'
<1> PICK visits \in [clients -> 0..2] :
      LET timedOut == {c \in clients : IsTimedOut(c, visits[c])} IN
      \E gone \in SUBSET timedOut :
        /\ clients' = clients \ gone
        /\ ttls' = [c \in Sockets |-> IF c \in gone THEN -Heartbeat
                                      ELSE IF c \in clients THEN Less(ttls[c], visits[c])
                                      ELSE ttls[c]]
        /\ timeouts' = timeouts \cup {quiet[c] : c \in timedOut \ closing}
        /\ quiet' = [c \in Sockets |-> IF c \in clients /\ visits[c] > 0 /\ quiet[c] < MaxQuiet
                                       THEN quiet[c] + 1 ELSE quiet[c]]
  BY DEF checkClients
<1> PICK timedOut : timedOut = {c \in clients : IsTimedOut(c, visits[c])}
  OBVIOUS
<1>1. PICK gone \in SUBSET timedOut :
        /\ clients' = clients \ gone
        /\ ttls' = [c \in Sockets |-> IF c \in gone THEN -Heartbeat
                                      ELSE IF c \in clients THEN Less(ttls[c], visits[c])
                                      ELSE ttls[c]]
        /\ timeouts' = timeouts \cup {quiet[c] : c \in timedOut \ closing}
        /\ quiet' = [c \in Sockets |-> IF c \in clients /\ visits[c] > 0 /\ quiet[c] < MaxQuiet
                                       THEN quiet[c] + 1 ELSE quiet[c]]
  OBVIOUS
<1>2. Heartbeat \in Nat /\ MaxQuiet \in Nat /\ MaxQuiet > 0
  BY ServerAssumption
<1>3. ttls' \in [Sockets -> Int]
  <2>1. \A c \in clients : Less(ttls[c], visits[c]) \in Int
    BY FullTime DEF ServerInvariant
  <2> QED
    BY <1>1, <1>2, <2>1 DEF ServerInvariant
<1>4. quiet' \in [Sockets -> Nat]
  BY <1>1, <1>2 DEF ServerInvariant
<1>5. ASSUME NEW c \in timedOut PROVE quiet[c] # 0
  <2>1. visits[c] \in 0..2 /\ visits[c] > 0 /\ ttls[c] - (visits[c] - 1) * Heartbeat < 0
    BY DEF IsTimedOut
  <2>2. ttls[c] # Keepalive
    BY <2>1, FullTime
  <2> QED
    BY <2>2 DEF ServerInvariant
<1>6. ASSUME NEW c \in clients \ gone, quiet'[c] = 0 PROVE ttls'[c] = Keepalive
  <2>1. c \in Sockets /\ quiet[c] \in Nat /\ visits[c] \in 0..2
    BY DEF ServerInvariant
  <2>2. quiet'[c] = IF visits[c] > 0 /\ quiet[c] < MaxQuiet THEN quiet[c] + 1 ELSE quiet[c]
    BY <1>1, <2>1
  <2>3. quiet[c] = 0 /\ visits[c] = 0
    BY <1>2, <1>6, <2>1, <2>2
  <2>4. ttls'[c] = Less(ttls[c], 0)
    BY <1>1, <2>1, <2>3
  <2> QED
    BY <2>3, <2>4, FullTime DEF ServerInvariant
<1>7. 0 \notin timeouts'
  BY <1>1, <1>5 DEF ServerInvariant, AnsweringStays
<1> QED
  BY <1>1, <1>3, <1>4, <1>6, <1>7 DEF ServerInvariant, AnsweringStays

\* Whatever happens, a client that answers each ping before the next is never
\* timed out (checkClients, onNewConnection).
THEOREM ServerSafety == ServerSpec => []ServerInvariant
<1>1. ServerInit => ServerInvariant
  BY DEF ServerInit, ServerInvariant, AnsweringStays, Absent
<1>2. ServerInvariant /\ [ServerNext]_serverVars => ServerInvariant'
  <2> SUFFICES ASSUME ServerInvariant, [ServerNext]_serverVars PROVE ServerInvariant'
    OBVIOUS
  <2>1. Keepalive \in Int
    BY ServerAssumption
  <2>2. ASSUME NEW c \in Sockets, onNewConnection(c) PROVE ServerInvariant'
    BY <2>1, <2>2 DEF onNewConnection, InsertedTtl, ServerInvariant, AnsweringStays
  <2>3. ASSUME NEW c \in Sockets, disconnected(c) PROVE ServerInvariant'
    BY <2>3 DEF disconnected, Absent, ServerInvariant, AnsweringStays
  <2>4. ASSUME NEW c \in Sockets, NEW payloadFits \in BOOLEAN, pong(c, payloadFits)
        PROVE  ServerInvariant'
    BY <2>1, <2>4 DEF pong, Absent, ServerInvariant, AnsweringStays
  <2>5. CASE checkClients
    BY <2>5, TickStep
  <2>6. CASE UNCHANGED serverVars
    BY <2>6 DEF serverVars, ServerInvariant, AnsweringStays
  <2> QED
    BY <2>2, <2>3, <2>4, <2>5, <2>6 DEF ServerNext
<1> QED
  BY <1>1, <1>2, PTL DEF ServerSpec

\* No client is timed out that answered its last ping.
THEOREM AnsweringIsSafe == ServerSpec => []AnsweringStays
<1>1. ServerInvariant => AnsweringStays
  BY DEF ServerInvariant
<1> QED
  BY <1>1, ServerSafety, PTL
----------------------------------------------------------------------------
(* The messages of the process worker. *)

Has(seq, m) == \E i \in DOMAIN seq : seq[i] = m

\* A sequence of some of the first n messages, none of them twice.
NoneTwice(seq, n) ==
  /\ seq \in Seq(Nat)
  /\ \A i \in DOMAIN seq : seq[i] \in 1..n
  /\ \A i, j \in DOMAIN seq : seq[i] = seq[j] => i = j

\* The messages given are those in the buffer and those handed over, none in both.
MessagesInvariant ==
  /\ given \in Nat
  /\ NoneTwice(buffer, given) /\ NoneTwice(taken, given)
  /\ \A m \in 1..given : Has(buffer, m) \/ Has(taken, m)
  /\ \A m : ~(Has(buffer, m) /\ Has(taken, m))

\* One more message at the end.
LEMMA OneMore ==
  ASSUME NEW seq, NEW n \in Nat, NoneTwice(seq, n), NEW k \in Nat, n <= k,
         NEW m \in 1..k, ~Has(seq, m)
  PROVE  NoneTwice(Append(seq, m), k) /\ \A x : Has(Append(seq, m), x) <=> Has(seq, x) \/ x = m
<1>1. seq \in Seq(Nat) /\ m \in Nat /\ Len(seq) \in Nat /\ DOMAIN seq = 1..Len(seq)
  BY DEF NoneTwice
<1> DEFINE t == Append(seq, m)
<1>2. /\ t \in Seq(Nat) /\ DOMAIN t = 1..(Len(seq) + 1)
      /\ t[Len(seq) + 1] = m /\ \A i \in 1..Len(seq) : t[i] = seq[i]
  BY <1>1
<1> HIDE DEF t
<1>3. \A i \in DOMAIN t : i = Len(seq) + 1 \/ i \in DOMAIN seq
  BY <1>1, <1>2
<1>4. \A i \in DOMAIN seq : i \in DOMAIN t /\ t[i] = seq[i] /\ seq[i] \in 1..k /\ seq[i] # m
  BY <1>1, <1>2 DEF NoneTwice, Has
<1>5. Len(seq) + 1 \in DOMAIN t
  BY <1>1, <1>2
<1>6. NoneTwice(t, k)
  BY <1>2, <1>3, <1>4 DEF NoneTwice
<1>7. \A x : Has(t, x) <=> Has(seq, x) \/ x = m
  BY <1>2, <1>3, <1>4, <1>5 DEF Has
<1> QED
  BY <1>6, <1>7 DEF t

\* The last message taken away.
LEMMA OneLess ==
  ASSUME NEW seq, NEW n \in Nat, NoneTwice(seq, n), seq # <<>>
  PROVE  /\ seq[Len(seq)] \in 1..n /\ Has(seq, seq[Len(seq)])
         /\ NoneTwice(SubSeq(seq, 1, Len(seq) - 1), n)
         /\ \A x : Has(SubSeq(seq, 1, Len(seq) - 1), x) <=> Has(seq, x) /\ x # seq[Len(seq)]
<1>1. seq \in Seq(Nat) /\ Len(seq) \in Nat /\ DOMAIN seq = 1..Len(seq) /\ Len(seq) >= 1
  <2>1. seq \in Seq(Nat)
    BY DEF NoneTwice
  <2> QED
    BY <2>1, HeadAndTail
<1> DEFINE t == SubSeq(seq, 1, Len(seq) - 1)
<1>2. t \in Seq(Nat) /\ DOMAIN t = 1..(Len(seq) - 1) /\ \A i \in 1..(Len(seq) - 1) : t[i] = seq[i]
  BY <1>1
<1> HIDE DEF t
<1>3. Len(seq) \in DOMAIN seq /\ \A i \in DOMAIN t : i \in DOMAIN seq /\ t[i] = seq[i] /\ i # Len(seq)
  BY <1>1, <1>2
<1>4. \A i \in DOMAIN seq : i # Len(seq) => i \in DOMAIN t
  BY <1>1, <1>2
<1>5. NoneTwice(t, n)
  BY <1>2, <1>3 DEF NoneTwice
<1>6. \A x : Has(t, x) <=> Has(seq, x) /\ x # seq[Len(seq)]
  BY <1>3, <1>4 DEF NoneTwice, Has
<1>7. seq[Len(seq)] \in 1..n /\ Has(seq, seq[Len(seq)])
  BY <1>3 DEF NoneTwice, Has
<1> QED
  BY <1>5, <1>6, <1>7 DEF t

\* A message is taken from the buffer as it is handed to the process.
LEMMA RewriteStep ==
  ASSUME MessagesInvariant, NEW running, rewrite(running)
  PROVE  MessagesInvariant'
<1>1. CASE running /\ buffer # <<>>
  <2>1. /\ given' = given /\ taken' = Append(taken, buffer[Len(buffer)])
        /\ buffer' = SubSeq(buffer, 1, Len(buffer) - 1)
    BY <1>1 DEF rewrite
  <2> PICK m \in 1..given : m = buffer[Len(buffer)]
    BY <1>1, OneLess DEF MessagesInvariant
  <2>2. /\ Has(buffer, m) /\ NoneTwice(buffer', given)
        /\ \A x : Has(buffer', x) <=> Has(buffer, x) /\ x # m
    BY <1>1, <2>1, OneLess DEF MessagesInvariant
  <2>3. ~Has(taken, m)
    BY <2>2 DEF MessagesInvariant
  <2>4. /\ NoneTwice(taken', given)
        /\ \A x : Has(taken', x) <=> Has(taken, x) \/ x = m
    BY <2>1, <2>3, OneMore DEF MessagesInvariant
  <2>5. \A x : Has(buffer, x)' <=> Has(buffer', x)
    BY DEF Has
  <2> QED
    BY <2>1, <2>2, <2>4 DEF MessagesInvariant, NoneTwice, Has
<1>2. CASE ~(running /\ buffer # <<>>)
  BY <1>2 DEF rewrite, MessagesInvariant, NoneTwice, Has
<1> QED
  BY <1>1, <1>2

\* A message given is handed over or waits.
LEMMA GivenStep ==
  ASSUME MessagesInvariant, onMsgForProcess
  PROVE  MessagesInvariant'
<1> PICK m \in 1..(given + 1) : m = given + 1
  BY DEF MessagesInvariant
<1>1. /\ given \in Nat /\ given' = m /\ m \in Nat /\ given <= m /\ m \in 1..m
      /\ \A x \in 1..m : x \in 1..given \/ x = m
      /\ \A x \in 1..given : x \in 1..m
  BY DEF onMsgForProcess, MessagesInvariant
<1>2. ~Has(buffer, m) /\ ~Has(taken, m)
  <2>1. m \notin 1..given
    BY <1>1
  <2> QED
    BY <2>1 DEF MessagesInvariant, NoneTwice, Has
<1>3. /\ \A x : (Has(buffer, x)' <=> Has(buffer', x)) /\ (Has(taken, x)' <=> Has(taken', x))
      /\ NoneTwice(buffer, given)' <=> NoneTwice(buffer', m)
      /\ NoneTwice(taken, given)' <=> NoneTwice(taken', m)
  BY <1>1 DEF Has, NoneTwice
<1>4. CASE isRunning
  <2>1. taken' = Append(taken, m) /\ buffer' = buffer
    BY <1>1, <1>4 DEF onMsgForProcess, tryWrite
  <2>2. /\ NoneTwice(taken', m)
        /\ \A x : Has(taken', x) <=> Has(taken, x) \/ x = m
    BY <1>1, <1>2, <2>1, OneMore DEF MessagesInvariant
  <2>3. NoneTwice(buffer, m)
    BY <1>1 DEF MessagesInvariant, NoneTwice
  <2> QED
    BY <1>1, <1>2, <1>3, <2>1, <2>2, <2>3 DEF MessagesInvariant
<1>5. CASE ~isRunning
  <2>1. buffer' = Append(buffer, m) /\ taken' = taken
    BY <1>1, <1>5 DEF onMsgForProcess, tryWrite
  <2>2. /\ NoneTwice(buffer', m)
        /\ \A x : Has(buffer', x) <=> Has(buffer, x) \/ x = m
    BY <1>1, <1>2, <2>1, OneMore DEF MessagesInvariant
  <2>3. NoneTwice(taken, m)
    BY <1>1 DEF MessagesInvariant, NoneTwice
  <2> QED
    BY <1>1, <1>2, <1>3, <2>1, <2>2, <2>3 DEF MessagesInvariant
<1> QED
  BY <1>4, <1>5

\* What was counted for each message is one.
LEMMA CountedOnce ==
  ASSUME MessagesInvariant
  PROVE  EachMessageOnce
<1> SUFFICES ASSUME NEW m \in 1..given
             PROVE  Cardinality({i \in DOMAIN buffer : buffer[i] = m})
                      + Cardinality({i \in DOMAIN taken : taken[i] = m}) = 1
  BY DEF EachMessageOnce
<1>1. ASSUME NEW seq, NoneTwice(seq, given), Has(seq, m)
      PROVE  Cardinality({i \in DOMAIN seq : seq[i] = m}) = 1
  <2> PICK k \in DOMAIN seq : seq[k] = m
    BY <1>1 DEF Has
  <2>1. {i \in DOMAIN seq : seq[i] = m} = {k}
    BY <1>1 DEF NoneTwice
  <2> QED
    BY <2>1, FS_Singleton
<1>2. ASSUME NEW seq, ~Has(seq, m)
      PROVE  Cardinality({i \in DOMAIN seq : seq[i] = m}) = 0
  <2>1. {i \in DOMAIN seq : seq[i] = m} = {}
    BY <1>2 DEF Has
  <2> QED
    BY <2>1, FS_EmptySet
<1>3. CASE Has(buffer, m)
  <2>1. ~Has(taken, m)
    BY <1>3 DEF MessagesInvariant
  <2> QED
    BY <1>1, <1>2, <1>3, <2>1 DEF MessagesInvariant
<1>4. CASE Has(taken, m)
  <2>1. ~Has(buffer, m)
    BY <1>4 DEF MessagesInvariant
  <2> QED
    BY <1>1, <1>2, <1>4, <2>1 DEF MessagesInvariant
<1> QED
  BY <1>3, <1>4 DEF MessagesInvariant

\* Every message is in the buffer or was handed over, whatever the process does.
THEOREM MessagesSafety == ProcessSpec => []MessagesInvariant
<1>1. ProcessInit => MessagesInvariant
  BY DEF ProcessInit, MessagesInvariant, NoneTwice, Has
<1>2. MessagesInvariant /\ [ProcessNext]_processVars => MessagesInvariant'
  <2> SUFFICES ASSUME MessagesInvariant, [ProcessNext]_processVars PROVE MessagesInvariant'
    OBVIOUS
  <2>1. ASSUME UNCHANGED input PROVE MessagesInvariant'
    BY <2>1 DEF input, MessagesInvariant, NoneTwice, Has
  <2>2. ASSUME NEW halves, print(halves) PROVE UNCHANGED input
    BY <2>2 DEF print
  <2>3. ASSUME NEW how, onFinished(how) PROVE UNCHANGED input
    BY <2>3 DEF onFinished
  <2>4. CASE onRun \/ readyRead \/ failedToStart \/ exits \/ startAgain
    BY <2>1, <2>4 DEF onRun, readyRead, failedToStart, exits, startAgain
  <2>5. CASE periodic \/ processStarted
    BY <2>5, RewriteStep DEF periodic, processStarted
  <2>6. CASE UNCHANGED processVars
    BY <2>1, <2>6 DEF processVars
  <2> QED
    BY <2>1, <2>2, <2>3, <2>4, <2>5, <2>6, GivenStep DEF ProcessNext
<1> QED
  BY <1>1, <1>2, PTL DEF ProcessSpec

\* No message is lost or handed over twice, between the buffer and the process
\* (onMsg, rewrite).
THEOREM MessagesOnce == ProcessSpec => []EachMessageOnce
<1>1. MessagesInvariant => EachMessageOnce
  BY CountedOnce
<1> QED
  BY <1>1, MessagesSafety, PTL
----------------------------------------------------------------------------
(* The lines of the process worker. *)

Increasing(seq) == \A i, j \in DOMAIN seq : i < j => seq[i] < seq[j]

\* A larger number at the end.
LEMMA LargerAtEnd ==
  ASSUME NEW seq \in Seq(Nat), Increasing(seq), NEW m \in Nat, \A x : Has(seq, x) => x < m
  PROVE  Increasing(Append(seq, m)) /\ \A x : Has(Append(seq, m), x) <=> Has(seq, x) \/ x = m
<1>1. Len(seq) \in Nat /\ DOMAIN seq = 1..Len(seq)
  OBVIOUS
<1> DEFINE t == Append(seq, m)
<1>2. /\ DOMAIN t = 1..(Len(seq) + 1)
      /\ t[Len(seq) + 1] = m /\ \A i \in 1..Len(seq) : t[i] = seq[i]
  BY <1>1
<1> HIDE DEF t
<1>3. /\ \A i \in DOMAIN t : i = Len(seq) + 1 \/ i \in DOMAIN seq
      /\ \A i \in DOMAIN seq : i \in DOMAIN t /\ t[i] = seq[i] /\ seq[i] < m
      /\ Len(seq) + 1 \in DOMAIN t
  BY <1>1, <1>2 DEF Has
<1>4. Increasing(t)
  <2> SUFFICES ASSUME NEW i \in DOMAIN t, NEW j \in DOMAIN t, i < j PROVE t[i] < t[j]
    BY DEF Increasing
  <2>1. i \in DOMAIN seq
    BY <1>1, <1>2
  <2>2. CASE j \in DOMAIN seq
    BY <1>3, <2>1, <2>2 DEF Increasing
  <2>3. CASE j = Len(seq) + 1
    BY <1>2, <1>3, <2>1, <2>3
  <2> QED
    BY <1>3, <2>2, <2>3
<1>5. \A x : Has(t, x) <=> Has(seq, x) \/ x = m
  BY <1>2, <1>3 DEF Has
<1> QED
  BY <1>4, <1>5 DEF t

\* What v says of the elements kept is in order, and after what is in base.
GrowsFrom(n, K, v, base) ==
  /\ Increasing(base)
  /\ \A x : \A k \in 1..n : Has(base, x) /\ k \in K => x < v[k]
  /\ \A j, k \in 1..n : j \in K /\ k \in K /\ j < k => v[j] < v[k]

\* A sequence in order of what is in base or was kept.
Grown(seq, n, K, v, base) ==
  /\ seq \in Seq(Nat) /\ Increasing(seq)
  /\ \A x : Has(seq, x) <=> Has(base, x) \/ \E k \in 1..n : k \in K /\ v[k] = x

\* What a fold keeps is in order if it was.
LEMMA KeptInOrder ==
  ASSUME NEW n \in Nat, NEW K, NEW v \in [1..n -> Nat],
         NEW base \in Seq(Nat), GrowsFrom(n, K, v, base),
         NEW g, KeptFold(g, n, K, v, base)
  PROVE  Grown(g[1..n], n, K, v, base)
<1> USE DEF GrowsFrom
<1> PICK r : Keeps(r, g, n, K, v, base, Nat)
  BY KeptSteps, Zenon
<1>1. r \in [0..n -> Seq(Nat)] /\ g[1..n] = r[n]
  BY DEF Keeps
<1> DEFINE Good(k) == /\ Increasing(r[k])
                      /\ \A x : Has(r[k], x) <=> Has(base, x) \/ \E j \in 1..k : j \in K /\ v[j] = x
           P == {k \in Nat : k <= n => Good(k)}
<1>2. 0 \in P
  BY OneMoreInRange DEF Keeps
<1>3. ASSUME NEW k \in Nat, k \in P PROVE k + 1 \in P
  <2> SUFFICES ASSUME k + 1 <= n PROVE Good(k + 1)
    OBVIOUS
  <2>1. Good(k)
    BY <1>3
  <2>2. /\ r[k + 1] = IF k + 1 \in K THEN Append(r[k], v[k + 1]) ELSE r[k]
        /\ r[k] \in Seq(Nat) /\ v[k + 1] \in Nat /\ k + 1 \in 1..n
        /\ \A j : j \in 1..(k + 1) <=> j \in 1..k \/ j = k + 1
        /\ \A j \in 1..k : j \in 1..n /\ j < k + 1
    <3>1. k + 1 \in 1..n /\ (k + 1) - 1 = k /\ k \in 0..n
      OBVIOUS
    <3>2. \A j : j \in 1..(k + 1) <=> j \in 1..k \/ j = k + 1
      BY OneMoreInRange
    <3>3. \A j \in 1..k : j \in 1..n /\ j < k + 1
      OBVIOUS
    <3> QED
      BY <1>1, <3>1, <3>2, <3>3 DEF Keeps
  <2> PICK s \in Seq(Nat) : s = r[k]
    BY <2>2
  <2> PICK m \in Nat : m = v[k + 1]
    BY <2>2
  <2>3. CASE k + 1 \in K
    <3>1. \A x : Has(s, x) => x < m
      BY <2>1, <2>2, <2>3
    <3>2. /\ Increasing(Append(s, m))
          /\ \A x : Has(Append(s, m), x) <=> Has(s, x) \/ x = m
      BY <2>1, <2>2, <3>1, LargerAtEnd
    <3> QED
      BY <2>1, <2>2, <2>3, <3>2
  <2>4. CASE k + 1 \notin K
    BY <2>1, <2>2, <2>4
  <2> QED
    BY <2>3, <2>4
<1> HIDE DEF P
<1>4. n \in P
  BY <1>2, <1>3, NaturalsInduct
<1> QED
  BY <1>1, <1>4 DEF P, Grown

Halves == [line : Nat, half : {"first", "second"}]

\* Lines, and of each the first half, come in order.
Before(g, h) ==
  g.line < h.line \/ (g.line = h.line /\ g.half = "first" /\ h.half = "second")

\* What the programs print comes in order, after what was read; a second half is
\* yet to come of the last line only, and only of a program that runs; and what
\* is not on its way was read or cut.
LinesInvariant ==
  /\ printed \in Nat /\ half \in BOOLEAN
  /\ read \in Seq(Nat) /\ Increasing(read)
  /\ pipe \in Seq(Halves)
  /\ \A i, j \in DOMAIN pipe : i < j => Before(pipe[i], pipe[j])
  /\ \A i \in DOMAIN pipe : /\ pipe[i].line \in 1..printed
                            /\ half /\ pipe[i].line = printed => pipe[i].half = "first"
  /\ \A x : Has(read, x) => x \in 1..printed /\ (half => x # printed)
  /\ \A x : \A i \in DOMAIN pipe : Has(read, x) => x < pipe[i].line
  /\ \A n \in 1..printed : Has(read, n) \/ n \in Lines(pipe) \/ n \in cut
  /\ restart => proc = "stopped" /\ pipe = <<>>
  /\ half => proc = "running" /\ printed >= 1

\* What the worker reads of a pipe: its whole lines in order, and nothing more.
LEMMA WholeLinesRead ==
  ASSUME LinesInvariant, ReadAll
  PROVE  /\ pipe' = <<>> /\ read' \in Seq(Nat) /\ Increasing(read)'
         /\ \A x : Has(read', x) <=> Has(read, x) \/ (x \in Lines(pipe) /\ Whole(pipe, x))
         /\ \A x \in Lines(pipe) : Whole(pipe, x) \/ x \in cut'
<1> DEFINE n == Len(pipe)
           K == {i \in 1..n : pipe[i].half = "first" /\ Whole(pipe, pipe[i].line)}
           v == [i \in 1..n |-> pipe[i].line]
<1>1. /\ pipe \in Seq(Halves) /\ n \in Nat /\ DOMAIN pipe = 1..n
      /\ \A i \in 1..n : pipe[i] \in Halves
  BY DEF LinesInvariant
<1>2. v \in [1..n -> Nat] /\ \A i \in 1..n : v[i] = pipe[i].line
  BY <1>1 DEF Halves
<1>3. \E g : read' = g[1..n] /\ KeptFold(g, n, K, v, read)
  <2> DEFINE Own(g) == g = [T \in SUBSET (1..n) |->
                              IF T = {} THEN read
                              ELSE IF pipe[Max(T)].half = "first" /\ Whole(pipe, pipe[Max(T)].line)
                                   THEN Append(g[T \ {Max(T)}], pipe[Max(T)].line)
                                   ELSE g[T \ {Max(T)}]]
  <2>1. read' = mainloop([pipe |-> pipe, read |-> read, cut |-> cut]).read
    BY DEF ReadAll, mainloop
  <2>2. read' = (CHOOSE g : Own(g))[1..n]
    BY <1>1, <2>1, Zenon DEF mainloop, FoldLeft, MapThenFoldSet
  <2>3. ASSUME NEW T \in SUBSET (1..n), T # {}
        PROVE  /\ Max(T) \in K <=> pipe[Max(T)].half = "first" /\ Whole(pipe, pipe[Max(T)].line)
               /\ v[Max(T)] = pipe[Max(T)].line
    <3>1. Max(T) \in 1..n
      BY <1>1, <2>3, MaxFacts
    <3> QED
      BY <1>2, <3>1
  <2> HIDE DEF n, K, v
  <2>4. ASSUME NEW g PROVE KeptFold(g, n, K, v, read) <=> Own(g)
    BY <2>3 DEF KeptFold
  <2>5. \E g : KeptFold(g, n, K, v, read)
    BY <1>1, <1>2, KeptExists DEF LinesInvariant
  <2> HIDE DEF Own
  <2> QED
    BY <2>2, <2>4, <2>5
<1> PICK g : read' = g[1..n] /\ KeptFold(g, n, K, v, read)
  BY <1>3
<1>4. \A x : \A k \in 1..n : Has(read, x) /\ k \in K => x < v[k]
  BY <1>1, <1>2 DEF LinesInvariant
<1>5. ASSUME NEW j \in 1..n, NEW k \in 1..n, j \in K, k \in K, j < k PROVE v[j] < v[k]
  <2>1. Before(pipe[j], pipe[k]) /\ pipe[k].half = "first"
    BY <1>1, <1>5 DEF LinesInvariant
  <2> QED
    BY <1>2, <2>1 DEF Before
<1>6. ASSUME NEW x
      PROVE  (\E k \in 1..n : k \in K /\ v[k] = x) <=> x \in Lines(pipe) /\ Whole(pipe, x)
  <2>1. ASSUME NEW k \in 1..n, k \in K, v[k] = x PROVE x \in Lines(pipe) /\ Whole(pipe, x)
    BY <1>1, <1>2, <2>1 DEF Lines
  <2>2. ASSUME Whole(pipe, x) PROVE \E k \in 1..n : k \in K /\ v[k] = x
    <3>1. PICK k \in 1..n : pipe[k] = Half(x, "first")
      BY <1>1, <2>2 DEF Whole, ToSet
    <3>2. pipe[k].half = "first" /\ pipe[k].line = x
      BY <3>1 DEF Half
    <3> QED
      BY <1>2, <2>2, <3>2
  <2> QED
    BY <2>1, <2>2
<1> HIDE DEF n, K, v
<1>7. Grown(g[1..n], n, K, v, read)
  <2>1. GrowsFrom(n, K, v, read) /\ read \in Seq(Nat)
    BY <1>4, <1>5 DEF GrowsFrom, LinesInvariant
  <2> QED
    BY <1>1, <1>2, <2>1, KeptInOrder
<1>8. Increasing(read)' <=> Increasing(read')
  BY DEF Increasing
<1>9. pipe' = <<>> /\ \A x \in Lines(pipe) : Whole(pipe, x) \/ x \in cut'
  BY DEF ReadAll, mainloop
<1> QED
  BY <1>6, <1>7, <1>8, <1>9 DEF Grown

\* The worker reads all there is.
LEMMA ReadAllStep ==
  ASSUME LinesInvariant, ReadAll, UNCHANGED <<half, printed>>,
         restart' => proc' = "stopped", half => proc' = "running"
  PROVE  LinesInvariant'
<1>1. /\ pipe' = <<>> /\ read' \in Seq(Nat) /\ Increasing(read)'
      /\ \A x : Has(read', x) <=> Has(read, x) \/ (x \in Lines(pipe) /\ Whole(pipe, x))
      /\ \A x \in Lines(pipe) : Whole(pipe, x) \/ x \in cut'
  BY WholeLinesRead
<1>2. cut \subseteq cut' /\ \A x : Has(read, x)' <=> Has(read', x)
  BY DEF ReadAll, mainloop, Has
<1>3. \A i : ~(i \in DOMAIN pipe')
  BY <1>1
<1>4. ASSUME NEW x, x \in Lines(pipe), Whole(pipe, x)
      PROVE  x \in 1..printed /\ (half => x # printed)
  <2>1. PICK i \in DOMAIN pipe : pipe[i] = Half(x, "second")
    BY <1>4 DEF Whole, ToSet
  <2> QED
    BY <2>1 DEF LinesInvariant, Half
<1>5. \A x : Has(read', x) => x \in 1..printed /\ (half => x # printed)
  BY <1>1, <1>4 DEF LinesInvariant
<1>6. \A n \in 1..printed : Has(read', n) \/ n \in cut'
  BY <1>1, <1>2 DEF LinesInvariant
<1> QED
  BY <1>1, <1>2, <1>3, <1>5, <1>6 DEF LinesInvariant

Ordered(p) == p \in Seq(Halves) /\ \A i, j \in DOMAIN p : i < j => Before(p[i], p[j])

\* A half that comes after all there are.
LEMMA LastHalf ==
  ASSUME NEW p, Ordered(p), NEW h \in Halves, \A g \in ToSet(p) : Before(g, h)
  PROVE  Ordered(Append(p, h)) /\ ToSet(Append(p, h)) = ToSet(p) \cup {h}
<1>1. p \in Seq(Halves) /\ Len(p) \in Nat /\ DOMAIN p = 1..Len(p)
  BY DEF Ordered
<1> DEFINE t == Append(p, h)
<1>2. /\ t \in Seq(Halves) /\ DOMAIN t = 1..(Len(p) + 1)
      /\ t[Len(p) + 1] = h /\ \A i \in 1..Len(p) : t[i] = p[i]
  BY <1>1
<1> HIDE DEF t
<1>3. /\ \A i \in DOMAIN t : i = Len(p) + 1 \/ i \in DOMAIN p
      /\ \A i \in DOMAIN p : i \in DOMAIN t /\ t[i] = p[i]
      /\ Len(p) + 1 \in DOMAIN t
  BY <1>1, <1>2
<1>4. ASSUME NEW i \in DOMAIN t, NEW j \in DOMAIN t, i < j PROVE Before(t[i], t[j])
  <2>1. i \in DOMAIN p
    BY <1>1, <1>2, <1>4
  <2>2. CASE j \in DOMAIN p
    BY <1>3, <1>4, <2>1, <2>2 DEF Ordered
  <2>3. CASE j = Len(p) + 1
    BY <1>2, <1>3, <2>1, <2>3 DEF ToSet
  <2> QED
    BY <1>3, <2>2, <2>3
<1>5. ToSet(t) = ToSet(p) \cup {h}
  BY <1>2, <1>3 DEF ToSet
<1> QED
  BY <1>2, <1>4, <1>5 DEF Ordered, t

\* The program prints a line, or what is left of one, or part of one.
LEMMA PrintStep ==
  ASSUME LinesInvariant, NEW halves, print(halves)
  PROVE  LinesInvariant'
<1> PICK m \in Nat : m = printed'
  <2>1. printed' = printed \/ printed' = printed + 1
    BY DEF print
  <2> QED
    BY <2>1 DEF LinesInvariant
<1> DEFINE first == Half(m, "first")
           second == Half(m, "second")
<1>1. /\ first \in Halves /\ first.line = m /\ first.half = "first"
      /\ second \in Halves /\ second.line = m /\ second.half = "second"
      /\ first # second /\ Before(first, second)
  BY DEF Half, Halves, Before
<1>2. Ordered(pipe) /\ \A g \in ToSet(pipe) : g \in Halves /\ g.line \in 1..printed
  BY DEF LinesInvariant, Ordered, ToSet
<1>3. /\ printed \in Nat /\ printed <= m /\ half' \in BOOLEAN
      /\ proc' = "running" /\ ~restart' /\ read' = read /\ cut' = cut
  BY DEF print, process, LinesInvariant
<1>4. /\ Ordered(pipe')
      /\ \A g \in ToSet(pipe') : g \in ToSet(pipe) \/ g = first \/ g = second
      /\ ToSet(pipe) \subseteq ToSet(pipe')
      /\ \A g \in ToSet(pipe') : half' /\ g.line = m => g.half = "first"
      /\ m \in 1..printed \/ first \in ToSet(pipe')
      /\ m >= 1 /\ \A n \in 1..m : n \in 1..printed \/ n = m
      /\ \A x : Has(read, x) => x \in 1..printed /\ x < m
  <2>1. CASE half
    <3>1. halves = <<second>> /\ m = printed
      BY <2>1 DEF print
    <3>2. pipe' = Append(pipe, second)
      BY <1>2, <3>1 DEF print, Ordered
    <3>3. \A g \in ToSet(pipe) : Before(g, second)
      BY <1>1, <1>2, <1>3, <2>1, <3>1 DEF LinesInvariant, ToSet, Before
    <3>4. Ordered(pipe') /\ ToSet(pipe') = ToSet(pipe) \cup {second}
      BY <1>1, <1>2, <3>2, <3>3, LastHalf
    <3>5. ~half'
      BY <1>1, <2>1, <3>1 DEF print
    <3>6. m >= 1 /\ m \in 1..printed /\ \A x : Has(read, x) => x \in 1..printed /\ x < m
      <4>1. printed >= 1
        BY <2>1, <1>3 DEF LinesInvariant
      <4> QED
        BY <2>1, <1>3, <3>1, <4>1 DEF LinesInvariant
    <3> HIDE DEF first, second
    <3> QED
      BY <3>1, <3>4, <3>5, <3>6
  <2>2. CASE ~half
    <3>1. m = printed + 1 /\ halves \in {<<first>>, <<first, second>>}
      BY <2>2 DEF print
    <3>2. \A g \in ToSet(pipe) : Before(g, first) /\ g.line # m
      BY <1>1, <1>2, <1>3, <3>1 DEF Before
    <3>3. /\ m >= 1 /\ \A n \in 1..m : n \in 1..printed \/ n = m
          /\ \A x : Has(read, x) => x \in 1..printed /\ x < m
      BY <1>3, <3>1 DEF LinesInvariant
    <3> PICK p : p = Append(pipe, first)
      OBVIOUS
    <3>4. Ordered(p) /\ ToSet(p) = ToSet(pipe) \cup {first}
      BY <1>1, <1>2, <3>2, LastHalf
    <3>5. CASE halves = <<first>>
      <4>1. pipe' = p
        BY <1>2, <3>5 DEF print, Ordered
      <4> HIDE DEF first, second
      <4> QED
        BY <1>1, <3>2, <3>3, <3>4, <4>1
    <3>6. CASE halves = <<first, second>>
      <4>1. ~half'
        <5>1. <<first, second>> # <<first>>
          OBVIOUS
        <5> QED
          BY <2>2, <3>6, <5>1 DEF print
      <4>2. pipe' = Append(p, second)
        BY <1>1, <1>2, <3>6 DEF print, Ordered
      <4>3. \A g \in ToSet(p) : Before(g, second)
        BY <1>1, <1>2, <1>3, <3>1, <3>4 DEF Before
      <4>4. Ordered(pipe') /\ ToSet(pipe') = ToSet(p) \cup {second}
        BY <1>1, <3>4, <4>2, <4>3, LastHalf
      <4> HIDE DEF first, second
      <4> QED
        BY <3>3, <3>4, <4>1, <4>4
    <3> QED
      BY <3>1, <3>5, <3>6
  <2> QED
    BY <2>1, <2>2
<1>5. \A x : Has(read, x)' <=> Has(read, x)
  BY <1>3 DEF Has
<1>6. ASSUME NEW i \in DOMAIN pipe'
      PROVE  /\ pipe'[i].line \in 1..m
             /\ half' /\ pipe'[i].line = m => pipe'[i].half = "first"
             /\ \A x : Has(read, x) => x < pipe'[i].line
  <2> PICK g : g = pipe'[i]
    OBVIOUS
  <2>1. g \in ToSet(pipe')
    BY DEF ToSet
  <2>2. half' /\ g.line = m => g.half = "first"
    BY <1>4, <2>1
  <2>3. CASE g \in ToSet(pipe)
    <3>1. g.line \in 1..printed /\ \A x : Has(read, x) => x < g.line
      BY <2>3 DEF LinesInvariant, ToSet
    <3> QED
      BY <1>3, <2>2, <3>1
  <2>4. CASE g = first \/ g = second
    <3>1. g.line = m /\ m \in 1..m
      <4>1. g.line = m
        BY <1>1, <2>4
      <4> QED
        BY <1>4, <4>1
    <3> QED
      BY <1>4, <2>2, <3>1
  <2> QED
    BY <1>4, <2>1, <2>3, <2>4
<1>7. ASSUME NEW n \in 1..m PROVE Has(read, n) \/ n \in Lines(pipe') \/ n \in cut
  <2>1. CASE n \in 1..printed
    <3>1. n \in Lines(pipe) => n \in Lines(pipe')
      BY <1>4 DEF Lines, ToSet
    <3> QED
      BY <2>1, <3>1 DEF LinesInvariant
  <2>2. CASE n \notin 1..printed
    <3>1. n = m /\ first \in ToSet(pipe')
      BY <1>4, <2>2
    <3> QED
      BY <1>1, <3>1 DEF Lines, ToSet
  <2> QED
    BY <2>1, <2>2
<1>8. \A x : Has(read, x) => x \in 1..m /\ x # m
  BY <1>3, <1>4
<1> HIDE DEF first, second
<1>9. Lines(pipe)' = Lines(pipe')
  BY DEF Lines
<1> QED
  BY <1>3, <1>4, <1>5, <1>6, <1>7, <1>8, <1>9 DEF LinesInvariant, Ordered, Increasing

\* A step that leaves the lines alone.
LEMMA OtherStep ==
  ASSUME LinesInvariant, UNCHANGED output,
         restart' => proc' = "stopped" /\ pipe = <<>>, half => proc' = "running"
  PROVE  LinesInvariant'
<1>1. UNCHANGED <<pipe, half, printed, read, cut>>
  BY DEF output
<1>2. \A x : Has(read, x)' <=> Has(read, x)
  BY <1>1 DEF Has
<1>3. Lines(pipe)' = Lines(pipe) /\ (Increasing(read)' <=> Increasing(read))
  BY <1>1 DEF Lines, Increasing
<1> QED
  BY <1>1, <1>2, <1>3 DEF LinesInvariant

\* What is on its way, was read or was cut agree in every state of the process.
THEOREM LinesSafety == ProcessSpec => []LinesInvariant
<1>1. ASSUME ProcessInit PROVE LinesInvariant
  <2>1. /\ printed = 0 /\ half = FALSE /\ restart = FALSE
        /\ read = <<>> /\ pipe = <<>>
    BY <1>1 DEF ProcessInit
  <2>2. 1..printed = {}
    BY <2>1, OneMoreInRange
  <2>3. read \in Seq(Nat) /\ pipe \in Seq(Halves)
    BY <2>1
  <2>4. \A i : ~(i \in DOMAIN read) /\ ~(i \in DOMAIN pipe)
    BY <2>1
  <2>5. Increasing(read) /\ \A x : ~Has(read, x)
    BY <2>4 DEF Increasing, Has
  <2> QED
    BY <2>1, <2>2, <2>3, <2>4, <2>5 DEF LinesInvariant
<1>2. LinesInvariant /\ [ProcessNext]_processVars => LinesInvariant'
  <2> SUFFICES ASSUME LinesInvariant, [ProcessNext]_processVars PROVE LinesInvariant'
    OBVIOUS
  <2>1. CASE onRun \/ onMsgForProcess \/ periodic \/ failedToStart \/ UNCHANGED processVars
    <3>1. /\ UNCHANGED output /\ restart' = restart
          /\ proc' = proc \/ proc \in {"new", "starting"}
      BY <2>1 DEF onRun, onMsgForProcess, periodic, failedToStart, processVars, process
    <3> QED
      BY <3>1, OtherStep DEF LinesInvariant
  <2>2. CASE readyRead
    <3>1. ReadAll /\ UNCHANGED <<half, printed, proc, restart>>
      BY <2>2 DEF readyRead, process
    <3> QED
      BY <3>1, ReadAllStep DEF LinesInvariant
  <2>3. CASE processStarted
    <3>1. ReadAll /\ UNCHANGED <<half, printed, restart>> /\ proc = "starting"
      BY <2>3 DEF processStarted
    <3> QED
      BY <3>1, ReadAllStep DEF LinesInvariant
  <2>4. ASSUME NEW how, onFinished(how) PROVE LinesInvariant'
    <3>1. ReadAll /\ UNCHANGED <<half, printed>> /\ proc = "exited" /\ proc' = "stopped"
      BY <2>4 DEF onFinished
    <3> QED
      BY <3>1, ReadAllStep DEF LinesInvariant
  <2>5. CASE exits
    <3>1. UNCHANGED <<restart, pipe, printed, read, cut>> /\ half' = FALSE /\ proc = "running"
      BY <2>5 DEF exits
    <3>2. \A x : Has(read, x)' <=> Has(read, x)
      BY <3>1 DEF Has
    <3>3. Lines(pipe)' = Lines(pipe) /\ (Increasing(read)' <=> Increasing(read))
      BY <3>1 DEF Lines, Increasing
    <3> QED
      BY <3>1, <3>2, <3>3 DEF LinesInvariant
  <2>6. CASE startAgain
    <3>1. UNCHANGED output /\ ~restart' /\ ~half
      BY <2>6 DEF startAgain, output, LinesInvariant
    <3> QED
      BY <3>1, OtherStep
  <2> QED
    BY <2>1, <2>2, <2>3, <2>4, <2>5, <2>6, PrintStep DEF ProcessNext
<1> QED
  BY <1>1, <1>2, PTL DEF ProcessSpec

\* No line that arrived whole is lost, sent on twice or out of order
\* (FileHelper::mainloop), also when its process ends and is started again.
THEOREM LinesOnce == ProcessSpec => []EachLineOnce
<1>1. LinesInvariant => EachLineOnce
  BY DEF LinesInvariant, Increasing, Has, Lines, EachLineOnce
<1> QED
  BY <1>1, LinesSafety, PTL
----------------------------------------------------------------------------
(* The streams. *)

Ids == Nat \cup {Top}

Reading ==
  [phase : {"idle", "unconnected"}]
    \cup [phase : {"asked"}, from : Ids]
    \cup [phase : {"blocked"}, from : Nat]
    \cup [phase : {"send", "store"}, entries : Seq(Nat)]

\* Types; what is trimmed was added, and only what was added is sent on.
StreamTypes ==
  /\ setup \in Setups
  /\ added \in Nat /\ trimmed \in 0..added /\ addCounter \in Nat
  /\ stored \in [Places -> Ids]
  /\ reader \in [Consumers -> Reading]
  /\ heard \in [Places -> SUBSET (1..added)]
  /\ origin \in [Places -> Nat]
  /\ repeats \in [Places -> Nat]
  /\ crashes \in [Programs -> Nat]

\* The entries of an answer follow one another.
Answered(c) ==
  reader[c].phase \in {"send", "store"} =>
    LET entries == reader[c].entries IN
      /\ entries # <<>>
      /\ \A i \in 1..Len(entries) : entries[i] = entries[1] + i - 1 /\ entries[i] \in 1..added

\* A consumer keeps an id only of what it has sent on, and no place is left
\* without an id that was given one before.
KeepsWhatItSent ==
  /\ \A c \in Consumers : Answered(c)
  /\ \A c \in Consumers :
       reader[c].phase = "store" => reader[c].entries[1] \in heard[PlaceOf(c)]
  /\ setup.kept # Top => \A p \in Programs : stored[p] # Top

\* Every entry up to n was sent on or trimmed, from the first that was kept.
Covered(p, n) == \A e \in (origin[p] + 1)..n : e \in heard[p] \/ e <= trimmed

Orderly(p) == Alone(p) \/ setup.kept # Top

\* Where a consumer goes on reading everything is covered, not only where the
\* place it shares with others says.
ReadsFromCovered(c) ==
  LET p == PlaceOf(c)
      r == reader[c]
  IN  Orderly(p) /\ stored[p] # Top =>
        /\ r.phase = "asked" => r.from # Top /\ Covered(p, r.from)
        /\ r.phase = "blocked" => Covered(p, r.from)
        /\ r.phase = "send" => Covered(p, r.entries[1] - 1)
        /\ r.phase = "store" => Covered(p, r.entries[1])

CoveredSoFar ==
  /\ \A p \in Places : Orderly(p) /\ stored[p] # Top => Covered(p, stored[p])
  /\ \A c \in Consumers : ReadsFromCovered(c)

Budget(p) == IF p \in Programs THEN crashes[p] ELSE 0

\* An entry after n that was sent on before is the first that can be read, and
\* there is a crash to answer for it.
OnlyNext(p, n) ==
  \A e \in heard[p] : e > n /\ e > trimmed =>
    /\ \A x \in (n + 1)..(e - 1) : x <= trimmed
    /\ repeats[p] < Budget(p)

RepeatsOnlyNext(c) ==
  LET p == PlaceOf(c)
      r == reader[c]
  IN  Alone(p) /\ setup.mode[c] # "first" =>
        /\ repeats[p] <= Budget(p)
        /\ r.phase \in {"idle", "unconnected", "asked"} /\ stored[p] # Top =>
             OnlyNext(p, stored[p])
        /\ r.phase = "asked" => r.from = stored[p]
        /\ r.phase = "blocked" => OnlyNext(p, r.from) /\ stored[p] \in {Top, r.from}
        /\ r.phase \in {"send", "store"} /\ stored[p] # Top =>
             \A x \in (stored[p] + 1)..(r.entries[1] - 1) : x <= trimmed
        /\ r.phase = "send" =>
             \A e \in heard[p] : e >= r.entries[1] =>
               e = r.entries[1] /\ repeats[p] < Budget(p)
        /\ r.phase = "store" => \A e \in heard[p] : e <= r.entries[1]

StreamInvariant ==
  /\ StreamTypes
  /\ KeepsWhatItSent
  /\ CoveredSoFar
  /\ \A c \in Consumers : RepeatsOnlyNext(c)
----------------------------------------------------------------------------
(* Places. *)

Rest == <<setup, added, trimmed, addCounter, stored, heard, origin, repeats, crashes>>

\* What a setup says, and where it makes a consumer keep its id.
LEMMA PlaceFacts ==
  ASSUME StreamTypes, NEW c \in Consumers
  PROVE  /\ setup.mode[c] \in {"persistent", "top", "first"}
         /\ setup.program[c] \in Programs
         /\ setup.kept \in {-1, 0}
         /\ PlaceOf(c) \in Places
         /\ setup.mode[c] = "persistent" => PlaceOf(c) = setup.program[c] /\ PlaceOf(c) \in Programs
         /\ setup.mode[c] # "persistent" => PlaceOf(c) = c /\ PlaceOf(c) \notin Programs
<1>1. setup \in [mode : [Consumers -> {"persistent", "top", "first"}],
                 program : [Consumers -> Programs], kept : {-1, 0}]
  BY StreamsAssumption DEF StreamTypes
<1>2. /\ setup.mode[c] \in {"persistent", "top", "first"}
      /\ setup.program[c] \in Programs
      /\ setup.kept \in {-1, 0}
  BY <1>1
<1>3. c \notin Programs
  BY StreamsAssumption
<1> QED
  BY <1>2, <1>3 DEF PlaceOf, Places

\* A place that has one consumer has no other.
LEMMA AloneIsOne ==
  ASSUME StreamTypes, NEW c \in Consumers, NEW d \in Consumers, Alone(PlaceOf(c)),
         PlaceOf(d) = PlaceOf(c)
  PROVE  d = c
<1> DEFINE S == {e \in Consumers : PlaceOf(e) = PlaceOf(c)}
<1>1. IsFiniteSet(S)
  BY StreamsAssumption, FS_Subset
<1>2. Cardinality(S) = 1
  BY DEF Alone
<1>3. \E x : S = {x}
  BY <1>1, <1>2, FS_Singleton
<1>4. c \in S /\ d \in S
  OBVIOUS
<1> QED
  BY <1>3, <1>4

\* The first entry of an answer is a number.
LEMMA FirstOfAnswer ==
  ASSUME StreamTypes, KeepsWhatItSent, NEW c \in Consumers,
         reader[c].phase \in {"send", "store"}
  PROVE  reader[c].entries[1] \in Nat
<1>1. reader[c] \in [phase : {"send", "store"}, entries : Seq(Nat)]
  BY DEF StreamTypes, Reading
<1>2. reader[c].entries \in Seq(Nat) /\ reader[c].entries # <<>>
  BY <1>1 DEF KeepsWhatItSent, Answered
<1> QED
  BY <1>2, HeadAndTail

\* A step that changes what one consumer is doing, and nothing else.
LEMMA ReaderStep ==
  ASSUME StreamInvariant, NEW c \in Consumers, NEW r \in Reading,
         reader' = [reader EXCEPT ![c] = r], UNCHANGED Rest,
         Answered(c)', r.phase # "store", ReadsFromCovered(c)', RepeatsOnlyNext(c)'
  PROVE  StreamInvariant'
<1>1. StreamTypes'
  BY DEF StreamInvariant, StreamTypes, Rest
<1>2. reader'[c] = r /\ \A d \in Consumers \ {c} : reader'[d] = reader[d]
  BY DEF StreamInvariant, StreamTypes
<1>3. \A d : PlaceOf(d)' = PlaceOf(d)
  BY DEF PlaceOf, Rest
<1>4. \A p : Alone(p)' = Alone(p) /\ Orderly(p)' = Orderly(p) /\ Budget(p)' = Budget(p)
  BY <1>3 DEF Alone, Orderly, Budget, Rest
<1>5. \A p, n : Covered(p, n)' = Covered(p, n)
  BY DEF Covered, Rest
<1>6. \A p, n : OnlyNext(p, n)' = OnlyNext(p, n)
  BY <1>4 DEF OnlyNext, Rest
<1>7. KeepsWhatItSent'
  BY <1>2, <1>3 DEF StreamInvariant, KeepsWhatItSent, Answered, Rest
<1>8. CoveredSoFar'
  <2>1. \A p \in Places : (Orderly(p) /\ stored[p] # Top => Covered(p, stored[p]))'
    BY <1>4, <1>5 DEF StreamInvariant, CoveredSoFar, Rest
  <2>2. ASSUME NEW d \in Consumers \ {c} PROVE ReadsFromCovered(d)'
    <3>1. ReadsFromCovered(d)
      BY DEF StreamInvariant, CoveredSoFar
    <3> QED
      BY <3>1, <1>2, <1>3, <1>4, <1>5 DEF ReadsFromCovered, Rest
  <2> QED
    BY <2>1, <2>2 DEF CoveredSoFar
<1>9. ASSUME NEW d \in Consumers \ {c} PROVE RepeatsOnlyNext(d)'
  <2>1. RepeatsOnlyNext(d)
    BY DEF StreamInvariant
  <2> QED
    BY <2>1, <1>2, <1>3, <1>4, <1>6 DEF RepeatsOnlyNext, Rest
<1> QED
  BY <1>1, <1>7, <1>8, <1>9 DEF StreamInvariant
----------------------------------------------------------------------------
(* The steps of a consumer that change only what it is doing. *)

\* The connection is made or lost, an answer is empty, or the consumer asks.
LEMMA RestingStep ==
  ASSUME StreamInvariant, NEW c \in Consumers, connected(c) \/ doRead(c) \/ noAnswer(c)
  PROVE  StreamInvariant'
<1> DEFINE p == PlaceOf(c)
<1>1. StreamTypes /\ p \in Places /\ ReadsFromCovered(c) /\ RepeatsOnlyNext(c)
  BY PlaceFacts DEF StreamInvariant, CoveredSoFar
<1>2. UNCHANGED Rest
  BY DEF connected, doRead, noAnswer, Rest
<1>3. /\ p' = p /\ Alone(p)' = Alone(p) /\ Orderly(p)' = Orderly(p)
      /\ \A n : Covered(p, n)' = Covered(p, n) /\ OnlyNext(p, n)' = OnlyNext(p, n)
      /\ Budget(p)' = Budget(p)
  BY <1>2 DEF PlaceOf, Alone, Orderly, Covered, OnlyNext, Budget, Rest
<1>4. reader[c] \in Reading
  BY <1>1 DEF StreamTypes
<1> HIDE DEF p
<1>5. CASE connected(c) \/ noAnswer(c)
  <2>1. PICK r \in {Idle, Unconnected} : reader' = [reader EXCEPT ![c] = r]
    BY <1>5 DEF connected, noAnswer
  <2>2. r \in Reading /\ r.phase \in {"idle", "unconnected"}
    BY DEF Reading, Idle, Unconnected
  <2>3. reader'[c] = r
    BY <1>1, <2>1 DEF StreamTypes
  <2>4. reader[c].phase \in {"idle", "unconnected", "asked", "blocked"}
    BY <1>5 DEF connected, noAnswer, Idle, Unconnected
  <2>5. ReadsFromCovered(c)'
    BY <2>2, <2>3 DEF ReadsFromCovered
  <2>6. RepeatsOnlyNext(c)'
    BY <1>1, <1>2, <1>3, <2>2, <2>3, <2>4 DEF RepeatsOnlyNext, Rest, p
  <2>7. Answered(c)'
    BY <2>2, <2>3 DEF Answered
  <2> QED
    BY <1>2, <2>1, <2>2, <2>5, <2>6, <2>7, ReaderStep
<1>6. CASE doRead(c)
  <2> DEFINE r == [phase |-> "asked", from |-> lastReadId(c)]
  <2>1. reader' = [reader EXCEPT ![c] = r] /\ reader[c].phase = "idle"
    BY <1>6 DEF doRead
  <2>2. /\ lastReadId(c) \in Ids
        /\ setup.mode[c] # "first" => lastReadId(c) = stored[p]
        /\ setup.mode[c] = "first" => lastReadId(c) = 0
    <3>1. CASE setup.mode[c] = "persistent"
      BY <1>1, <3>1, PlaceFacts DEF lastReadId, StreamTypes, p, Places
    <3>2. CASE setup.mode[c] = "first"
      BY <3>2 DEF lastReadId, Ids
    <3>3. CASE setup.mode[c] = "top"
      BY <1>1, <3>3, PlaceFacts DEF lastReadId, StreamTypes, p, Places
    <3> QED
      BY <1>1, <3>1, <3>2, <3>3, PlaceFacts
  <2>3. r \in Reading /\ r.phase = "asked" /\ r.from = lastReadId(c)
    BY <2>2 DEF Reading
  <2> HIDE DEF r
  <2>4. reader'[c] = r
    BY <1>1, <2>1 DEF StreamTypes
  <2>5. ReadsFromCovered(c)'
    <3> SUFFICES ASSUME Orderly(p), stored[p] # Top
                 PROVE  r.from # Top /\ Covered(p, r.from)
      BY <1>2, <1>3, <2>3, <2>4 DEF ReadsFromCovered, p, Rest
    <3>1. Covered(p, stored[p])
      BY <1>1 DEF StreamInvariant, CoveredSoFar
    <3>2. Covered(p, 0) /\ 0 # Top
      BY <1>1 DEF Covered, StreamTypes, Top
    <3> QED
      BY <2>2, <2>3, <3>1, <3>2
  <2>6. RepeatsOnlyNext(c)'
    BY <1>1, <1>2, <1>3, <2>1, <2>2, <2>3, <2>4 DEF RepeatsOnlyNext, Rest, p
  <2>7. Answered(c)'
    BY <2>3, <2>4 DEF Answered
  <2> QED
    BY <1>2, <2>1, <2>3, <2>5, <2>6, <2>7, ReaderStep
<1> QED
  BY <1>5, <1>6

\* The server begins to wait.
LEMMA BlockStep ==
  ASSUME StreamInvariant, NEW c \in Consumers, block(c)
  PROVE  StreamInvariant'
<1> DEFINE p == PlaceOf(c)
           n == IF reader[c].from = Top THEN added ELSE reader[c].from
           r == [phase |-> "blocked", from |-> n]
<1>1. StreamTypes /\ p \in Places /\ ReadsFromCovered(c) /\ RepeatsOnlyNext(c)
  BY PlaceFacts DEF StreamInvariant, CoveredSoFar
<1>2. UNCHANGED Rest /\ reader[c].phase = "asked" /\ reader' = [reader EXCEPT ![c] = r]
  BY DEF block, Rest
<1>3. /\ p' = p /\ Alone(p)' = Alone(p) /\ Orderly(p)' = Orderly(p)
      /\ \A m : Covered(p, m)' = Covered(p, m) /\ OnlyNext(p, m)' = OnlyNext(p, m)
      /\ Budget(p)' = Budget(p)
  BY <1>2 DEF PlaceOf, Alone, Orderly, Covered, OnlyNext, Budget, Rest
<1>4. reader[c] \in Reading /\ reader[c].from \in Ids
  BY <1>1, <1>2 DEF StreamTypes, Reading
<1>5. n \in Nat /\ r \in Reading /\ r.phase = "blocked" /\ r.from = n
  BY <1>1, <1>4 DEF StreamTypes, Ids, Reading
<1>6. /\ reader[c].from = Top => n = added
      /\ reader[c].from # Top => n = reader[c].from
  OBVIOUS
<1> HIDE DEF p, r, n
<1>7. reader'[c] = r
  BY <1>1, <1>2 DEF StreamTypes
<1>8. ReadsFromCovered(c)'
  BY <1>1, <1>2, <1>3, <1>5, <1>6, <1>7 DEF ReadsFromCovered, Rest, p
<1>9. RepeatsOnlyNext(c)'
  <2> SUFFICES ASSUME Alone(p), setup.mode[c] # "first"
               PROVE  /\ repeats[p] <= Budget(p)
                      /\ OnlyNext(p, n) /\ stored[p] \in {Top, n}
    BY <1>2, <1>3, <1>5, <1>7 DEF RepeatsOnlyNext, Rest, p
  <2>1. repeats[p] <= Budget(p) /\ reader[c].from = stored[p]
    BY <1>1, <1>2 DEF RepeatsOnlyNext, p
  <2>2. CASE stored[p] # Top
    BY <1>1, <1>2, <1>6, <2>1, <2>2 DEF RepeatsOnlyNext, p
  <2>3. CASE stored[p] = Top
    <3>1. \A e \in heard[p] : e \in 1..added
      BY <1>1 DEF StreamTypes
    <3>2. OnlyNext(p, added)
      BY <1>1, <3>1 DEF OnlyNext, StreamTypes
    <3> QED
      BY <1>6, <2>1, <2>3, <3>2
  <2> QED
    BY <2>2, <2>3
<1>10. Answered(c)'
  BY <1>5, <1>7 DEF Answered
<1> QED
  BY <1>2, <1>5, <1>8, <1>9, <1>10, ReaderStep

\* The server answers with the entries after the one asked for.
LEMMA AnswerStep ==
  ASSUME StreamInvariant, NEW c \in Consumers, answer(c)
  PROVE  StreamInvariant'
<1> DEFINE p == PlaceOf(c)
           from == reader[c].from
           first == Min({e \in Entries : e > from})
           last == Min({added, first + EntriesPerRead - 1})
           entries == [i \in 1..(last - first + 1) |-> first + i - 1]
           r == [phase |-> "send", entries |-> entries]
<1>1. StreamTypes /\ p \in Places /\ ReadsFromCovered(c) /\ RepeatsOnlyNext(c)
  BY PlaceFacts DEF StreamInvariant, CoveredSoFar
<1>2. /\ UNCHANGED Rest /\ reader[c].phase = "blocked" /\ reader' = [reader EXCEPT ![c] = r]
      /\ \E e \in Entries : e > from
  BY DEF answer, Rest
<1>3. /\ p' = p /\ Alone(p)' = Alone(p) /\ Orderly(p)' = Orderly(p)
      /\ \A m : Covered(p, m)' = Covered(p, m)
      /\ Budget(p)' = Budget(p)
  BY <1>2 DEF PlaceOf, Alone, Orderly, Covered, Budget, Rest
<1>4. from \in Nat /\ added \in Nat /\ trimmed \in 0..added
      /\ EntriesPerRead \in Nat /\ EntriesPerRead > 0
  BY <1>1, <1>2, StreamsAssumption DEF StreamTypes, Reading
<1>5. /\ first \in (trimmed + 1)..added /\ first > from
      /\ \A e \in (trimmed + 1)..added : e > from => first <= e
  <2>1. {e \in Entries : e > from} \subseteq Nat /\ {e \in Entries : e > from} # {}
    BY <1>2, <1>4 DEF Entries
  <2> QED
    BY <2>1, MinFacts DEF Entries
<1> HIDE DEF first
<1>6. last \in first..added
  <2>1. {added, first + EntriesPerRead - 1} \subseteq Nat
    BY <1>4, <1>5
  <2>2. last \in {added, first + EntriesPerRead - 1}
    BY <2>1, MinFacts
  <2>3. last <= added
    BY <2>1, MinFacts
  <2> QED
    BY <1>4, <1>5, <2>2, <2>3
<1> HIDE DEF last, p, from
<1>7. last - first + 1 \in Nat /\ last - first + 1 >= 1
  BY <1>4, <1>5, <1>6
<1>8. /\ entries \in Seq(Nat) /\ Len(entries) = last - first + 1 /\ entries # <<>>
      /\ \A i \in 1..Len(entries) : entries[i] = first + i - 1 /\ entries[i] \in 1..added
      /\ entries[1] = first
  <2>1. \A i \in 1..(last - first + 1) : first + i - 1 \in 1..added
    BY <1>4, <1>5, <1>6
  <2>2. entries \in Seq(Nat) /\ Len(entries) = last - first + 1
    BY <1>4, <1>7, <2>1
  <2>3. \A i \in 1..Len(entries) : entries[i] = first + i - 1
    BY <1>7, <2>2
  <2>4. entries # <<>> /\ 1 \in 1..Len(entries)
    BY <1>7, <2>2
  <2> HIDE DEF entries
  <2>5. entries[1] = first
    BY <1>4, <1>5, <2>3, <2>4
  <2> QED
    BY <2>1, <2>2, <2>3, <2>4, <2>5
<1> HIDE DEF entries
<1>9. r \in Reading /\ r.phase = "send" /\ r.entries = entries
  BY <1>8 DEF Reading
<1> HIDE DEF r
<1>10. reader'[c] = r
  BY <1>1, <1>2 DEF StreamTypes
<1>11. \A x \in (from + 1)..(first - 1) : x <= trimmed
  BY <1>4, <1>5
<1>12. ReadsFromCovered(c)'
  <2> SUFFICES ASSUME Orderly(p), stored[p] # Top
               PROVE  Covered(p, first - 1)
    BY <1>2, <1>3, <1>8, <1>9, <1>10 DEF ReadsFromCovered, p, Rest
  <2>1. Covered(p, from)
    BY <1>1, <1>2 DEF ReadsFromCovered, p, from
  <2> QED
    BY <1>1, <1>4, <1>5, <1>11, <2>1 DEF Covered, StreamTypes
<1>13. RepeatsOnlyNext(c)'
  <2> SUFFICES ASSUME Alone(p), setup.mode[c] # "first"
               PROVE  /\ repeats[p] <= Budget(p)
                      /\ stored[p] # Top => \A x \in (stored[p] + 1)..(first - 1) : x <= trimmed
                      /\ \A e \in heard[p] : e >= first =>
                           e = first /\ repeats[p] < Budget(p)
    BY <1>2, <1>3, <1>8, <1>9, <1>10 DEF RepeatsOnlyNext, Rest, p
  <2>1. repeats[p] <= Budget(p) /\ OnlyNext(p, from) /\ stored[p] \in {Top, from}
    BY <1>1, <1>2 DEF RepeatsOnlyNext, p, from
  <2>2. ASSUME NEW e \in heard[p], e >= first
        PROVE  e = first /\ repeats[p] < Budget(p)
    <3>1. e \in Nat /\ e > trimmed /\ e > from
      BY <1>1, <1>4, <1>5, <2>2 DEF StreamTypes
    <3>2. /\ \A x \in (from + 1)..(e - 1) : x <= trimmed
          /\ repeats[p] < Budget(p)
      BY <2>1, <3>1 DEF OnlyNext
    <3>3. ~(first \in (from + 1)..(e - 1))
      BY <1>4, <1>5, <3>2
    <3> QED
      BY <1>4, <1>5, <2>2, <3>1, <3>2, <3>3
  <2> QED
    BY <1>11, <2>1, <2>2
<1>14. Answered(c)'
  BY <1>2, <1>8, <1>9, <1>10 DEF Answered, Rest
<1> QED
  BY <1>2, <1>9, <1>12, <1>13, <1>14, ReaderStep
----------------------------------------------------------------------------
(* The steps that send entries and keep their ids. *)

\* What a consumer does with an answer leaves a consumer of another place alone.
LEMMA OtherPlace ==
  ASSUME StreamInvariant, NEW c \in Consumers, NEW d \in Consumers,
         PlaceOf(d) # PlaceOf(c), UNCHANGED <<setup, added, trimmed, crashes>>,
         reader'[d] = reader[d],
         \A q \in Places \ {PlaceOf(c)} :
           /\ stored'[q] = stored[q] /\ heard'[q] = heard[q]
           /\ origin'[q] = origin[q] /\ repeats'[q] = repeats[q]
  PROVE  ReadsFromCovered(d)' /\ RepeatsOnlyNext(d)'
<1> DEFINE q == PlaceOf(d)
<1>1. q \in Places /\ ReadsFromCovered(d) /\ RepeatsOnlyNext(d)
  BY PlaceFacts DEF StreamInvariant, CoveredSoFar
<1>2. /\ q' = q /\ Alone(q)' = Alone(q) /\ Orderly(q)' = Orderly(q)
      /\ \A m : Covered(q, m)' = Covered(q, m) /\ OnlyNext(q, m)' = OnlyNext(q, m)
      /\ Budget(q)' = Budget(q)
  BY <1>1 DEF PlaceOf, Alone, Orderly, Covered, OnlyNext, Budget
<1>3. /\ stored'[q] = stored[q] /\ heard'[q] = heard[q]
      /\ origin'[q] = origin[q] /\ repeats'[q] = repeats[q]
  BY <1>1
<1> HIDE DEF q
<1>4. ReadsFromCovered(d)'
  BY <1>1, <1>2, <1>3 DEF ReadsFromCovered, q
<1>5. RepeatsOnlyNext(d)'
  BY <1>1, <1>2, <1>3 DEF RepeatsOnlyNext, q
<1> QED
  BY <1>4, <1>5

\* An entry is sent on.
LEMMA SendStep ==
  ASSUME StreamInvariant, NEW c \in Consumers, send(c)
  PROVE  StreamInvariant'
<1>1. StreamTypes /\ ReadsFromCovered(c) /\ RepeatsOnlyNext(c)
  BY DEF StreamInvariant, CoveredSoFar
<1> PICK p \in Places : p = PlaceOf(c)
  BY <1>1, PlaceFacts
<1>3. /\ reader[c].phase = "send" /\ reader[c].entries \in Seq(Nat)
      /\ reader[c].entries # <<>>
      /\ Head(reader[c].entries) = reader[c].entries[1]
      /\ \A i \in 1..Len(reader[c].entries) : reader[c].entries[i] \in 1..added
      /\ reader[c].entries[1] \in 1..added
  <2>1. reader[c] \in Reading /\ reader[c].phase = "send"
    BY <1>1 DEF StreamTypes, send
  <2>2. reader[c].entries \in Seq(Nat)
    BY <2>1 DEF Reading
  <2>3. Answered(c)
    BY DEF StreamInvariant, KeepsWhatItSent
  <2>4. /\ reader[c].entries # <<>>
        /\ \A i \in 1..Len(reader[c].entries) : reader[c].entries[i] \in 1..added
    BY <2>1, <2>3 DEF Answered
  <2>5. 1 \in 1..Len(reader[c].entries) /\ Head(reader[c].entries) = reader[c].entries[1]
    BY <2>2, <2>4
  <2> QED
    BY <2>1, <2>2, <2>4, <2>5
<1> PICK entries \in Seq(Nat) : entries = reader[c].entries
  BY <1>3
<1> PICK e \in 1..added : e = entries[1]
  BY <1>3
<1> PICK more : more = IF e \in heard[p] /\ repeats[p] <= MaxCrashes
                       THEN repeats[p] + 1 ELSE repeats[p]
  OBVIOUS
<1>2. /\ repeats' = [repeats EXCEPT ![p] = more]
      /\ heard' = [heard EXCEPT ![p] = heard[p] \cup {e}]
      /\ reader' = [reader EXCEPT ![c].phase = "store"]
      /\ UNCHANGED <<setup, added, trimmed, addCounter, stored, origin, crashes>>
  BY <1>1, <1>3 DEF send, StreamTypes
<1>4. /\ reader'[c] = [phase |-> "store", entries |-> entries]
      /\ \A d \in Consumers \ {c} : reader'[d] = reader[d]
  <2>1. reader[c] \in [phase : {"send", "store"}, entries : Seq(Nat)]
    BY <1>1, <1>3 DEF StreamTypes, Reading
  <2>2. reader'[c] = [reader[c] EXCEPT !.phase = "store"]
    BY <1>1, <1>2 DEF StreamTypes
  <2>3. reader'[c] = [phase |-> "store", entries |-> entries]
    BY <2>1, <2>2
  <2> QED
    BY <1>1, <1>2, <2>3 DEF StreamTypes
<1>5. more \in Nat /\ MaxCrashes \in Nat
  BY <1>1, StreamsAssumption DEF StreamTypes
<1>6. /\ heard'[p] = heard[p] \cup {e} /\ repeats'[p] = more
      /\ \A q \in Places \ {p} : heard'[q] = heard[q] /\ repeats'[q] = repeats[q]
      /\ \A q \in Places : heard[q] \subseteq heard'[q]
  BY <1>1, <1>2 DEF StreamTypes
<1>7. StreamTypes'
  <2>1. reader' \in [Consumers -> Reading]
    BY <1>1, <1>2, <1>3, <1>4 DEF StreamTypes, Reading
  <2>2. heard' \in [Places -> SUBSET (1..added)] /\ repeats' \in [Places -> Nat]
    BY <1>1, <1>2, <1>3, <1>5 DEF StreamTypes
  <2> QED
    BY <1>1, <1>2, <2>1, <2>2 DEF StreamTypes
<1>8. /\ \A d : PlaceOf(d)' = PlaceOf(d)
      /\ \A q : Alone(q)' = Alone(q) /\ Orderly(q)' = Orderly(q) /\ Budget(q)' = Budget(q)
      /\ \A q \in Places : \A n : Covered(q, n) => Covered(q, n)'
  BY <1>2, <1>6 DEF PlaceOf, Alone, Orderly, Budget, Covered
<1>9. KeepsWhatItSent'
  <2>1. ASSUME NEW d \in Consumers
        PROVE  /\ Answered(d)'
               /\ (reader[d].phase = "store" => reader[d].entries[1] \in heard[PlaceOf(d)])'
    <3>1. Answered(d) /\ PlaceOf(d) \in Places
      BY <1>1, PlaceFacts DEF StreamInvariant, KeepsWhatItSent
    <3>2. CASE d = c
      BY <1>2, <1>3, <1>4, <1>6, <1>8, <3>1, <3>2 DEF Answered
    <3>3. CASE d # c
      <4>1. reader[d].phase = "store" => reader[d].entries[1] \in heard[PlaceOf(d)]
        BY DEF StreamInvariant, KeepsWhatItSent
      <4> QED
        BY <1>2, <1>4, <1>6, <1>8, <3>1, <3>3, <4>1 DEF Answered
    <3> QED
      BY <3>2, <3>3
  <2> QED
    BY <1>2, <2>1 DEF StreamInvariant, KeepsWhatItSent
<1>10. CoveredSoFar'
  <2>1. \A q \in Places : (Orderly(q) /\ stored[q] # Top => Covered(q, stored[q]))'
    BY <1>2, <1>8 DEF StreamInvariant, CoveredSoFar
  <2>2. ASSUME NEW d \in Consumers \ {c} PROVE ReadsFromCovered(d)'
    <3>1. ReadsFromCovered(d) /\ PlaceOf(d) \in Places
      BY PlaceFacts DEF StreamInvariant, CoveredSoFar
    <3> QED
      BY <3>1, <1>2, <1>4, <1>8 DEF ReadsFromCovered
  <2>3. ReadsFromCovered(c)'
    <3>1. ASSUME Orderly(p), stored[p] # Top PROVE Covered(p, e)'
      <4>1. Covered(p, e - 1)
        BY <1>1, <1>2, <1>3, <3>1 DEF ReadsFromCovered
      <4>2. origin[p] \in Nat /\ e \in Nat /\ UNCHANGED <<origin, trimmed>>
        BY <1>1, <1>2, <1>3 DEF StreamTypes
      <4> QED
        BY <4>1, <4>2, <1>6 DEF Covered
    <3> QED
      BY <1>2, <1>3, <1>4, <1>8, <3>1 DEF ReadsFromCovered
  <2> QED
    BY <2>1, <2>2, <2>3 DEF CoveredSoFar
<1>11. ASSUME NEW d \in Consumers PROVE RepeatsOnlyNext(d)'
  <2>1. CASE d = c
    <3> SUFFICES ASSUME Alone(p), setup.mode[c] # "first"
                 PROVE  /\ more <= Budget(p)
                        /\ stored[p] # Top => \A x \in (stored[p] + 1)..(e - 1) : x <= trimmed
                        /\ \A x \in heard[p] \cup {e} : x <= e
      BY <1>2, <1>3, <1>4, <1>6, <1>8, <2>1 DEF RepeatsOnlyNext
    <3>1. /\ repeats[p] <= Budget(p)
          /\ stored[p] # Top => \A x \in (stored[p] + 1)..(e - 1) : x <= trimmed
          /\ \A x \in heard[p] : x >= e => x = e /\ repeats[p] < Budget(p)
      BY <1>1, <1>2, <1>3 DEF RepeatsOnlyNext
    <3>2. \A x \in heard[p] : x \in Nat /\ e \in Nat
      BY <1>1, <1>3 DEF StreamTypes
    <3>3. repeats[p] \in Nat /\ Budget(p) \in Nat
      BY <1>1 DEF StreamTypes, Budget
    <3>4. more <= Budget(p)
      BY <3>1, <3>2, <3>3
    <3>5. \A x \in heard[p] \cup {e} : x <= e
      BY <1>3, <3>1, <3>2
    <3> QED
      BY <3>1, <3>4, <3>5
  <2>2. CASE d # c /\ PlaceOf(d) = p
    BY <1>1, <1>8, <2>2, AloneIsOne DEF RepeatsOnlyNext
  <2>3. CASE d # c /\ PlaceOf(d) # p
    BY <1>2, <1>4, <1>6, <2>3, OtherPlace
  <2> QED
    BY <2>1, <2>2, <2>3
<1> QED
  BY <1>7, <1>9, <1>10, <1>11 DEF StreamInvariant

\* Consumers that share a place keep their id in their program.
LEMMA SharedIsProgram ==
  ASSUME StreamTypes, NEW c \in Consumers, NEW d \in Consumers, d # c,
         PlaceOf(d) = PlaceOf(c)
  PROVE  PlaceOf(c) \in Programs
<1>1. CASE setup.mode[c] = "persistent"
  BY <1>1, PlaceFacts
<1>2. CASE setup.mode[c] # "persistent"
  <2>1. PlaceOf(c) = c /\ c \notin Programs
    BY <1>2, PlaceFacts
  <2>2. setup.mode[d] # "persistent"
    BY <2>1, PlaceFacts
  <2> QED
    BY <2>1, <2>2, PlaceFacts
<1> QED
  BY <1>1, <1>2

\* What is left of entries that follow one another.
LEMMA NextOfRun ==
  ASSUME NEW n, NEW s \in Seq(Nat), s # <<>>, Len(s) # 1,
         \A i \in 1..Len(s) : s[i] = s[1] + i - 1 /\ s[i] \in 1..n
  PROVE  /\ Tail(s) # <<>> /\ Tail(s)[1] = s[1] + 1
         /\ \A i \in 1..Len(Tail(s)) :
              Tail(s)[i] = Tail(s)[1] + i - 1 /\ Tail(s)[i] \in 1..n
<1> PICK t \in Seq(Nat) : t = Tail(s)
  BY HeadAndTail
<1>1. /\ Len(s) \in Nat /\ Len(s) >= 2 /\ Len(t) = Len(s) - 1 /\ t # <<>>
      /\ s[1] \in Nat /\ \A i \in 1..Len(t) : i + 1 \in 1..Len(s) /\ t[i] = s[i + 1]
  BY HeadAndTail
<1>2. ASSUME NEW i \in 1..Len(t) PROVE t[i] = s[1] + i /\ t[i] \in 1..n
  <2>1. t[i] = s[i + 1] /\ i + 1 \in 1..Len(s) /\ i \in Int
    BY <1>1
  <2>2. s[i + 1] = s[1] + (i + 1) - 1 /\ s[i + 1] \in 1..n
    BY <2>1
  <2> QED
    BY <1>1, <2>1, <2>2
<1>3. 1 \in 1..Len(t) /\ t[1] = s[1] + 1
  BY <1>1, <1>2
<1>4. ASSUME NEW i \in 1..Len(t) PROVE t[i] = t[1] + i - 1
  <2>1. i \in Int /\ t[i] = s[1] + i
    BY <1>1, <1>2
  <2> QED
    BY <1>1, <1>3, <2>1
<1> QED
  BY <1>1, <1>2, <1>3, <1>4

\* The id of the entry that was sent on is kept.
LEMMA StoreStep ==
  ASSUME StreamInvariant, NEW c \in Consumers, setLastReadId(c)
  PROVE  StreamInvariant'
<1>1. StreamTypes /\ ReadsFromCovered(c) /\ RepeatsOnlyNext(c)
  BY DEF StreamInvariant, CoveredSoFar
<1> PICK p \in Places : p = PlaceOf(c)
  BY <1>1, PlaceFacts
<1>3. /\ reader[c].phase = "store" /\ reader[c].entries \in Seq(Nat)
      /\ Answered(c)
      /\ reader[c].entries[1] \in heard[p]
  <2>1. reader[c] \in Reading /\ reader[c].phase = "store"
    BY <1>1 DEF StreamTypes, setLastReadId
  <2>2. reader[c].entries \in Seq(Nat)
    BY <2>1 DEF Reading
  <2> QED
    BY <2>1, <2>2 DEF StreamInvariant, KeepsWhatItSent
<1> PICK entries \in Seq(Nat) : entries = reader[c].entries
  BY <1>3
<1>4. /\ entries # <<>> /\ Head(entries) = entries[1]
      /\ \A i \in 1..Len(entries) : entries[i] = entries[1] + i - 1 /\ entries[i] \in 1..added
      /\ 1 \in 1..Len(entries)
  BY <1>3 DEF Answered
<1> PICK e \in 1..added : e = entries[1]
  BY <1>4
<1>2. PICK r : r = IF Len(entries) = 1 THEN Idle ELSE [phase |-> "send", entries |-> Tail(entries)]
  OBVIOUS
<1>5. added \in Nat /\ e \in heard[p] /\ e \in Nat
  BY <1>1, <1>3 DEF StreamTypes
<1>6. /\ stored' = [stored EXCEPT ![p] = e]
      /\ origin' = [origin EXCEPT ![p] = IF stored[p] = Top THEN e - 1 ELSE origin[p]]
      /\ reader' = [reader EXCEPT ![c] = r]
      /\ UNCHANGED <<setup, added, trimmed, addCounter, heard, repeats, crashes>>
  BY <1>1, <1>2, <1>4 DEF setLastReadId, Stored, StreamTypes
<1>7. /\ r \in Reading /\ r.phase \in {"idle", "send"}
      /\ r.phase = "send" =>
           /\ r.entries # <<>> /\ r.entries[1] = e + 1
           /\ \A i \in 1..Len(r.entries) :
                r.entries[i] = r.entries[1] + i - 1 /\ r.entries[i] \in 1..added
  <2>1. CASE Len(entries) = 1
    <3>1. r = Idle
      BY <1>2, <2>1
    <3> QED
      BY <3>1 DEF Reading, Idle
  <2>2. CASE Len(entries) # 1
    <3>1. r = [phase |-> "send", entries |-> Tail(entries)]
      BY <1>2, <2>2
    <3> PICK t \in Seq(Nat) : t = Tail(entries)
      BY <1>4, HeadAndTail
    <3>4. /\ t # <<>> /\ t[1] = e + 1
          /\ \A i \in 1..Len(t) : t[i] = t[1] + i - 1 /\ t[i] \in 1..added
      <4>1. /\ entries # <<>>
            /\ \A i \in 1..Len(entries) :
                 entries[i] = entries[1] + i - 1 /\ entries[i] \in 1..added
        BY <1>4
      <4>2. /\ Tail(entries) # <<>> /\ Tail(entries)[1] = entries[1] + 1
            /\ \A i \in 1..Len(Tail(entries)) :
                 Tail(entries)[i] = Tail(entries)[1] + i - 1 /\ Tail(entries)[i] \in 1..added
        BY <2>2, <4>1, NextOfRun
      <4> QED
        BY <4>2
    <3>6. r \in Reading /\ r.phase = "send" /\ r.entries = t
      BY <3>1 DEF Reading
    <3> QED
      BY <3>4, <3>6
  <2> QED
    BY <2>1, <2>2
<1>8. /\ reader'[c] = r /\ \A d \in Consumers \ {c} : reader'[d] = reader[d]
      /\ stored'[p] = e
      /\ stored[p] # Top => origin'[p] = origin[p]
      /\ stored[p] = Top => origin'[p] = e - 1
      /\ \A q \in Places \ {p} : stored'[q] = stored[q] /\ origin'[q] = origin[q]
  BY <1>1, <1>6 DEF StreamTypes
<1>9. StreamTypes'
  <2>1. stored' \in [Places -> Ids] /\ origin' \in [Places -> Nat]
    BY <1>1, <1>5, <1>6 DEF StreamTypes, Ids
  <2>2. reader' \in [Consumers -> Reading]
    BY <1>1, <1>6, <1>7 DEF StreamTypes
  <2> QED
    BY <1>1, <1>6, <2>1, <2>2 DEF StreamTypes
<1>10. /\ \A d : PlaceOf(d)' = PlaceOf(d)
       /\ \A q : Alone(q)' = Alone(q) /\ Orderly(q)' = Orderly(q) /\ Budget(q)' = Budget(q)
       /\ \A q \in Places \ {p} : \A n : Covered(q, n)' = Covered(q, n)
       /\ stored[p] # Top => \A n : Covered(p, n)' = Covered(p, n)
  BY <1>6, <1>8 DEF PlaceOf, Alone, Orderly, Budget, Covered
<1>11. KeepsWhatItSent'
  <2>1. ASSUME NEW d \in Consumers
        PROVE  /\ Answered(d)'
               /\ (reader[d].phase = "store" => reader[d].entries[1] \in heard[PlaceOf(d)])'
    <3>1. Answered(d) /\ (reader[d].phase = "store" => reader[d].entries[1] \in heard[PlaceOf(d)])
      BY DEF StreamInvariant, KeepsWhatItSent
    <3>2. CASE d = c
      BY <1>6, <1>7, <1>8, <3>2 DEF Answered
    <3>3. CASE d # c
      BY <1>6, <1>8, <1>10, <3>1, <3>3 DEF Answered
    <3> QED
      BY <3>2, <3>3
  <2>2. (setup.kept # Top => \A q \in Programs : stored[q] # Top)'
    BY <1>5, <1>6, <1>8 DEF StreamInvariant, KeepsWhatItSent, Top, Places
  <2> QED
    BY <2>1, <2>2 DEF KeepsWhatItSent
<1>12. Orderly(p) => Covered(p, e)'
  <2>1. CASE stored[p] # Top
    BY <1>1, <1>3, <1>10, <2>1 DEF ReadsFromCovered
  <2>2. CASE stored[p] = Top
    BY <1>5, <1>6, <1>8, <2>2 DEF Covered
  <2> QED
    BY <2>1, <2>2
<1>13. CoveredSoFar'
  <2>1. ASSUME NEW q \in Places
        PROVE  (Orderly(q) /\ stored[q] # Top => Covered(q, stored[q]))'
    <3>1. Orderly(q) /\ stored[q] # Top => Covered(q, stored[q])
      BY DEF StreamInvariant, CoveredSoFar
    <3>2. CASE q = p
      BY <1>8, <1>10, <1>12, <3>2
    <3>3. CASE q # p
      BY <1>8, <1>10, <3>1, <3>3
    <3> QED
      BY <3>2, <3>3
  <2>2. ASSUME NEW d \in Consumers PROVE ReadsFromCovered(d)'
    <3>1. ReadsFromCovered(d) /\ PlaceOf(d) \in Places
      BY <1>1, PlaceFacts DEF StreamInvariant, CoveredSoFar
    <3>2. CASE d = c
      <4>1. r.phase = "send" => r.entries[1] - 1 = e
        BY <1>5, <1>7
      <4> QED
        BY <1>7, <1>8, <1>10, <1>12, <3>2, <4>1 DEF ReadsFromCovered
    <3>3. CASE d # c /\ PlaceOf(d) = p
      <4>1. p \in Programs
        BY <1>1, <3>3, SharedIsProgram
      <4>2. Orderly(p) => stored[p] # Top
        BY <1>1, <3>3, <4>1, AloneIsOne DEF Orderly, StreamInvariant, KeepsWhatItSent
      <4> QED
        BY <1>8, <1>10, <3>1, <3>3, <4>2 DEF ReadsFromCovered
    <3>4. CASE d # c /\ PlaceOf(d) # p
      BY <1>6, <1>8, <3>4, OtherPlace
    <3> QED
      BY <3>2, <3>3, <3>4
  <2> QED
    BY <2>1, <2>2 DEF CoveredSoFar
<1>14. ASSUME NEW d \in Consumers PROVE RepeatsOnlyNext(d)'
  <2>1. CASE d = c
    <3>1. /\ PlaceOf(c)' = p /\ Alone(p)' = Alone(p) /\ Budget(p)' = Budget(p)
          /\ UNCHANGED <<setup, trimmed, heard, repeats>>
          /\ reader'[c] = r /\ stored'[p] = e
      BY <1>6, <1>8, <1>10
    <3> SUFFICES ASSUME Alone(p), setup.mode[c] # "first"
                 PROVE  /\ repeats[p] <= Budget(p)
                        /\ OnlyNext(p, e)'
                        /\ r.phase = "send" =>
                             /\ \A x \in (e + 1)..(r.entries[1] - 1) : x <= trimmed
                             /\ \A x \in heard[p] : ~(x >= r.entries[1])
      BY <1>7, <2>1, <3>1 DEF RepeatsOnlyNext
    <3>2. repeats[p] <= Budget(p) /\ \A x \in heard[p] : x <= e
      BY <1>1, <1>3 DEF RepeatsOnlyNext
    <3>3. \A x \in heard[p] : x \in Nat
      BY <1>1 DEF StreamTypes
    <3>4. OnlyNext(p, e)'
      BY <1>5, <3>1, <3>2, <3>3 DEF OnlyNext
    <3>5. ASSUME r.phase = "send"
          PROVE  /\ \A x \in (e + 1)..(r.entries[1] - 1) : x <= trimmed
                 /\ \A x \in heard[p] : ~(x >= r.entries[1])
      <4>1. r.entries[1] = e + 1
        BY <1>7, <3>5
      <4>2. \A x \in (e + 1)..((e + 1) - 1) : x <= trimmed
        BY <1>5
      <4>3. \A x \in heard[p] : ~(x >= e + 1)
        BY <1>5, <3>2, <3>3
      <4> QED
        BY <4>1, <4>2, <4>3
    <3> QED
      BY <3>2, <3>4, <3>5
  <2>2. CASE d # c /\ PlaceOf(d) = p
    BY <1>1, <1>10, <2>2, AloneIsOne DEF RepeatsOnlyNext
  <2>3. CASE d # c /\ PlaceOf(d) # p
    BY <1>6, <1>8, <2>3, OtherPlace
  <2> QED
    BY <2>1, <2>2, <2>3
<1> QED
  BY <1>9, <1>11, <1>13, <1>14 DEF StreamInvariant
----------------------------------------------------------------------------
(* The steps of the producer, and a crash. *)

\* An entry is added, or the stream trimmed: nothing that a consumer says of the
\* stream stops being true.
LEMMA GrowStep ==
  ASSUME StreamInvariant, (\E sent \in BOOLEAN : onMsg(sent)) \/ tryTrim
  PROVE  StreamInvariant'
<1>1. StreamTypes
  BY DEF StreamInvariant
<1>2. /\ UNCHANGED <<setup, stored, reader, heard, origin, repeats, crashes>>
      /\ addCounter' \in Nat
      /\ added' \in Nat /\ added <= added'
      /\ trimmed' \in Nat /\ trimmed <= trimmed' /\ trimmed' <= added'
  <2>1. added \in Nat /\ trimmed \in 0..added /\ addCounter \in Nat
    BY <1>1 DEF StreamTypes
  <2>2. CASE \E sent \in BOOLEAN : onMsg(sent)
    <3>1. /\ UNCHANGED <<setup, stored, reader, heard, origin, repeats, crashes>>
          /\ addCounter' = IF addCounter < AddsToTrim THEN addCounter + 1 ELSE addCounter
          /\ (added' = added + 1 /\ Trim(added + 1)) \/ UNCHANGED <<added, trimmed>>
      BY <2>2 DEF onMsg
    <3>2. CASE added' = added + 1 /\ Trim(added + 1)
      BY <2>1, <3>1, <3>2 DEF Trim
    <3>3. CASE UNCHANGED <<added, trimmed>>
      BY <2>1, <3>1, <3>3
    <3> QED
      BY <3>1, <3>2, <3>3
  <2>3. CASE tryTrim
    BY <2>1, <2>3 DEF tryTrim, Trim
  <2> QED
    BY <2>2, <2>3
<1>3. /\ \A d : PlaceOf(d)' = PlaceOf(d)
      /\ \A q : Alone(q)' = Alone(q) /\ Orderly(q)' = Orderly(q) /\ Budget(q)' = Budget(q)
  BY <1>2 DEF PlaceOf, Alone, Orderly, Budget
<1>4. \A q \in Places : \A n : Covered(q, n) => Covered(q, n)'
  <2> SUFFICES ASSUME NEW q \in Places, NEW n, Covered(q, n),
                      NEW e \in (origin[q] + 1)..n
               PROVE  e \in heard[q] \/ e <= trimmed'
    BY <1>2 DEF Covered
  <2>1. (e \in heard[q] \/ e <= trimmed) /\ e \in Int
    BY DEF Covered
  <2> QED
    BY <1>1, <1>2, <2>1 DEF StreamTypes
<1>5. ASSUME NEW q \in Places, NEW n \in Int, OnlyNext(q, n)
      PROVE  OnlyNext(q, n)'
  <2> SUFFICES ASSUME NEW e \in heard[q], e > n, e > trimmed'
               PROVE  /\ \A x \in (n + 1)..(e - 1) : x <= trimmed'
                      /\ repeats[q] < Budget(q)
    BY <1>2, <1>3 DEF OnlyNext
  <2>1. e \in Nat /\ trimmed \in Nat
    BY <1>1 DEF StreamTypes
  <2>2. /\ \A x \in (n + 1)..(e - 1) : x <= trimmed
        /\ repeats[q] < Budget(q)
    BY <1>2, <2>1, <1>5 DEF OnlyNext
  <2> QED
    BY <1>2, <2>1, <2>2
<1>6. StreamTypes'
  <2>1. heard' \in [Places -> SUBSET (1..added')]
    BY <1>1, <1>2 DEF StreamTypes
  <2> QED
    BY <1>1, <1>2, <2>1 DEF StreamTypes
<1>7. KeepsWhatItSent'
  <2>1. ASSUME NEW c \in Consumers PROVE Answered(c)'
    <3>1. Answered(c)
      BY DEF StreamInvariant, KeepsWhatItSent
    <3>2. \A x \in 1..added : x \in 1..added'
      BY <1>1, <1>2 DEF StreamTypes
    <3> QED
      BY <1>2, <3>1, <3>2 DEF Answered
  <2> QED
    BY <1>2, <1>3, <2>1 DEF StreamInvariant, KeepsWhatItSent
<1>8. CoveredSoFar'
  <2>1. \A q \in Places : (Orderly(q) /\ stored[q] # Top => Covered(q, stored[q]))'
    BY <1>2, <1>3, <1>4 DEF StreamInvariant, CoveredSoFar
  <2>2. ASSUME NEW c \in Consumers PROVE ReadsFromCovered(c)'
    <3>1. ReadsFromCovered(c) /\ PlaceOf(c) \in Places
      BY <1>1, PlaceFacts DEF StreamInvariant, CoveredSoFar
    <3> QED
      BY <1>2, <1>3, <1>4, <3>1 DEF ReadsFromCovered
  <2> QED
    BY <2>1, <2>2 DEF CoveredSoFar
<1>9. ASSUME NEW c \in Consumers PROVE RepeatsOnlyNext(c)'
  <2> PICK p \in Places : p = PlaceOf(c)
    BY <1>1, PlaceFacts
  <2>1. RepeatsOnlyNext(c)
    BY DEF StreamInvariant
  <2>2. /\ PlaceOf(c)' = p /\ Alone(p)' = Alone(p) /\ Budget(p)' = Budget(p)
    BY <1>3
  <2>3. /\ stored[p] \in Int
        /\ reader[c].phase = "blocked" => reader[c].from \in Int
    BY <1>1 DEF StreamTypes, Ids, Top, Reading
  <2>4. \A x \in Int : x <= trimmed => x <= trimmed'
    BY <1>1, <1>2 DEF StreamTypes
  <2> QED
    BY <1>2, <1>5, <2>1, <2>2, <2>3, <2>4 DEF RepeatsOnlyNext
<1> QED
  BY <1>6, <1>7, <1>8, <1>9 DEF StreamInvariant

\* A program ends: its consumers are not connected, what they keep in themselves
\* is gone, and what they keep in the program stays.
LEMMA CrashStep ==
  ASSUME StreamInvariant, NEW program \in Programs, crash(program)
  PROVE  StreamInvariant'
<1>1. StreamTypes
  BY DEF StreamInvariant
<1> PICK mine : mine = {c \in Consumers : setup.program[c] = program}
  OBVIOUS
<1>2. /\ crashes' = [crashes EXCEPT ![program] = crashes[program] + 1]
      /\ reader' = [c \in Consumers |-> IF c \in mine THEN Unconnected ELSE reader[c]]
      /\ stored' = [p \in Places |-> IF p \in mine THEN Top ELSE stored[p]]
      /\ heard' = [p \in Places |-> IF p \in mine THEN {} ELSE heard[p]]
      /\ repeats' = [p \in Places |-> IF p \in mine THEN 0 ELSE repeats[p]]
      /\ UNCHANGED <<setup, added, trimmed, addCounter, origin>>
  BY <1>1 DEF crash, StreamTypes
<1>3. StreamTypes'
  <2>1. crashes' \in [Programs -> Nat]
    BY <1>1, <1>2 DEF StreamTypes
  <2>2. reader' \in [Consumers -> Reading]
    BY <1>1, <1>2 DEF StreamTypes, Reading, Unconnected
  <2>3. stored' \in [Places -> Ids] /\ repeats' \in [Places -> Nat]
    BY <1>1, <1>2 DEF StreamTypes, Ids
  <2>4. heard' \in [Places -> SUBSET (1..added)]
    BY <1>1, <1>2 DEF StreamTypes
  <2> QED
    BY <1>1, <1>2, <2>1, <2>2, <2>3, <2>4 DEF StreamTypes
<1>4. \A p \in Programs : p \in Places /\ p \notin mine
  BY StreamsAssumption DEF Places
<1>5. /\ \A d : PlaceOf(d)' = PlaceOf(d)
      /\ \A q : Alone(q)' = Alone(q) /\ Orderly(q)' = Orderly(q)
  BY <1>2 DEF PlaceOf, Alone, Orderly
<1>6. ASSUME NEW d \in Consumers
      PROVE  /\ d \in mine => reader'[d].phase = "unconnected"
             /\ d \notin mine => reader'[d] = reader[d] /\ PlaceOf(d) \notin mine
  BY <1>1, <1>2, <1>4, PlaceFacts DEF Unconnected
<1>7. ASSUME NEW q \in Places \ mine
      PROVE  /\ stored'[q] = stored[q] /\ heard'[q] = heard[q] /\ repeats'[q] = repeats[q]
             /\ \A n : Covered(q, n)' = Covered(q, n)
             /\ Budget(q) <= Budget(q)' /\ Budget(q) \in Nat /\ Budget(q)' \in Nat
  <2>1. stored'[q] = stored[q] /\ heard'[q] = heard[q] /\ repeats'[q] = repeats[q]
    BY <1>2
  <2>2. \A n : Covered(q, n)' = Covered(q, n)
    BY <1>2, <2>1 DEF Covered
  <2>3. Budget(q) <= Budget(q)' /\ Budget(q) \in Nat /\ Budget(q)' \in Nat
    BY <1>1, <1>2 DEF Budget, StreamTypes
  <2> QED
    BY <2>1, <2>2, <2>3
<1>8. KeepsWhatItSent'
  <2>1. ASSUME NEW d \in Consumers
        PROVE  /\ Answered(d)'
               /\ (reader[d].phase = "store" => reader[d].entries[1] \in heard[PlaceOf(d)])'
    <3>1. Answered(d) /\ (reader[d].phase = "store" => reader[d].entries[1] \in heard[PlaceOf(d)])
      BY DEF StreamInvariant, KeepsWhatItSent
    <3>2. PlaceOf(d) \in Places
      BY <1>1, PlaceFacts
    <3>3. CASE d \in mine
      BY <1>6, <3>3 DEF Answered
    <3>4. CASE d \notin mine
      BY <1>2, <1>5, <1>6, <1>7, <3>1, <3>2, <3>4 DEF Answered
    <3> QED
      BY <3>3, <3>4
  <2>2. (setup.kept # Top => \A q \in Programs : stored[q] # Top)'
    BY <1>2, <1>4, <1>7 DEF StreamInvariant, KeepsWhatItSent
  <2> QED
    BY <2>1, <2>2 DEF KeepsWhatItSent
<1>9. CoveredSoFar'
  <2>1. ASSUME NEW q \in Places
        PROVE  (Orderly(q) /\ stored[q] # Top => Covered(q, stored[q]))'
    <3>1. Orderly(q) /\ stored[q] # Top => Covered(q, stored[q])
      BY DEF StreamInvariant, CoveredSoFar
    <3>2. q \in mine => stored'[q] = Top
      BY <1>2
    <3> QED
      BY <1>5, <1>7, <3>1, <3>2 DEF Top
  <2>2. ASSUME NEW d \in Consumers PROVE ReadsFromCovered(d)'
    <3>1. ReadsFromCovered(d) /\ PlaceOf(d) \in Places
      BY <1>1, PlaceFacts DEF StreamInvariant, CoveredSoFar
    <3>2. CASE d \in mine
      BY <1>6, <3>2 DEF ReadsFromCovered
    <3>3. CASE d \notin mine
      <4>1. PlaceOf(d) \in Places \ mine
        BY <1>6, <3>1, <3>3
      <4> QED
        BY <1>5, <1>6, <1>7, <3>1, <3>3, <4>1 DEF ReadsFromCovered
    <3> QED
      BY <3>2, <3>3
  <2> QED
    BY <2>1, <2>2 DEF CoveredSoFar
<1>10. ASSUME NEW d \in Consumers PROVE RepeatsOnlyNext(d)'
  <2> PICK p \in Places : p = PlaceOf(d)
    BY <1>1, PlaceFacts
  <2>1. RepeatsOnlyNext(d) /\ PlaceOf(d)' = p /\ Alone(p)' = Alone(p)
    BY <1>5 DEF StreamInvariant
  <2>2. CASE d \in mine /\ p \in mine
    <3>1. reader'[d].phase = "unconnected" /\ stored'[p] = Top /\ repeats'[p] = 0
      BY <1>2, <1>6, <2>2
    <3>2. Budget(p)' >= 0
      BY <1>3 DEF Budget, StreamTypes
    <3> QED
      BY <2>1, <3>1, <3>2 DEF RepeatsOnlyNext
  <2>3. CASE d \in mine /\ p \notin mine
    <3>1. p = program
      BY <1>1, <2>3, PlaceFacts
    <3>2. /\ reader'[d].phase = "unconnected"
          /\ stored'[p] = stored[p] /\ heard'[p] = heard[p] /\ repeats'[p] = repeats[p]
          /\ Budget(p) \in Nat /\ Budget(p)' = Budget(p) + 1
          /\ setup' = setup /\ trimmed' = trimmed
      BY <1>1, <1>2, <1>6, <1>7, <2>3, <3>1 DEF Budget, StreamTypes
    <3> SUFFICES ASSUME Alone(p), setup.mode[d] # "first"
                 PROVE  /\ repeats[p] <= Budget(p) + 1
                        /\ stored[p] # Top => OnlyNext(p, stored[p])'
      BY <2>1, <3>2 DEF RepeatsOnlyNext
    <3>3. repeats[p] <= Budget(p) /\ repeats[p] \in Nat
      BY <1>1, <2>1 DEF RepeatsOnlyNext, StreamTypes
    <3>4. ASSUME stored[p] # Top PROVE OnlyNext(p, stored[p])'
      <4> SUFFICES ASSUME NEW e \in heard[p], e > stored[p], e > trimmed
                   PROVE  \A x \in (stored[p] + 1)..(e - 1) : x <= trimmed
        BY <3>2, <3>3 DEF OnlyNext
      <4>1. e \in Nat /\ stored[p] \in Nat
        BY <1>1, <3>4 DEF StreamTypes, Ids
      <4>2. reader[d].phase \in {"idle", "unconnected", "asked", "blocked", "send", "store"}
        BY <1>1 DEF StreamTypes, Reading
      <4>3. CASE reader[d].phase \in {"idle", "unconnected", "asked"}
        BY <2>1, <3>4, <4>1, <4>3 DEF RepeatsOnlyNext, OnlyNext
      <4>4. CASE reader[d].phase = "blocked"
        BY <2>1, <3>4, <4>1, <4>4 DEF RepeatsOnlyNext, OnlyNext
      <4>5. CASE reader[d].phase \in {"send", "store"}
        <5> PICK first \in Nat : first = reader[d].entries[1]
          BY <4>5, FirstOfAnswer DEF StreamInvariant
        <5>1. /\ \A x \in (stored[p] + 1)..(first - 1) : x <= trimmed
              /\ e > first => FALSE
          BY <2>1, <3>4, <4>1, <4>5 DEF RepeatsOnlyNext
        <5>2. trimmed \in Nat
          BY <1>1 DEF StreamTypes
        <5>3. e <= first
          BY <4>1, <5>1
        <5> QED
          BY <4>1, <5>1, <5>3
      <4> QED
        BY <4>2, <4>3, <4>4, <4>5
    <3> QED
      BY <3>2, <3>3, <3>4
  <2>4. CASE d \notin mine
    <3>1. /\ reader'[d] = reader[d] /\ p \in Places \ mine
          /\ setup' = setup /\ trimmed' = trimmed
      BY <1>2, <1>6, <2>4
    <3>2. /\ stored'[p] = stored[p] /\ heard'[p] = heard[p] /\ repeats'[p] = repeats[p]
          /\ Budget(p) <= Budget(p)' /\ Budget(p) \in Nat /\ Budget(p)' \in Nat
          /\ repeats[p] \in Nat
      BY <1>1, <1>7, <3>1 DEF StreamTypes
    <3>3. \A n : OnlyNext(p, n) => OnlyNext(p, n)'
      BY <3>1, <3>2 DEF OnlyNext
    <3> QED
      BY <2>1, <3>1, <3>2, <3>3 DEF RepeatsOnlyNext
  <2> QED
    BY <2>2, <2>3, <2>4
<1> QED
  BY <1>3, <1>8, <1>9, <1>10 DEF StreamInvariant
----------------------------------------------------------------------------
(* The theorems. *)

\* At the start nothing is sent on, and a place has the id its program kept, or none.
LEMMA StreamStart ==
  ASSUME StreamInit
  PROVE  StreamInvariant
<1>1. StreamTypes
  <2>1. setup.kept \in {-1, 0}
    BY StreamsAssumption DEF StreamInit
  <2> QED
    BY <2>1 DEF StreamInit, StreamTypes, Ids, Top, Reading, Unconnected
<1>2. \A c \in Consumers : reader[c].phase = "unconnected"
  BY DEF StreamInit, Unconnected
<1>3. \A p \in Places : heard[p] = {} /\ repeats[p] = 0 /\ stored[p] \in {Top, 0} /\ origin[p] = 0
  <2>1. setup.kept \in {-1, 0}
    BY StreamsAssumption DEF StreamInit
  <2> QED
    BY <2>1 DEF StreamInit, Top
<1>4. KeepsWhatItSent
  BY <1>2 DEF StreamInit, KeepsWhatItSent, Answered, Places
<1>5. CoveredSoFar
  BY <1>2, <1>3 DEF CoveredSoFar, ReadsFromCovered, Covered
<1>6. ASSUME NEW c \in Consumers PROVE RepeatsOnlyNext(c)
  <2>1. PlaceOf(c) \in Places
    BY <1>1, PlaceFacts
  <2>2. \A p \in Places : Budget(p) >= 0
    BY DEF Budget, StreamInit
  <2> QED
    BY <1>2, <1>3, <2>1, <2>2 DEF RepeatsOnlyNext, OnlyNext
<1> QED
  BY <1>1, <1>4, <1>5, <1>6 DEF StreamInvariant

\* A step of the producer, of a consumer or of a program keeps the invariant.
LEMMA StreamStep ==
  ASSUME StreamInvariant, [StreamNext]_streamVars
  PROVE  StreamInvariant'
<1>1. CASE \E sent \in BOOLEAN : onMsg(sent)
  BY <1>1, GrowStep
<1>2. CASE tryTrim
  BY <1>2, GrowStep
<1>3. ASSUME NEW c \in Consumers, Reads(c) PROVE StreamInvariant'
  BY <1>3, RestingStep, BlockStep, AnswerStep, SendStep, StoreStep DEF Reads
<1>4. ASSUME NEW p \in Programs, crash(p) PROVE StreamInvariant'
  BY <1>4, CrashStep
<1>5. CASE UNCHANGED streamVars
  <2>1. UNCHANGED <<setup, added, trimmed, addCounter, stored, reader, heard, origin, repeats, crashes>>
    BY <1>5 DEF streamVars
  <2>2. /\ \A c : PlaceOf(c)' = PlaceOf(c)
        /\ \A p : Alone(p)' = Alone(p) /\ Orderly(p)' = Orderly(p) /\ Budget(p)' = Budget(p)
        /\ \A p, n : Covered(p, n)' = Covered(p, n) /\ OnlyNext(p, n)' = OnlyNext(p, n)
    BY <2>1 DEF PlaceOf, Alone, Orderly, Budget, Covered, OnlyNext
  <2>3. StreamTypes'
    BY <2>1 DEF StreamInvariant, StreamTypes
  <2>4. KeepsWhatItSent'
    BY <2>1, <2>2 DEF StreamInvariant, KeepsWhatItSent, Answered
  <2>5. CoveredSoFar'
    BY <2>1, <2>2 DEF StreamInvariant, CoveredSoFar, ReadsFromCovered
  <2>6. \A c \in Consumers : RepeatsOnlyNext(c)'
    BY <2>1, <2>2 DEF StreamInvariant, RepeatsOnlyNext
  <2> QED
    BY <2>3, <2>4, <2>5, <2>6 DEF StreamInvariant
<1> QED
  BY <1>1, <1>2, <1>3, <1>4, <1>5 DEF StreamNext

\* What is kept, what was sent on and what each consumer is doing agree in every
\* state the producer, the consumers and the crashes of their programs reach.
THEOREM StreamSafety == StreamSpec => []StreamInvariant
<1>1. StreamInit => StreamInvariant
  BY StreamStart
<1>2. StreamInvariant /\ [StreamNext]_streamVars => StreamInvariant'
  BY StreamStep
<1> QED
  BY <1>1, <1>2, PTL DEF StreamSpec

\* Each entry from the first kept to the last is sent on or trimmed, and again
\* only once for each crash (readCallback, setLastReadId).
THEOREM EachEntryRead == StreamSpec => []ReadsEachEntry
<1>1. StreamInvariant => ReadsEachEntry
  <2> SUFFICES ASSUME StreamInvariant PROVE ReadsEachEntry
    OBVIOUS
  <2>1. NoEntrySkipped
    BY DEF StreamInvariant, CoveredSoFar, Covered, Orderly, NoEntrySkipped
  <2>2. RepeatsAfterCrashes
    BY DEF StreamInvariant, RepeatsOnlyNext, Budget, RepeatsAfterCrashes
  <2> QED
    BY <2>1, <2>2 DEF ReadsEachEntry
<1> QED
  BY <1>1, StreamSafety, PTL
====
