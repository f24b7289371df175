---- MODULE BrokerProofs ----
(***************************************************************************)
(* Proofs about Broker for any set of workers, any pipes and any number of *)
(* messages: types, ordered delivery at most once, nothing stopped by a    *)
(* pipe that comes by the broker, and no loss that a pipe does not explain.*)
(***************************************************************************)
EXTENDS Broker, SequenceLemmas

----------------------------------------------------------------------------
(* Sequences as event queues. *)

\* What appending an event to a queue does.
LEMMA AppendFacts ==
  ASSUME NEW S, NEW s \in Seq(S), NEW e \in S
  PROVE  /\ Append(s, e) \in Seq(S)
         /\ Len(s) \in Nat
         /\ Len(Append(s, e)) = Len(s) + 1
         /\ DOMAIN s = 1..Len(s)
         /\ DOMAIN Append(s, e) = 1..(Len(s) + 1)
         /\ \A i \in 1..Len(s) : Append(s, e)[i] = s[i]
         /\ Append(s, e)[Len(s) + 1] = e
<1>1. Append(s, e) \in Seq(S) /\ Len(s) \in Nat /\ DOMAIN s = 1..Len(s)
  OBVIOUS
<1>2. Len(Append(s, e)) = Len(s) + 1
  OBVIOUS
<1>3. DOMAIN Append(s, e) = 1..(Len(s) + 1)
  BY <1>1, <1>2
<1>4. \A i \in 1..Len(s) : Append(s, e)[i] = s[i]
  BY <1>1
<1>5. Append(s, e)[Len(s) + 1] = e
  BY <1>1
<1> QED
  BY <1>1, <1>2, <1>3, <1>4, <1>5

\* An event of a queue that was appended to is the new one or was there.
LEMMA InAppended ==
  ASSUME NEW S, NEW s \in Seq(S), NEW e \in S, NEW i \in DOMAIN Append(s, e)
  PROVE  Append(s, e)[i] = e \/ (i \in DOMAIN s /\ Append(s, e)[i] = s[i])
<1>1. i \in 1..(Len(s) + 1) /\ DOMAIN s = 1..Len(s) /\ Len(s) \in Nat
  BY AppendFacts
<1>2. i = Len(s) + 1 \/ i \in 1..Len(s)
  BY <1>1
<1> QED
  BY <1>1, <1>2, AppendFacts

\* What taking the first event off a queue does.
LEMMA TailFacts ==
  ASSUME NEW S, NEW s \in Seq(S), s # <<>>
  PROVE  /\ Tail(s) \in Seq(S)
         /\ Len(s) \in Nat /\ Len(s) >= 1
         /\ DOMAIN s = 1..Len(s)
         /\ Head(s) = s[1] /\ Head(s) \in S
         /\ DOMAIN Tail(s) = 1..(Len(s) - 1)
         /\ \A i \in 1..(Len(s) - 1) : Tail(s)[i] = s[i + 1]
<1>1. Tail(s) \in Seq(S) /\ Len(s) \in Nat /\ DOMAIN s = 1..Len(s) /\ Len(s) >= 1
  OBVIOUS
<1>2. Head(s) = s[1] /\ Head(s) \in S
  BY <1>1
<1>3. Len(Tail(s)) = Len(s) - 1
  OBVIOUS
<1>4. DOMAIN Tail(s) = 1..(Len(s) - 1)
  BY <1>1, <1>3
<1>5. \A i \in 1..(Len(s) - 1) : Tail(s)[i] = s[i + 1]
  BY <1>1
<1> QED
  BY <1>1, <1>2, <1>4, <1>5
----------------------------------------------------------------------------
(* Types. *)

\* The message prepareMsg builds is a message.
LEMMA BaseMsgType ==
  ASSUME TypeOK, NEW w \in Workers
  PROVE  /\ BaseMsg(w) \in Message
         /\ BaseMsg(w).n = Len(sent) + 1
         /\ BaseMsg(w).from = w
<1>1. Len(sent) + 1 \in Nat
  BY DEF TypeOK
<1>2. consumers[w] \in SUBSET Workers
  BY DEF TypeOK
<1> QED
  BY <1>1, <1>2 DEF BaseMsg, Message, Kinds

\* Only registered workers are connected, addressed in what the broker still has, or
\* have sent anything.
OnlyKnown ==
  /\ connections \subseteq registered \X registered
  /\ \A i \in DOMAIN brokerQ : brokerQ[i].to \subseteq registered
  /\ \A i \in DOMAIN sent : sent[i].from \in registered

\* Whatever a worker sends, it sends a message with the next number to registered
\* workers: all the sending actions are instances of one emit.
LEMMA SendingEmits ==
  ASSUME TypeOK, Numbered, BrokerAssumption, NEW w \in Workers,
         SendMsg(w) \/ SendBroadcast(w) \/ SendCommand(w) \/ SendReply(w)
  PROVE  \E m \in Message :
           /\ m.n = Len(sent) + 1 /\ emitSendMsg(m)
           /\ OnlyKnown /\ TopologyConsistent => m.to \subseteq registered
<1> DEFINE Good(m) == /\ m \in Message /\ m.n = Len(sent) + 1
                      /\ OnlyKnown /\ TopologyConsistent => m.to \subseteq registered
<1>0. OnlyKnown /\ TopologyConsistent => consumers[w] \subseteq registered
  <2> SUFFICES ASSUME OnlyKnown, TopologyConsistent, NEW c \in consumers[w]
               PROVE  c \in registered
    OBVIOUS
  <2>1. c \in Workers
    BY DEF TypeOK
  <2>2. <<w, c>> \in connections
    BY <2>1 DEF TopologyConsistent
  <2> QED
    BY <2>2 DEF OnlyKnown
<1>1. /\ BaseMsg(w) \in Message /\ BaseMsg(w).n = Len(sent) + 1
      /\ BaseMsg(w).to = consumers[w]
  BY BaseMsgType DEF BaseMsg
<1>2. CASE SendMsg(w)
  <2>1. PICK json \in BOOLEAN : emitSendMsg([BaseMsg(w) EXCEPT !.json = json])
    BY <1>2 DEF SendMsg
  <2>2. Good([BaseMsg(w) EXCEPT !.json = json])
    BY <1>0, <1>1 DEF Message
  <2> QED
    BY <2>1, <2>2
<1>3. CASE SendBroadcast(w)
  <2>1. Good([BaseMsg(w) EXCEPT !.kind = "broadcast"])
    BY <1>0, <1>1 DEF Message, Kinds
  <2> QED
    BY <2>1, <1>3 DEF SendBroadcast
<1>4. CASE SendCommand(w)
  <2>1. PICK to \in {consumers[w]} \cup {{r} : r \in registered}, cb \in Callbacks :
          emitSendMsg([BaseMsg(w) EXCEPT !.kind = "command", !.json = FALSE,
                                         !.to = to, !.cb = cb])
    BY <1>4 DEF SendCommand
  <2>2. to \in SUBSET Workers /\ (to = consumers[w] \/ to \subseteq registered)
    BY DEF TypeOK
  <2>3. Good([BaseMsg(w) EXCEPT !.kind = "command", !.json = FALSE,
                                !.to = to, !.cb = cb])
    BY <1>0, <1>1, <2>2 DEF Message, Kinds
  <2> QED
    BY <2>1, <2>3
<1>5. CASE SendReply(w)
  <2>1. PICK c \in Unanswered(w), ok \in BOOLEAN :
          emitSendMsg([sent[c] EXCEPT !.n = Len(sent) + 1, !.from = w,
                                      !.to = {sent[c].from}, !.kind = "reply",
                                      !.cmd = c, !.ok = ok])
    BY <1>5 DEF SendReply
  <2>2. c \in DOMAIN sent
    BY DEF Unanswered, Numbered
  <2>3. sent[c] \in Message /\ c \in Nat /\ Len(sent) + 1 \in Nat
    BY <2>2 DEF TypeOK
  <2> DEFINE m == [sent[c] EXCEPT !.n = Len(sent) + 1, !.from = w,
                                  !.to = {sent[c].from}, !.kind = "reply",
                                  !.cmd = c, !.ok = ok]
  <2>4. m \in Message /\ m.n = Len(sent) + 1 /\ m.to = {sent[c].from}
    BY <2>3 DEF Message, Kinds
  <2>5. OnlyKnown => sent[c].from \in registered
    BY <2>2 DEF OnlyKnown
  <2> HIDE DEF m
  <2>6. Good(m)
    BY <2>4, <2>5
  <2> QED
    BY <2>1, <2>6 DEF m
<1> QED
  BY <1>2, <1>3, <1>4, <1>5

\* Subtracting the consumers keeps a message a message; it keeps sender and
\* number, and addresses no consumer of the sender any more.
LEMMA SubtractFacts ==
  ASSUME TypeOK, NEW m \in Message
  PROVE  /\ WithoutConsumers(m) \in Message
         /\ WithoutConsumers(m).n = m.n
         /\ WithoutConsumers(m).from = m.from
         /\ Addressees(WithoutConsumers(m)) = Addressees(m) \ consumers[m.from]
<1>1. CASE m.kind = "broadcast"
  BY <1>1 DEF WithoutConsumers, Addressees
<1>2. CASE m.kind # "broadcast"
  BY <1>2 DEF WithoutConsumers, Addressees, Message
<1> QED
  BY <1>1, <1>2

\* A message that gets through a pipe goes to a consumer of its sender.
LEMMA PipedToConsumer ==
  ASSUME TypeOK, TopologyConsistent, NEW m \in Message, NEW r \in Workers,
         Piped(m, r)
  PROVE  r \in consumers[m.from]
BY DEF Piped, TypeOK, TopologyConsistent, Message

\* The inductive invariant holds at first.
LEMMA InitInvariant == BrokerAssumption /\ Init => DeliveryInvariant
<1> SUFFICES ASSUME BrokerAssumption, Init PROVE DeliveryInvariant
  OBVIOUS
<1>1. TypeOK
  BY DEF Init, TypeOK, Pairs
<1>2. TopologyConsistent /\ QuietSetup
  BY DEF Init, TopologyConsistent, QuietSetup
<1>3. Numbered /\ StagesOrdered /\ InOrderOnce
  BY DEF Init, Numbered, StagesOrdered, InOrderOnce
<1> QED
  BY <1>1, <1>2, <1>3 DEF DeliveryInvariant
----------------------------------------------------------------------------
(* The main thread's own steps: pipes and threads, no traffic. *)

\* Steps that leave messages and consumers alone keep the order of the stages.
LEMMA TrafficUntouched ==
  ASSUME DeliveryInvariant, UNCHANGED <<traffic, consumers>>
  PROVE  Numbered' /\ StagesOrdered' /\ InOrderOnce'
<1>1. Numbered' /\ InOrderOnce'
  BY DEF traffic, DeliveryInvariant, Numbered, InOrderOnce
<1>2. StagesOrdered'
  BY DEF traffic, DeliveryInvariant, StagesOrdered
<1> QED
  BY <1>1, <1>2

\* However far each worker knew the other, the calls back and forth leave the
\* consumer with the producer and the producer with the consumer.
LEMMA IntroducedSets ==
  ASSUME TypeOK, NEW p \in Workers, NEW c \in Workers
  PROVE  /\ Introduced(p, c).consumers = [consumers EXCEPT ![p] = @ \cup {c}]
         /\ Introduced(p, c).producers = [producers EXCEPT ![c] = @ \cup {p}]
<1>1. c \in consumers[p] => consumers = [consumers EXCEPT ![p] = @ \cup {c}]
  BY DEF TypeOK
<1>2. p \in producers[c] => producers = [producers EXCEPT ![c] = @ \cup {p}]
  BY DEF TypeOK
<1>3. CASE c \in consumers[p] /\ p \in producers[c]
  BY <1>1, <1>2, <1>3 DEF Introduced, WorkerSets
<1>4. CASE c \in consumers[p] /\ p \notin producers[c]
  BY <1>1, <1>4 DEF Introduced, addProducer, WorkerSets
<1>5. CASE c \notin consumers[p]
  <2>1. addConsumer(WorkerSets, p, c) =
          [consumers |-> [consumers EXCEPT ![p] = @ \cup {c}],
           producers |-> [producers EXCEPT ![c] = @ \cup {p}]]
    BY <1>2 DEF addConsumer, WorkerSets
  <2>2. p \in [producers EXCEPT ![c] = @ \cup {p}][c]
    BY DEF TypeOK
  <2> QED
    BY <1>5, <2>1, <2>2 DEF Introduced
<1> QED
  BY <1>3, <1>4, <1>5

\* Making a pipe in the set-up phase.
LEMMA ConnectStep ==
  ASSUME DeliveryInvariant, BrokerAssumption,
         NEW p \in Workers, NEW c \in Workers, NEW ch \in Chains,
         connectTwo(p, c, ch)
  PROVE  DeliveryInvariant'
<1> USE DEF DeliveryInvariant
<1>0. /\ consumers' = [consumers EXCEPT ![p] = @ \cup {c}]
      /\ producers' = [producers EXCEPT ![c] = @ \cup {p}]
  BY IntroducedSets DEF connectTwo
<1>1. TypeOK'
  <2>1. chain' \in [Pairs -> SUBSET {"pass", "content", "mute"}]
    BY DEF connectTwo, TypeOK, BrokerAssumption, Pairs
  <2>2. consumers' \in [Workers -> SUBSET Workers]
    BY <1>0 DEF TypeOK
  <2>3. producers' \in [Workers -> SUBSET Workers]
    BY <1>0 DEF TypeOK
  <2>4. live' \subseteq connections' /\ connections' \subseteq Pairs
    BY DEF connectTwo, TypeOK, Pairs
  <2> QED
    BY <2>1, <2>2, <2>3, <2>4 DEF connectTwo, TypeOK, threads, traffic
<1>2. TopologyConsistent'
  <2> SUFFICES ASSUME NEW a \in Workers, NEW b \in Workers
               PROVE  /\ b \in consumers'[a] <=> <<a, b>> \in connections'
                      /\ a \in producers'[b] <=> <<a, b>> \in connections'
    BY DEF TopologyConsistent
  <2>1. <<a, b>> \in connections' <=> <<a, b>> \in connections \/ (a = p /\ b = c)
    BY DEF connectTwo
  <2>2. b \in consumers'[a] <=> b \in consumers[a] \/ (a = p /\ b = c)
    BY <1>0 DEF TypeOK
  <2>3. a \in producers'[b] <=> a \in producers[b] \/ (a = p /\ b = c)
    BY <1>0 DEF TypeOK
  <2> QED
    BY <2>1, <2>2, <2>3 DEF TopologyConsistent
<1>3. QuietSetup'
  BY DEF connectTwo, QuietSetup, threads, traffic
<1>4. /\ brokerQ = <<>> /\ sent = <<>>
      /\ \A w \in Workers : queue[w] = <<>> /\ handled[w] = <<>>
  BY DEF connectTwo, QuietSetup
<1>5. Numbered' /\ StagesOrdered' /\ InOrderOnce'
  BY <1>4 DEF connectTwo, traffic, Numbered, StagesOrdered, InOrderOnce
<1> QED
  BY <1>1, <1>2, <1>3, <1>5

\* The other steps of set-up and runAll, and disconnect.
LEMMA MainThreadStep ==
  ASSUME DeliveryInvariant, BrokerAssumption,
         \/ \E w \in Workers : registerWorker(w) \/ StartThread(w)
         \/ \E p, c \in Workers : connectThrows(p, c) \/ disconnect(p, c)
         \/ runAll
         \/ SetWasRun
         \/ exec
         \/ UNCHANGED vars
  PROVE  DeliveryInvariant'
<1> USE DEF DeliveryInvariant
<1>0. UNCHANGED <<traffic, connections, consumers, producers>>
  BY DEF registerWorker, StartThread, connectThrows, disconnect, runAll, SetWasRun,
         exec, vars, topology
<1>1. TypeOK'
  <2>1. CASE \E w \in Workers : registerWorker(w)
    BY <2>1 DEF registerWorker, TypeOK, threads, traffic
  <2>2. CASE \E w \in Workers : StartThread(w)
    BY <2>2 DEF StartThread, TypeOK, topology, traffic
  <2>3. CASE \E p, c \in Workers : connectThrows(p, c)
    BY <2>3 DEF connectThrows, TypeOK, topology, threads, traffic
  <2>4. CASE \E p, c \in Workers : disconnect(p, c)
    BY <2>4 DEF disconnect, TypeOK, threads, traffic
  <2>5. CASE runAll
    BY <2>5 DEF runAll, TypeOK, topology, threads, traffic
  <2>6. CASE SetWasRun
    BY <2>6 DEF SetWasRun, TypeOK, topology, traffic
  <2>7. CASE exec
    BY <2>7 DEF exec, TypeOK, topology, threads, traffic
  <2>8. CASE UNCHANGED vars
    BY <2>8 DEF vars, TypeOK, topology, threads, traffic
  <2> QED
    BY <2>1, <2>2, <2>3, <2>4, <2>5, <2>6, <2>7, <2>8
<1>2. TopologyConsistent'
  BY <1>0 DEF TopologyConsistent
<1>3. QuietSetup'
  BY DEF QuietSetup, registerWorker, StartThread, connectThrows, disconnect, runAll,
         SetWasRun, exec, vars, topology, threads, traffic
<1>4. Numbered' /\ StagesOrdered' /\ InOrderOnce'
  BY <1>0, TrafficUntouched
<1> QED
  BY <1>1, <1>2, <1>3, <1>4
----------------------------------------------------------------------------
(* Sending. *)

\* An emitted message has the highest number so far, and whoever gets it through
\* a pipe is a consumer of its sender: every stage stays ordered.
LEMMA EmitStep ==
  ASSUME DeliveryInvariant, NEW m \in Message, m.n = Len(sent) + 1, emitSendMsg(m)
  PROVE  DeliveryInvariant'
<1> USE DEF DeliveryInvariant
<1>0. UNCHANGED <<topology, threads, handled>>
  BY DEF emitSendMsg, traffic
<1>1. CASE m.from \notin wasRun
  <2>1. UNCHANGED traffic /\ phase' = "aborted"
    BY <1>1 DEF emitSendMsg
  <2>2. UNCHANGED <<traffic, consumers>>
    BY <1>0, <2>1 DEF topology
  <2>3. Numbered' /\ StagesOrdered' /\ InOrderOnce'
    BY <2>2, TrafficUntouched
  <2>4. TypeOK' /\ TopologyConsistent' /\ QuietSetup'
    BY <1>0, <2>1 DEF TypeOK, TopologyConsistent, QuietSetup, topology, threads, traffic
  <2> QED
    BY <2>3, <2>4
<1>2. CASE m.from \in wasRun
  <2>0. /\ sent' = Append(sent, m)
        /\ brokerQ' = Append(brokerQ, m)
        /\ \A r \in Workers : queue'[r] = IF Piped(m, r) THEN Append(queue[r], m)
                                                         ELSE queue[r]
        /\ queue' \in [Workers -> Seq(Message)]
        /\ dropped' \subseteq Nat \X Workers
        /\ phase \in {"starting", "loop"}
        /\ UNCHANGED phase
    <3>1. \A r \in Workers : Append(queue[r], m) \in Seq(Message) /\ queue[r] \in Seq(Message)
      BY DEF TypeOK
    <3>2. dropped' \subseteq Nat \X Workers
      BY <1>2 DEF emitSendMsg, TypeOK, Addressees, Message
    <3> QED
      BY <1>2, <3>1, <3>2 DEF emitSendMsg
  <2>1. TypeOK'
    <3>1. brokerQ' \in Seq(Message) /\ sent' \in Seq(Message)
      BY <2>0 DEF TypeOK
    <3> QED
      BY <1>0, <2>0, <3>1 DEF TypeOK, topology, threads
  <2>2. TopologyConsistent' /\ QuietSetup'
    BY <1>0, <2>0 DEF TopologyConsistent, QuietSetup, topology
  <2>3. /\ DOMAIN sent = 1..Len(sent) /\ DOMAIN sent' = 1..(Len(sent) + 1)
        /\ Len(sent) \in Nat
    BY <2>0, AppendFacts DEF TypeOK
  <2>4. /\ Len(brokerQ) \in Nat
        /\ DOMAIN brokerQ = 1..Len(brokerQ) /\ DOMAIN brokerQ' = 1..(Len(brokerQ) + 1)
        /\ \A i \in 1..Len(brokerQ) : brokerQ'[i] = brokerQ[i]
        /\ brokerQ'[Len(brokerQ) + 1] = m
    BY <2>0, AppendFacts DEF TypeOK
  <2>5. ASSUME NEW r \in Workers
        PROVE  \A i \in DOMAIN queue'[r] :
                 \/ i \in DOMAIN queue[r] /\ queue'[r][i] = queue[r][i]
                 \/ /\ queue'[r][i] = m
                    /\ r \in consumers[m.from]
                    /\ \A j \in DOMAIN queue'[r] : j # i => j < i /\ j \in DOMAIN queue[r]
    <3>1. CASE Piped(m, r)
      <4>1. queue'[r] = Append(queue[r], m) /\ queue[r] \in Seq(Message)
        BY <2>0, <3>1 DEF TypeOK
      <4>2. r \in consumers[m.from]
        BY <3>1, PipedToConsumer
      <4> QED
        BY <4>1, <4>2, AppendFacts
    <3>2. CASE ~Piped(m, r)
      BY <2>0, <3>2
    <3> QED
      BY <3>1, <3>2
  <2>6. Numbered'
    BY <1>0, <2>3, <2>4, <2>5 DEF Numbered
  <2>7. StagesOrdered'
    <3>1. \A i, j \in DOMAIN brokerQ' : i < j => Precedes(brokerQ'[i], brokerQ'[j])
      BY <2>3, <2>4 DEF Numbered, StagesOrdered, Precedes
    <3>2. ASSUME NEW r \in Workers, NEW j \in DOMAIN queue'[r],
                 r \in Addressees(queue'[r][j])
          PROVE  /\ \A i \in DOMAIN queue'[r] :
                      i < j /\ r \in Addressees(queue'[r][i])
                        => Precedes(queue'[r][i], queue'[r][j])
                 /\ \A i \in DOMAIN handled'[r] : Precedes(handled'[r][i], queue'[r][j])
      <4>0. /\ \A i \in DOMAIN queue[r] : queue[r][i].n \in 1..Len(sent)
            /\ \A i \in DOMAIN handled[r] : handled'[r][i] = handled[r][i]
                                           /\ handled[r][i].n \in 1..Len(sent)
        BY <1>0, <2>3 DEF Numbered
      <4>00. DOMAIN queue'[r] \subseteq Nat
        <5>1. queue'[r] \in Seq(Message)
          BY <2>0
        <5> QED
          BY <5>1
      <4>1. CASE /\ queue'[r][j] = m
                 /\ \A i \in DOMAIN queue'[r] : i # j => i < j /\ i \in DOMAIN queue[r]
        <5>1. \A i \in DOMAIN queue'[r] : i < j => queue'[r][i].n \in 1..Len(sent)
          BY <2>3, <2>5, <4>0, <4>00, <4>1
        <5> QED
          BY <1>0, <2>3, <4>0, <4>1, <5>1 DEF Precedes
      <4>2. CASE j \in DOMAIN queue[r] /\ queue'[r][j] = queue[r][j]
        <5>1. \A i \in DOMAIN queue'[r] : i < j => i \in DOMAIN queue[r]
                                                  /\ queue'[r][i] = queue[r][i]
          BY <2>5, <4>2, <4>00
        <5>2. /\ \A i \in DOMAIN queue[r] :
                   i < j /\ r \in Addressees(queue[r][i]) => Precedes(queue[r][i], queue[r][j])
              /\ \A i \in DOMAIN handled[r] : Precedes(handled[r][i], queue[r][j])
          BY <3>2, <4>2 DEF StagesOrdered
        <5> QED
          BY <1>0, <4>2, <5>1, <5>2
      <4> QED
        BY <2>5, <4>1, <4>2
    <3>3. ASSUME NEW r \in Workers, NEW j \in DOMAIN brokerQ',
                 r \notin consumers'[brokerQ'[j].from]
          PROVE  /\ \A i \in DOMAIN queue'[r] :
                      r \in Addressees(queue'[r][i]) => Precedes(queue'[r][i], brokerQ'[j])
                 /\ \A i \in DOMAIN handled'[r] : Precedes(handled'[r][i], brokerQ'[j])
      <4>0. /\ \A i \in DOMAIN queue[r] : queue[r][i].n \in 1..Len(sent)
            /\ \A i \in DOMAIN handled[r] : handled'[r][i] = handled[r][i]
                                           /\ handled[r][i].n \in 1..Len(sent)
            /\ DOMAIN handled'[r] = DOMAIN handled[r] /\ consumers' = consumers
        BY <1>0, <2>3 DEF Numbered, topology
      <4>1. CASE j \in DOMAIN brokerQ
        <5>1. brokerQ'[j] = brokerQ[j] /\ r \notin consumers[brokerQ[j].from]
          BY <2>4, <3>3, <4>0, <4>1
        <5>2. ASSUME NEW i \in DOMAIN queue'[r], r \in Addressees(queue'[r][i])
              PROVE  Precedes(queue'[r][i], brokerQ'[j])
          <6>1. CASE i \in DOMAIN queue[r] /\ queue'[r][i] = queue[r][i]
            BY <4>1, <5>1, <5>2, <6>1 DEF StagesOrdered
          <6>2. CASE queue'[r][i] = m /\ r \in consumers[m.from]
            BY <5>1, <6>2 DEF Precedes
          <6> QED
            BY <2>5, <6>1, <6>2
        <5>3. \A i \in DOMAIN handled[r] : Precedes(handled[r][i], brokerQ[j])
          BY <4>1, <5>1 DEF StagesOrdered
        <5> QED
          BY <4>0, <5>1, <5>2, <5>3
      <4>2. CASE j = Len(brokerQ) + 1
        <5>1. brokerQ'[j] = m /\ r \notin consumers[m.from]
          BY <2>4, <3>3, <4>0, <4>2
        <5>2. \A i \in DOMAIN queue'[r] : queue'[r][i].from = m.from
                                          => queue'[r][i].n \in 1..Len(sent)
          BY <2>5, <4>0, <5>1
        <5> QED
          BY <2>3, <4>0, <5>1, <5>2 DEF Precedes
      <4> QED
        BY <2>4, <4>1, <4>2
    <3> QED
      BY <3>1, <3>2, <3>3 DEF StagesOrdered
  <2>8. InOrderOnce'
    BY <1>0 DEF InOrderOnce
  <2> QED
    BY <2>1, <2>2, <2>6, <2>7, <2>8
<1> QED
  BY <1>1, <1>2
----------------------------------------------------------------------------
(* Delivery. *)

\* The broker's copy joins the queues of the workers.  Where it is addressed to r,
\* r is no consumer of its sender, so all that r was given by that sender came
\* through the broker too, and earlier.
LEMMA BrokerStep ==
  ASSUME DeliveryInvariant, onMsgFromWorker
  PROVE  DeliveryInvariant'
<1> USE DEF DeliveryInvariant
<1> DEFINE h == Head(brokerQ)
           e == WithoutConsumers(h)
<1>0. /\ UNCHANGED <<phase, topology, threads, sent, dropped, handled>>
      /\ brokerQ # <<>> /\ phase = "loop"
      /\ brokerQ' = Tail(brokerQ)
      /\ \A r \in Workers : queue'[r] = IF r \in registered THEN Append(queue[r], e)
                                                           ELSE queue[r]
  BY DEF onMsgFromWorker
<1>1. /\ Len(brokerQ) \in Nat /\ Len(brokerQ) >= 1
      /\ DOMAIN brokerQ = 1..Len(brokerQ) /\ h = brokerQ[1] /\ h \in Message
      /\ DOMAIN brokerQ' = 1..(Len(brokerQ) - 1) /\ brokerQ' \in Seq(Message)
      /\ \A i \in 1..(Len(brokerQ) - 1) : brokerQ'[i] = brokerQ[i + 1]
  BY <1>0, TailFacts DEF TypeOK
<1>2. /\ e \in Message /\ e.n = h.n /\ e.from = h.from
      /\ Addressees(e) = Addressees(h) \ consumers[h.from]
  BY <1>1, SubtractFacts
<1> HIDE DEF e, h
<1>3. queue' \in [Workers -> Seq(Message)]
  <2>1. \A r \in Workers : Append(queue[r], e) \in Seq(Message) /\ queue[r] \in Seq(Message)
    BY <1>2 DEF TypeOK
  <2> QED
    BY <2>1 DEF onMsgFromWorker, e, h
<1>4. TypeOK'
  BY <1>0, <1>1, <1>3 DEF TypeOK, topology, threads
<1>5. TopologyConsistent' /\ QuietSetup'
  BY <1>0 DEF TopologyConsistent, QuietSetup, topology
<1>6. ASSUME NEW r \in Workers
      PROVE  /\ DOMAIN queue'[r] \subseteq Nat
             /\ \A i \in DOMAIN queue'[r] :
                  \/ i \in DOMAIN queue[r] /\ queue'[r][i] = queue[r][i]
                  \/ /\ queue'[r][i] = e
                     /\ \A j \in DOMAIN queue'[r] : j # i =>
                          /\ j < i
                          /\ j \in DOMAIN queue[r]
                          /\ queue'[r][j] = queue[r][j]
  <2>1. queue[r] \in Seq(Message)
    BY DEF TypeOK
  <2>2. CASE r \in registered
    <3>1. queue'[r] = Append(queue[r], e)
      BY <1>0, <2>2
    <3> QED
      BY <1>2, <2>1, <3>1, AppendFacts
  <2>3. CASE r \notin registered
    <3>1. queue'[r] = queue[r]
      BY <1>0, <2>3
    <3> QED
      BY <2>1, <3>1
  <2> QED
    BY <2>2, <2>3
<1>7. Numbered'
  <2>1. \A i \in DOMAIN brokerQ' : brokerQ'[i].n \in DOMAIN sent'
    BY <1>0, <1>1 DEF Numbered
  <2>2. e.n \in DOMAIN sent
    BY <1>1, <1>2 DEF Numbered
  <2>3. \A r \in Workers : \A i \in DOMAIN queue'[r] : queue'[r][i].n \in DOMAIN sent'
    BY <1>0, <1>6, <2>2 DEF Numbered
  <2> QED
    BY <1>0, <2>1, <2>3 DEF Numbered
<1>8. StagesOrdered'
  <2>1. \A i, j \in DOMAIN brokerQ' : i < j => Precedes(brokerQ'[i], brokerQ'[j])
    BY <1>1 DEF StagesOrdered
  <2>2. ASSUME NEW r \in Workers, NEW j \in DOMAIN queue'[r],
               r \in Addressees(queue'[r][j])
        PROVE  /\ \A i \in DOMAIN queue'[r] :
                    i < j /\ r \in Addressees(queue'[r][i])
                      => Precedes(queue'[r][i], queue'[r][j])
               /\ \A i \in DOMAIN handled'[r] : Precedes(handled'[r][i], queue'[r][j])
    <3>1. CASE j \in DOMAIN queue[r] /\ queue'[r][j] = queue[r][j]
      <4>1. \A i \in DOMAIN queue'[r] : i < j => i \in DOMAIN queue[r]
                                                /\ queue'[r][i] = queue[r][i]
        BY <1>6, <3>1
      <4> QED
        BY <1>0, <2>2, <3>1, <4>1 DEF StagesOrdered
    <3>2. CASE /\ queue'[r][j] = e
               /\ \A i \in DOMAIN queue'[r] : i # j =>
                    i < j /\ i \in DOMAIN queue[r] /\ queue'[r][i] = queue[r][i]
      <4>1. r \notin consumers[h.from] /\ 1 \in DOMAIN brokerQ
        BY <1>1, <1>2, <2>2, <3>2
      <4>2. /\ \A i \in DOMAIN queue[r] :
                 r \in Addressees(queue[r][i]) => Precedes(queue[r][i], h)
            /\ \A i \in DOMAIN handled[r] : Precedes(handled[r][i], h)
        BY <1>1, <4>1 DEF StagesOrdered
      <4>3. /\ \A i \in DOMAIN queue[r] :
                 r \in Addressees(queue[r][i]) => Precedes(queue[r][i], e)
            /\ \A i \in DOMAIN handled[r] : Precedes(handled[r][i], e)
        BY <1>2, <4>2 DEF Precedes
      <4> QED
        BY <1>0, <1>6, <3>2, <4>3
    <3> QED
      BY <1>6, <3>1, <3>2
  <2>3. ASSUME NEW r \in Workers, NEW j \in DOMAIN brokerQ',
               r \notin consumers'[brokerQ'[j].from]
        PROVE  /\ \A i \in DOMAIN queue'[r] :
                    r \in Addressees(queue'[r][i]) => Precedes(queue'[r][i], brokerQ'[j])
               /\ \A i \in DOMAIN handled'[r] : Precedes(handled'[r][i], brokerQ'[j])
    <3>1. /\ j + 1 \in DOMAIN brokerQ /\ brokerQ'[j] = brokerQ[j + 1]
          /\ r \notin consumers[brokerQ[j + 1].from]
      BY <1>0, <1>1, <2>3 DEF topology
    <3>2. Precedes(e, brokerQ[j + 1])
      <4>1. Precedes(h, brokerQ[j + 1])
        BY <1>1, <3>1 DEF StagesOrdered
      <4> QED
        BY <1>2, <4>1 DEF Precedes
    <3>3. /\ \A i \in DOMAIN queue[r] :
               r \in Addressees(queue[r][i]) => Precedes(queue[r][i], brokerQ[j + 1])
          /\ \A i \in DOMAIN handled[r] : Precedes(handled[r][i], brokerQ[j + 1])
      BY <3>1 DEF StagesOrdered
    <3> QED
      BY <1>0, <1>6, <3>1, <3>2, <3>3
  <2> QED
    BY <2>1, <2>2, <2>3 DEF StagesOrdered
<1>9. InOrderOnce'
  BY <1>0 DEF InOrderOnce
<1> QED
  BY <1>4, <1>5, <1>7, <1>8, <1>9

\* A worker takes the first message of its queue: if the message is for it, all it
\* has handled from that sender is earlier, all that still waits is later.
LEMMA WorkerStep ==
  ASSUME DeliveryInvariant, NEW w \in Workers, onMsgFromBroker(w)
  PROVE  DeliveryInvariant'
<1> USE DEF DeliveryInvariant
<1> DEFINE m == Head(queue[w])
<1>0. /\ UNCHANGED <<topology, threads, brokerQ, sent, dropped>>
      /\ queue[w] # <<>> /\ phase \in {"starting", "loop"}
      /\ queue' = [queue EXCEPT ![w] = Tail(@)]
      /\ phase' \in {"aborted", phase}
  BY DEF onMsgFromBroker
<1>1. /\ Tail(queue[w]) \in Seq(Message)
      /\ Len(queue[w]) \in Nat /\ Len(queue[w]) >= 1
      /\ DOMAIN queue[w] = 1..Len(queue[w]) /\ m = queue[w][1] /\ m \in Message
      /\ DOMAIN Tail(queue[w]) = 1..(Len(queue[w]) - 1)
      /\ \A i \in 1..(Len(queue[w]) - 1) : Tail(queue[w])[i] = queue[w][i + 1]
  <2>1. queue[w] \in Seq(Message)
    BY DEF TypeOK
  <2> QED
    BY <1>0, <2>1, TailFacts
<1>2. ASSUME NEW r \in Workers, NEW i \in DOMAIN queue'[r]
      PROVE  \E k \in DOMAIN queue[r] :
               /\ queue'[r][i] = queue[r][k]
               /\ k = IF r = w THEN i + 1 ELSE i
  BY <1>0, <1>1 DEF TypeOK
<1>3. PICK entry \in Entry :
        \/ handled' = handled
        \/ /\ w \in Addressees(m)
           /\ entry.n = m.n /\ entry.from = m.from
           /\ handled' = [handled EXCEPT ![w] = Append(@, entry)]
  <2>1. CASE w \notin Addressees(m)
    <3>1. handled' = handled
      BY <2>1 DEF onMsgFromBroker
    <3>2. \E entry \in Entry : TRUE
      <4>1. [n |-> 0, from |-> w, how |-> "onMsg"] \in Entry
        BY DEF Entry, Outcomes
      <4> QED
        BY <4>1
    <3> QED
      BY <3>1, <3>2
  <2>2. CASE w \in Addressees(m)
    <3>1. PICK how \in Dispatch(m) :
            handled' = [handled EXCEPT ![w] =
                          Append(@, [n |-> m.n, from |-> m.from, how |-> how])]
      BY <2>2 DEF onMsgFromBroker
    <3>2. Dispatch(m) \subseteq Outcomes
      BY <1>1, <2>2 DEF Dispatch, Outcomes, Message, Kinds, Addressees
    <3>3. [n |-> m.n, from |-> m.from, how |-> how] \in Entry
      BY <1>1, <3>1, <3>2 DEF Entry, Message
    <3> QED
      BY <2>2, <3>1, <3>3
  <2> QED
    BY <2>1, <2>2
<1> HIDE DEF m
<1>4. ASSUME NEW r \in Workers
      PROVE  /\ handled'[r] \in Seq(Entry)
             /\ DOMAIN handled'[r] \subseteq Nat
             /\ \A i \in DOMAIN handled'[r] :
                  \/ i \in DOMAIN handled[r] /\ handled'[r][i] = handled[r][i]
                  \/ /\ r = w /\ w \in Addressees(m)
                     /\ handled'[r][i] = entry
                     /\ entry.n = m.n /\ entry.from = m.from
                     /\ \A j \in DOMAIN handled'[r] : j # i => j < i
  <2>1. handled[r] \in Seq(Entry)
    BY DEF TypeOK
  <2>2. CASE handled' = handled \/ r # w
    <3>1. handled'[r] = handled[r]
      BY <1>3, <2>2 DEF TypeOK
    <3> QED
      BY <2>1, <3>1
  <2>3. CASE /\ r = w /\ w \in Addressees(m)
             /\ entry.n = m.n /\ entry.from = m.from
             /\ handled' = [handled EXCEPT ![w] = Append(@, entry)]
    <3>1. handled'[r] = Append(handled[r], entry)
      BY <2>3 DEF TypeOK
    <3> QED
      BY <2>1, <2>3, <3>1, AppendFacts
  <2> QED
    BY <1>3, <2>2, <2>3
<1>5. TypeOK'
  <2>1. queue' \in [Workers -> Seq(Message)]
    BY <1>0, <1>1 DEF TypeOK
  <2>2. handled' \in [Workers -> Seq(Entry)]
    <3>1. \E f : handled' = [r \in Workers |-> f[r]]
      <4>1. handled = [r \in Workers |-> handled[r]]
        BY DEF TypeOK
      <4>2. handled' = [r \in Workers |-> handled'[r]]
        BY <1>3, <4>1 DEF TypeOK
      <4> QED
        BY <4>2
    <3> QED
      BY <1>4, <3>1
  <2> QED
    BY <1>0, <2>1, <2>2 DEF TypeOK, topology, threads
<1>6. TopologyConsistent' /\ QuietSetup'
  BY <1>0 DEF TopologyConsistent, QuietSetup, topology
<1>7. Numbered'
  <2>1. \A i \in DOMAIN brokerQ' : brokerQ'[i].n \in DOMAIN sent'
    BY <1>0 DEF Numbered
  <2>2. \A r \in Workers : \A i \in DOMAIN queue'[r] : queue'[r][i].n \in DOMAIN sent'
    BY <1>0, <1>2 DEF Numbered
  <2>3. \A r \in Workers : \A i \in DOMAIN handled'[r] : handled'[r][i].n \in DOMAIN sent'
    BY <1>0, <1>1, <1>4 DEF Numbered
  <2> QED
    BY <2>1, <2>2, <2>3 DEF Numbered
<1>8. StagesOrdered'
  <2>1. \A i, j \in DOMAIN brokerQ' : i < j => Precedes(brokerQ'[i], brokerQ'[j])
    BY <1>0 DEF StagesOrdered
  <2>2. ASSUME NEW r \in Workers, NEW j \in DOMAIN queue'[r],
               r \in Addressees(queue'[r][j])
        PROVE  /\ \A i \in DOMAIN queue'[r] :
                    i < j /\ r \in Addressees(queue'[r][i])
                      => Precedes(queue'[r][i], queue'[r][j])
               /\ \A i \in DOMAIN handled'[r] : Precedes(handled'[r][i], queue'[r][j])
    <3>1. PICK k \in DOMAIN queue[r] : /\ queue'[r][j] = queue[r][k]
                                      /\ k = IF r = w THEN j + 1 ELSE j
      BY <1>2
    <3>2. /\ \A i \in DOMAIN queue[r] :
               i < k /\ r \in Addressees(queue[r][i]) => Precedes(queue[r][i], queue[r][k])
          /\ \A i \in DOMAIN handled[r] : Precedes(handled[r][i], queue[r][k])
      BY <2>2, <3>1 DEF StagesOrdered
    <3>3. ASSUME NEW i \in DOMAIN queue'[r], i < j, r \in Addressees(queue'[r][i])
          PROVE  Precedes(queue'[r][i], queue'[r][j])
      <4>1. PICK l \in DOMAIN queue[r] : /\ queue'[r][i] = queue[r][l]
                                        /\ l = IF r = w THEN i + 1 ELSE i
        BY <1>2
      <4>2. DOMAIN queue'[r] \subseteq Nat
        <5>1. queue'[r] \in Seq(Message)
          BY <1>5 DEF TypeOK
        <5> QED
          BY <5>1
      <4>3. l < k
        BY <3>1, <3>3, <4>1, <4>2
      <4> QED
        BY <3>1, <3>2, <3>3, <4>1, <4>3
    <3>4. ASSUME NEW i \in DOMAIN handled'[r]
          PROVE  Precedes(handled'[r][i], queue'[r][j])
      <4>1. CASE i \in DOMAIN handled[r] /\ handled'[r][i] = handled[r][i]
        BY <3>1, <3>2, <4>1
      <4>2. CASE /\ r = w /\ w \in Addressees(m) /\ handled'[r][i] = entry
                 /\ entry.n = m.n /\ entry.from = m.from
        <5>1. 1 \in DOMAIN queue[r] /\ 1 < k /\ m = queue[r][1]
          <6>1. j \in DOMAIN Tail(queue[w])
            BY <1>0, <4>2 DEF TypeOK
          <6> QED
            BY <1>1, <3>1, <4>2, <6>1
        <5>2. Precedes(m, queue[r][k])
          BY <3>2, <4>2, <5>1
        <5> QED
          BY <3>1, <4>2, <5>2 DEF Precedes
      <4> QED
        BY <1>4, <4>1, <4>2
    <3> QED
      BY <3>3, <3>4
  <2>3. ASSUME NEW r \in Workers, NEW j \in DOMAIN brokerQ',
               r \notin consumers'[brokerQ'[j].from]
        PROVE  /\ \A i \in DOMAIN queue'[r] :
                    r \in Addressees(queue'[r][i]) => Precedes(queue'[r][i], brokerQ'[j])
               /\ \A i \in DOMAIN handled'[r] : Precedes(handled'[r][i], brokerQ'[j])
    <3>1. /\ brokerQ' = brokerQ
          /\ \A i \in DOMAIN queue[r] :
               r \in Addressees(queue[r][i]) => Precedes(queue[r][i], brokerQ[j])
          /\ \A i \in DOMAIN handled[r] : Precedes(handled[r][i], brokerQ[j])
      BY <1>0, <2>3 DEF StagesOrdered, topology
    <3>2. \A i \in DOMAIN queue'[r] :
            r \in Addressees(queue'[r][i]) => Precedes(queue'[r][i], brokerQ'[j])
      BY <1>2, <3>1
    <3>3. ASSUME NEW i \in DOMAIN handled'[r]
          PROVE  Precedes(handled'[r][i], brokerQ'[j])
      <4>1. CASE i \in DOMAIN handled[r] /\ handled'[r][i] = handled[r][i]
        BY <3>1, <4>1
      <4>2. CASE /\ r = w /\ w \in Addressees(m) /\ handled'[r][i] = entry
                 /\ entry.n = m.n /\ entry.from = m.from
        <5>1. Precedes(m, brokerQ[j])
          BY <1>1, <3>1, <4>2
        <5> QED
          BY <3>1, <4>2, <5>1 DEF Precedes
      <4> QED
        BY <1>4, <4>1, <4>2
    <3> QED
      BY <3>2, <3>3
  <2> QED
    BY <2>1, <2>2, <2>3 DEF StagesOrdered
<1>9. InOrderOnce'
  <2> SUFFICES ASSUME NEW r \in Workers, NEW i \in DOMAIN handled'[r],
                      NEW j \in DOMAIN handled'[r], i < j
               PROVE  Precedes(handled'[r][i], handled'[r][j])
    BY DEF InOrderOnce
  <2>1. i \in DOMAIN handled[r] /\ handled'[r][i] = handled[r][i]
    BY <1>4
  <2>2. CASE j \in DOMAIN handled[r] /\ handled'[r][j] = handled[r][j]
    BY <2>1, <2>2 DEF InOrderOnce
  <2>3. CASE /\ r = w /\ w \in Addressees(m) /\ handled'[r][j] = entry
             /\ entry.n = m.n /\ entry.from = m.from
    <3>1. Precedes(handled[r][i], m)
      BY <1>1, <2>1, <2>3 DEF StagesOrdered
    <3> QED
      BY <2>1, <2>3, <3>1 DEF Precedes
  <2> QED
    BY <1>4, <2>2, <2>3
<1> QED
  BY <1>5, <1>6, <1>7, <1>8, <1>9
----------------------------------------------------------------------------
(* The theorems. *)

\* Every step keeps the inductive invariant.
LEMMA NextInvariant ==
  BrokerAssumption /\ DeliveryInvariant /\ [Next]_vars => DeliveryInvariant'
<1> SUFFICES ASSUME BrokerAssumption, DeliveryInvariant, [Next]_vars
             PROVE  DeliveryInvariant'
  OBVIOUS
<1>1. CASE \E p, c \in Workers, ch \in Chains : connectTwo(p, c, ch)
  BY <1>1, ConnectStep
<1>2. CASE \/ \E w \in Workers : registerWorker(w) \/ StartThread(w)
           \/ \E p, c \in Workers : connectThrows(p, c) \/ disconnect(p, c)
           \/ runAll
           \/ SetWasRun
           \/ exec
           \/ UNCHANGED vars
  BY <1>2, MainThreadStep
<1>3. CASE \E w \in Workers :
             SendMsg(w) \/ SendBroadcast(w) \/ SendCommand(w) \/ SendReply(w)
  <2>1. \E m \in Message : m.n = Len(sent) + 1 /\ emitSendMsg(m)
    BY <1>3, SendingEmits DEF DeliveryInvariant
  <2> QED
    BY <2>1, EmitStep
<1>4. CASE onMsgFromWorker
  BY <1>4, BrokerStep
<1>5. CASE \E w \in Workers : onMsgFromBroker(w)
  BY <1>5, WorkerStep
<1> QED
  BY <1>1, <1>2, <1>3, <1>4, <1>5 DEF Next

\* The inductive invariant holds in every run, for any number of workers, any
\* pipes and any number of messages (broker.cpp, worker.cpp).
THEOREM Invariance == Spec => []DeliveryInvariant
<1>1. Init => DeliveryInvariant
  BY InitInvariant, BrokerAssumption
<1>2. DeliveryInvariant /\ [Next]_vars => DeliveryInvariant'
  BY NextInvariant, BrokerAssumption
<1> QED
  BY <1>1, <1>2, PTL DEF Spec

\* Every variable keeps its type; only registered workers run.
THEOREM TypeCorrectness == Spec => []TypeOK
<1>1. DeliveryInvariant => TypeOK
  BY DEF DeliveryInvariant
<1> QED
  BY <1>1, Invariance, PTL

\* Pipes and broadcasts together deliver what one worker sends to another in the
\* order it was sent and at most once.
THEOREM OrderedDelivery == Spec => []InOrderOnce
<1>1. DeliveryInvariant => InOrderOnce
  BY DEF DeliveryInvariant
<1> QED
  BY <1>1, Invariance, PTL
----------------------------------------------------------------------------
(* No loss that a pipe does not explain. *)

\* Set-up, threads and disconnection touch no message in flight.
LEMMA LossMainThread ==
  ASSUME DeliveryInvariant, NoUnexplainedLoss,
         \/ \E w \in Workers : registerWorker(w) \/ StartThread(w)
         \/ \E p, c \in Workers : connectThrows(p, c) \/ disconnect(p, c)
         \/ \E p, c \in Workers, ch \in Chains : connectTwo(p, c, ch)
         \/ runAll
         \/ SetWasRun
         \/ exec
         \/ UNCHANGED vars
  PROVE  NoUnexplainedLoss'
<1>1. UNCHANGED traffic
  BY DEF registerWorker, StartThread, connectThrows, disconnect, connectTwo, runAll,
         SetWasRun, exec, vars
<1>2. CASE sent = <<>>
  BY <1>1, <1>2 DEF NoUnexplainedLoss, traffic
<1>3. CASE sent # <<>>
  <2>1. UNCHANGED <<registered, consumers>>
    BY <1>3 DEF DeliveryInvariant, QuietSetup, registerWorker, StartThread, connectThrows,
         disconnect, connectTwo, runAll, SetWasRun, exec, vars, topology
  <2> QED
    BY <1>1, <2>1 DEF NoUnexplainedLoss, traffic, InTransit, Handled
<1> QED
  BY <1>2, <1>3

\* A sent message goes to the consumers through their pipes, unless a pipe drops
\* it, and to the others by way of the broker; older messages stay where they are.
LEMMA LossEmit ==
  ASSUME DeliveryInvariant, NoUnexplainedLoss,
         NEW m \in Message, m.n = Len(sent) + 1, emitSendMsg(m)
  PROVE  NoUnexplainedLoss'
<1> USE DEF DeliveryInvariant
<1>0. UNCHANGED <<topology, threads, handled>>
  BY DEF emitSendMsg, traffic
<1>1. CASE m.from \notin wasRun
  <2>1. UNCHANGED <<traffic, registered, consumers>>
    BY <1>0, <1>1 DEF emitSendMsg, topology
  <2> QED
    BY <2>1 DEF NoUnexplainedLoss, traffic, InTransit, Handled
<1>2. CASE m.from \in wasRun
  <2>1. /\ sent' = Append(sent, m)
        /\ brokerQ' = Append(brokerQ, m)
        /\ \A r \in Workers : queue'[r] = IF Piped(m, r) THEN Append(queue[r], m)
                                                         ELSE queue[r]
        /\ dropped' = dropped \cup
             {<<m.n, r>> : r \in {x \in Addressees(m) \cap consumers[m.from] : ~Piped(m, x)}}
    BY <1>2 DEF emitSendMsg
  <2>2. /\ Len(sent) \in Nat /\ DOMAIN sent' = 1..(Len(sent) + 1)
        /\ DOMAIN sent = 1..Len(sent)
        /\ \A n \in 1..Len(sent) : sent'[n] = sent[n]
        /\ sent'[Len(sent) + 1] = m
    BY <2>1, AppendFacts DEF TypeOK
  <2>3. /\ Len(brokerQ) \in Nat
        /\ DOMAIN brokerQ = 1..Len(brokerQ) /\ DOMAIN brokerQ' = 1..(Len(brokerQ) + 1)
        /\ \A i \in 1..Len(brokerQ) : brokerQ'[i] = brokerQ[i]
        /\ brokerQ'[Len(brokerQ) + 1] = m
    BY <2>1, AppendFacts DEF TypeOK
  <2>4. ASSUME NEW r \in Workers
        PROVE  \A i \in DOMAIN queue[r] :
                 i \in DOMAIN queue'[r] /\ queue'[r][i] = queue[r][i]
    <3>1. queue[r] \in Seq(Message)
      BY DEF TypeOK
    <3>2. CASE queue'[r] = Append(queue[r], m)
      BY <3>1, <3>2, AppendFacts
    <3> QED
      BY <2>1, <3>2
  <2> SUFFICES ASSUME NEW n \in DOMAIN sent', NEW r \in Addressees(sent'[n]) \cap registered
               PROVE  InTransit(n, r)' \/ Handled(n, r)' \/ <<n, r>> \in dropped'
    BY <1>0 DEF NoUnexplainedLoss, topology
  <2>5. r \in Workers
    BY DEF TypeOK
  <2>6. CASE n \in DOMAIN sent
    <3>1. InTransit(n, r) \/ Handled(n, r) \/ <<n, r>> \in dropped
      BY <2>2, <2>6 DEF NoUnexplainedLoss
    <3>2. CASE InTransit(n, r)
      BY <1>0, <2>3, <2>4, <2>5, <3>2 DEF InTransit, topology
    <3>3. CASE Handled(n, r)
      BY <1>0, <3>3 DEF Handled
    <3> QED
      BY <2>1, <3>1, <3>2, <3>3
  <2>7. CASE n = Len(sent) + 1
    <3>1. r \in Addressees(m) /\ n = m.n
      BY <2>2, <2>7
    <3>2. CASE r \notin consumers[m.from]
      BY <1>0, <2>3, <3>1, <3>2 DEF InTransit, topology
    <3>3. CASE r \in consumers[m.from] /\ ~Piped(m, r)
      BY <2>1, <3>1, <3>3
    <3>4. CASE Piped(m, r)
      <4>1. queue'[r] = Append(queue[r], m) /\ queue[r] \in Seq(Message)
        BY <2>1, <2>5, <3>4 DEF TypeOK
      <4>2. \E i \in DOMAIN queue'[r] : queue'[r][i] = m
        BY <4>1, AppendFacts
      <4> QED
        BY <3>1, <4>2 DEF InTransit
    <3> QED
      BY <3>2, <3>3, <3>4
  <2> QED
    BY <2>2, <2>6, <2>7
<1> QED
  BY <1>1, <1>2

\* What the broker takes for r and does not subtract goes into the queue of r.
LEMMA LossBroker ==
  ASSUME DeliveryInvariant, NoUnexplainedLoss, onMsgFromWorker
  PROVE  NoUnexplainedLoss'
<1> USE DEF DeliveryInvariant
<1> DEFINE h == Head(brokerQ)
           e == WithoutConsumers(h)
<1>0. /\ UNCHANGED <<topology, sent, dropped, handled>>
      /\ brokerQ # <<>>
      /\ brokerQ' = Tail(brokerQ)
      /\ \A r \in Workers : queue'[r] = IF r \in registered THEN Append(queue[r], e)
                                                           ELSE queue[r]
  BY DEF onMsgFromWorker
<1>1. /\ Len(brokerQ) \in Nat
      /\ DOMAIN brokerQ = 1..Len(brokerQ) /\ h = brokerQ[1] /\ h \in Message
      /\ DOMAIN brokerQ' = 1..(Len(brokerQ) - 1)
      /\ \A i \in 1..(Len(brokerQ) - 1) : brokerQ'[i] = brokerQ[i + 1]
  BY <1>0, TailFacts DEF TypeOK
<1>2. /\ e \in Message /\ e.n = h.n /\ e.from = h.from
      /\ Addressees(e) = Addressees(h) \ consumers[h.from]
  BY <1>1, SubtractFacts
<1> HIDE DEF e, h
<1> SUFFICES ASSUME NEW n \in DOMAIN sent, NEW r \in Addressees(sent[n]) \cap registered
             PROVE  InTransit(n, r)' \/ Handled(n, r)' \/ <<n, r>> \in dropped'
  BY <1>0 DEF NoUnexplainedLoss, topology
<1>3. InTransit(n, r) \/ Handled(n, r) \/ <<n, r>> \in dropped
  BY DEF NoUnexplainedLoss
<1>4. /\ \A i \in DOMAIN queue[r] : i \in DOMAIN queue'[r] /\ queue'[r][i] = queue[r][i]
      /\ \E i \in DOMAIN queue'[r] : queue'[r][i] = e
  <2>1. queue'[r] = Append(queue[r], e) /\ queue[r] \in Seq(Message)
    BY <1>0 DEF TypeOK
  <2> QED
    BY <1>2, <2>1, AppendFacts
<1>5. CASE InTransit(n, r)
  <2>1. CASE \E i \in DOMAIN queue[r] : queue[r][i].n = n /\ r \in Addressees(queue[r][i])
    BY <1>4, <2>1 DEF InTransit
  <2>2. ASSUME NEW i \in DOMAIN brokerQ, brokerQ[i].n = n,
               r \in Addressees(brokerQ[i]) \ consumers[brokerQ[i].from]
        PROVE  InTransit(n, r)'
    <3>1. CASE i = 1
      BY <1>1, <1>2, <1>4, <2>2, <3>1 DEF InTransit
    <3>2. CASE i # 1
      <4>1. i - 1 \in DOMAIN brokerQ' /\ brokerQ'[i - 1] = brokerQ[i]
        BY <1>1, <3>2
      <4> QED
        BY <1>0, <2>2, <4>1 DEF InTransit, topology
    <3> QED
      BY <3>1, <3>2
  <2> QED
    BY <1>5, <2>1, <2>2 DEF InTransit
<1>6. CASE Handled(n, r) \/ <<n, r>> \in dropped
  BY <1>0, <1>6 DEF Handled
<1> QED
  BY <1>3, <1>5, <1>6

\* What leaves the queue of its addressee has been handled.
LEMMA LossWorker ==
  ASSUME DeliveryInvariant, NoUnexplainedLoss, NEW w \in Workers, onMsgFromBroker(w)
  PROVE  NoUnexplainedLoss'
<1> USE DEF DeliveryInvariant
<1> DEFINE m == Head(queue[w])
<1>0. /\ UNCHANGED <<topology, brokerQ, sent, dropped>>
      /\ queue[w] # <<>>
      /\ queue' = [queue EXCEPT ![w] = Tail(@)]
  BY DEF onMsgFromBroker
<1>1. /\ Len(queue[w]) \in Nat
      /\ DOMAIN queue[w] = 1..Len(queue[w]) /\ m = queue[w][1] /\ m \in Message
      /\ DOMAIN Tail(queue[w]) = 1..(Len(queue[w]) - 1)
      /\ \A i \in 1..(Len(queue[w]) - 1) : Tail(queue[w])[i] = queue[w][i + 1]
  <2>1. queue[w] \in Seq(Message)
    BY DEF TypeOK
  <2> QED
    BY <1>0, <2>1, TailFacts
<1>2. /\ \A r \in Workers, n \in Nat : Handled(n, r) => Handled(n, r)'
      /\ w \in Addressees(m) => \A n \in Nat : n = m.n => Handled(n, w)'
  <2>1. CASE w \notin Addressees(m)
    BY <2>1 DEF onMsgFromBroker, Handled
  <2>2. CASE w \in Addressees(m)
    <3>1. PICK how \in Dispatch(m) :
            handled' = [handled EXCEPT ![w] =
                          Append(@, [n |-> m.n, from |-> m.from, how |-> how])]
      BY <2>2 DEF onMsgFromBroker
    <3> DEFINE entry == [n |-> m.n, from |-> m.from, how |-> how]
    <3>2. entry \in Entry
      <4>1. Dispatch(m) \subseteq Outcomes
        BY <1>1, <2>2 DEF Dispatch, Outcomes, Message, Kinds, Addressees
      <4> QED
        BY <1>1, <3>1, <4>1 DEF Entry, Message
    <3>3. entry.n = m.n
      OBVIOUS
    <3>4. handled'[w] = Append(handled[w], entry) /\ handled[w] \in Seq(Entry)
      BY <3>1 DEF TypeOK
    <3> HIDE DEF entry
    <3>5. /\ \A i \in DOMAIN handled[w] : i \in DOMAIN handled'[w]
                                         /\ handled'[w][i] = handled[w][i]
          /\ \E i \in DOMAIN handled'[w] : handled'[w][i] = entry
      BY <3>2, <3>4, AppendFacts
    <3>6. \A r \in Workers : r # w => handled'[r] = handled[r]
      BY <3>1 DEF TypeOK
    <3>7. ASSUME NEW r \in Workers, NEW n \in Nat, Handled(n, r)
          PROVE  Handled(n, r)'
      BY <3>5, <3>6, <3>7 DEF Handled
    <3>8. ASSUME NEW n \in Nat, n = m.n
          PROVE  Handled(n, w)'
      BY <3>3, <3>5, <3>8 DEF Handled
    <3> QED
      BY <3>7, <3>8
  <2> QED
    BY <2>1, <2>2
<1> HIDE DEF m
<1> SUFFICES ASSUME NEW n \in DOMAIN sent, NEW r \in Addressees(sent[n]) \cap registered
             PROVE  InTransit(n, r)' \/ Handled(n, r)' \/ <<n, r>> \in dropped'
  BY <1>0 DEF NoUnexplainedLoss, topology
<1>3. InTransit(n, r) \/ Handled(n, r) \/ <<n, r>> \in dropped
  BY DEF NoUnexplainedLoss
<1>4. r \in Workers /\ n \in Nat
  BY DEF TypeOK
<1>5. CASE \E i \in DOMAIN brokerQ : /\ brokerQ[i].n = n
                                    /\ r \in Addressees(brokerQ[i]) \ consumers[brokerQ[i].from]
  BY <1>0, <1>5 DEF InTransit, topology
<1>6. ASSUME NEW i \in DOMAIN queue[r], queue[r][i].n = n, r \in Addressees(queue[r][i])
      PROVE  InTransit(n, r)' \/ Handled(n, r)'
  <2>1. CASE r # w
    <3>1. queue'[r] = queue[r]
      BY <1>0, <1>4, <2>1 DEF TypeOK
    <3> QED
      BY <1>6, <3>1 DEF InTransit
  <2>2. CASE r = w /\ i = 1
    BY <1>1, <1>2, <1>4, <1>6, <2>2
  <2>3. CASE r = w /\ i # 1
    <3>1. queue'[w] = Tail(queue[w])
      BY <1>0 DEF TypeOK
    <3>2. i - 1 \in DOMAIN queue'[w] /\ queue'[w][i - 1] = queue[w][i]
      BY <1>1, <2>3, <3>1
    <3> QED
      BY <1>6, <2>3, <3>2 DEF InTransit
  <2> QED
    BY <2>1, <2>2, <2>3
<1> QED
  BY <1>0, <1>2, <1>3, <1>4, <1>5, <1>6 DEF InTransit

\* Every registered receiver of every message has handled it or will find it in
\* its queue or behind the broker, unless its own pipe dropped it.
THEOREM NoLoss == Spec => []NoUnexplainedLoss
<1>1. Init => NoUnexplainedLoss
  BY DEF Init, NoUnexplainedLoss
<1>2. DeliveryInvariant /\ NoUnexplainedLoss /\ [Next]_vars => NoUnexplainedLoss'
  <2> SUFFICES ASSUME DeliveryInvariant, NoUnexplainedLoss, [Next]_vars
               PROVE  NoUnexplainedLoss'
    OBVIOUS
  <2>1. CASE \/ \E w \in Workers : registerWorker(w) \/ StartThread(w)
             \/ \E p, c \in Workers : connectThrows(p, c) \/ disconnect(p, c)
             \/ \E p, c \in Workers, ch \in Chains : connectTwo(p, c, ch)
             \/ runAll
             \/ SetWasRun
             \/ exec
             \/ UNCHANGED vars
    BY <2>1, LossMainThread
  <2>2. CASE \E w \in Workers :
               SendMsg(w) \/ SendBroadcast(w) \/ SendCommand(w) \/ SendReply(w)
    <3>1. \E m \in Message : m.n = Len(sent) + 1 /\ emitSendMsg(m)
      BY <2>2, SendingEmits, BrokerAssumption DEF DeliveryInvariant
    <3> QED
      BY <3>1, LossEmit
  <2>3. CASE onMsgFromWorker
    BY <2>3, LossBroker
  <2>4. CASE \E w \in Workers : onMsgFromBroker(w)
    BY <2>4, LossWorker
  <2> QED
    BY <2>1, <2>2, <2>3, <2>4 DEF Next
<1> QED
  BY <1>1, <1>2, Invariance, PTL DEF Spec
----------------------------------------------------------------------------
(* What a pipe stopped.  The broker knows nothing of pipes: it is enough that *)
(* a stopped receiver is a consumer of the sender, and that the copy in the   *)
(* broker's queue has the sender of the message.                              *)

\* The messages stopped were sent by producers of those they were stopped for, who
\* have them neither handled nor queued; the copies of the broker name the sender.
StoppedAtPipe ==
  /\ \A i \in DOMAIN brokerQ : brokerQ[i].from = sent[brokerQ[i].n].from
  /\ \A n \in Nat, r \in Workers : <<n, r>> \in dropped =>
       /\ n \in DOMAIN sent
       /\ r \in consumers[sent[n].from]
       /\ \A i \in DOMAIN queue[r] : queue[r][i].n = n => r \notin Addressees(queue[r][i])
       /\ ~Handled(n, r)

\* What is stopped is not on its way: the broker will subtract its receiver.
LEMMA StoppedIsGone == TypeOK /\ StoppedAtPipe => StoppedStaysStopped
<1> SUFFICES ASSUME TypeOK, StoppedAtPipe, NEW n \in DOMAIN sent, NEW r \in Workers,
                    <<n, r>> \in dropped
             PROVE  ~InTransit(n, r) /\ ~Handled(n, r)
  BY DEF StoppedStaysStopped
<1>1. n \in Nat
  BY DEF TypeOK
<1>2. ~Handled(n, r) /\ r \in consumers[sent[n].from]
  BY <1>1 DEF StoppedAtPipe
<1>3. ~InTransit(n, r)
  BY <1>1, <1>2 DEF StoppedAtPipe, InTransit
<1> QED
  BY <1>2, <1>3

\* Set-up touches no message; once there are any, the consumers are fixed.
LEMMA StoppedMainThread ==
  ASSUME DeliveryInvariant, StoppedAtPipe,
         \/ \E w \in Workers : registerWorker(w) \/ StartThread(w)
         \/ \E p, c \in Workers : connectThrows(p, c) \/ disconnect(p, c)
         \/ \E p, c \in Workers, ch \in Chains : connectTwo(p, c, ch)
         \/ runAll
         \/ SetWasRun
         \/ exec
         \/ UNCHANGED vars
  PROVE  StoppedAtPipe'
<1>1. UNCHANGED traffic
  BY DEF registerWorker, StartThread, connectThrows, disconnect, connectTwo, runAll,
         SetWasRun, exec, vars
<1>2. CASE sent = <<>>
  <2>1. DOMAIN sent = {}
    BY <1>2
  <2> QED
    BY <1>1, <2>1 DEF StoppedAtPipe, traffic, DeliveryInvariant, Numbered
<1>3. CASE sent # <<>>
  <2>1. UNCHANGED consumers
    BY <1>3 DEF DeliveryInvariant, QuietSetup, registerWorker, StartThread, connectThrows,
         disconnect, connectTwo, runAll, SetWasRun, exec, vars, topology
  <2> QED
    BY <1>1, <2>1 DEF StoppedAtPipe, traffic, Handled
<1> QED
  BY <1>2, <1>3

\* A message is stopped for the consumers its pipes do not carry it to; it is new,
\* and so neither queued nor handled.
LEMMA StoppedEmit ==
  ASSUME DeliveryInvariant, StoppedAtPipe,
         NEW m \in Message, m.n = Len(sent) + 1, emitSendMsg(m)
  PROVE  StoppedAtPipe'
<1> USE DEF DeliveryInvariant
<1>0. UNCHANGED <<consumers, handled>>
  BY DEF emitSendMsg, traffic, topology
<1>1. CASE m.from \notin wasRun
  BY <1>0, <1>1 DEF emitSendMsg, traffic, StoppedAtPipe, Handled
<1>2. CASE m.from \in wasRun
  <2>1. /\ sent' = Append(sent, m)
        /\ brokerQ' = Append(brokerQ, m)
        /\ \A r \in Workers : queue'[r] = IF Piped(m, r) THEN Append(queue[r], m)
                                                         ELSE queue[r]
        /\ dropped' = dropped \cup
             {<<m.n, r>> : r \in {x \in Addressees(m) \cap consumers[m.from] : ~Piped(m, x)}}
    BY <1>2 DEF emitSendMsg
  <2>2. /\ Len(sent) \in Nat /\ DOMAIN sent' = 1..(Len(sent) + 1)
        /\ DOMAIN sent = 1..Len(sent)
        /\ \A n \in 1..Len(sent) : sent'[n] = sent[n]
        /\ sent'[Len(sent) + 1] = m
    BY <2>1, AppendFacts DEF TypeOK
  <2>3. \A i \in DOMAIN brokerQ' : brokerQ'[i] = m \/ (i \in DOMAIN brokerQ /\ brokerQ'[i] = brokerQ[i])
    BY <2>1, AppendFacts DEF TypeOK
  <2>4. \A i \in DOMAIN brokerQ' : brokerQ'[i].from = sent'[brokerQ'[i].n].from
    BY <2>2, <2>3 DEF StoppedAtPipe, Numbered
  <2>5. ASSUME NEW r \in Workers, NEW i \in DOMAIN queue'[r]
        PROVE  \/ Piped(m, r) /\ queue'[r][i] = m
               \/ i \in DOMAIN queue[r] /\ queue'[r][i] = queue[r][i]
    <3>1. queue[r] \in Seq(Message)
      BY DEF TypeOK
    <3>2. CASE Piped(m, r)
      <4>1. queue'[r] = Append(queue[r], m)
        BY <2>1, <3>2
      <4> QED
        BY <2>5, <3>1, <3>2, <4>1, InAppended
    <3>3. CASE ~Piped(m, r)
      BY <2>1, <2>5, <3>3
    <3> QED
      BY <3>2, <3>3
  <2> SUFFICES ASSUME NEW n \in Nat, NEW r \in Workers, <<n, r>> \in dropped'
               PROVE  /\ n \in DOMAIN sent'
                      /\ r \in consumers'[sent'[n].from]
                      /\ \A i \in DOMAIN queue'[r] :
                           queue'[r][i].n = n => r \notin Addressees(queue'[r][i])
                      /\ ~Handled(n, r)'
    BY <2>4 DEF StoppedAtPipe
  <2>6. CASE <<n, r>> \in dropped
    BY <1>0, <2>2, <2>5, <2>6 DEF StoppedAtPipe, Handled
  <2>7. CASE <<n, r>> \notin dropped
    <3>1. n = Len(sent) + 1 /\ r \in consumers[m.from] /\ ~Piped(m, r)
      BY <2>1, <2>7
    <3>2. \A i \in DOMAIN queue'[r] : queue'[r][i].n # n
      BY <2>2, <2>5, <3>1 DEF Numbered
    <3>3. ~Handled(n, r)'
      BY <1>0, <2>2, <3>1 DEF Numbered, Handled
    <3> QED
      BY <1>0, <2>2, <3>1, <3>2, <3>3
  <2> QED
    BY <2>6, <2>7
<1> QED
  BY <1>1, <1>2

\* The broker sends on to nobody a pipe stopped the message for: it subtracts the
\* consumers of the sender.
LEMMA StoppedBroker ==
  ASSUME DeliveryInvariant, StoppedAtPipe, onMsgFromWorker
  PROVE  StoppedAtPipe'
<1> USE DEF DeliveryInvariant
<1> DEFINE h == Head(brokerQ)
           e == WithoutConsumers(h)
<1>0. /\ UNCHANGED <<consumers, sent, dropped, handled>>
      /\ brokerQ # <<>>
      /\ brokerQ' = Tail(brokerQ)
      /\ \A r \in Workers : queue'[r] = Append(queue[r], e) \/ queue'[r] = queue[r]
  BY DEF onMsgFromWorker, topology
<1>1. /\ h \in Message /\ 1 \in DOMAIN brokerQ /\ h = brokerQ[1]
      /\ \A i \in DOMAIN brokerQ' : i + 1 \in DOMAIN brokerQ /\ brokerQ'[i] = brokerQ[i + 1]
  BY <1>0, TailFacts DEF TypeOK
<1>2. /\ e \in Message /\ e.n = h.n
      /\ Addressees(e) = Addressees(h) \ consumers[h.from]
  BY <1>1, SubtractFacts
<1> HIDE DEF e, h
<1>3. \A i \in DOMAIN brokerQ' : brokerQ'[i].from = sent'[brokerQ'[i].n].from
  BY <1>0, <1>1 DEF StoppedAtPipe
<1>4. ASSUME NEW n \in Nat, NEW r \in Workers, <<n, r>> \in dropped',
             NEW i \in DOMAIN queue'[r], queue'[r][i].n = n
      PROVE  r \notin Addressees(queue'[r][i])
  <2>1. queue'[r][i] = e \/ (i \in DOMAIN queue[r] /\ queue'[r][i] = queue[r][i])
    <3>1. queue[r] \in Seq(Message)
      BY DEF TypeOK
    <3>2. CASE queue'[r] = Append(queue[r], e)
      BY <1>2, <1>4, <3>1, <3>2, InAppended
    <3> QED
      BY <1>0, <1>4, <3>2
  <2>2. CASE queue'[r][i] = e
    <3>1. r \in consumers[sent[n].from] /\ h.from = sent[n].from
      BY <1>0, <1>1, <1>2, <1>4, <2>2 DEF StoppedAtPipe
    <3> QED
      BY <1>2, <2>2, <3>1
  <2> QED
    BY <1>0, <1>4, <2>1, <2>2 DEF StoppedAtPipe
<1> QED
  BY <1>0, <1>3, <1>4 DEF StoppedAtPipe, Handled

\* A worker handles only what is addressed to it in its queue.
LEMMA StoppedWorker ==
  ASSUME DeliveryInvariant, StoppedAtPipe, NEW w \in Workers, onMsgFromBroker(w)
  PROVE  StoppedAtPipe'
<1> USE DEF DeliveryInvariant
<1> DEFINE m == Head(queue[w])
<1>0. /\ UNCHANGED <<consumers, brokerQ, sent, dropped>>
      /\ queue[w] # <<>>
      /\ queue' = [queue EXCEPT ![w] = Tail(@)]
  BY DEF onMsgFromBroker, topology
<1>1. /\ 1 \in DOMAIN queue[w] /\ m = queue[w][1]
      /\ \A i \in DOMAIN Tail(queue[w]) : i + 1 \in DOMAIN queue[w]
                                          /\ Tail(queue[w])[i] = queue[w][i + 1]
  <2>1. queue[w] \in Seq(Message)
    BY DEF TypeOK
  <2> QED
    BY <1>0, <2>1, TailFacts
<1>2. \A r \in Workers : \A i \in DOMAIN queue'[r] :
        \E j \in DOMAIN queue[r] : queue'[r][i] = queue[r][j]
  BY <1>0, <1>1 DEF TypeOK
<1>3. ASSUME NEW n \in Nat, NEW r \in Workers, Handled(n, r)'
      PROVE  Handled(n, r) \/ (r = w /\ n = m.n /\ w \in Addressees(m))
  <2>1. CASE w \notin Addressees(m)
    BY <1>3, <2>1 DEF onMsgFromBroker, Handled
  <2>2. CASE w \in Addressees(m)
    <3>1. PICK how \in Dispatch(m) :
            handled' = [handled EXCEPT ![w] =
                          Append(@, [n |-> m.n, from |-> m.from, how |-> how])]
      BY <2>2 DEF onMsgFromBroker
    <3> DEFINE entry == [n |-> m.n, from |-> m.from, how |-> how]
    <3>2. handled[w] \in Seq(Entry) /\ handled'[w] = Append(handled[w], entry)
          /\ (r # w => handled'[r] = handled[r])
      BY <3>1 DEF TypeOK
    <3>3. entry.n = m.n
      OBVIOUS
    <3> HIDE DEF entry
    <3>4. \A i \in DOMAIN handled'[w] :
            handled'[w][i] = entry \/ (i \in DOMAIN handled[w] /\ handled'[w][i] = handled[w][i])
      BY <3>2
    <3> QED
      BY <1>3, <2>2, <3>2, <3>3, <3>4 DEF Handled
  <2> QED
    BY <2>1, <2>2
<1> HIDE DEF m
<1>4. ASSUME NEW n \in Nat, NEW r \in Workers, <<n, r>> \in dropped
      PROVE  ~Handled(n, r)'
  BY <1>1, <1>3, <1>4 DEF StoppedAtPipe
<1> QED
  BY <1>0, <1>2, <1>4 DEF StoppedAtPipe

\* What the interceptors or the disconnection of its pipe kept from a receiver never
\* reaches it by the other route, for any pipes, chains and number of messages.
THEOREM StoppedForGood == Spec => []StoppedStaysStopped
<1>1. Init => StoppedAtPipe
  BY DEF Init, StoppedAtPipe
<1>2. DeliveryInvariant /\ StoppedAtPipe /\ [Next]_vars => StoppedAtPipe'
  <2> SUFFICES ASSUME DeliveryInvariant, StoppedAtPipe, [Next]_vars
               PROVE  StoppedAtPipe'
    OBVIOUS
  <2>1. CASE \/ \E w \in Workers : registerWorker(w) \/ StartThread(w)
             \/ \E p, c \in Workers : connectThrows(p, c) \/ disconnect(p, c)
             \/ \E p, c \in Workers, ch \in Chains : connectTwo(p, c, ch)
             \/ runAll
             \/ SetWasRun
             \/ exec
             \/ UNCHANGED vars
    BY <2>1, StoppedMainThread
  <2>2. CASE \E w \in Workers :
               SendMsg(w) \/ SendBroadcast(w) \/ SendCommand(w) \/ SendReply(w)
    <3>1. \E m \in Message : m.n = Len(sent) + 1 /\ emitSendMsg(m)
      BY <2>2, SendingEmits, BrokerAssumption DEF DeliveryInvariant
    <3> QED
      BY <3>1, StoppedEmit
  <2>3. CASE onMsgFromWorker
    BY <2>3, StoppedBroker
  <2>4. CASE \E w \in Workers : onMsgFromBroker(w)
    BY <2>4, StoppedWorker
  <2> QED
    BY <2>1, <2>2, <2>3, <2>4 DEF Next
<1>3. DeliveryInvariant /\ StoppedAtPipe => StoppedStaysStopped
  BY StoppedIsGone DEF DeliveryInvariant
<1> QED
  BY <1>1, <1>2, <1>3, Invariance, PTL DEF Spec
----------------------------------------------------------------------------
(* The refinement: pipes and broadcasts implement the channels. *)

\* Joining two sequences: what is added to the second is added at the end, what
\* is moved from the second to the first changes nothing, and what is taken off
\* the first is taken off the whole.
LEMMA ConcatMoves ==
  ASSUME NEW S, NEW s \in Seq(S), NEW t \in Seq(S)
  PROVE  /\ s \o <<>> = s
         /\ \A e \in S : s \o Append(t, e) = Append(s \o t, e)
         /\ t # <<>> => Append(s, Head(t)) \o Tail(t) = s \o t
         /\ s # <<>> => /\ s \o t # <<>>
                        /\ Head(s \o t) = Head(s)
                        /\ Tail(s \o t) = Tail(s) \o t
<1>1. s \o <<>> = s
  BY ConcatEmptySeq
<1>2. s \o t \in Seq(S) /\ Len(s) \in Nat /\ Len(t) \in Nat
  BY ConcatProperties
<1>3. ASSUME NEW e \in S PROVE s \o Append(t, e) = Append(s \o t, e)
  <2>1. t \o <<e>> \in Seq(S) /\ <<e>> \in Seq(S)
    BY ConcatProperties
  <2>2. Append(t, e) = t \o <<e>> /\ Append(s \o t, e) = (s \o t) \o <<e>>
    BY <1>2, AppendIsConcat
  <2>3. (s \o t) \o <<e>> = s \o (t \o <<e>>)
    BY <2>1, ConcatAssociative
  <2> QED
    BY <2>2, <2>3
<1>4. ASSUME t # <<>> PROVE Append(s, Head(t)) \o Tail(t) = s \o t
  <2>1. Head(t) \in S /\ Tail(t) \in Seq(S) /\ <<Head(t)>> \in Seq(S)
    BY <1>4
  <2>2. Append(s, Head(t)) = s \o <<Head(t)>>
    BY <2>1, AppendIsConcat
  <2>3. (s \o <<Head(t)>>) \o Tail(t) = s \o (<<Head(t)>> \o Tail(t))
    BY <2>1, ConcatAssociative
  <2>4. <<Head(t)>> \o Tail(t) = t
    <3>1. /\ <<Head(t)>> \o Tail(t) \in Seq(S)
          /\ Len(<<Head(t)>> \o Tail(t)) = Len(<<Head(t)>>) + Len(Tail(t))
          /\ \A i \in 1..(Len(<<Head(t)>>) + Len(Tail(t))) :
               (<<Head(t)>> \o Tail(t))[i] =
                 IF i <= Len(<<Head(t)>>) THEN <<Head(t)>>[i] ELSE Tail(t)[i - Len(<<Head(t)>>)]
      BY <2>1, ConcatProperties
    <3>2. Len(<<Head(t)>>) = 1 /\ <<Head(t)>>[1] = Head(t) /\ Head(t) = t[1]
      BY <1>4
    <3>3. /\ Len(Tail(t)) = Len(t) - 1
          /\ \A i \in 1..Len(Tail(t)) : Tail(t)[i] = t[i + 1]
      BY <1>4, HeadTailProperties
    <3>4. ASSUME NEW i \in 1..Len(t) PROVE (<<Head(t)>> \o Tail(t))[i] = t[i]
      <4>1. CASE i = 1
        BY <1>2, <3>1, <3>2, <3>3, <4>1
      <4>2. CASE i # 1
        <5>1. i - 1 \in 1..Len(Tail(t)) /\ ~(i <= 1) /\ (i - 1) + 1 = i
          BY <1>2, <3>3, <4>2
        <5> QED
          BY <1>2, <3>1, <3>2, <3>3, <5>1
      <4> QED
        BY <4>1, <4>2
    <3>5. Len(<<Head(t)>> \o Tail(t)) = Len(t)
      BY <1>2, <3>1, <3>2, <3>3
    <3> QED
      BY <3>1, <3>4, <3>5, SeqEqual
  <2> QED
    BY <2>2, <2>3, <2>4
<1>5. ASSUME s # <<>>
      PROVE  s \o t # <<>> /\ Head(s \o t) = Head(s) /\ Tail(s \o t) = Tail(s) \o t
  <2>1. s \o t # <<>>
    BY <1>5, ConcatEqualIffEmpty
  <2>2. /\ Len(s \o t) = Len(s) + Len(t)
        /\ \A i \in 1..(Len(s) + Len(t)) :
             (s \o t)[i] = IF i <= Len(s) THEN s[i] ELSE t[i - Len(s)]
    BY ConcatProperties
  <2>3. Len(s) >= 1 /\ Tail(s) \in Seq(S) /\ Len(Tail(s)) = Len(s) - 1
        /\ \A i \in 1..Len(Tail(s)) : Tail(s)[i] = s[i + 1]
    BY <1>5, HeadTailProperties
  <2>4. /\ Tail(s \o t) \in Seq(S) /\ Len(Tail(s \o t)) = Len(s \o t) - 1
        /\ \A i \in 1..Len(Tail(s \o t)) : Tail(s \o t)[i] = (s \o t)[i + 1]
    BY <1>2, <2>1, HeadTailProperties
  <2>5. /\ Tail(s) \o t \in Seq(S) /\ Len(Tail(s) \o t) = Len(Tail(s)) + Len(t)
        /\ \A i \in 1..(Len(Tail(s)) + Len(t)) :
             (Tail(s) \o t)[i] = IF i <= Len(Tail(s)) THEN Tail(s)[i] ELSE t[i - Len(Tail(s))]
    BY <2>3, ConcatProperties
  <2>6. Head(s \o t) = Head(s)
    <3>1. Head(s \o t) = (s \o t)[1] /\ Head(s) = s[1]
      BY <1>2, <1>5, <2>1
    <3> QED
      BY <1>2, <2>2, <2>3, <3>1
  <2>7. ASSUME NEW i \in 1..Len(Tail(s \o t)) PROVE Tail(s \o t)[i] = (Tail(s) \o t)[i]
    <3>1. i + 1 \in 1..(Len(s) + Len(t)) /\ i \in 1..(Len(Tail(s)) + Len(t)) /\ i \in Int
      BY <1>2, <2>2, <2>3, <2>4
    <3>2. CASE i <= Len(s) - 1
      <4>1. i + 1 <= Len(s) /\ i \in 1..Len(Tail(s))
        BY <1>2, <2>3, <3>1, <3>2
      <4> QED
        BY <2>2, <2>3, <2>4, <2>5, <3>1, <3>2, <4>1
    <3>3. CASE ~(i <= Len(s) - 1)
      <4>1. ~(i + 1 <= Len(s)) /\ (i + 1) - Len(s) = i - (Len(s) - 1)
        BY <1>2, <3>1, <3>3
      <4> QED
        BY <2>2, <2>3, <2>4, <2>5, <3>1, <3>3, <4>1
    <3> QED
      BY <3>2, <3>3
  <2>8. Len(Tail(s \o t)) = Len(Tail(s) \o t)
    BY <1>2, <2>2, <2>3, <2>4, <2>5
  <2> QED
    BY <2>1, <2>4, <2>5, <2>6, <2>7, <2>8, SeqEqual
<1> QED
  BY <1>1, <1>3, <1>4, <1>5

\* m goes from p to r.
Goes(m, p, r) == m.from = p /\ r \in Addressees(m)

\* The numbers are what is kept of the messages that go from p to r.
LEMMA NumbersKept ==
  ASSUME NEW ms \in Seq(Message), NEW p, NEW r
  PROVE  Kept(Numbers(ms, p, r), Len(ms), {k \in 1..Len(ms) : Goes(ms[k], p, r)},
              [k \in 1..Len(ms) |-> ms[k].n], Nat)
<1> DEFINE K == {k \in 1..Len(ms) : Goes(ms[k], p, r)}
           v == [k \in 1..Len(ms) |-> ms[k].n]
           Own(f) == f = [k \in 0..Len(ms) |->
                            IF k = 0
                            THEN <<>>
                            ELSE IF ms[k].from = p /\ r \in Addressees(ms[k])
                                 THEN Append(f[k - 1], ms[k].n)
                                 ELSE f[k - 1]]
<1>1. Len(ms) \in Nat /\ \A k \in 1..Len(ms) : ms[k] \in Message
  OBVIOUS
<1>2. v \in [1..Len(ms) -> Nat]
  BY <1>1 DEF Message
<1>3. ASSUME NEW f PROVE Own(f) <=> StepsOf(f, Len(ms), K, v)
  <2> DEFINE a(k) == IF k = 0
                     THEN <<>>
                     ELSE IF ms[k].from = p /\ r \in Addressees(ms[k])
                          THEN Append(f[k - 1], ms[k].n)
                          ELSE f[k - 1]
             b(k) == IF k = 0 THEN <<>>
                     ELSE IF k \in K THEN Append(f[k - 1], v[k]) ELSE f[k - 1]
  <2>1. ASSUME NEW k \in 0..Len(ms) PROVE a(k) = b(k)
    <3>1. CASE k = 0
      BY <3>1
    <3>2. CASE k # 0
      <4>1. k \in 1..Len(ms)
        BY <1>1, <3>2
      <4>2. v[k] = ms[k].n /\ (k \in K <=> ms[k].from = p /\ r \in Addressees(ms[k]))
        BY <4>1 DEF Goes
      <4> HIDE DEF K, v
      <4> QED
        BY <3>2, <4>2
    <3> QED
      BY <3>1, <3>2
  <2>2. Own(f) <=> f = [k \in 0..Len(ms) |-> a(k)]
    BY Zenon
  <2>3. StepsOf(f, Len(ms), K, v) <=> f = [k \in 0..Len(ms) |-> b(k)]
    BY Zenon DEF StepsOf
  <2> HIDE DEF a, b, Own
  <2>4. [k \in 0..Len(ms) |-> a(k)] = [k \in 0..Len(ms) |-> b(k)]
    BY <2>1
  <2> QED
    BY <2>2, <2>3, <2>4
<1>4. \E f : Own(f)
  <2> HIDE DEF K, v, Own
  <2>1. \E f : StepsOf(f, Len(ms), K, v)
    BY <1>1, <1>2, StepsExist
  <2> QED
    BY <1>3, <2>1
<1>5. Numbers(ms, p, r) = (CHOOSE f : Own(f))[Len(ms)]
  BY Zenon DEF Numbers
<1> HIDE DEF Own, K, v
<1>6. StepsOf(CHOOSE f : Own(f), Len(ms), K, v)
  <2>1. Own(CHOOSE f : Own(f))
    BY <1>4, Zenon
  <2> QED
    BY <1>3, <2>1
<1>7. Kept((CHOOSE f : Own(f))[Len(ms)], Len(ms), K, v, Nat)
  BY <1>1, <1>2, <1>6, StepsKeep
<1> QED
  BY <1>5, <1>7 DEF K, v

\* Numbers is a sequence of numbers; nothing sent, nothing on the way.
LEMMA NumbersType ==
  ASSUME NEW ms \in Seq(Message), NEW p, NEW r
  PROVE  Numbers(ms, p, r) \in Seq(Nat)
<1>1. Len(ms) \in Nat
  OBVIOUS
<1>2. Len(ms) \in 0..Len(ms)
  BY <1>1
<1> QED
  BY <1>2, NumbersKept DEF Kept

\* One more message at the end.
LEMMA NumbersLast ==
  ASSUME NEW ms \in Seq(Message), NEW m \in Message, NEW p, NEW r
  PROVE  Numbers(Append(ms, m), p, r) =
           IF Goes(m, p, r) THEN Append(Numbers(ms, p, r), m.n) ELSE Numbers(ms, p, r)
<1> DEFINE ns == Append(ms, m)
           n == Len(ms)
           K == {k \in 1..Len(ns) : Goes(ns[k], p, r)}
           v == [k \in 1..Len(ns) |-> ns[k].n]
           L == {k \in 1..n : Goes(ms[k], p, r)}
           x == [k \in 1..n |-> ms[k].n]
<1>1. /\ ns \in Seq(Message) /\ n \in Nat /\ Len(ns) = n + 1 /\ ns[n + 1] = m
      /\ \A k \in 1..n : ns[k] = ms[k]
  BY AppendFacts
<1>2. Kept(Numbers(ns, p, r), n + 1, K, v, Nat) /\ Kept(Numbers(ms, p, r), n, L, x, Nat)
  BY <1>1, NumbersKept
<1>3. \A k \in 1..n : k \in 1..Len(ns)
  BY <1>1
<1>4. \A k \in 1..n : (k \in K <=> k \in L) /\ (k \in K => v[k] = x[k])
  BY <1>1, <1>3
<1>5. (n + 1 \in K <=> Goes(m, p, r)) /\ v[n + 1] = m.n
  <2>1. n + 1 \in 1..Len(ns)
    BY <1>1
  <2> QED
    BY <1>1, <2>1
<1>6. Numbers(ns, p, r) = IF n + 1 \in K THEN Append(Numbers(ms, p, r), v[n + 1])
                          ELSE Numbers(ms, p, r)
  <2> HIDE DEF ns, n, K, v, L, x
  <2> QED
    BY <1>1, <1>2, <1>4, KeptLast
<1> HIDE DEF K, v, n
<1> QED
  BY <1>5, <1>6

\* One message less at the front.
LEMMA NumbersFirst ==
  ASSUME NEW ms \in Seq(Message), ms # <<>>, NEW p, NEW r
  PROVE  /\ Goes(Head(ms), p, r) => /\ Numbers(ms, p, r) # <<>>
                                    /\ Head(Numbers(ms, p, r)) = Head(ms).n
                                    /\ Tail(Numbers(ms, p, r)) = Numbers(Tail(ms), p, r)
         /\ ~Goes(Head(ms), p, r) => Numbers(Tail(ms), p, r) = Numbers(ms, p, r)
<1> DEFINE ns == Tail(ms)
           n == Len(ns)
           K == {k \in 1..Len(ms) : Goes(ms[k], p, r)}
           v == [k \in 1..Len(ms) |-> ms[k].n]
           L == {k \in 1..n : Goes(ns[k], p, r)}
           x == [k \in 1..n |-> ns[k].n]
<1>1. /\ ns \in Seq(Message) /\ n \in Nat /\ Len(ms) = n + 1 /\ Head(ms) = ms[1]
      /\ \A k \in 1..n : ns[k] = ms[k + 1] /\ ns[k] \in Message
      /\ ms[1] \in Message
  <2>1. Len(ns) = Len(ms) - 1 /\ ns \in Seq(Message) /\ Len(ms) \in Nat /\ Head(ms) = ms[1]
        /\ Head(ms) \in Message
    OBVIOUS
  <2>2. \A k \in 1..n : ns[k] = ms[k + 1]
    BY HeadTailProperties
  <2>3. \A k \in 1..n : ns[k] \in Message
    BY <2>1
  <2> QED
    BY <2>1, <2>2, <2>3
<1>2. Kept(Numbers(ms, p, r), n + 1, K, v, Nat) /\ Kept(Numbers(ns, p, r), n, L, x, Nat)
  BY <1>1, NumbersKept
<1>3. \A k \in 1..n : k + 1 \in 1..Len(ms)
  BY <1>1
<1>4. \A k \in 1..n : /\ k \in L <=> k + 1 \in K
                      /\ k \in L => x[k] = v[k + 1] /\ x[k] \in Nat
  BY <1>1, <1>3 DEF Message
<1>5. (1 \in K <=> Goes(Head(ms), p, r)) /\ v[1] = Head(ms).n /\ v[1] \in Nat
  <2>1. 1 \in 1..Len(ms)
    BY <1>1
  <2> QED
    BY <1>1, <2>1 DEF Message
<1>6. /\ 1 \in K => /\ Numbers(ms, p, r) # <<>>
                    /\ Head(Numbers(ms, p, r)) = v[1]
                    /\ Tail(Numbers(ms, p, r)) = Numbers(ns, p, r)
      /\ 1 \notin K => Numbers(ms, p, r) = Numbers(ns, p, r)
  <2>1. n \in Nat /\ (1 \in K => v[1] \in Nat)
    BY <1>1, <1>5
  <2> HIDE DEF ns, n, K, v, L, x
  <2>2. StartsWith(Numbers(ms, p, r), K, v, Numbers(ns, p, r))
    BY <1>2, <1>4, <2>1, KeptFirst, Zenon
  <2> QED
    BY <2>2, Zenon DEF StartsWith
<1> HIDE DEF K, v, n
<1> QED
  BY <1>5, <1>6

\* Nothing queued, nothing on the way.
LEMMA NumbersNone ==
  ASSUME NEW p, NEW r
  PROVE  Numbers(<<>>, p, r) = <<>>
<1> DEFINE none == <<>>
<1>1. none \in Seq(Message) /\ Len(none) = 0
  OBVIOUS
<1> HIDE DEF none
<1> DEFINE K == {k \in 1..Len(none) : Goes(none[k], p, r)}
           v == [k \in 1..Len(none) |-> none[k].n]
<1>2. Kept(Numbers(none, p, r), Len(none), K, v, Nat)
  BY <1>1, NumbersKept
<1> HIDE DEF K, v
<1>3. Numbers(none, p, r) = <<>>
  BY <1>1, <1>2 DEF Kept
<1> QED
  BY <1>3 DEF none

\* What the entries of h say was received.
Reported(h) == [i \in DOMAIN h |-> [from |-> h[i].from, n |-> h[i].n]]

\* One more entry, one more reception.
LEMMA ReportedLast ==
  ASSUME NEW h \in Seq(Entry), NEW e \in Entry
  PROVE  Reported(Append(h, e)) = Append(Reported(h), [from |-> e.from, n |-> e.n])
<1> DEFINE R == [from : Workers, n : Nat]
           d == [from |-> e.from, n |-> e.n]
<1>1. d \in R /\ \A i \in 1..Len(h) : [from |-> h[i].from, n |-> h[i].n] \in R
  <2>1. e \in Entry /\ \A i \in 1..Len(h) : h[i] \in Entry
    OBVIOUS
  <2> QED
    BY <2>1 DEF Entry
<1>2. /\ Append(h, e) \in Seq(Entry) /\ Len(h) \in Nat /\ DOMAIN h = 1..Len(h)
      /\ DOMAIN Append(h, e) = 1..(Len(h) + 1)
      /\ \A i \in 1..Len(h) : Append(h, e)[i] = h[i]
      /\ Append(h, e)[Len(h) + 1] = e
  BY AppendFacts
<1>3. /\ Reported(h) \in Seq(R) /\ Len(Reported(h)) = Len(h)
      /\ \A i \in 1..Len(h) : Reported(h)[i] = [from |-> h[i].from, n |-> h[i].n]
  <2>1. Reported(h) \in [1..Len(h) -> R]
    BY <1>1, <1>2 DEF Reported
  <2>2. \A i \in 1..Len(h) : Reported(h)[i] = [from |-> h[i].from, n |-> h[i].n]
    BY <1>2 DEF Reported
  <2> HIDE DEF R
  <2>3. Reported(h) \in Seq(R) /\ Len(Reported(h)) = Len(h)
    BY <1>2, <2>1
  <2> QED
    BY <2>2, <2>3
<1>4. /\ Append(Reported(h), d) \in Seq(R)
      /\ Len(Append(Reported(h), d)) = Len(h) + 1
      /\ \A i \in 1..Len(h) : Append(Reported(h), d)[i] = Reported(h)[i]
      /\ Append(Reported(h), d)[Len(h) + 1] = d
  <2> HIDE DEF R, d
  <2> QED
    BY <1>1, <1>3, AppendProperties
<1>5. /\ Reported(Append(h, e)) \in Seq(R) /\ Len(Reported(Append(h, e))) = Len(h) + 1
      /\ \A i \in 1..(Len(h) + 1) :
           Reported(Append(h, e))[i] = Append(Reported(h), d)[i]
  <2>1. \A i \in 1..(Len(h) + 1) : i = Len(h) + 1 \/ i \in 1..Len(h)
    BY <1>2
  <2>2. \A i \in 1..(Len(h) + 1) :
          [from |-> Append(h, e)[i].from, n |-> Append(h, e)[i].n] = Append(Reported(h), d)[i]
    BY <1>2, <1>3, <1>4, <2>1
  <2>3. \A i \in 1..(Len(h) + 1) :
          [from |-> Append(h, e)[i].from, n |-> Append(h, e)[i].n] \in R
    BY <1>1, <1>2, <2>1
  <2>4. /\ Reported(Append(h, e)) \in [1..(Len(h) + 1) -> R]
        /\ \A i \in 1..(Len(h) + 1) : Reported(Append(h, e))[i] =
             [from |-> Append(h, e)[i].from, n |-> Append(h, e)[i].n]
    BY <1>2, <2>3 DEF Reported
  <2> HIDE DEF R, d
  <2>5. Reported(Append(h, e)) \in Seq(R) /\ Len(Reported(Append(h, e))) = Len(h) + 1
    BY <1>2, <2>4
  <2> QED
    BY <2>2, <2>4, <2>5
<1> HIDE DEF R
<1> QED
  BY <1>4, <1>5, SeqEqual
----------------------------------------------------------------------------
(* Only registered workers are connected, addressed by way of the broker, or *)
(* have sent anything.                                                       *)

\* Connecting and sending keep to the registered workers.
LEMMA KnownStep ==
  ASSUME DeliveryInvariant, OnlyKnown, BrokerAssumption, [Next]_vars
  PROVE  OnlyKnown'
<1>1. TypeOK /\ TopologyConsistent /\ Numbered
  BY DEF DeliveryInvariant
<1>2. CASE \/ \E w \in Workers : registerWorker(w) \/ StartThread(w)
           \/ \E p, c \in Workers : connectThrows(p, c) \/ disconnect(p, c)
           \/ runAll
           \/ SetWasRun
           \/ exec
           \/ UNCHANGED vars
  <2>1. UNCHANGED <<traffic, connections>> /\ registered \subseteq registered'
    BY <1>2 DEF registerWorker, StartThread, connectThrows, disconnect, runAll, SetWasRun,
         exec, vars, topology
  <2> QED
    BY <2>1 DEF OnlyKnown, traffic
<1>3. CASE \E p, c \in Workers, ch \in Chains : connectTwo(p, c, ch)
  <2>1. PICK p \in Workers, c \in Workers, ch \in Chains : connectTwo(p, c, ch)
    BY <1>3
  <2>2. UNCHANGED <<traffic, registered>> /\ {p, c} \subseteq registered
        /\ connections' = connections \cup {<<p, c>>}
    BY <2>1 DEF connectTwo, MayConnect
  <2> QED
    BY <2>2 DEF OnlyKnown, traffic
<1>4. CASE \E w \in Workers :
             SendMsg(w) \/ SendBroadcast(w) \/ SendCommand(w) \/ SendReply(w)
  <2>1. PICK m \in Message : /\ m.n = Len(sent) + 1 /\ emitSendMsg(m)
                             /\ OnlyKnown /\ TopologyConsistent => m.to \subseteq registered
    BY <1>1, <1>4, SendingEmits
  <2>2. m.to \subseteq registered /\ m.from \in registered
    BY <1>1, <2>1 DEF emitSendMsg, TypeOK
  <2>3. UNCHANGED <<registered, connections>>
    BY <2>1 DEF emitSendMsg, topology
  <2>4. CASE m.from \notin wasRun
    BY <2>1, <2>3, <2>4 DEF emitSendMsg, OnlyKnown, traffic
  <2>5. CASE m.from \in wasRun
    <3>1. brokerQ' = Append(brokerQ, m) /\ sent' = Append(sent, m)
      BY <2>1, <2>5 DEF emitSendMsg
    <3>2. \A i \in DOMAIN brokerQ' : brokerQ'[i] = m \/ (i \in DOMAIN brokerQ /\ brokerQ'[i] = brokerQ[i])
      BY <1>1, <3>1, AppendFacts DEF TypeOK
    <3>3. \A i \in DOMAIN sent' : sent'[i] = m \/ (i \in DOMAIN sent /\ sent'[i] = sent[i])
      BY <1>1, <3>1, AppendFacts DEF TypeOK
    <3> QED
      BY <2>2, <2>3, <3>2, <3>3 DEF OnlyKnown
  <2> QED
    BY <2>4, <2>5
<1>5. CASE onMsgFromWorker
  <2>1. /\ UNCHANGED <<registered, connections, sent>>
        /\ brokerQ # <<>> /\ brokerQ' = Tail(brokerQ)
    BY <1>5 DEF onMsgFromWorker, topology
  <2>2. \A i \in DOMAIN brokerQ' : i + 1 \in DOMAIN brokerQ /\ brokerQ'[i] = brokerQ[i + 1]
    BY <1>1, <2>1, TailFacts DEF TypeOK
  <2> QED
    BY <2>1, <2>2 DEF OnlyKnown
<1>6. CASE \E w \in Workers : onMsgFromBroker(w)
  BY <1>6 DEF onMsgFromBroker, OnlyKnown, topology
<1> QED
  BY <1>2, <1>3, <1>4, <1>5, <1>6 DEF Next
----------------------------------------------------------------------------
(* Each step is a step of the channels, or none. *)

\* Types of what is on the way.
LEMMA OnTheWayType ==
  ASSUME TypeOK, NEW p \in Workers, NEW r \in Workers
  PROVE  /\ Numbers(queue[r], p, r) \in Seq(Nat)
         /\ Numbers(brokerQ, p, r) \in Seq(Nat)
         /\ r \in consumers[p] => OnTheWay(p, r) = Numbers(queue[r], p, r)
         /\ r \notin consumers[p] =>
              OnTheWay(p, r) = Numbers(queue[r], p, r) \o Numbers(brokerQ, p, r)
<1>1. queue[r] \in Seq(Message) /\ brokerQ \in Seq(Message)
  BY DEF TypeOK
<1>2. Numbers(queue[r], p, r) \in Seq(Nat) /\ Numbers(brokerQ, p, r) \in Seq(Nat)
  BY <1>1, NumbersType
<1>3. Numbers(queue[r], p, r) \o <<>> = Numbers(queue[r], p, r)
  BY <1>2, ConcatMoves
<1> QED
  BY <1>2, <1>3 DEF OnTheWay

\* A step that changes no channel, no count and no report is none of the channels'.
LEMMA SameChannels ==
  ASSUME \A p, r \in Workers : OnTheWay(p, r)' = OnTheWay(p, r),
         UNCHANGED <<sent, handled>>
  PROVE  UNCHANGED Abstract!vars
<1>1. [pr \in Pairs |-> OnTheWay(pr[1], pr[2])]' = [pr \in Pairs |-> OnTheWay(pr[1], pr[2])]
  BY DEF Pairs
<1> QED
  BY <1>1 DEF Abstract!vars

\* Set-up, threads and disconnection show in no channel.
LEMMA MainThreadRefines ==
  ASSUME DeliveryInvariant,
         \/ \E w \in Workers : registerWorker(w) \/ StartThread(w)
         \/ \E p, c \in Workers : connectThrows(p, c) \/ disconnect(p, c)
         \/ \E p, c \in Workers, ch \in Chains : connectTwo(p, c, ch)
         \/ runAll
         \/ SetWasRun
         \/ exec
         \/ UNCHANGED vars
  PROVE  UNCHANGED Abstract!vars
<1>1. UNCHANGED traffic
  BY DEF registerWorker, StartThread, connectThrows, disconnect, connectTwo, runAll,
         SetWasRun, exec, vars
<1>2. CASE phase = "setup"
  <2>1. brokerQ = <<>> /\ \A w \in Workers : queue[w] = <<>>
    BY <1>2 DEF DeliveryInvariant, QuietSetup
  <2>2. brokerQ' = <<>> /\ \A w \in Workers : queue'[w] = <<>>
    BY <1>1, <2>1 DEF traffic
  <2>3. <<>> \o <<>> = <<>>
    BY ConcatEmptySeq
  <2>4. \A p, r \in Workers : OnTheWay(p, r) = <<>> /\ OnTheWay(p, r)' = <<>>
    BY <2>1, <2>2, <2>3, NumbersNone DEF OnTheWay
  <2> QED
    BY <1>1, <2>4, SameChannels DEF traffic
<1>3. CASE phase # "setup"
  <2>1. UNCHANGED consumers
    BY <1>3 DEF registerWorker, StartThread, connectThrows, disconnect, connectTwo, runAll,
         SetWasRun, exec, vars, topology
  <2>2. \A p, r \in Workers : OnTheWay(p, r)' = OnTheWay(p, r)
    BY <1>1, <2>1 DEF OnTheWay, traffic
  <2> QED
    BY <1>1, <2>2, SameChannels DEF traffic
<1> QED
  BY <1>2, <1>3

\* The receivers of m that will get it: through their pipe, or by way of the broker.
Accepting(m) == {r \in Addressees(m) : r \in consumers[m.from] => Piped(m, r)}

\* An emitted message is a send: its number ends the channels of those receivers.
LEMMA EmitRefines ==
  ASSUME DeliveryInvariant, NEW m \in Message, m.n = Len(sent) + 1, emitSendMsg(m)
  PROVE  Abstract!Next \/ UNCHANGED Abstract!vars
<1>0. TypeOK /\ TopologyConsistent /\ UNCHANGED <<consumers, handled>>
  BY DEF DeliveryInvariant, emitSendMsg, topology, traffic
<1>1. CASE m.from \notin wasRun
  <2>1. UNCHANGED traffic
    BY <1>1 DEF emitSendMsg
  <2>2. \A p, r \in Workers : OnTheWay(p, r)' = OnTheWay(p, r)
    BY <1>0, <2>1 DEF OnTheWay, traffic
  <2> QED
    BY <2>1, <2>2, SameChannels DEF traffic
<1>2. CASE m.from \in wasRun
  <2>1. /\ sent' = Append(sent, m)
        /\ brokerQ' = Append(brokerQ, m)
        /\ \A r \in Workers : queue'[r] = IF Piped(m, r) THEN Append(queue[r], m)
                                                         ELSE queue[r]
    BY <1>2 DEF emitSendMsg
  <2>2. m.from \in Workers /\ Accepting(m) \in SUBSET Workers /\ Len(sent') = Len(sent) + 1
    BY <1>0, <2>1 DEF Accepting, Addressees, Message, TypeOK
  <2>3. ASSUME NEW ms \in Seq(Message), NEW p, NEW r
        PROVE  Numbers(Append(ms, m), p, r) =
                 IF Goes(m, p, r) THEN Append(Numbers(ms, p, r), m.n) ELSE Numbers(ms, p, r)
    BY NumbersLast
  <2>4. ASSUME NEW p \in Workers, NEW r \in Workers
        PROVE  OnTheWay(p, r)' = IF p = m.from /\ r \in Accepting(m)
                                 THEN Append(OnTheWay(p, r), m.n)
                                 ELSE OnTheWay(p, r)
    <3> DEFINE Q == Numbers(queue[r], p, r)
               B == Numbers(brokerQ, p, r)
    <3>1. queue[r] \in Seq(Message) /\ brokerQ \in Seq(Message) /\ m.n \in Nat
      BY <1>0 DEF TypeOK, Message
    <3>2. /\ Q \in Seq(Nat) /\ B \in Seq(Nat)
          /\ OnTheWay(p, r) = IF r \in consumers[p] THEN Q ELSE Q \o B
      BY <1>0, OnTheWayType
    <3>3. OnTheWay(p, r)' = Numbers(queue'[r], p, r) \o
                              (IF r \in consumers[p] THEN <<>> ELSE Numbers(brokerQ', p, r))
      BY <1>0 DEF OnTheWay
    <3>4. Numbers(brokerQ', p, r) = IF Goes(m, p, r) THEN Append(B, m.n) ELSE B
      BY <2>1, <3>1, NumbersLast
    <3>5. Numbers(queue'[r], p, r) = IF Goes(m, p, r) /\ Piped(m, r) THEN Append(Q, m.n) ELSE Q
      <4>1. CASE Piped(m, r)
        <5>1. queue'[r] = Append(queue[r], m)
          BY <2>1, <4>1
        <5>2. Numbers(Append(queue[r], m), p, r) = IF Goes(m, p, r) THEN Append(Q, m.n) ELSE Q
          BY <3>1, <2>3
        <5> QED
          BY <4>1, <5>1, <5>2
      <4>2. CASE ~Piped(m, r)
        BY <2>1, <4>2
      <4> QED
        BY <4>1, <4>2
    <3>6. Piped(m, r) => r \in consumers[m.from]
      BY <1>0, PipedToConsumer
    <3>7. /\ Append(Q, m.n) \o <<>> = Append(Q, m.n) /\ Q \o <<>> = Q
          /\ Q \o Append(B, m.n) = Append(Q \o B, m.n)
      <4>1. Append(Q, m.n) \in Seq(Nat)
        BY <3>1, <3>2
      <4> HIDE DEF Q, B
      <4> QED
        BY <3>1, <3>2, <4>1, ConcatMoves
    <3>8. p = m.from /\ r \in Accepting(m) <=>
            Goes(m, p, r) /\ (r \in consumers[p] => Piped(m, r))
      BY DEF Goes, Accepting
    <3> HIDE DEF Q, B
    <3>9. CASE r \in consumers[p]
      BY <3>2, <3>3, <3>5, <3>7, <3>8, <3>9
    <3>10. CASE r \notin consumers[p]
      <4>1. Goes(m, p, r) => ~Piped(m, r)
        BY <3>6, <3>10 DEF Goes
      <4> QED
        BY <3>2, <3>3, <3>4, <3>5, <3>7, <3>8, <3>10, <4>1
    <3> QED
      BY <3>9, <3>10
  <2>5. Abstract!Send(m.from, Accepting(m))
    <3>1. ASSUME NEW pr \in Pairs
          PROVE  OnTheWay(pr[1], pr[2])' =
                   IF pr[1] = m.from /\ pr[2] \in Accepting(m)
                   THEN Append([x \in Pairs |-> OnTheWay(x[1], x[2])][pr], Len(sent)')
                   ELSE [x \in Pairs |-> OnTheWay(x[1], x[2])][pr]
      <4>1. pr[1] \in Workers /\ pr[2] \in Workers
        BY DEF Pairs
      <4>2. [x \in Pairs |-> OnTheWay(x[1], x[2])][pr] = OnTheWay(pr[1], pr[2])
        OBVIOUS
      <4>3. Len(sent)' = m.n
        BY <2>2
      <4> QED
        BY <2>4, <4>1, <4>2, <4>3
    <3> QED
      BY <1>0, <2>2, <3>1 DEF Abstract!Send, Pairs
  <2> QED
    BY <2>2, <2>5 DEF Abstract!Next
<1> QED
  BY <1>1, <1>2

\* What the broker passes on moves from its queue to the end of the receiver's: no
\* channel changes.
LEMMA BrokerRefines ==
  ASSUME DeliveryInvariant, OnlyKnown, onMsgFromWorker
  PROVE  UNCHANGED Abstract!vars
<1> DEFINE h == Head(brokerQ)
           e == WithoutConsumers(h)
<1>0. /\ TypeOK /\ UNCHANGED <<consumers, sent, handled>>
      /\ brokerQ # <<>>
      /\ brokerQ' = Tail(brokerQ)
      /\ \A r \in Workers : queue'[r] = IF r \in registered THEN Append(queue[r], e)
                                                           ELSE queue[r]
  BY DEF onMsgFromWorker, DeliveryInvariant, topology
<1>1. h \in Message /\ h = brokerQ[1] /\ 1 \in DOMAIN brokerQ /\ brokerQ \in Seq(Message)
  BY <1>0, TailFacts DEF TypeOK
<1>2. /\ e \in Message /\ e.n = h.n /\ e.from = h.from
      /\ Addressees(e) = Addressees(h) \ consumers[h.from]
  BY <1>0, <1>1, SubtractFacts
<1>3. Addressees(h) \subseteq registered
  BY <1>1 DEF OnlyKnown, Addressees
<1> HIDE DEF e
<1>4. ASSUME NEW p \in Workers, NEW r \in Workers
      PROVE  OnTheWay(p, r)' = OnTheWay(p, r)
  <2> DEFINE Q == Numbers(queue[r], p, r)
             B == Numbers(brokerQ, p, r)
  <2>1. queue[r] \in Seq(Message) /\ h.n \in Nat
    BY <1>0, <1>1 DEF TypeOK, Message
  <2>2. /\ Q \in Seq(Nat) /\ B \in Seq(Nat)
        /\ OnTheWay(p, r) = IF r \in consumers[p] THEN Q ELSE Q \o B
    BY <1>0, OnTheWayType
  <2>3. OnTheWay(p, r)' = Numbers(queue'[r], p, r) \o
                            (IF r \in consumers[p] THEN <<>> ELSE Numbers(brokerQ', p, r))
    BY <1>0 DEF OnTheWay
  <2>4. /\ Goes(h, p, r) => /\ B # <<>> /\ Head(B) = h.n
                            /\ Tail(B) = Numbers(brokerQ', p, r)
        /\ ~Goes(h, p, r) => Numbers(brokerQ', p, r) = B
    BY <1>0, <1>1, NumbersFirst
  <2>5. Goes(e, p, r) <=> Goes(h, p, r) /\ r \notin consumers[p]
    BY <1>2 DEF Goes
  <2>6. Numbers(queue'[r], p, r) = IF Goes(e, p, r) THEN Append(Q, h.n) ELSE Q
    <3>1. CASE r \in registered
      <4>1. queue'[r] = Append(queue[r], e)
        BY <1>0, <3>1
      <4>2. Numbers(Append(queue[r], e), p, r) = IF Goes(e, p, r) THEN Append(Q, e.n) ELSE Q
        <5>1. e \in Message /\ queue[r] \in Seq(Message)
          BY <1>2, <2>1
        <5> QED
          BY <5>1, NumbersLast, Zenon
      <4> QED
        BY <1>2, <4>1, <4>2
    <3>2. CASE r \notin registered
      <4>1. ~Goes(e, p, r)
        BY <1>3, <2>5, <3>2 DEF Goes
      <4> QED
        BY <1>0, <3>2, <4>1
    <3> QED
      BY <3>1, <3>2
  <2>7. /\ Q \o <<>> = Q
        /\ B # <<>> => Append(Q, Head(B)) \o Tail(B) = Q \o B
    <3> HIDE DEF Q, B
    <3> QED
      BY <2>2, ConcatMoves
  <2> HIDE DEF Q, B, h
  <2>8. CASE r \in consumers[p]
    BY <2>2, <2>3, <2>5, <2>6, <2>7, <2>8
  <2>9. CASE r \notin consumers[p] /\ Goes(h, p, r)
    BY <2>2, <2>3, <2>4, <2>5, <2>6, <2>7, <2>9
  <2>10. CASE r \notin consumers[p] /\ ~Goes(h, p, r)
    BY <2>2, <2>3, <2>4, <2>5, <2>6, <2>10
  <2> QED
    BY <2>8, <2>9, <2>10
<1> QED
  BY <1>0, <1>4, SameChannels

\* What a worker takes from its queue, and is for it, is received from its sender.
LEMMA WorkerRefines ==
  ASSUME DeliveryInvariant, NEW w \in Workers, onMsgFromBroker(w)
  PROVE  Abstract!Next \/ UNCHANGED Abstract!vars
<1> DEFINE m == Head(queue[w])
<1>0. /\ TypeOK /\ UNCHANGED <<consumers, brokerQ, sent>>
      /\ queue[w] # <<>>
      /\ queue' = [queue EXCEPT ![w] = Tail(@)]
  BY DEF onMsgFromBroker, DeliveryInvariant, topology
<1>1. queue[w] \in Seq(Message) /\ brokerQ \in Seq(Message)
  BY <1>0 DEF TypeOK
<1>2. m \in Message /\ m.from \in Workers /\ m.n \in Nat
  <2>1. m \in Message
    BY <1>0, <1>1
  <2> QED
    BY <2>1 DEF Message
<1>3. /\ queue'[w] = Tail(queue[w])
      /\ \A r \in Workers \ {w} : queue'[r] = queue[r]
  BY <1>0 DEF TypeOK
<1>4. ASSUME NEW p \in Workers, NEW r \in Workers
      PROVE  /\ r = w /\ Goes(m, p, w) => /\ OnTheWay(p, r) # <<>>
                                         /\ Head(OnTheWay(p, r)) = m.n
                                         /\ OnTheWay(p, r)' = Tail(OnTheWay(p, r))
             /\ ~(r = w /\ Goes(m, p, w)) => OnTheWay(p, r)' = OnTheWay(p, r)
  <2> DEFINE Q == Numbers(queue[r], p, r)
             X == IF r \in consumers[p] THEN <<>> ELSE Numbers(brokerQ, p, r)
  <2>1. queue[r] \in Seq(Message)
    BY <1>0 DEF TypeOK
  <2>2. Q \in Seq(Nat) /\ X \in Seq(Nat)
    BY <1>1, <2>1, NumbersType
  <2>3. OnTheWay(p, r) = Q \o X /\ OnTheWay(p, r)' = Numbers(queue'[r], p, r) \o X
    BY <1>0 DEF OnTheWay
  <2>4. CASE r # w
    <3>1. queue'[r] = queue[r]
      BY <1>3, <2>4
    <3>2. OnTheWay(p, r)' = OnTheWay(p, r)
      <4> HIDE DEF X
      <4> QED
        BY <2>3, <3>1
    <3> HIDE DEF m
    <3> QED
      BY <2>4, <3>2
  <2>5. CASE r = w
    <3>1. /\ Goes(m, p, w) => Q # <<>> /\ Head(Q) = m.n /\ Tail(Q) = Numbers(queue'[w], p, w)
          /\ ~Goes(m, p, w) => Numbers(queue'[w], p, w) = Q
      BY <1>0, <1>1, <1>3, <2>5, NumbersFirst
    <3>2. Q # <<>> => Q \o X # <<>> /\ Head(Q \o X) = Head(Q) /\ Tail(Q \o X) = Tail(Q) \o X
      <4> HIDE DEF Q, X
      <4> QED
        BY <2>2, ConcatMoves
    <3> HIDE DEF Q, X, m
    <3> QED
      BY <2>3, <2>5, <3>1, <3>2
  <2> QED
    BY <2>4, <2>5
<1>5. CASE w \notin Addressees(m)
  <2>1. UNCHANGED handled
    BY <1>5 DEF onMsgFromBroker
  <2>2. \A p, r \in Workers : OnTheWay(p, r)' = OnTheWay(p, r)
    BY <1>4, <1>5 DEF Goes
  <2> QED
    BY <1>0, <2>1, <2>2, SameChannels
<1>6. CASE w \in Addressees(m)
  <2>1. PICK how \in Dispatch(m) :
          handled' = [handled EXCEPT ![w] =
                        Append(@, [n |-> m.n, from |-> m.from, how |-> how])]
    BY <1>6 DEF onMsgFromBroker
  <2> DEFINE entry == [n |-> m.n, from |-> m.from, how |-> how]
             told == [r \in Workers |-> Reported(handled[r])]
             chan == [pr \in Pairs |-> OnTheWay(pr[1], pr[2])]
  <2>2. entry \in Entry /\ entry.n = m.n /\ entry.from = m.from
    <3>1. Dispatch(m) \subseteq Outcomes
      BY <1>2, <1>6 DEF Dispatch, Outcomes, Message, Kinds, Addressees
    <3> QED
      BY <1>2, <2>1, <3>1 DEF Entry
  <2>3. /\ handled'[w] = Append(handled[w], entry) /\ handled[w] \in Seq(Entry)
        /\ \A r \in Workers \ {w} : handled'[r] = handled[r]
    BY <1>0, <2>1 DEF TypeOK
  <2>4. Reported(handled'[w]) = Append(Reported(handled[w]), [from |-> m.from, n |-> m.n])
    <3> HIDE DEF entry, m
    <3> QED
      BY <2>2, <2>3, ReportedLast
  <2>5. PICK q \in Workers : q = m.from
    BY <1>2
  <2>6. /\ chan[<<q, w>>] # <<>> /\ Head(chan[<<q, w>>]) = m.n
        /\ \A p, r \in Workers :
             OnTheWay(p, r)' = IF p = q /\ r = w THEN Tail(chan[<<p, r>>])
                                                     ELSE chan[<<p, r>>]
    <3>1. \A p, r \in Workers : chan[<<p, r>>] = OnTheWay(p, r)
      BY DEF Pairs
    <3>2. \A p \in Workers : Goes(m, p, w) <=> p = q
      BY <1>6, <2>5 DEF Goes
    <3>3. /\ OnTheWay(q, w) # <<>> /\ Head(OnTheWay(q, w)) = m.n
          /\ OnTheWay(q, w)' = Tail(OnTheWay(q, w))
      <4>1. Goes(m, q, w)
        BY <3>2
      <4> HIDE DEF m
      <4> QED
        BY <1>4, <4>1
    <3>4. ASSUME NEW p \in Workers, NEW r \in Workers, ~(p = q /\ r = w)
          PROVE  OnTheWay(p, r)' = OnTheWay(p, r)
      <4>1. ~(r = w /\ Goes(m, p, w))
        BY <3>2, <3>4
      <4> HIDE DEF m
      <4> QED
        BY <1>4, <4>1
    <3> HIDE DEF chan, m
    <3> QED
      BY <3>1, <3>3, <3>4
  <2>7. chan' = [chan EXCEPT ![<<q, w>>] = Tail(@)]
    <3>1. chan' = [pr \in Pairs |-> OnTheWay(pr[1], pr[2])']
      OBVIOUS
    <3>2. DOMAIN chan = Pairs /\ chan = [pr \in Pairs |-> chan[pr]]
      OBVIOUS
    <3>3. ASSUME NEW pr \in Pairs
          PROVE  OnTheWay(pr[1], pr[2])' =
                   IF pr = <<q, w>> THEN Tail(chan[<<q, w>>]) ELSE chan[pr]
      <4>1. pr[1] \in Workers /\ pr[2] \in Workers /\ pr = <<pr[1], pr[2]>>
        BY DEF Pairs
      <4> HIDE DEF chan, m
      <4>2. PICK p \in Workers, r \in Workers : pr = <<p, r>> /\ p = pr[1] /\ r = pr[2]
        BY <4>1
      <4>3. OnTheWay(p, r)' = IF p = q /\ r = w THEN Tail(chan[<<p, r>>]) ELSE chan[<<p, r>>]
        BY <2>6
      <4>4. pr = <<q, w>> <=> p = q /\ r = w
        BY <4>2
      <4> QED
        BY <4>2, <4>3, <4>4
    <3> HIDE DEF chan, m
    <3> QED
      BY <3>1, <3>2, <3>3
  <2>8. told' = [told EXCEPT ![w] = Append(@, [from |-> q, n |-> m.n])]
    <3> HIDE DEF m
    <3> QED
      BY <2>3, <2>4, <2>5
  <2>9. Abstract!Receive(q, w)
    <3>1. told = [r \in Workers |-> [i \in DOMAIN handled[r] |->
                                       [from |-> handled[r][i].from, n |-> handled[r][i].n]]]
      BY DEF Reported
    <3>2. UNCHANGED Len(sent)
      BY <1>0
    <3> HIDE DEF m
    <3> QED
      BY <2>6, <2>7, <2>8, <3>2 DEF Abstract!Receive, Reported
  <2>10. \E p, r \in Workers : Abstract!Receive(p, r)
    BY <2>9
  <2> QED
    BY <2>10 DEF Abstract!Next
<1> QED
  BY <1>5, <1>6

\* Pipes and broadcasts together are one reliable FIFO channel per ordered pair of
\* workers, for any topology: a send puts a message on the channels of those whose
\* pipe lets it through and of those the broker does not subtract, and each worker
\* receives from its channels in order and once (broker.cpp, worker.cpp).
THEOREM RefinesChannels == Spec => ImplementsChannels
<1>1. Init => Abstract!Init /\ OnlyKnown
  <2> SUFFICES ASSUME Init PROVE Abstract!Init /\ OnlyKnown
    OBVIOUS
  <2>1. OnlyKnown
    BY DEF Init, OnlyKnown
  <2>2. \A p, r \in Workers : OnTheWay(p, r) = <<>>
    <3>1. <<>> \o <<>> = <<>>
      BY ConcatEmptySeq
    <3> QED
      BY <3>1, NumbersNone DEF Init, OnTheWay
  <2>3. [pr \in Pairs |-> OnTheWay(pr[1], pr[2])] = [pr \in Workers \X Workers |-> <<>>]
    BY <2>2 DEF Pairs
  <2>4. [r \in Workers |-> [i \in DOMAIN handled[r] |->
                              [from |-> handled[r][i].from, n |-> handled[r][i].n]]]
          = [r \in Workers |-> <<>>]
    BY DEF Init
  <2>5. Len(sent) = 0
    BY DEF Init
  <2> QED
    BY <2>1, <2>3, <2>4, <2>5 DEF Abstract!Init
<1>2. DeliveryInvariant /\ OnlyKnown /\ [Next]_vars => OnlyKnown'
  BY KnownStep, BrokerAssumption
<1>3. DeliveryInvariant /\ OnlyKnown /\ [Next]_vars => [Abstract!Next]_(Abstract!vars)
  <2> SUFFICES ASSUME DeliveryInvariant, OnlyKnown, [Next]_vars
               PROVE  Abstract!Next \/ UNCHANGED Abstract!vars
    OBVIOUS
  <2>1. CASE \/ \E w \in Workers : registerWorker(w) \/ StartThread(w)
             \/ \E p, c \in Workers : connectThrows(p, c) \/ disconnect(p, c)
             \/ \E p, c \in Workers, ch \in Chains : connectTwo(p, c, ch)
             \/ runAll
             \/ SetWasRun
             \/ exec
             \/ UNCHANGED vars
    BY <2>1, MainThreadRefines
  <2>2. CASE \E w \in Workers :
               SendMsg(w) \/ SendBroadcast(w) \/ SendCommand(w) \/ SendReply(w)
    <3>1. \E m \in Message : m.n = Len(sent) + 1 /\ emitSendMsg(m)
      BY <2>2, SendingEmits, BrokerAssumption DEF DeliveryInvariant
    <3> QED
      BY <3>1, EmitRefines
  <2>3. CASE onMsgFromWorker
    BY <2>3, BrokerRefines
  <2>4. CASE \E w \in Workers : onMsgFromBroker(w)
    BY <2>4, WorkerRefines
  <2> QED
    BY <2>1, <2>2, <2>3, <2>4 DEF Next
<1> QED
  BY <1>1, <1>2, <1>3, Invariance, PTL DEF Spec, ImplementsChannels, Abstract!Spec
====
