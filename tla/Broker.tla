---- MODULE Broker ----
(***************************************************************************)
(* The message broker: registration of workers, pipes between them, the    *)
(* start of their threads, and the two routes a message takes.             *)
(*                                                                         *)
(* Every worker lives in its own QThread, the broker in the main thread.   *)
(* All connections between them are queued, so each thread has one FIFO    *)
(* event queue: brokerQ for the main thread, queue[w] for the thread of w. *)
(* A sent message goes at once through the sender's own pipes to its       *)
(* consumers, and also to the broker, which removes those consumers from   *)
(* the receivers and broadcasts the copy to everyone.                      *)
(***************************************************************************)
EXTENDS Naturals, Sequences, FiniteSets

CONSTANTS
  Workers,           \* the Worker objects the launcher creates
  NoWorker,          \* "no worker is being started"
  Producing,         \* workers whose role has the Producer flag
  Consuming,         \* workers whose role has the Consumer flag
  AllowSelfConnect,  \* broker setting allow_self_connect
  Chains,            \* interceptor chains used in pipes: sets of kinds
  Callbacks,         \* callback set-ups of commands
  MaxConnects,       \* bound on the number of pipes
  MaxSends           \* bound on the number of messages sent

ASSUME BrokerAssumption ==
  /\ NoWorker \notin Workers
  /\ Producing \subseteq Workers
  /\ Consuming \subseteq Workers
  /\ AllowSelfConnect \in BOOLEAN
  /\ Chains \subseteq SUBSET {"pass", "content", "mute"}
  /\ Callbacks \subseteq {"none", "okOnly", "both", "ignore"}
  /\ MaxConnects \in Nat
  /\ MaxSends \in Nat

VARIABLES
  phase,        \* main thread: setup, runAll, its event loop, or terminated
  registered,   \* BrokerPrivate::workers
  connections,  \* BrokerPrivate::connections, as <<producer, consumer>>
  live,         \* connections whose WorkerProxy still exists
  chain,        \* interceptors of the pipe of a connection
  consumers,    \* Worker::Private::consumers (baseMsg.m_receivers is equal)
  producers,    \* Worker::Private::producers
  up,           \* workers whose thread runs
  wasRun,       \* workers whose d->wasRun is set
  starting,     \* the worker inside Worker::run()
  brokerQ,      \* events queued for the broker in the main thread
  queue,        \* queue[w]: messages queued for w
  sent,         \* history: every message that was sent, in order
  dropped,      \* history: <<n, r>>, message n never got through its pipe to r
  handled       \* history: handled[w], what the handlers of w were given

topology == <<registered, connections, live, chain, consumers, producers>>
threads  == <<up, wasRun, starting>>
traffic  == <<brokerQ, queue, sent, dropped, handled>>
vars     == <<phase, topology, threads, traffic>>

Pairs == Workers \X Workers
Kinds == {"msg", "command", "reply", "broadcast"}
Outcomes == {"onMsg", "onCommand", "onReply", "callback", "failCallback",
             "ignored", "crash"}

\* WorkerMsg.  n numbers the emissions, cmd is the command a reply answers,
\* json tells whether interceptors that look at the content let it through.
Message ==
  [n : Nat, from : Workers, to : SUBSET Workers, kind : Kinds, json : BOOLEAN,
   cmd : Nat, ok : BOOLEAN, cb : Callbacks \cup {"none"}]

\* The workers a message is for; broadcasts go to onBroadcast of everyone,
\* which does nothing.
Addressees(m) == IF m.kind = "broadcast" THEN {} ELSE m.to
----------------------------------------------------------------------------
(* Set-up in the main thread. *)

Init ==
  /\ phase = "setup"
  /\ registered = {}
  /\ connections = {}
  /\ live = {}
  /\ chain = [pc \in Pairs |-> {}]
  /\ consumers = [w \in Workers |-> {}]
  /\ producers = [w \in Workers |-> {}]
  /\ up = {}
  /\ wasRun = {}
  /\ starting = NoWorker
  /\ brokerQ = <<>>
  /\ queue = [w \in Workers |-> <<>>]
  /\ sent = <<>>
  /\ dropped = {}
  /\ handled = [w \in Workers |-> <<>>]

\* A second registration under the same name throws.
registerWorker(w) ==
  /\ phase = "setup"
  /\ w \notin registered
  /\ registered' = registered \cup {w}
  /\ UNCHANGED <<phase, connections, live, chain, consumers, producers,
                 threads, traffic>>

\* The checks of connectTwo and connectProxyToWorker, and the role handlers
\* run by the connectedToConsumer and connectedToProducer signals.
MayConnect(p, c) ==
  /\ {p, c} \subseteq registered
  /\ {p, c} \cap wasRun = {}
  /\ p # c \/ AllowSelfConnect
  /\ <<p, c>> \notin connections
  /\ p \in Producing
  /\ c \in Consuming

\* The sets both workers keep of each other, as one record of functions.
WorkerSets == [consumers |-> consumers, producers |-> producers]

\* Worker::addConsumer inserts the consumer and has it add this producer, unless it
\* has it already; the consumer's addProducer would call back, but finds itself
\* inserted.  Neither worker was started, so no call returns to the broker.
addConsumer(sets, p, c) ==
  LET inserted == [sets EXCEPT !.consumers[p] = @ \cup {c}]
  IN  IF p \in inserted.producers[c]
      THEN inserted
      ELSE [inserted EXCEPT !.producers[c] = @ \cup {p}]

\* Worker::addProducer, the other way round.
addProducer(sets, c, p) ==
  LET inserted == [sets EXCEPT !.producers[c] = @ \cup {p}]
  IN  IF c \in inserted.consumers[p]
      THEN inserted
      ELSE [inserted EXCEPT !.consumers[p] = @ \cup {c}]

\* The end of connectProxyToWorker: each worker is asked to add the other, if it
\* still lacks it when its turn comes.
Introduced(p, c) ==
  LET first == IF c \in consumers[p] THEN WorkerSets ELSE addConsumer(WorkerSets, p, c)
  IN  IF p \in first.producers[c] THEN first ELSE addProducer(first, c, p)

\* connectTwo: the pipe is created, the checks are made, the connection is listed,
\* and the workers are introduced to each other.  The main thread is the only one
\* there is during set-up, so nobody sees a connection half made.
connectTwo(p, c, ch) ==
  /\ phase = "setup"
  /\ Cardinality(connections) < MaxConnects
  /\ MayConnect(p, c)
  /\ live' = live \cup {<<p, c>>}
  /\ chain' = [chain EXCEPT ![<<p, c>>] = ch]
  /\ connections' = connections \cup {<<p, c>>}
  /\ consumers' = Introduced(p, c).consumers
  /\ producers' = Introduced(p, c).producers
  /\ UNCHANGED <<phase, registered, threads, traffic>>

\* A refused connection throws out of the launcher: the program ends.
connectThrows(p, c) ==
  /\ phase = "setup"
  /\ ~MayConnect(p, c)
  /\ phase' = "rejected"
  /\ UNCHANGED <<topology, threads, traffic>>

\* disconnect() deletes the proxy; nothing takes the connection out of the
\* list, nor the consumer out of the sets of the producer.
disconnect(p, c) ==
  /\ phase \in {"setup", "loop"}
  /\ <<p, c>> \in live
  /\ live' = live \ {<<p, c>>}
  /\ UNCHANGED <<phase, registered, connections, chain, consumers, producers,
                 threads, traffic>>
----------------------------------------------------------------------------
(* runAll: the main thread starts the threads one after the other, while   *)
(* the ones already started are running.                                   *)

runAll ==
  /\ phase = "setup"
  /\ registered # {}
  /\ phase' = "starting"
  /\ UNCHANGED <<topology, threads, traffic>>

\* Worker::run up to workerThread()->start().
StartThread(w) ==
  /\ phase = "starting"
  /\ starting = NoWorker
  /\ w \in registered \ wasRun
  /\ up' = up \cup {w}
  /\ starting' = w
  /\ UNCHANGED <<phase, topology, wasRun, traffic>>

\* Variant for mutation: the flag is never set.
SetWasRunForgotten ==
  /\ phase = "starting"
  /\ starting # NoWorker
  /\ starting' = NoWorker
  /\ UNCHANGED <<phase, topology, up, wasRun, traffic>>

\* The rest of Worker::run: d->wasRun = true.
SetWasRun ==
  /\ phase = "starting"
  /\ starting # NoWorker
  /\ wasRun' = wasRun \cup {starting}
  /\ starting' = NoWorker
  /\ UNCHANGED <<phase, topology, up, traffic>>

\* runAll has started everyone; the main thread enters its event loop.
exec ==
  /\ phase = "starting"
  /\ starting = NoWorker
  /\ registered \subseteq wasRun
  /\ phase' = "loop"
  /\ UNCHANGED <<topology, threads, traffic>>
----------------------------------------------------------------------------
(* Sending. *)

\* What one interceptor does with a message: pass it on, pass it on when some
\* of its content is left, or never emit it.
Emits(kind, m) ==
  \/ kind = "pass"
  \/ kind = "content" /\ m.json

\* The message reaches the end of the pipe from its sender to r.
Piped(m, r) ==
  /\ m.kind # "broadcast"
  /\ <<m.from, r>> \in live
  /\ \A kind \in chain[<<m.from, r>>] : Emits(kind, m)

\* emit sendMsg(m): onSendMsgPriv first, then the broker, then the pipes.
emitSendMsg(m) ==
  /\ phase \in {"starting", "loop"}
  /\ m.from \in up
  /\ IF m.from \notin wasRun
     THEN /\ phase' = "aborted"
          /\ UNCHANGED traffic
     ELSE /\ sent' = Append(sent, m)
          /\ brokerQ' = Append(brokerQ, m)
          /\ queue' = [r \in Workers |->
                         IF Piped(m, r) THEN Append(queue[r], m) ELSE queue[r]]
          /\ dropped' = dropped \cup
               {<<m.n, r>> : r \in {x \in Addressees(m) \cap consumers[m.from] :
                                      ~Piped(m, x)}}
          /\ UNCHANGED <<phase, handled>>
  /\ UNCHANGED <<topology, threads>>

\* A message as prepareMsg builds it: for all the consumers of the worker.
BaseMsg(w) ==
  [n |-> Len(sent) + 1, from |-> w, to |-> consumers[w], kind |-> "msg",
   json |-> TRUE, cmd |-> 0, ok |-> FALSE, cb |-> "none"]

SendMsg(w) ==
  /\ Len(sent) < MaxSends
  /\ \E json \in BOOLEAN : emitSendMsg([BaseMsg(w) EXCEPT !.json = json])

\* A message whose MsgBroadcast flag was set.
SendBroadcast(w) ==
  /\ Len(sent) < MaxSends
  /\ emitSendMsg([BaseMsg(w) EXCEPT !.kind = "broadcast"])

\* prepareCommand keeps the consumers as receivers; callers may name one
\* worker instead.  A command carries no JSON.
SendCommand(w) ==
  /\ Len(sent) < MaxSends
  /\ \E to \in {consumers[w]} \cup {{r} : r \in registered}, cb \in Callbacks :
       emitSendMsg([BaseMsg(w) EXCEPT !.kind = "command", !.json = FALSE,
                                      !.to = to, !.cb = cb])

\* The commands w was given and has not answered yet.
Unanswered(w) ==
  {handled[w][i].n : i \in {j \in DOMAIN handled[w] :
                              handled[w][j].how = "onCommand"}}
    \ {sent[i].cmd : i \in {j \in DOMAIN sent : sent[j].from = w}}

\* prepareReply copies the command and sends it back to who asked.
SendReply(w) ==
  /\ Len(sent) < MaxSends
  /\ \E c \in Unanswered(w), ok \in BOOLEAN :
       emitSendMsg([sent[c] EXCEPT !.n = Len(sent) + 1, !.from = w,
                                   !.to = {sent[c].from}, !.kind = "reply",
                                   !.cmd = c, !.ok = ok])
----------------------------------------------------------------------------
(* Delivery. *)

\* Variants for mutation: nothing is subtracted, or the wrong set is.
WithConsumers(m) == m
WithoutProducers(m) ==
  IF m.kind = "broadcast" THEN m ELSE [m EXCEPT !.to = @ \ producers[m.from]]

\* copy.receivers().subtract(sender->consumers())
WithoutConsumers(m) ==
  IF m.kind = "broadcast"
  THEN m
  ELSE [m EXCEPT !.to = @ \ consumers[m.from]]

\* Broker::onMsgFromWorker, run by the main event loop.
onMsgFromWorker ==
  /\ phase = "loop"
  /\ brokerQ # <<>>
  /\ brokerQ' = Tail(brokerQ)
  /\ queue' = [r \in Workers |->
                 IF r \in registered
                 THEN Append(queue[r], WithoutConsumers(Head(brokerQ)))
                 ELSE queue[r]]
  /\ UNCHANGED <<phase, topology, threads, sent, dropped, handled>>

\* Where Worker::onMsgFromBroker takes an addressed message.  The callback a
\* command never set is uninitialised: a failed reply to a command with a
\* success callback alone may run a garbage one.
Dispatch(m) ==
  CASE m.kind = "msg"     -> {"onMsg"}
    [] m.kind = "command" -> {"onCommand"}
    [] m.kind = "reply"   ->
         CASE m.cb = "ignore"        -> {"ignored"}
           [] m.cb = "none"          -> {"onReply"}
           [] m.ok                   -> {"callback"}
           [] ~m.ok /\ m.cb = "both" -> {"failCallback"}
           [] OTHER                  -> {"onReply", "crash"}

\* Variant for mutation: the early return for other receivers is missing.
onMsgFromBrokerUnchecked(w) ==
  /\ phase \in {"starting", "loop"}
  /\ w \in up
  /\ queue[w] # <<>>
  /\ LET m == Head(queue[w]) IN
       IF m.kind = "broadcast"
       THEN UNCHANGED <<phase, handled>>
       ELSE \E how \in Dispatch(m) :
              /\ handled' = [handled EXCEPT ![w] =
                               Append(@, [n |-> m.n, from |-> m.from, how |-> how])]
              /\ phase' = IF how = "crash" THEN "aborted" ELSE phase
  /\ queue' = [queue EXCEPT ![w] = Tail(@)]
  /\ UNCHANGED <<topology, threads, brokerQ, sent, dropped>>

\* Worker::onMsgFromBroker in the thread of w.
onMsgFromBroker(w) ==
  /\ phase \in {"starting", "loop"}
  /\ w \in up
  /\ queue[w] # <<>>
  /\ LET m == Head(queue[w]) IN
       IF w \notin Addressees(m)
       THEN UNCHANGED <<phase, handled>>
       ELSE \E how \in Dispatch(m) :
              /\ handled' = [handled EXCEPT ![w] =
                               Append(@, [n |-> m.n, from |-> m.from, how |-> how])]
              /\ phase' = IF how = "crash" THEN "aborted" ELSE phase
  /\ queue' = [queue EXCEPT ![w] = Tail(@)]
  /\ UNCHANGED <<topology, threads, brokerQ, sent, dropped>>
----------------------------------------------------------------------------
Next ==
  \/ \E w \in Workers :
       \/ registerWorker(w)
       \/ StartThread(w)
       \/ SendMsg(w)
       \/ SendBroadcast(w)
       \/ SendCommand(w)
       \/ SendReply(w)
       \/ onMsgFromBroker(w)
  \/ \E p, c \in Workers :
       \/ \E ch \in Chains : connectTwo(p, c, ch)
       \/ connectThrows(p, c)
       \/ disconnect(p, c)
  \/ runAll
  \/ SetWasRun
  \/ exec
  \/ onMsgFromWorker

Spec == Init /\ [][Next]_vars

\* runAll is a loop that the main thread runs to its end, and every event loop
\* keeps taking events.  Nothing forces a worker to send.
Fairness ==
  /\ WF_vars(SetWasRun)
  /\ WF_vars(exec)
  /\ WF_vars(onMsgFromWorker)
  /\ \A w \in Workers : WF_vars(StartThread(w)) /\ WF_vars(onMsgFromBroker(w))

FairSpec == Spec /\ Fairness
----------------------------------------------------------------------------
(* Properties. *)

Entry == [n : Nat, from : Workers, how : Outcomes]

\* Types, with the bounds that tie the numbers in flight to the history: only
\* registered workers run, and no message is numbered beyond the last one sent.
TypeOK ==
  /\ phase \in {"setup", "starting", "loop", "rejected", "aborted"}
  /\ registered \subseteq Workers
  /\ live \subseteq connections
  /\ connections \subseteq Pairs
  /\ chain \in [Pairs -> SUBSET {"pass", "content", "mute"}]
  /\ consumers \in [Workers -> SUBSET Workers]
  /\ producers \in [Workers -> SUBSET Workers]
  /\ wasRun \subseteq up
  /\ up \subseteq registered
  /\ starting \in up \cup {NoWorker}
  /\ brokerQ \in Seq(Message)
  /\ queue \in [Workers -> Seq(Message)]
  /\ sent \in Seq(Message)
  /\ dropped \subseteq Nat \X Workers
  /\ handled \in [Workers -> Seq(Entry)]

\* Of two messages of one sender, a was sent first.
Precedes(a, b) == a.from = b.from => a.n < b.n

\* The three records of a connection agree: the broker's list, the consumers of
\* the producer (which decide what the broker subtracts) and the producers of
\* the consumer.  What the calls of addConsumer and addProducer leave behind, and
\* what the parts below rest on.
TopologyConsistent ==
  \A p, c \in Workers :
    /\ c \in consumers[p] <=> <<p, c>> \in connections
    /\ p \in producers[c] <=> <<p, c>> \in connections

\* Two routes, one delivery: a worker is given the messages of any one sender
\* in the order they were sent and none of them twice, whatever mix of pipes
\* and broadcasts carried them.
InOrderOnce ==
  \A r \in Workers : \A i, j \in DOMAIN handled[r] :
    i < j => Precedes(handled[r][i], handled[r][j])

\* Why it holds, part one: nothing is in flight while pipes are being made, so
\* the consumers of a sender are fixed once it has sent.
QuietSetup ==
  phase \in {"setup", "rejected"} =>
    /\ up = {}
    /\ brokerQ = <<>>
    /\ sent = <<>>
    /\ \A w \in Workers : queue[w] = <<>> /\ handled[w] = <<>>

\* Part two: every copy of a message carries the number of one that was sent.
Numbered ==
  /\ \A i \in DOMAIN brokerQ : brokerQ[i].n \in DOMAIN sent
  /\ \A r \in Workers : \A i \in DOMAIN queue[r] : queue[r][i].n \in DOMAIN sent
  /\ \A r \in Workers : \A i \in DOMAIN handled[r] : handled[r][i].n \in DOMAIN sent

\* Part three: the stages a message of one sender passes on its way to r hold
\* ever later messages.  What r has handled precedes what is for r in its queue,
\* and both precede what the broker still has for r; the last is false of the
\* consumers of the sender, which is why the broker must subtract them.
StagesOrdered ==
  /\ \A i, j \in DOMAIN brokerQ : i < j => Precedes(brokerQ[i], brokerQ[j])
  /\ \A r \in Workers : \A j \in DOMAIN queue[r] :
       r \in Addressees(queue[r][j]) =>
         /\ \A i \in DOMAIN queue[r] :
              i < j /\ r \in Addressees(queue[r][i])
                => Precedes(queue[r][i], queue[r][j])
         /\ \A i \in DOMAIN handled[r] : Precedes(handled[r][i], queue[r][j])
  /\ \A r \in Workers : \A j \in DOMAIN brokerQ :
       r \notin consumers[brokerQ[j].from] =>
         /\ \A i \in DOMAIN queue[r] :
              r \in Addressees(queue[r][i]) => Precedes(queue[r][i], brokerQ[j])
         /\ \A i \in DOMAIN handled[r] : Precedes(handled[r][i], brokerQ[j])

\* The inductive invariant: delivery is ordered because every stage is.
DeliveryInvariant ==
  /\ TypeOK
  /\ TopologyConsistent
  /\ QuietSetup
  /\ Numbered
  /\ StagesOrdered
  /\ InOrderOnce

\* Message n still has a copy that will reach r: with the broker, which will
\* not subtract r, or in the queue of r.
InTransit(n, r) ==
  \/ \E i \in DOMAIN brokerQ :
       /\ brokerQ[i].n = n
       /\ r \in Addressees(brokerQ[i]) \ consumers[brokerQ[i].from]
  \/ \E i \in DOMAIN queue[r] :
       queue[r][i].n = n /\ r \in Addressees(queue[r][i])

Handled(n, r) == \E i \in DOMAIN handled[r] : handled[r][i].n = n

\* No message disappears between the two routes: every registered receiver of
\* every message has handled it or has a copy on its way, unless the
\* interceptors or the disconnection of its own pipe stopped it.
NoUnexplainedLoss ==
  \A n \in DOMAIN sent : \A r \in Addressees(sent[n]) \cap registered :
    InTransit(n, r) \/ Handled(n, r) \/ <<n, r>> \in dropped

\* What a pipe stopped stays stopped: a message that the interceptors between its
\* sender and r did not let through, or whose pipe was disconnected, never gets to r
\* by the broker's broadcast, which knows nothing of pipes (broker.cpp:58-60).
StoppedStaysStopped ==
  \A n \in DOMAIN sent, r \in Workers :
    <<n, r>> \in dropped => ~InTransit(n, r) /\ ~Handled(n, r)

\* Everything sent and not stopped by its pipe is handled by each registered
\* receiver, unless the process ends first.
EventuallyHandled ==
  \A n \in 1..MaxSends, r \in Workers :
    (n \in DOMAIN sent /\ r \in Addressees(sent[n]) \cap registered
       /\ <<n, r>> \notin dropped)
      ~> (Handled(n, r) \/ phase = "aborted")

\* Once runAll is entered, every registered worker is started and the broker
\* begins to serve, unless a worker that sends too early ends the process.
StartupCompletes ==
  phase = "starting" ~> (phase = "aborted" \/ (phase = "loop" /\ registered \subseteq wasRun))
----------------------------------------------------------------------------
(* Refinement. *)

\* The numbers of the messages of ms that go from p to r, oldest first.
Numbers(ms, p, r) ==
  LET ns[k \in 0..Len(ms)] ==
        IF k = 0
        THEN <<>>
        ELSE IF ms[k].from = p /\ r \in Addressees(ms[k])
             THEN Append(ns[k - 1], ms[k].n)
             ELSE ns[k - 1]
  IN  ns[Len(ms)]

\* What the broker will broadcast follows what is queued; but from the consumers of
\* p it subtracts all that it has of p.
OnTheWay(p, r) ==
  Numbers(queue[r], p, r) \o
    (IF r \in consumers[p] THEN <<>> ELSE Numbers(brokerQ, p, r))

Abstract == INSTANCE Channels WITH
  Nodes    <- Workers,
  count    <- Len(sent),
  channel  <- [pr \in Pairs |-> OnTheWay(pr[1], pr[2])],
  received <- [r \in Workers |->
                 [i \in DOMAIN handled[r] |->
                    [from |-> handled[r][i].from, n |-> handled[r][i].n]]]

\* Pipes and broadcasts together implement one reliable FIFO channel per
\* ordered pair of workers, with losses decided when the message is sent.
ImplementsChannels == Abstract!Spec
====
