---- MODULE ModbusMasterProofs ----
(***************************************************************************)
(* Proofs about SyncChannel for any users, priorities and frame gap: there *)
(* is one turn at a time, it belongs to the user the channel is busy with, *)
(* and a busy channel always has somebody to wait for.                     *)
(*                                                                         *)
(* And about ModbusMaster for any number of masters of either kind and any *)
(* queries: the masters keep the channel's invariant, so there is one query*)
(* on the line, and none stays unconnected for ever.                       *)
(***************************************************************************)
EXTENDS ModbusMaster, SequenceLemmas, FiniteSetTheorems, SequenceTheorems, TLAPS

----------------------------------------------------------------------------
(* The choice. *)

\* max_element finds an element of every nonempty set of entries: there are four
\* priorities, and the iteration order has a first among those of the highest.
LEMMA MaxElement ==
  ASSUME ChannelAssumption, NEW S \in SUBSET (Users \cup {NoUser}), S # {}
  PROVE  max_element(S) \in S
<1> DEFINE Top(p) == {u \in S : whatPrio(u) = p}
<1>1. \A u \in S : whatPrio(u) \in {0, 50, 100, 200}
  BY DEF whatPrio, ChannelAssumption
<1>2. \E p \in {0, 50, 100, 200} : /\ Top(p) # {}
                                   /\ \A u \in S : whatPrio(u) <= p
  BY <1>1
<1>3. PICK p \in {0, 50, 100, 200} : /\ Top(p) # {}
                                     /\ \A u \in S : whatPrio(u) <= p
  BY <1>2
<1>4. PICK u \in Top(p) : \A v \in Top(p) \ {u} : Order[u] < Order[v]
  <2>1. Top(p) \in SUBSET (Users \cup {NoUser})
    OBVIOUS
  <2> HIDE DEF Top
  <2>2. \E u \in Top(p) : \A v \in Top(p) \ {u} : Order[u] < Order[v]
    BY <1>3, <2>1 DEF ChannelAssumption
  <2> QED
    BY <2>2
<1>5. \A v \in S \ {u} : \/ whatPrio(u) > whatPrio(v)
                         \/ whatPrio(u) = whatPrio(v) /\ Order[u] < Order[v]
  BY <1>1, <1>3, <1>4
<1> QED
  BY <1>4, <1>5 DEF max_element

\* Passing over the last user leaves somebody when several wait.
LEMMA SomeCandidate ==
  ASSUME NEW w, NEW last, w # {}
  PROVE  Candidates(w, last) # {} /\ Candidates(w, last) \subseteq w
<1>1. CASE Cardinality(w) > 1
  <2>1. ASSUME w \ {last} = {}
        PROVE  FALSE
    <3>1. w = {last}
      BY <2>1
    <3>2. Cardinality(w) = 1
      BY <3>1, FS_Singleton
    <3> QED
      BY <1>1, <3>2
  <2> QED
    BY <1>1, <2>1 DEF Candidates
<1>2. CASE ~(Cardinality(w) > 1)
  BY <1>2 DEF Candidates
<1> QED
  BY <1>1, <1>2

\* What chooseNext does: nothing to the turn, or a free channel is given to one of
\* the waiting.
LEMMA ChooseNext ==
  ASSUME ChannelAssumption, TypeOK,
         NEW b \in Users \cup {NoUser}, NEW w \in SUBSET (Users \cup {NoUser}),
         NEW last, NEW timer \in BOOLEAN,
         chooseNext(b, w, last, timer)
  PROVE  /\ since' \in 0..FrameGap /\ frameTimer' \in BOOLEAN
         /\ \/ busy' = b /\ waiting' = w /\ trigQ' = trigQ
            \/ b = NoUser /\ \E who \in w : activate(who, w)
<1>1. CASE b # NoUser \/ since < FrameGap
  BY <1>1 DEF chooseNext, TypeOK
<1>2. CASE ~(b # NoUser \/ since < FrameGap)
  <2>1. since' = 0 /\ frameTimer' = timer /\ 0 \in 0..FrameGap
    BY <1>2 DEF chooseNext, ChannelAssumption
  <2>2. CASE w = {}
    BY <1>2, <2>1, <2>2 DEF chooseNext
  <2>3. CASE w # {}
    <3> DEFINE who == max_element(Candidates(w, last))
    <3>1. activate(who, w)
      BY <1>2, <2>3 DEF chooseNext
    <3>2. who \in w
      BY <2>3, SomeCandidate, MaxElement
    <3> QED
      BY <1>2, <2>1, <3>1, <3>2
  <2> QED
    BY <2>2, <2>3
<1> QED
  BY <1>1, <1>2
----------------------------------------------------------------------------
(* The event queue. *)

\* What taking the first event does.
LEMMA ReceiveFacts ==
  ASSUME TypeOK, NEW what, Receives(what)
  PROVE  /\ chanQ' \in Seq(Event)
         /\ Len(chanQ) \in Nat /\ Len(chanQ) >= 1 /\ DOMAIN chanQ = 1..Len(chanQ)
         /\ Head(chanQ) = chanQ[1] /\ chanQ[1] \in Event /\ chanQ[1].what = what
         /\ DOMAIN chanQ' = 1..(Len(chanQ) - 1)
         /\ \A i \in DOMAIN chanQ' : chanQ'[i] = chanQ[i + 1]
         /\ \A i \in DOMAIN chanQ : i # 1 => i - 1 \in DOMAIN chanQ' /\ chanQ'[i - 1] = chanQ[i]
<1>1. chanQ \in Seq(Event) /\ chanQ # <<>> /\ chanQ' = Tail(chanQ) /\ Head(chanQ).what = what
  BY DEF TypeOK, Receives
<1>2. Len(chanQ) \in Nat /\ Len(chanQ) >= 1 /\ DOMAIN chanQ = 1..Len(chanQ)
  BY <1>1
<1>3. Head(chanQ) = chanQ[1] /\ chanQ[1] \in Event
  BY <1>1
<1>4. /\ chanQ' \in Seq(Event) /\ Len(chanQ') = Len(chanQ) - 1
      /\ \A i \in 1..(Len(chanQ) - 1) : chanQ'[i] = chanQ[i + 1]
  BY <1>1
<1>5. DOMAIN chanQ' = 1..(Len(chanQ) - 1)
  BY <1>4
<1> QED
  BY <1>1, <1>2, <1>3, <1>4, <1>5

\* What posting events does.
LEMMA PostFacts ==
  ASSUME TypeOK, NEW evs \in Seq(Event), Post(evs)
  PROVE  /\ chanQ' \in Seq(Event)
         /\ Len(chanQ) \in Nat /\ DOMAIN chanQ = 1..Len(chanQ)
         /\ DOMAIN chanQ' \subseteq Nat
         /\ \A i \in DOMAIN chanQ : i \in DOMAIN chanQ' /\ chanQ'[i] = chanQ[i]
         /\ \A k \in DOMAIN evs :
              Len(chanQ) + k \in DOMAIN chanQ' /\ chanQ'[Len(chanQ) + k] = evs[k]
         /\ \A i \in DOMAIN chanQ' \ DOMAIN chanQ :
              \E k \in DOMAIN evs : i = Len(chanQ) + k /\ chanQ'[i] = evs[k]
<1>1. chanQ \in Seq(Event) /\ chanQ' = chanQ \o evs
  BY DEF TypeOK, Post
<1>2. /\ chanQ' \in Seq(Event)
      /\ Len(chanQ') = Len(chanQ) + Len(evs)
      /\ \A i \in 1..(Len(chanQ) + Len(evs)) :
           chanQ'[i] = IF i <= Len(chanQ) THEN chanQ[i] ELSE evs[i - Len(chanQ)]
  BY <1>1, ConcatProperties
<1>3. /\ Len(chanQ) \in Nat /\ Len(evs) \in Nat
      /\ DOMAIN chanQ = 1..Len(chanQ) /\ DOMAIN evs = 1..Len(evs)
      /\ DOMAIN chanQ' = 1..(Len(chanQ) + Len(evs))
  BY <1>1, <1>2
<1>4. \A i \in DOMAIN chanQ' \ DOMAIN chanQ :
        i - Len(chanQ) \in DOMAIN evs /\ i = Len(chanQ) + (i - Len(chanQ))
        /\ chanQ'[i] = evs[i - Len(chanQ)]
  BY <1>2, <1>3
<1> QED
  BY <1>2, <1>3, <1>4

\* The asks of a handler.
LEMMA AsksFacts ==
  ASSUME NEW u \in Users, NEW n \in Nat
  PROVE  /\ Asks(u, n) \in Seq(Event)
         /\ DOMAIN Asks(u, n) = 1..n /\ Len(Asks(u, n)) = n
         /\ \A k \in 1..n : Asks(u, n)[k].what = "ask" /\ Asks(u, n)[k].who = u
<1>1. \A k \in 1..n : [what |-> "ask", who |-> u] \in Event
  BY DEF Event
<1>2. Asks(u, n) \in Seq(Event)
  BY <1>1, IsASeq DEF Asks
<1>3. Len(Asks(u, n)) = n
  BY <1>2 DEF Asks
<1> QED
  BY <1>2, <1>3 DEF Asks

\* A report, with or without asks after it: the first event is the report.
Report(u, n) == Job(u) \o Asks(u, n)

\* A report is the end of a job followed by asks, all of one user.
LEMMA ReportFacts ==
  ASSUME NEW u \in Users, NEW n \in Nat
  PROVE  /\ Report(u, n) \in Seq(Event)
         /\ DOMAIN Report(u, n) = 1..(n + 1)
         /\ Report(u, n)[1].what = "job"
         /\ \A k \in DOMAIN Report(u, n) :
              /\ Report(u, n)[k].who = u
              /\ k # 1 => Report(u, n)[k].what = "ask"
<1> DEFINE evs == Job(u) \o Asks(u, n)
<1>1. Job(u) \in Seq(Event) /\ Len(Job(u)) = 1 /\ Job(u)[1] = [what |-> "job", who |-> u]
  BY DEF Job, Event
<1>2. /\ evs \in Seq(Event)
      /\ Len(evs) = 1 + n
      /\ \A i \in 1..(1 + n) : evs[i] = IF i <= 1 THEN Job(u)[i] ELSE Asks(u, n)[i - 1]
  BY <1>1, AsksFacts, ConcatProperties
<1>3. DOMAIN evs = 1..(n + 1)
  BY <1>2
<1>4. evs[1] = [what |-> "job", who |-> u]
  BY <1>1, <1>2
<1>5. \A i \in 1..(n + 1) : i # 1 => evs[i].what = "ask" /\ evs[i].who = u
  <2>1. \A i \in 1..(n + 1) : i # 1 => ~(i <= 1) /\ i - 1 \in 1..n /\ i \in 1..(1 + n)
    OBVIOUS
  <2> QED
    BY <1>2, <2>1, AsksFacts
<1> QED
  BY <1>2, <1>3, <1>4, <1>5 DEF Report
----------------------------------------------------------------------------
(* Steps of the channel's thread. *)

\* The channel starts idle, with nobody waiting.
LEMMA InitChannel == ChannelAssumption /\ Init => ChannelInvariant
<1> SUFFICES ASSUME ChannelAssumption, Init PROVE ChannelInvariant
  OBVIOUS
<1>1. TypeOK
  <2>1. chanQ \in Seq(Event)
    <3>1. <<>> \in Seq(Event)
      OBVIOUS
    <3> QED
      BY <3>1 DEF Init
  <2>2. since \in 0..FrameGap
    BY DEF Init, ChannelAssumption
  <2>3. trigQ \in [Users -> Nat] /\ jobs \in [Users -> Nat]
    BY DEF Init
  <2> QED
    BY <2>1, <2>2, <2>3 DEF Init, TypeOK
<1>2. JobEvents = {}
  BY DEF Init, JobEvents
<1>3. OneTurn
  BY <1>2 DEF Init, OneTurn
<1>4. GoneAreQuiet /\ GoneWaitersLeave /\ BusyIsJustified
  BY DEF Init, GoneAreQuiet, GoneWaitersLeave, BusyIsJustified
<1> QED
  BY <1>1, <1>3, <1>4 DEF ChannelInvariant

\* Taking an event leaves the news of destructions last.
LEMMA ReceiveKeepsNews ==
  ASSUME TypeOK, GoneAreQuiet, NEW what, Receives(what), gone' = gone
  PROVE  \A i \in DOMAIN chanQ' : chanQ'[i].what = "destroyed" =>
           /\ chanQ'[i].who \in gone'
           /\ \A j \in DOMAIN chanQ' : chanQ'[j].who = chanQ'[i].who => j <= i
<1> SUFFICES ASSUME NEW i \in DOMAIN chanQ', chanQ'[i].what = "destroyed"
             PROVE  /\ chanQ'[i].who \in gone'
                    /\ \A j \in DOMAIN chanQ' : chanQ'[j].who = chanQ'[i].who => j <= i
  OBVIOUS
<1>1. i + 1 \in DOMAIN chanQ /\ chanQ'[i] = chanQ[i + 1]
  BY ReceiveFacts
<1>2. \A j \in DOMAIN chanQ' : j \in Nat /\ j + 1 \in DOMAIN chanQ /\ chanQ'[j] = chanQ[j + 1]
  BY ReceiveFacts
<1>3. /\ chanQ[i + 1].who \in gone
      /\ \A j \in DOMAIN chanQ : chanQ[j].who = chanQ[i + 1].who => j <= i + 1
  BY <1>1 DEF GoneAreQuiet
<1>4. \A j \in DOMAIN chanQ' : chanQ'[j].who = chanQ'[i].who => j + 1 <= i + 1
  BY <1>1, <1>2, <1>3
<1> QED
  BY <1>1, <1>2, <1>3, <1>4

\* What holds once an event is taken and busy is b and the waiting are w: the turn
\* is that of b, and news of those destroyed is on its way.
Ready(b, w) ==
  /\ chanQ' \in Seq(Event) /\ lastBusy' \in Users \cup {NoUser}
  /\ UNCHANGED <<registered, gone, jobs>>
  /\ \A u \in gone : trigQ[u] = 0 /\ jobs[u] = 0
  /\ \A i \in DOMAIN chanQ' : chanQ'[i].what = "destroyed" =>
       /\ chanQ'[i].who \in gone'
       /\ \A j \in DOMAIN chanQ' : chanQ'[j].who = chanQ'[i].who => j <= i
  /\ \A u \in w \cap gone :
       \E i \in DOMAIN chanQ' : chanQ'[i].what = "destroyed" /\ chanQ'[i].who = u
  /\ \A u \in Users : trigQ[u] + jobs[u] > 0 =>
       b = u /\ trigQ[u] + jobs[u] = 1 /\ JobEvents' = {}
  /\ \A i \in JobEvents' : chanQ'[i].who = b /\ JobEvents' = {i}
  /\ b # NoUser =>
       \/ trigQ[b] + jobs[b] > 0
       \/ \E i \in DOMAIN chanQ' :
            chanQ'[i].who = b /\ chanQ'[i].what \in {"job", "destroyed"}

\* Choosing keeps the invariant: what is true of the turn of b once the event is
\* taken stays true when the channel, if b is nobody, is given to somebody.
LEMMA ChooseStep ==
  ASSUME ChannelAssumption, TypeOK,
         NEW b \in Users \cup {NoUser}, NEW w \in SUBSET (Users \cup {NoUser}),
         NEW last, NEW timer \in BOOLEAN,
         chooseNext(b, w, last, timer), Ready(b, w)
  PROVE  ChannelInvariant'
<1> USE DEF Ready
<1>1. /\ since' \in 0..FrameGap /\ frameTimer' \in BOOLEAN
      /\ \/ busy' = b /\ waiting' = w /\ trigQ' = trigQ
         \/ b = NoUser /\ \E who \in w : activate(who, w)
  BY ChooseNext
<1>2. GoneAreQuiet' <=> \A u \in gone' : trigQ'[u] = 0 /\ jobs'[u] = 0
  BY DEF GoneAreQuiet
<1>3. \A u \in Users : u # NoUser /\ trigQ[u] \in Nat /\ jobs[u] \in Nat
  BY DEF ChannelAssumption, TypeOK
<1>4. /\ registered' \subseteq Users /\ gone' \subseteq Users
      /\ jobs' \in [Users -> Nat]
      /\ trigQ \in [Users -> Nat]
  BY DEF TypeOK
<1>5. CASE busy' = b /\ waiting' = w /\ trigQ' = trigQ
  <2>1. TypeOK'
    <3>1. busy' \in Users \cup {NoUser} /\ waiting' \subseteq Users \cup {NoUser}
      BY <1>5
    <3> QED
      BY <1>1, <1>4, <1>5, <3>1 DEF TypeOK
  <2>2. OneTurn'
    BY <1>5 DEF OneTurn
  <2>3. BusyIsJustified'
    BY <1>5 DEF BusyIsJustified
  <2>4. GoneWaitersLeave'
    BY <1>5 DEF GoneWaitersLeave
  <2>5. GoneAreQuiet'
    BY <1>2, <1>5
  <2> QED
    BY <2>1, <2>2, <2>3, <2>4, <2>5 DEF ChannelInvariant
<1>6. CASE b = NoUser /\ \E who \in w : activate(who, w)
  <2>1. PICK who \in w : activate(who, w)
    BY <1>6
  <2>2. \A u \in Users : trigQ[u] = 0 /\ jobs[u] = 0
    BY <1>3, <1>6
  <2>3. JobEvents' = {}
    <3>1. \A i \in DOMAIN chanQ' : chanQ'[i] \in Event
      OBVIOUS
    <3>2. \A i \in DOMAIN chanQ' : chanQ'[i].who \in Users
      BY <3>1 DEF Event
    <3>3. \A i \in JobEvents' : i \in DOMAIN chanQ'
      BY DEF JobEvents
    <3> QED
      BY <1>3, <1>6, <3>2, <3>3
  <2>4. \A u \in Users : trigQ'[u] = IF u = who /\ u \notin gone THEN 1 ELSE 0
    BY <2>1, <2>2 DEF activate
  <2>5. busy' = who /\ waiting' = w \ {who}
    BY <2>1 DEF activate
  <2>6. \A u \in Users : trigQ'[u] \in Nat /\ jobs'[u] = 0
    BY <2>2, <2>4
  <2>7. TypeOK'
    <3>1. trigQ' \in [Users -> Nat]
      <4>1. trigQ' = [u \in Users |-> IF u = who /\ u \notin gone
                                      THEN trigQ[u] + 1 ELSE trigQ[u]]
        BY <2>1 DEF activate
      <4> QED
        BY <1>4, <4>1
    <3>2. busy' \in Users \cup {NoUser} /\ waiting' \subseteq Users \cup {NoUser}
      BY <2>5
    <3> QED
      BY <1>1, <1>4, <3>1, <3>2 DEF TypeOK
  <2>8. OneTurn'
    <3>1. \A u \in Users : trigQ'[u] + jobs'[u] > 0 => u = who
      BY <2>4, <2>6
    <3>2. \A u \in Users : u = who /\ trigQ'[u] + jobs'[u] > 0 => trigQ'[u] + jobs'[u] = 1
      BY <2>4, <2>6
    <3> QED
      BY <2>3, <2>5, <3>1, <3>2 DEF OneTurn
  <2>9. BusyIsJustified'
    <3>1. CASE who \in gone
      BY <2>5, <3>1 DEF BusyIsJustified
    <3>2. CASE who \notin gone
      <4>1. who # NoUser => trigQ'[who] + jobs'[who] > 0
        BY <2>4, <2>6, <3>2
      <4> QED
        BY <2>5, <4>1 DEF BusyIsJustified
    <3> QED
      BY <3>1, <3>2
  <2>10. GoneWaitersLeave'
    BY <2>5 DEF GoneWaitersLeave
  <2>11. GoneAreQuiet'
    BY <1>2, <1>4, <2>4, <2>6
  <2> QED
    BY <2>7, <2>8, <2>9, <2>10, <2>11 DEF ChannelInvariant
<1> QED
  BY <1>1, <1>5, <1>6

\* Events that are not the one received stay in the queue.
LEMMA ReceiveKeepsOthers ==
  ASSUME TypeOK, NEW what, Receives(what), NEW u, NEW other,
         \E i \in DOMAIN chanQ : chanQ[i].what = other /\ chanQ[i].who = u,
         other # what
  PROVE  \E i \in DOMAIN chanQ' : chanQ'[i].what = other /\ chanQ'[i].who = u
<1>1. PICK i \in DOMAIN chanQ : chanQ[i].what = other /\ chanQ[i].who = u
  OBVIOUS
<1>2. i # 1
  BY <1>1, ReceiveFacts
<1>3. i - 1 \in DOMAIN chanQ' /\ chanQ'[i - 1] = chanQ[i]
  BY <1>2, ReceiveFacts
<1> QED
  BY <1>1, <1>3

\* A report ends the only turn, then the channel chooses.
LEMMA JobDoneStep ==
  ASSUME ChannelAssumption, ChannelInvariant, onJobDone
  PROVE  ChannelInvariant'
<1> USE DEF ChannelInvariant
<1>1. /\ Receives("job") /\ lastBusy' = busy
      /\ chooseNext(NoUser, waiting, busy, frameTimer)
      /\ UNCHANGED <<registered, gone, jobs>>
  BY DEF onJobDone
<1>2. 1 \in JobEvents
  BY <1>1, ReceiveFacts DEF JobEvents
<1>3. JobEvents = {1}
  BY <1>2 DEF OneTurn
<1>4. \A u \in Users : ~(trigQ[u] + jobs[u] > 0)
  BY <1>2 DEF OneTurn
<1>5. JobEvents' = {}
  <2>1. \A i \in DOMAIN chanQ' : i + 1 \in DOMAIN chanQ /\ i + 1 # 1 /\ chanQ'[i] = chanQ[i + 1]
    BY <1>1, ReceiveFacts
  <2> QED
    BY <1>3, <2>1 DEF JobEvents
<1>6. \A u \in waiting \cap gone :
        \E i \in DOMAIN chanQ' : chanQ'[i].what = "destroyed" /\ chanQ'[i].who = u
  BY <1>1, ReceiveKeepsOthers DEF GoneWaitersLeave
<1>7. /\ chanQ' \in Seq(Event)
      /\ lastBusy' \in Users \cup {NoUser}
      /\ waiting \in SUBSET (Users \cup {NoUser})
      /\ frameTimer \in BOOLEAN
  BY <1>1, ReceiveFacts DEF TypeOK
<1>8. \A u \in gone : trigQ[u] = 0 /\ jobs[u] = 0
  BY DEF GoneAreQuiet
<1>9. \A i \in DOMAIN chanQ' : chanQ'[i].what = "destroyed" =>
        /\ chanQ'[i].who \in gone'
        /\ \A j \in DOMAIN chanQ' : chanQ'[j].who = chanQ'[i].who => j <= i
  BY <1>1, ReceiveKeepsNews
<1> HIDE DEF ChannelInvariant
<1>10. TypeOK /\ NoUser \in Users \cup {NoUser}
  BY DEF ChannelInvariant
<1>11. Ready(NoUser, waiting)
  BY <1>1, <1>4, <1>5, <1>6, <1>7, <1>8, <1>9 DEF Ready
<1> QED
  BY <1>1, <1>7, <1>10, <1>11, ChooseStep

\* What receiving an event that is no report keeps of the turn.
LEMMA ReceiveKeepsTurn ==
  ASSUME TypeOK, OneTurn, NEW what, Receives(what), what # "job"
  PROVE  /\ \A u \in Users : trigQ[u] + jobs[u] > 0 =>
              busy = u /\ trigQ[u] + jobs[u] = 1 /\ JobEvents' = {}
         /\ \A i \in JobEvents' : chanQ'[i].who = busy /\ JobEvents' = {i}
<1>1. \A i \in JobEvents' : /\ i \in Nat /\ i + 1 \in JobEvents
                            /\ chanQ'[i] = chanQ[i + 1]
  BY ReceiveFacts DEF JobEvents
<1>2. \A i, j \in JobEvents' : i = j
  <2>1. \A i, j \in JobEvents' : i + 1 = j + 1
    BY <1>1 DEF OneTurn
  <2> QED
    BY <1>1, <2>1
<1>3. \A i \in JobEvents' : chanQ'[i].who = busy
  BY <1>1 DEF OneTurn
<1>4. JobEvents = {} => JobEvents' = {}
  BY <1>1
<1> QED
  BY <1>2, <1>3, <1>4 DEF OneTurn

\* An ask makes an entry waiting, then the channel chooses.
LEMMA AskTriggerStep ==
  ASSUME ChannelAssumption, ChannelInvariant, askTrigger
  PROVE  ChannelInvariant'
<1> DEFINE checked == IF Head(chanQ).who \in gone THEN NoUser ELSE Head(chanQ).who
<1>1. /\ Receives("ask")
      /\ chooseNext(busy, waiting \cup {checked}, lastBusy, frameTimer)
      /\ UNCHANGED <<registered, gone, lastBusy, jobs>>
  BY DEF askTrigger
<1>2. TypeOK /\ OneTurn /\ GoneAreQuiet /\ GoneWaitersLeave /\ BusyIsJustified
  BY DEF ChannelInvariant
<1>3. checked \in Users \cup {NoUser} /\ checked \notin gone
  <2>1. Head(chanQ) \in Event
    BY <1>1, <1>2, ReceiveFacts
  <2>2. Head(chanQ).who \in Users
    BY <2>1 DEF Event
  <2>3. NoUser \notin gone
    BY <1>2 DEF TypeOK, ChannelAssumption
  <2> QED
    BY <2>2, <2>3
<1> DEFINE w == waiting \cup {checked}
<1>4. w \in SUBSET (Users \cup {NoUser}) /\ w \cap gone = waiting \cap gone
  BY <1>2, <1>3 DEF TypeOK
<1>5. \A u \in w \cap gone :
        \E i \in DOMAIN chanQ' : chanQ'[i].what = "destroyed" /\ chanQ'[i].who = u
  BY <1>1, <1>2, <1>4, ReceiveKeepsOthers DEF GoneWaitersLeave
<1>6. /\ chanQ' \in Seq(Event)
      /\ lastBusy' \in Users \cup {NoUser}
      /\ busy \in Users \cup {NoUser}
      /\ frameTimer \in BOOLEAN
  BY <1>1, <1>2, ReceiveFacts DEF TypeOK
<1>7. \A u \in gone : trigQ[u] = 0 /\ jobs[u] = 0
  BY <1>2 DEF GoneAreQuiet
<1>8. \A i \in DOMAIN chanQ' : chanQ'[i].what = "destroyed" =>
        /\ chanQ'[i].who \in gone'
        /\ \A j \in DOMAIN chanQ' : chanQ'[j].who = chanQ'[i].who => j <= i
  BY <1>1, <1>2, ReceiveKeepsNews
<1>9. busy # NoUser =>
        \/ trigQ[busy] + jobs[busy] > 0
        \/ \E i \in DOMAIN chanQ' :
             chanQ'[i].who = busy /\ chanQ'[i].what \in {"job", "destroyed"}
  <2> SUFFICES ASSUME busy # NoUser, ~(trigQ[busy] + jobs[busy] > 0)
               PROVE  \E i \in DOMAIN chanQ' :
                        chanQ'[i].who = busy /\ chanQ'[i].what \in {"job", "destroyed"}
    OBVIOUS
  <2>1. PICK i \in DOMAIN chanQ : chanQ[i].who = busy /\ chanQ[i].what \in {"job", "destroyed"}
    BY <1>2 DEF BusyIsJustified
  <2>2. i # 1
    BY <1>1, <1>2, <2>1, ReceiveFacts
  <2>3. i - 1 \in DOMAIN chanQ' /\ chanQ'[i - 1] = chanQ[i]
    BY <1>1, <1>2, <2>2, ReceiveFacts
  <2> QED
    BY <2>1, <2>3
<1>10. /\ \A u \in Users : trigQ[u] + jobs[u] > 0 =>
            busy = u /\ trigQ[u] + jobs[u] = 1 /\ JobEvents' = {}
       /\ \A i \in JobEvents' : chanQ'[i].who = busy /\ JobEvents' = {i}
  BY <1>1, <1>2, ReceiveKeepsTurn
<1> HIDE DEF w
<1>11. chooseNext(busy, w, lastBusy, frameTimer) /\ UNCHANGED <<registered, gone, jobs>>
  BY <1>1 DEF w
<1>12. Ready(busy, w)
  BY <1>5, <1>6, <1>7, <1>8, <1>9, <1>10, <1>11 DEF Ready
<1> QED
  BY <1>2, <1>4, <1>6, <1>11, <1>12, ChooseStep

\* The frame timer runs out: no event is taken.
LEMMA TimeoutStep ==
  ASSUME ChannelAssumption, ChannelInvariant, frameTimeout
  PROVE  ChannelInvariant'
<1>1. /\ chooseNext(busy, waiting, lastBusy, FALSE)
      /\ UNCHANGED <<registered, gone, lastBusy, chanQ, jobs>>
  BY DEF frameTimeout
<1>2. TypeOK /\ OneTurn /\ GoneAreQuiet /\ GoneWaitersLeave /\ BusyIsJustified
  BY DEF ChannelInvariant
<1>3. /\ busy \in Users \cup {NoUser} /\ waiting \in SUBSET (Users \cup {NoUser})
      /\ chanQ \in Seq(Event) /\ lastBusy \in Users \cup {NoUser}
  BY <1>2 DEF TypeOK
<1>4. JobEvents' = JobEvents
  BY <1>1 DEF JobEvents
<1>5. \A u \in Users : trigQ[u] + jobs[u] > 0 =>
        busy = u /\ trigQ[u] + jobs[u] = 1 /\ JobEvents' = {}
  BY <1>2, <1>4 DEF OneTurn
<1>6. \A i \in JobEvents' : chanQ'[i].who = busy /\ JobEvents' = {i}
  BY <1>1, <1>2, <1>4 DEF OneTurn
<1>7. busy # NoUser =>
        \/ trigQ[busy] + jobs[busy] > 0
        \/ \E i \in DOMAIN chanQ' :
             chanQ'[i].who = busy /\ chanQ'[i].what \in {"job", "destroyed"}
  BY <1>1, <1>2 DEF BusyIsJustified
<1>8. /\ \A u \in gone : trigQ[u] = 0 /\ jobs[u] = 0
      /\ \A i \in DOMAIN chanQ' : chanQ'[i].what = "destroyed" =>
           /\ chanQ'[i].who \in gone'
           /\ \A j \in DOMAIN chanQ' : chanQ'[j].who = chanQ'[i].who => j <= i
  BY <1>1, <1>2 DEF GoneAreQuiet
<1>9. \A u \in waiting \cap gone :
        \E i \in DOMAIN chanQ' : chanQ'[i].what = "destroyed" /\ chanQ'[i].who = u
  BY <1>1, <1>2 DEF GoneWaitersLeave
<1>10. Ready(busy, waiting)
  BY <1>1, <1>3, <1>5, <1>6, <1>7, <1>8, <1>9 DEF Ready
<1> QED
  BY <1>1, <1>2, <1>3, <1>10, ChooseStep

\* The news of a destruction: it was the last event of that user, which has no
\* turn any more, so that a channel it kept is free without anybody's turn.
LEMMA DestroyedStep ==
  ASSUME ChannelAssumption, ChannelInvariant, userDestroyed
  PROVE  ChannelInvariant'
<1> DEFINE u == Head(chanQ).who
<1>1. /\ Receives("destroyed")
      /\ registered' = registered \ {u} /\ waiting' = waiting \ {u}
      /\ busy' = IF busy = u THEN NoUser ELSE busy
      /\ UNCHANGED <<gone, lastBusy, since, frameTimer, trigQ, jobs>>
  BY DEF userDestroyed
<1>2. TypeOK /\ OneTurn /\ GoneAreQuiet /\ GoneWaitersLeave /\ BusyIsJustified
  BY DEF ChannelInvariant
<1>3. /\ chanQ' \in Seq(Event) /\ chanQ[1] = Head(chanQ) /\ chanQ[1] \in Event
      /\ chanQ[1].what = "destroyed" /\ 1 \in DOMAIN chanQ
      /\ \A i \in DOMAIN chanQ : i \in Nat /\ i >= 1
      /\ \A i \in DOMAIN chanQ' : i + 1 \in DOMAIN chanQ /\ chanQ'[i] = chanQ[i + 1]
      /\ \A i \in DOMAIN chanQ : i # 1 => i - 1 \in DOMAIN chanQ' /\ chanQ'[i - 1] = chanQ[i]
  BY <1>1, <1>2, ReceiveFacts
<1>4. u \in Users
  BY <1>3 DEF Event
<1> HIDE DEF u
<1>5. u = chanQ[1].who
  BY <1>3 DEF u
<1>6. u \in gone /\ \A j \in DOMAIN chanQ : chanQ[j].who = u => j = 1
  BY <1>2, <1>3, <1>5 DEF GoneAreQuiet
<1>7. trigQ[u] = 0 /\ jobs[u] = 0
  BY <1>2, <1>6 DEF GoneAreQuiet
<1>8. TypeOK'
  BY <1>1, <1>2, <1>3 DEF TypeOK
<1>9. OneTurn'
  <2>1. /\ \A v \in Users : trigQ[v] + jobs[v] > 0 =>
             busy = v /\ trigQ[v] + jobs[v] = 1 /\ JobEvents' = {}
        /\ \A i \in JobEvents' : chanQ'[i].who = busy /\ JobEvents' = {i}
    BY <1>1, <1>2, ReceiveKeepsTurn
  <2>2. CASE busy # u
    BY <1>1, <2>1, <2>2 DEF OneTurn
  <2>3. CASE busy = u
    <3>1. \A v \in Users : ~(trigQ[v] + jobs[v] > 0)
      BY <1>7, <2>1, <2>3
    <3>2. \A i \in DOMAIN chanQ' : chanQ'[i].who # u
      BY <1>3, <1>6
    <3>3. JobEvents' = {}
      BY <2>1, <2>3, <3>2 DEF JobEvents
    <3> QED
      BY <1>1, <3>1, <3>3 DEF OneTurn
  <2> QED
    BY <2>2, <2>3
<1>10. GoneAreQuiet'
  <2>1. \A i \in DOMAIN chanQ' : chanQ'[i].what = "destroyed" =>
          /\ chanQ'[i].who \in gone'
          /\ \A j \in DOMAIN chanQ' : chanQ'[j].who = chanQ'[i].who => j <= i
    BY <1>1, <1>2, ReceiveKeepsNews
  <2> QED
    BY <1>1, <1>2, <2>1 DEF GoneAreQuiet
<1>11. GoneWaitersLeave'
  <2> SUFFICES ASSUME NEW v \in waiting' \cap gone'
               PROVE  \E i \in DOMAIN chanQ' : chanQ'[i].what = "destroyed" /\ chanQ'[i].who = v
    BY DEF GoneWaitersLeave
  <2>1. v \in waiting \cap gone /\ v # u
    BY <1>1
  <2>2. PICK i \in DOMAIN chanQ : chanQ[i].what = "destroyed" /\ chanQ[i].who = v
    BY <1>2, <2>1 DEF GoneWaitersLeave
  <2>3. i # 1
    BY <1>5, <2>1, <2>2
  <2> QED
    BY <1>3, <2>2, <2>3
<1>12. BusyIsJustified'
  <2> SUFFICES ASSUME busy' # NoUser, ~(trigQ'[busy'] + jobs'[busy'] > 0)
               PROVE  \E i \in DOMAIN chanQ' :
                        chanQ'[i].who = busy' /\ chanQ'[i].what \in {"job", "destroyed"}
    BY DEF BusyIsJustified
  <2>1. busy' = busy /\ busy # u /\ busy # NoUser
    BY <1>1
  <2>2. PICK i \in DOMAIN chanQ : chanQ[i].who = busy /\ chanQ[i].what \in {"job", "destroyed"}
    BY <1>1, <1>2, <2>1 DEF BusyIsJustified
  <2>3. i # 1
    BY <1>5, <2>1, <2>2
  <2> QED
    BY <1>3, <2>1, <2>2, <2>3
<1> QED
  BY <1>8, <1>9, <1>10, <1>11, <1>12 DEF ChannelInvariant

\* Time passes.
LEMMA TickStep ==
  ASSUME ChannelAssumption, ChannelInvariant, Tick
  PROVE  ChannelInvariant'
<1>1. TypeOK'
  BY DEF ChannelInvariant, TypeOK, Tick, ChannelAssumption
<1>2. UNCHANGED <<gone, waiting, busy, chanQ, trigQ, jobs>>
  BY DEF Tick
<1>3. JobEvents' = JobEvents
  BY <1>2 DEF JobEvents
<1>4. OneTurn' /\ GoneAreQuiet' /\ GoneWaitersLeave' /\ BusyIsJustified'
  BY <1>2, <1>3 DEF ChannelInvariant, OneTurn, GoneAreQuiet, GoneWaitersLeave, BusyIsJustified
<1> QED
  BY <1>1, <1>4 DEF ChannelInvariant
----------------------------------------------------------------------------
(* Steps of the users. *)

\* What a user that is not gone posts keeps the news last and the waiting
\* accounted for.
LEMMA PostKeepsNews ==
  ASSUME TypeOK, GoneAreQuiet, GoneWaitersLeave, NEW u \in Users \ gone,
         NEW evs \in Seq(Event), Post(evs), gone' = gone, waiting' = waiting,
         \A k \in DOMAIN evs : evs[k].who = u /\ evs[k].what # "destroyed"
  PROVE  /\ GoneWaitersLeave'
         /\ \A i \in DOMAIN chanQ' : chanQ'[i].what = "destroyed" =>
              /\ chanQ'[i].who \in gone'
              /\ \A j \in DOMAIN chanQ' : chanQ'[j].who = chanQ'[i].who => j <= i
<1>1. /\ \A i \in DOMAIN chanQ : i \in DOMAIN chanQ' /\ chanQ'[i] = chanQ[i]
      /\ \A i \in DOMAIN chanQ' \ DOMAIN chanQ :
           chanQ'[i].who = u /\ chanQ'[i].what # "destroyed"
  BY PostFacts
<1>2. GoneWaitersLeave'
  BY <1>1 DEF GoneWaitersLeave
<1>3. ASSUME NEW i \in DOMAIN chanQ', chanQ'[i].what = "destroyed"
      PROVE  /\ chanQ'[i].who \in gone'
             /\ \A j \in DOMAIN chanQ' : chanQ'[j].who = chanQ'[i].who => j <= i
  <2>1. i \in DOMAIN chanQ /\ chanQ'[i] = chanQ[i]
    BY <1>1, <1>3
  <2>2. /\ chanQ[i].who \in gone
        /\ \A j \in DOMAIN chanQ : chanQ[j].who = chanQ[i].who => j <= i
    BY <1>3, <2>1 DEF GoneAreQuiet
  <2>3. \A j \in DOMAIN chanQ' : chanQ'[j].who = chanQ'[i].who => j \in DOMAIN chanQ
    BY <1>1, <2>1, <2>2
  <2> QED
    BY <1>1, <2>1, <2>2, <2>3
<1> QED
  BY <1>2, <1>3

\* Asking, when registered or later.
LEMMA AskStep ==
  ASSUME ChannelAssumption, ChannelInvariant, NEW u \in Users \ gone,
         NEW n \in Nat, Post(Asks(u, n)),
         registered' \subseteq Users,
         UNCHANGED <<gone, waiting, chosen, jobs>>
  PROVE  ChannelInvariant'
<1>1. TypeOK /\ OneTurn /\ GoneAreQuiet /\ GoneWaitersLeave /\ BusyIsJustified
  BY DEF ChannelInvariant
<1>2. UNCHANGED <<gone, waiting, busy, lastBusy, since, frameTimer, trigQ, jobs>>
  BY DEF chosen
<1>3. /\ Asks(u, n) \in Seq(Event)
      /\ \A k \in DOMAIN Asks(u, n) : Asks(u, n)[k].what = "ask" /\ Asks(u, n)[k].who = u
  BY AsksFacts
<1> DEFINE evs == Asks(u, n)
<1> HIDE DEF evs
<1>4. /\ evs \in Seq(Event) /\ Post(evs)
      /\ \A k \in DOMAIN evs : evs[k].what = "ask" /\ evs[k].who = u
  BY <1>3 DEF evs
<1>5. /\ chanQ' \in Seq(Event)
      /\ \A i \in DOMAIN chanQ : i \in DOMAIN chanQ' /\ chanQ'[i] = chanQ[i]
      /\ \A i \in DOMAIN chanQ' \ DOMAIN chanQ : chanQ'[i].what = "ask"
  BY <1>1, <1>4, PostFacts
<1>6. TypeOK'
  BY <1>1, <1>2, <1>5 DEF TypeOK
<1>7. JobEvents' = JobEvents
  BY <1>5 DEF JobEvents
<1>8. OneTurn'
  <2>1. \A i \in JobEvents : chanQ'[i] = chanQ[i]
    BY <1>5 DEF JobEvents
  <2> QED
    BY <1>1, <1>2, <1>7, <2>1 DEF OneTurn
<1>9. BusyIsJustified'
  BY <1>1, <1>2, <1>5 DEF BusyIsJustified
<1>10. /\ GoneWaitersLeave'
       /\ \A i \in DOMAIN chanQ' : chanQ'[i].what = "destroyed" =>
            /\ chanQ'[i].who \in gone'
            /\ \A j \in DOMAIN chanQ' : chanQ'[j].who = chanQ'[i].who => j <= i
  BY <1>1, <1>2, <1>4, PostKeepsNews
<1>11. GoneAreQuiet'
  BY <1>1, <1>2, <1>10 DEF GoneAreQuiet
<1> QED
  BY <1>6, <1>8, <1>9, <1>10, <1>11 DEF ChannelInvariant

\* The trigger becomes a job: the turn stays the same.
LEMMA StartStep ==
  ASSUME ChannelAssumption, ChannelInvariant, NEW u \in Users \ gone, trigQ[u] > 0,
         trigQ' = [trigQ EXCEPT ![u] = @ - 1], jobs' = [jobs EXCEPT ![u] = @ + 1],
         UNCHANGED <<registered, gone, waiting, busy, lastBusy, since, frameTimer,
                     chanQ>>
  PROVE  ChannelInvariant'
<1>1. TypeOK /\ OneTurn /\ GoneAreQuiet /\ GoneWaitersLeave /\ BusyIsJustified
  BY DEF ChannelInvariant
<1>2. /\ u \notin gone /\ trigQ[u] > 0
      /\ trigQ' = [trigQ EXCEPT ![u] = @ - 1]
      /\ jobs' = [jobs EXCEPT ![u] = @ + 1]
      /\ UNCHANGED <<registered, gone, waiting, busy, lastBusy, since, frameTimer,
                     chanQ>>
  OBVIOUS
<1>3. \A v \in Users : trigQ[v] \in Nat /\ jobs[v] \in Nat
  BY <1>1 DEF TypeOK
<1>4. trigQ \in [Users -> Nat] /\ jobs \in [Users -> Nat]
  BY <1>1 DEF TypeOK
<1>5. /\ trigQ' \in [Users -> Nat] /\ jobs' \in [Users -> Nat]
      /\ \A v \in Users : trigQ'[v] + jobs'[v] = trigQ[v] + jobs[v]
      /\ \A v \in Users \ {u} : trigQ'[v] = trigQ[v] /\ jobs'[v] = jobs[v]
  BY <1>2, <1>3, <1>4
<1>6. TypeOK'
  BY <1>1, <1>2, <1>5 DEF TypeOK
<1>7. JobEvents' = JobEvents
  BY <1>2 DEF JobEvents
<1>8. OneTurn'
  BY <1>1, <1>2, <1>5, <1>7 DEF OneTurn
<1>9. BusyIsJustified'
  <2>1. busy \in Users \cup {NoUser}
    BY <1>1 DEF TypeOK
  <2> QED
    BY <1>1, <1>2, <1>5, <2>1 DEF BusyIsJustified
<1>10. GoneAreQuiet' /\ GoneWaitersLeave'
  <2>1. \A v \in gone : v \in Users \ {u}
    BY <1>1, <1>2 DEF TypeOK
  <2> QED
    BY <1>1, <1>2, <1>5, <2>1 DEF GoneAreQuiet, GoneWaitersLeave
<1> QED
  BY <1>6, <1>8, <1>9, <1>10 DEF ChannelInvariant

\* A trigger declined or a job finished: the only turn becomes the only report.
LEMMA ReportStep ==
  ASSUME ChannelAssumption, ChannelInvariant, NEW u \in Users \ gone, NEW n \in Nat,
         trigQ[u] + jobs[u] > 0, Post(Job(u) \o Asks(u, n)),
         trigQ' \in [Users -> Nat], jobs' \in [Users -> Nat],
         trigQ'[u] + jobs'[u] = trigQ[u] + jobs[u] - 1,
         \A v \in Users \ {u} : trigQ'[v] = trigQ[v] /\ jobs'[v] = jobs[v],
         UNCHANGED <<registered, gone, waiting, busy, lastBusy, since, frameTimer>>
  PROVE  ChannelInvariant'
<1>1. TypeOK /\ OneTurn /\ GoneAreQuiet /\ GoneWaitersLeave /\ BusyIsJustified
  BY DEF ChannelInvariant
<1> DEFINE evs == Report(u, n)
<1>2. /\ evs \in Seq(Event) /\ Post(evs)
      /\ DOMAIN evs = 1..(n + 1) /\ evs[1].what = "job"
      /\ \A k \in DOMAIN evs : evs[k].who = u /\ (k # 1 => evs[k].what = "ask")
  <2>1. Post(evs)
    BY DEF Report
  <2>2. /\ evs \in Seq(Event)
        /\ DOMAIN evs = 1..(n + 1) /\ evs[1].what = "job"
        /\ \A k \in DOMAIN evs : evs[k].who = u /\ (k # 1 => evs[k].what = "ask")
    <3>1. u \in Users
      OBVIOUS
    <3>2. /\ Report(u, n) \in Seq(Event)
          /\ DOMAIN Report(u, n) = 1..(n + 1)
          /\ Report(u, n)[1].what = "job"
          /\ \A k \in DOMAIN Report(u, n) :
               /\ Report(u, n)[k].who = u
               /\ k # 1 => Report(u, n)[k].what = "ask"
      BY <3>1, ReportFacts
    <3> QED
      BY <3>2
  <2> QED
    BY <2>1, <2>2
<1> HIDE DEF evs
<1>3. \A k \in DOMAIN evs : evs[k].what # "destroyed"
  BY <1>2
<1>4. /\ chanQ' \in Seq(Event)
      /\ Len(chanQ) \in Nat /\ DOMAIN chanQ = 1..Len(chanQ)
      /\ \A i \in DOMAIN chanQ : i \in DOMAIN chanQ' /\ chanQ'[i] = chanQ[i]
      /\ \A k \in DOMAIN evs :
           Len(chanQ) + k \in DOMAIN chanQ' /\ chanQ'[Len(chanQ) + k] = evs[k]
      /\ \A i \in DOMAIN chanQ' \ DOMAIN chanQ :
           \E k \in DOMAIN evs : i = Len(chanQ) + k /\ chanQ'[i] = evs[k]
  BY <1>1, <1>2, PostFacts
<1>5. TypeOK'
  BY <1>1, <1>4 DEF TypeOK
<1>6. busy = u /\ trigQ[u] + jobs[u] = 1 /\ JobEvents = {}
  BY <1>1 DEF OneTurn
<1> DEFINE last == Len(chanQ) + 1
<1>7. last \in DOMAIN chanQ' /\ chanQ'[last].what = "job" /\ chanQ'[last].who = u
  <2> HIDE DEF last
  <2>0. 1 \in 1..(n + 1)
    OBVIOUS
  <2>1. 1 \in DOMAIN evs /\ evs[1].who = u /\ evs[1].what = "job"
    BY <1>2, <2>0
  <2>2. last \in DOMAIN chanQ' /\ chanQ'[last] = evs[1]
    BY <1>4, <2>1 DEF last
  <2> QED
    BY <2>1, <2>2
<1>8. JobEvents' = {last}
  <2>1. ASSUME NEW i \in DOMAIN chanQ', chanQ'[i].what = "job", i # last
        PROVE  FALSE
    <3>1. i \notin DOMAIN chanQ
      BY <1>4, <1>6, <2>1 DEF JobEvents
    <3>2. PICK k \in DOMAIN evs : i = Len(chanQ) + k /\ chanQ'[i] = evs[k]
      BY <1>4, <3>1
    <3>3. k # 1
      BY <2>1, <3>2
    <3> QED
      BY <1>2, <2>1, <3>2, <3>3
  <2>2. JobEvents' = {i \in DOMAIN chanQ' : chanQ'[i].what = "job"}
    BY DEF JobEvents
  <2> HIDE DEF last
  <2> QED
    BY <1>7, <2>1, <2>2
<1>9. \A v \in Users : ~(trigQ'[v] + jobs'[v] > 0)
  <2>1. ~(trigQ'[u] + jobs'[u] > 0)
    <3>1. /\ trigQ[u] \in Nat /\ jobs[u] \in Nat
          /\ trigQ'[u] \in Nat /\ jobs'[u] \in Nat
      BY <1>1, <1>5 DEF TypeOK
    <3> QED
      BY <1>6, <3>1
  <2>2. \A v \in Users \ {u} : ~(trigQ[v] + jobs[v] > 0)
    BY <1>1, <1>6 DEF OneTurn
  <2> QED
    BY <2>1, <2>2
<1>10. OneTurn'
  BY <1>6, <1>7, <1>8, <1>9 DEF OneTurn
<1>11. BusyIsJustified'
  BY <1>6, <1>7 DEF BusyIsJustified
<1>12. /\ GoneWaitersLeave'
       /\ \A i \in DOMAIN chanQ' : chanQ'[i].what = "destroyed" =>
            /\ chanQ'[i].who \in gone'
            /\ \A j \in DOMAIN chanQ' : chanQ'[j].who = chanQ'[i].who => j <= i
  BY <1>1, <1>2, <1>3, PostKeepsNews
<1>13. GoneAreQuiet'
  <2>1. \A v \in gone : v \in Users \ {u}
    BY <1>1 DEF TypeOK
  <2> QED
    BY <1>1, <1>12, <2>1 DEF GoneAreQuiet
<1> QED
  BY <1>5, <1>10, <1>11, <1>12, <1>13 DEF ChannelInvariant

\* A user that has nothing to do with its turn reports at once.
LEMMA DeclineStep ==
  ASSUME ChannelAssumption, ChannelInvariant, NEW u \in Users, NEW again \in BOOLEAN,
         DeclineJob(u, again)
  PROVE  ChannelInvariant'
<1>1. /\ u \in Users \ gone /\ trigQ[u] > 0
      /\ trigQ' = [trigQ EXCEPT ![u] = @ - 1]
      /\ Post(Job(u) \o IF again THEN Asks(u, 1) ELSE <<>>)
      /\ UNCHANGED <<registered, gone, waiting, busy, lastBusy, since, frameTimer,
                     jobs>>
  BY DEF DeclineJob, TakeTrigger, Alive
<1>2. trigQ \in [Users -> Nat] /\ jobs \in [Users -> Nat]
  BY DEF ChannelInvariant, TypeOK
<1>3. trigQ[u] \in Nat /\ jobs[u] \in Nat
  BY <1>2
<1>4. PICK n \in Nat : Post(Job(u) \o Asks(u, n))
  <2>1. Asks(u, 0) = <<>>
    BY DEF Asks
  <2>2. CASE again
    BY <1>1, <2>2
  <2>3. CASE ~again
    BY <1>1, <2>1, <2>3
  <2> QED
    BY <2>2, <2>3
<1>5. /\ trigQ' \in [Users -> Nat] /\ jobs' \in [Users -> Nat]
      /\ trigQ[u] + jobs[u] > 0
      /\ trigQ'[u] + jobs'[u] = trigQ[u] + jobs[u] - 1
      /\ \A v \in Users \ {u} : trigQ'[v] = trigQ[v] /\ jobs'[v] = jobs[v]
  BY <1>1, <1>2, <1>3
<1> QED
  BY <1>1, <1>4, <1>5, ReportStep

\* A user whose job has ended reports it and asks again.
LEMMA FinishStep ==
  ASSUME ChannelAssumption, ChannelInvariant, NEW u \in Users, FinishJob(u)
  PROVE  ChannelInvariant'
<1>1. /\ u \in Users \ gone /\ jobs[u] > 0
      /\ jobs' = [jobs EXCEPT ![u] = @ - 1]
      /\ Post(Job(u) \o Asks(u, 1))
      /\ UNCHANGED <<registered, gone, waiting, busy, lastBusy, since, frameTimer, trigQ>>
  BY DEF FinishJob, Alive, chosen
<1>2. trigQ \in [Users -> Nat] /\ jobs \in [Users -> Nat] /\ 0 \in 0..FrameGap
  BY DEF ChannelInvariant, TypeOK, ChannelAssumption
<1>3. trigQ[u] \in Nat /\ jobs[u] \in Nat
  BY <1>2
<1>4. /\ trigQ' \in [Users -> Nat] /\ jobs' \in [Users -> Nat]
      /\ trigQ[u] + jobs[u] > 0
      /\ trigQ'[u] + jobs'[u] = trigQ[u] + jobs[u] - 1
      /\ \A v \in Users \ {u} : trigQ'[v] = trigQ[v] /\ jobs'[v] = jobs[v]
  BY <1>1, <1>2, <1>3
<1> QED
  BY <1>1, <1>4, ReportStep

\* A user dies: its turn, if it had one, becomes the news of its death.
LEMMA DestroyStep ==
  ASSUME ChannelAssumption, ChannelInvariant, NEW u \in Users, destroy(u)
  PROVE  ChannelInvariant'
<1>1. TypeOK /\ OneTurn /\ GoneAreQuiet /\ GoneWaitersLeave /\ BusyIsJustified
  BY DEF ChannelInvariant
<1> DEFINE evs == <<[what |-> "destroyed", who |-> u]>>
<1>2. /\ u \notin gone /\ gone' = gone \cup {u}
      /\ trigQ' = [trigQ EXCEPT ![u] = 0] /\ jobs' = [jobs EXCEPT ![u] = 0]
      /\ Post(evs)
      /\ UNCHANGED <<registered, waiting, busy, lastBusy, since, frameTimer>>
  BY DEF destroy, Alive
<1>3. evs \in Seq(Event) /\ DOMAIN evs = {1} /\ evs[1] = [what |-> "destroyed", who |-> u]
  BY DEF Event
<1> HIDE DEF evs
<1> DEFINE last == Len(chanQ) + 1
<1>4. /\ chanQ' \in Seq(Event) /\ Len(chanQ) \in Nat /\ DOMAIN chanQ = 1..Len(chanQ)
      /\ \A i \in DOMAIN chanQ : i \in DOMAIN chanQ' /\ chanQ'[i] = chanQ[i]
      /\ last \in DOMAIN chanQ' /\ chanQ'[last] = [what |-> "destroyed", who |-> u]
      /\ \A i \in DOMAIN chanQ' \ DOMAIN chanQ : i = last
  BY <1>1, <1>2, <1>3, PostFacts
<1>5. trigQ \in [Users -> Nat] /\ jobs \in [Users -> Nat]
  BY <1>1 DEF TypeOK
<1>6. /\ trigQ' \in [Users -> Nat] /\ jobs' \in [Users -> Nat]
      /\ trigQ'[u] = 0 /\ jobs'[u] = 0
      /\ \A v \in Users \ {u} : trigQ'[v] = trigQ[v] /\ jobs'[v] = jobs[v]
  BY <1>2, <1>5
<1>7. TypeOK'
  BY <1>1, <1>2, <1>4, <1>6 DEF TypeOK
<1>8. JobEvents' = JobEvents /\ \A i \in JobEvents : chanQ'[i] = chanQ[i]
  BY <1>4 DEF JobEvents
<1>9. OneTurn'
  BY <1>1, <1>2, <1>6, <1>8 DEF OneTurn
<1>10. GoneAreQuiet'
  <2>1. \A v \in gone' : trigQ'[v] = 0 /\ jobs'[v] = 0
    BY <1>1, <1>2, <1>6, <1>7 DEF GoneAreQuiet, TypeOK
  <2>2. ASSUME NEW i \in DOMAIN chanQ', chanQ'[i].what = "destroyed"
        PROVE  /\ chanQ'[i].who \in gone'
               /\ \A j \in DOMAIN chanQ' : chanQ'[j].who = chanQ'[i].who => j <= i
    <3>1. \A j \in DOMAIN chanQ' : j <= last
      BY <1>4
    <3>2. CASE i = last
      BY <1>2, <1>4, <3>1, <3>2
    <3>3. CASE i \in DOMAIN chanQ
      <4>1. /\ chanQ'[i] = chanQ[i] /\ chanQ[i].who \in gone
            /\ \A j \in DOMAIN chanQ : chanQ[j].who = chanQ[i].who => j <= i
        BY <1>1, <1>4, <2>2, <3>3 DEF GoneAreQuiet
      <4>2. chanQ[i].who # u
        BY <1>2, <4>1
      <4> QED
        BY <1>2, <1>4, <4>1, <4>2
    <3> QED
      BY <1>4, <3>2, <3>3
  <2> QED
    BY <2>1, <2>2 DEF GoneAreQuiet
<1>11. GoneWaitersLeave'
  <2> SUFFICES ASSUME NEW v \in waiting' \cap gone'
               PROVE  \E i \in DOMAIN chanQ' : chanQ'[i].what = "destroyed" /\ chanQ'[i].who = v
    BY DEF GoneWaitersLeave
  <2>1. CASE v = u
    BY <1>4, <2>1
  <2>2. CASE v # u
    BY <1>1, <1>2, <1>4, <2>2 DEF GoneWaitersLeave
  <2> QED
    BY <2>1, <2>2
<1>12. BusyIsJustified'
  <2>1. CASE busy = u
    BY <1>2, <1>4, <2>1 DEF BusyIsJustified
  <2>2. CASE busy # u
    <3>1. busy \in Users \cup {NoUser}
      BY <1>1 DEF TypeOK
    <3> QED
      BY <1>1, <1>2, <1>4, <1>6, <2>2, <3>1 DEF BusyIsJustified
  <2> QED
    BY <2>1, <2>2
<1> QED
  BY <1>7, <1>9, <1>10, <1>11, <1>12 DEF ChannelInvariant
----------------------------------------------------------------------------
(* The theorems. *)

\* Every step of the channel and of its users keeps the invariant.
LEMMA NextChannel ==
  ASSUME ChannelAssumption, ChannelInvariant, [Next]_chanVars
  PROVE  ChannelInvariant'
<1>1. CASE Serve
  BY <1>1, JobDoneStep, AskTriggerStep, DestroyedStep DEF Serve
<1>2. CASE frameTimeout
  BY <1>2, TimeoutStep
<1>3. CASE Tick
  BY <1>3, TickStep
<1>4. ASSUME NEW u \in Users, registerUser(u)
      PROVE  ChannelInvariant'
  <2>1. u \in Users \ gone /\ registered' \subseteq Users
    BY <1>4 DEF registerUser, ChannelInvariant, TypeOK
  <2>2. \E n \in Nat : Post(Asks(u, n))
    BY <1>4 DEF registerUser
  <2> QED
    BY <1>4, <2>1, <2>2, AskStep DEF registerUser
<1>5. ASSUME NEW u \in Users, Ask(u)
      PROVE  ChannelInvariant'
  <2>1. u \in Users \ gone /\ registered' \subseteq Users
    BY <1>5 DEF Ask, Alive, ChannelInvariant, TypeOK
  <2>2. \E n \in Nat : Post(Asks(u, n))
    BY <1>5 DEF Ask
  <2> QED
    BY <1>5, <2>1, <2>2, AskStep DEF Ask
<1>6. ASSUME NEW u \in Users, StartJob(u)
      PROVE  ChannelInvariant'
  BY <1>6, StartStep DEF StartJob, TakeTrigger, Alive
<1>7. ASSUME NEW u \in Users, NEW again \in BOOLEAN, DeclineJob(u, again)
      PROVE  ChannelInvariant'
  BY <1>7, DeclineStep
<1>8. ASSUME NEW u \in Users, FinishJob(u)
      PROVE  ChannelInvariant'
  BY <1>8, FinishStep
<1>9. ASSUME NEW u \in Users, destroy(u)
      PROVE  ChannelInvariant'
  BY <1>9, DestroyStep
<1>10. CASE UNCHANGED chanVars
  <2>1. JobEvents' = JobEvents
    BY <1>10 DEF chanVars, JobEvents
  <2> QED
    BY <1>10, <2>1 DEF chanVars, chosen, ChannelInvariant, TypeOK, OneTurn, GoneAreQuiet,
                       GoneWaitersLeave, BusyIsJustified
<1> QED
  BY <1>1, <1>2, <1>3, <1>4, <1>5, <1>6, <1>7, <1>8, <1>9, <1>10 DEF Next

\* The waiting are finitely many at any time.
LEMMA WaitingFinite ==
  ASSUME ChannelAssumption, TypeOK, IsFiniteSet(waiting), [Next]_chanVars
  PROVE  IsFiniteSet(waiting)'
<1>1. ASSUME NEW b \in Users \cup {NoUser}, NEW w \in SUBSET (Users \cup {NoUser}),
             NEW last, NEW timer \in BOOLEAN, chooseNext(b, w, last, timer), IsFiniteSet(w)
      PROVE  IsFiniteSet(waiting')
  <2>1. waiting' = w \/ \E who \in w : activate(who, w)
    BY <1>1, ChooseNext
  <2>2. waiting' \subseteq w
    BY <2>1 DEF activate
  <2> QED
    BY <1>1, <2>2, FS_Subset
<1>2. /\ waiting \in SUBSET (Users \cup {NoUser}) /\ frameTimer \in BOOLEAN
      /\ busy \in Users \cup {NoUser} /\ gone \subseteq Users
  BY DEF TypeOK
<1>3. CASE onJobDone
  BY <1>1, <1>2, <1>3 DEF onJobDone
<1>4. CASE askTrigger
  <2> DEFINE checked == IF Head(chanQ).who \in gone THEN NoUser ELSE Head(chanQ).who
  <2>1. Receives("ask") /\ chooseNext(busy, waiting \cup {checked}, lastBusy, frameTimer)
    BY <1>4 DEF askTrigger
  <2>2. checked \in Users \cup {NoUser}
    <3>1. Head(chanQ) \in Event
      BY <2>1, ReceiveFacts
    <3> QED
      BY <3>1 DEF Event
  <2> HIDE DEF checked
  <2>3. IsFiniteSet(waiting \cup {checked})
    BY FS_AddElement
  <2> QED
    BY <1>1, <1>2, <2>1, <2>2, <2>3
<1>5. CASE frameTimeout
  BY <1>1, <1>2, <1>5 DEF frameTimeout
<1>6. CASE userDestroyed
  <2>1. waiting' \subseteq waiting
    BY <1>6 DEF userDestroyed
  <2> QED
    BY <2>1, FS_Subset
<1>7. CASE UNCHANGED waiting
  BY <1>7
<1> QED
  BY <1>3, <1>4, <1>5, <1>6, <1>7 DEF Next, Serve, Tick, registerUser, Ask, StartJob,
     DeclineJob, FinishJob, destroy, chanVars

\* When the choice falls on the user served last, nobody else is waiting.
LEMMA LastOnlyIfAlone ==
  ASSUME ChannelAssumption, NEW w \in SUBSET (Users \cup {NoUser}), IsFiniteSet(w), w # {},
         NEW last, max_element(Candidates(w, last)) = last
  PROVE  w \ {last} = {}
<1>1. last \in Candidates(w, last)
  BY SomeCandidate, MaxElement
<1>2. ~(Cardinality(w) > 1) /\ last \in w
  BY <1>1, SomeCandidate DEF Candidates
<1>3. Cardinality(w \ {last}) = Cardinality(w) - 1 /\ Cardinality(w) \in Nat
      /\ IsFiniteSet(w \ {last})
  BY <1>2, FS_RemoveElement, FS_CardinalityType
<1>4. Cardinality(w \ {last}) \in Nat
  BY <1>3, FS_CardinalityType
<1>5. Cardinality(w \ {last}) = 0
  BY <1>2, <1>3, <1>4
<1> QED
  BY <1>3, <1>5, FS_EmptySet

\* Choosing, with the user served last passed over, triggers that user only when it
\* leaves nobody waiting; a channel that stays busy triggers nobody.
LEMMA ChoiceTakesTurns ==
  ASSUME ChannelAssumption, TypeOK, NEW b, NEW w \in SUBSET (Users \cup {NoUser}),
         IsFiniteSet(w), NEW last, NEW timer, chooseNext(b, w, last, timer),
         NEW u \in Users, trigQ'[u] > trigQ[u]
  PROVE  b = NoUser /\ (u = last => waiting' = {})
<1>1. trigQ[u] \in Nat
  BY DEF TypeOK
<1>2. trigQ' # trigQ
  BY <1>1
<1>3. b = NoUser /\ w # {} /\ activate(max_element(Candidates(w, last)), w)
  BY <1>2 DEF chooseNext
<1>4. u = max_element(Candidates(w, last))
  BY <1>1, <1>3 DEF activate
<1> QED
  BY <1>3, <1>4, LastOnlyIfAlone DEF activate

\* What a step that triggers u does to the waiting.
LEMMA StepTakesTurns ==
  ASSUME ChannelAssumption, ChannelInvariant, IsFiniteSet(waiting), [Next]_chanVars,
         NEW u \in Users, trigQ'[u] > trigQ[u], u = LastServed
  PROVE  waiting' = {}
<1>1. TypeOK /\ u # NoUser /\ trigQ \in [Users -> Nat]
  BY DEF ChannelInvariant, ChannelAssumption, TypeOK
<1>2. waiting \in SUBSET (Users \cup {NoUser})
  BY <1>1 DEF TypeOK
<1>3. CASE onJobDone
  <2>1. busy \in Users \/ (busy = NoUser /\ LastServed = lastBusy)
    BY <1>1 DEF TypeOK, LastServed
  <2>2. chooseNext(NoUser, waiting, busy, frameTimer)
    BY <1>3 DEF onJobDone
  <2>3. busy # NoUser
    <3>1. Len(chanQ) >= 1 /\ DOMAIN chanQ = 1..Len(chanQ) /\ Len(chanQ) \in Nat
          /\ chanQ[1] \in Event /\ chanQ[1].what = "job"
      BY <1>1, <1>3, ReceiveFacts DEF onJobDone
    <3>2. 1 \in JobEvents /\ chanQ[1].who \in Users
      BY <3>1 DEF JobEvents, Event
    <3> QED
      BY <3>2 DEF ChannelInvariant, OneTurn, ChannelAssumption
  <2> QED
    BY <1>1, <1>2, <2>2, <2>3, ChoiceTakesTurns DEF LastServed
<1>4. CASE askTrigger
  <2> DEFINE checked == IF Head(chanQ).who \in gone THEN NoUser ELSE Head(chanQ).who
  <2>1. /\ Receives("ask")
        /\ chooseNext(busy, waiting \cup {checked}, lastBusy, frameTimer)
    BY <1>4 DEF askTrigger
  <2>2. checked \in Users \cup {NoUser}
    <3>1. Head(chanQ) \in Event
      BY <1>1, <2>1, ReceiveFacts
    <3> QED
      BY <3>1 DEF Event
  <2> HIDE DEF checked
  <2>3. IsFiniteSet(waiting \cup {checked})
    BY FS_AddElement
  <2> QED
    BY <1>1, <1>2, <2>1, <2>2, <2>3, ChoiceTakesTurns DEF LastServed
<1>5. CASE frameTimeout
  BY <1>1, <1>2, <1>5, ChoiceTakesTurns DEF frameTimeout, LastServed
<1>6. CASE UNCHANGED trigQ
  BY <1>1, <1>6
<1>7. ASSUME NEW v \in Users, TakeTrigger(v) \/ destroy(v)
      PROVE  FALSE
  BY <1>1, <1>7 DEF TakeTrigger, destroy
<1> QED
  BY <1>3, <1>4, <1>5, <1>6, <1>7 DEF Next, Serve, userDestroyed, Tick, registerUser, Ask,
     StartJob, DeclineJob, FinishJob, chanVars, chosen

\* The channel's invariant holds in every state, for any number of users, any
\* priorities, any frame gap, and users destroyed at any time.
THEOREM ChannelSafety == Spec => []ChannelInvariant
<1>1. Init => ChannelInvariant
  BY InitChannel, ChannelAssumption
<1>2. ChannelInvariant /\ [Next]_chanVars => ChannelInvariant'
  BY NextChannel, ChannelAssumption
<1> QED
  BY <1>1, <1>2, PTL DEF Spec

\* No two users ever have a turn at once, on the way to a trigger, in a job, or
\* with a report not yet taken.
THEOREM MutualExclusion == Spec => []OneTurn
<1>1. ChannelInvariant => OneTurn
  BY DEF ChannelInvariant
<1> QED
  BY <1>1, ChannelSafety, PTL

\* The channel is never busy with somebody that will not report, nor be
\* reported as destroyed.
THEOREM NeverStuckBusy == Spec => []BusyIsJustified
<1>1. ChannelInvariant => BusyIsJustified
  BY DEF ChannelInvariant
<1> QED
  BY <1>1, ChannelSafety, PTL

\* Nobody is served twice in a row while somebody else waits, whatever the
\* priorities, also when one turn ends and the next begins in the same step.
THEOREM TurnsTaken == Spec => TakesTurns
<1> DEFINE Inv == ChannelInvariant /\ IsFiniteSet(waiting)
<1>1. Init => Inv
  BY InitChannel, ChannelAssumption, FS_EmptySet DEF Init
<1>2. Inv /\ [Next]_chanVars => Inv'
  BY NextChannel, WaitingFinite, ChannelAssumption DEF ChannelInvariant
<1>3. Inv /\ [Next]_chanVars =>
        [\A u \in Users :
           trigQ'[u] > trigQ[u] /\ u = LastServed => waiting' = {}]_chanVars
  BY StepTakesTurns, ChannelAssumption
<1> QED
  BY <1>1, <1>2, <1>3, PTL DEF Spec, TakesTurns

----------------------------------------------------------------------------
(* The masters. *)

\* What links a master to the channel: its reply in flight is its job.
Link ==
  /\ gone = {}
  /\ flight = [u \in Users |-> flight[u]]
  /\ finished \in [Users -> BOOLEAN]
  /\ \A u \in Users : flight[u] # NoQuery => jobs[u] = 1
  /\ \A u \in Users : finished[u] => flight[u] # NoQuery

\* The connection, before and after the master is run.
Armed ==
  /\ device \in [Users -> {"unconnected", "connecting", "connected"}]
  /\ reconnectTimer \in [Users -> BOOLEAN]
  /\ \A u \in Users : IF u \in registered
                      THEN reconnectTimer[u] <=> device[u] = "unconnected"
                      ELSE ~reconnectTimer[u] /\ device[u] = "unconnected"

MasterInvariant == ChannelInvariant /\ Link /\ Armed
----------------------------------------------------------------------------
(* What the handlers post. *)

\* Doing a read posts some asks.
LEMMA DoReadAsks ==
  ASSUME MasterAssumption, NEW u \in Users, NEW more \in Nat, doRead(u, more)
  PROVE  \E n \in Nat : Post(Asks(u, n))
<1>1. Queries[u] \in Seq(Query)
  BY DEF MasterAssumption
<1>2. DOMAIN Queries[u] = 1..Len(Queries[u]) /\ Len(Queries[u]) \in Nat
  BY <1>1
<1>3. IsFiniteSet(DOMAIN Queries[u])
  BY <1>2, FS_Interval
<1>4. IsFiniteSet(Missing(u))
  BY <1>3, FS_Subset DEF Missing
<1>5. Cardinality(Missing(u)) + more \in Nat
  BY <1>4, FS_CardinalityType
<1> QED
  BY <1>5 DEF doRead

\* Connecting the device posts asks too, or nothing.
LEMMA ConnectAsks ==
  ASSUME MasterAssumption, TypeOK, NEW u \in Users, connectDevice(u)
  PROVE  \E n \in Nat : Post(Asks(u, n))
<1>1. CASE UNCHANGED chanQ
  <2>1. Asks(u, 0) = <<>>
    BY DEF Asks
  <2>2. chanQ \in Seq(Event)
    BY DEF TypeOK
  <2>3. chanQ \o <<>> = chanQ
    BY <2>2
  <2> QED
    BY <1>1, <2>1, <2>3 DEF Post
<1>2. CASE \E n \in {0, 1} : doRead(u, n)
  BY <1>2, DoReadAsks
<1>3. CASE \E n \in {0, 1} : Post(Asks(u, n))
  BY <1>3
<1>4. \/ UNCHANGED chanQ
      \/ \E n \in {0, 1} : doRead(u, n)
      \/ \E n \in {0, 1} : Post(Asks(u, n))
  <2>1. CASE u \in Serial /\ doRead(u, IF HasWork(u) \/ Missing(u) # {} THEN 1 ELSE 0)
    BY <2>1
  <2>2. CASE u \notin Serial /\ Post(Asks(u, IF HasWork(u) THEN 1 ELSE 0))
    BY <2>2
  <2> QED
    BY <2>1, <2>2 DEF connectDevice
<1> QED
  BY <1>1, <1>2, <1>3, <1>4

\* A handler that only asks keeps the channel's invariant.
LEMMA OnlyAsks ==
  ASSUME ChannelAssumption, MasterInvariant, NEW u \in Users,
         \E n \in Nat : Post(Asks(u, n)), registered' \subseteq Users, OnlyPosts
  PROVE  ChannelInvariant'
<1>1. u \in Users \ gone
  BY DEF MasterInvariant, Link
<1>2. PICK n \in Nat : Post(Asks(u, n))
  OBVIOUS
<1> QED
  BY <1>1, <1>2, AskStep DEF MasterInvariant, OnlyPosts
----------------------------------------------------------------------------
(* Steps. *)

\* The masters start with an idle channel, unconnected, and with no reply in flight.
LEMMA InitMaster == ChannelAssumption /\ MasterInit => MasterInvariant
<1> SUFFICES ASSUME ChannelAssumption, MasterInit PROVE MasterInvariant
  OBVIOUS
<1>1. ChannelInvariant
  BY InitChannel DEF MasterInit
<1>2. Link
  BY DEF MasterInit, Init, Link
<1>3. Armed
  BY DEF MasterInit, Init, Armed
<1> QED
  BY <1>1, <1>2, <1>3 DEF MasterInvariant

\* Nobody is destroyed while there are masters.
LEMMA NobodyDestroyed ==
  ASSUME MasterInvariant
  PROVE  ~userDestroyed
<1> SUFFICES ASSUME userDestroyed PROVE FALSE
  OBVIOUS
<1>1. TypeOK /\ GoneAreQuiet /\ gone = {}
  BY DEF MasterInvariant, ChannelInvariant, Link
<1>2. Receives("destroyed")
  BY DEF userDestroyed
<1>3. 1 \in DOMAIN chanQ /\ chanQ[1].what = "destroyed"
  BY <1>1, <1>2, ReceiveFacts
<1> QED
  BY <1>1, <1>3 DEF GoneAreQuiet

\* The channel leaves the masters alone, and nobody is destroyed.
LEMMA ChannelStepKeeps ==
  ASSUME ChannelAssumption, MasterInvariant, ChannelStep
  PROVE  MasterInvariant'
<1>1. ChannelInvariant /\ TypeOK /\ GoneAreQuiet /\ gone = {} /\ UNCHANGED masterVars
  BY DEF MasterInvariant, ChannelInvariant, Link, ChannelStep
<1>2. ~userDestroyed
  BY NobodyDestroyed
<1>3. onJobDone \/ askTrigger \/ frameTimeout \/ Tick
  BY <1>2 DEF ChannelStep, Serve
<1>4. ChannelInvariant'
  BY <1>1, <1>3, JobDoneStep, AskTriggerStep, TimeoutStep, TickStep
<1>5. UNCHANGED <<gone, jobs, registered>>
  BY <1>3 DEF onJobDone, askTrigger, frameTimeout, Tick
<1>6. Link' /\ Armed'
  BY <1>1, <1>5 DEF MasterInvariant, Link, Armed, masterVars
<1> QED
  BY <1>4, <1>6 DEF MasterInvariant

\* Opening the device.
LEMMA ConnectKeeps ==
  ASSUME Armed, NEW u \in Users, connectDevice(u),
         registered' = registered \cup {u},
         u \in registered => reconnectTimer[u]
  PROVE  Armed'
<1>1. CASE /\ reconnectTimer' = [reconnectTimer EXCEPT ![u] = TRUE]
           /\ UNCHANGED device
  BY <1>1 DEF Armed
<1>2. CASE /\ device' = [device EXCEPT ![u] = "connected"]
           /\ reconnectTimer' = [reconnectTimer EXCEPT ![u] = FALSE]
  BY <1>2 DEF Armed
<1>3. CASE /\ device' = [device EXCEPT ![u] = "connecting"]
           /\ reconnectTimer' = [reconnectTimer EXCEPT ![u] = FALSE]
  BY <1>3 DEF Armed
<1> QED
  BY <1>1, <1>2, <1>3 DEF connectDevice

\* Giving the connection up.
LEMMA GiveUpKeeps ==
  ASSUME Armed, NEW u \in Users, reconnect(u), connected(u), registered' = registered
  PROVE  Armed'
<1>1. u \in registered
  BY DEF Armed, connected
<1>2. /\ device' = [device EXCEPT ![u] = "unconnected"]
      /\ reconnectTimer' = [reconnectTimer EXCEPT ![u] = TRUE]
  BY DEF reconnect
<1> QED
  BY <1>1, <1>2 DEF Armed

\* A master that starts keeps the invariant.
LEMMA OnRunStep ==
  ASSUME ChannelAssumption, MasterAssumption, MasterInvariant, NEW u \in Users, onRun(u)
  PROVE  MasterInvariant'
<1>1. ChannelInvariant /\ TypeOK /\ Link /\ Armed
  BY DEF MasterInvariant, ChannelInvariant
<1>2. /\ u \notin registered /\ registered' = registered \cup {u}
      /\ connectDevice(u) /\ OnlyPosts
      /\ UNCHANGED <<gone, jobs, flight, finished>>
  BY DEF onRun, OnlyPosts
<1>3. registered' \subseteq Users
  BY <1>1, <1>2 DEF TypeOK
<1>4. ChannelInvariant'
  BY <1>1, <1>2, <1>3, ConnectAsks, OnlyAsks
<1>5. Armed'
  BY <1>1, <1>2, ConnectKeeps
<1>6. Link'
  BY <1>1, <1>2 DEF Link
<1> QED
  BY <1>4, <1>5, <1>6 DEF MasterInvariant

\* A reconnection that is tried keeps the invariant, with or without success.
LEMMA ReconnectStep ==
  ASSUME ChannelAssumption, MasterAssumption, MasterInvariant, NEW u \in Users,
         reconnectTimeout(u)
  PROVE  MasterInvariant'
<1>1. ChannelInvariant /\ TypeOK /\ Link /\ Armed
  BY DEF MasterInvariant, ChannelInvariant
<1>2. /\ reconnectTimer[u] /\ connectDevice(u) /\ OnlyPosts
      /\ UNCHANGED <<registered, gone, jobs, flight, finished>>
  BY DEF reconnectTimeout, OnlyPosts
<1>3. u \in registered /\ registered' = registered \cup {u} /\ registered' \subseteq Users
  BY <1>1, <1>2 DEF Armed, TypeOK
<1>4. ChannelInvariant'
  BY <1>1, <1>2, <1>3, ConnectAsks, OnlyAsks
<1>5. Armed'
  BY <1>1, <1>2, <1>3, ConnectKeeps
<1>6. Link'
  BY <1>1, <1>2 DEF Link
<1> QED
  BY <1>4, <1>5, <1>6 DEF MasterInvariant

\* A connection comes up, the poll timer fires, a write is asked for.
LEMMA AskingSteps ==
  ASSUME ChannelAssumption, MasterAssumption, MasterInvariant, NEW u \in Users,
         established(u) \/ poll(u) \/ onMsg(u)
  PROVE  MasterInvariant'
<1>1. ChannelInvariant /\ TypeOK /\ Link /\ Armed
  BY DEF MasterInvariant, ChannelInvariant
<1>2. /\ OnlyPosts /\ UNCHANGED <<registered, gone, jobs, flight, finished, reconnectTimer>>
      /\ doRead(u, 0) \/ Post(Asks(u, 1))
      /\ \/ UNCHANGED device
         \/ /\ device[u] = "connecting"
            /\ device' = [device EXCEPT ![u] = "connected"]
  BY DEF established, poll, onMsg, OnlyPosts
<1>3. \E n \in Nat : Post(Asks(u, n))
  BY <1>2, DoReadAsks
<1>4. registered' \subseteq Users
  BY <1>1, <1>2 DEF TypeOK
<1>5. ChannelInvariant'
  BY <1>2, <1>3, <1>4, OnlyAsks
<1>6. Link' /\ Armed'
  BY <1>1, <1>2 DEF Link, Armed
<1> QED
  BY <1>5, <1>6 DEF MasterInvariant

\* The connection is lost, or a reply is finished: the channel hears nothing.
LEMMA QuietSteps ==
  ASSUME ChannelAssumption, MasterInvariant, NEW u \in Users,
         connectionLost(u) \/ replyFinished(u)
  PROVE  MasterInvariant'
<1>1. ChannelInvariant /\ TypeOK /\ Link /\ Armed
  BY DEF MasterInvariant, ChannelInvariant
<1>2. UNCHANGED chanVars /\ UNCHANGED flight
  BY DEF connectionLost, replyFinished
<1>3. ChannelInvariant'
  BY <1>1, <1>2, NextChannel
<1>4. CASE connectionLost(u)
  <2>1. Armed'
    BY <1>1, <1>2, <1>4 DEF connectionLost, Armed, chanVars
  <2>2. Link'
    BY <1>1, <1>2, <1>4 DEF connectionLost, Link, chanVars
  <2> QED
    BY <1>3, <2>1, <2>2 DEF MasterInvariant
<1>5. CASE replyFinished(u)
  <2>1. Armed'
    <3>1. registered' = registered
      BY <1>2 DEF chanVars
    <3>2. CASE UNCHANGED <<device, reconnectTimer>>
      BY <1>1, <3>1, <3>2 DEF Armed
    <3>3. CASE connected(u) /\ reconnect(u)
      BY <1>1, <3>1, <3>3, GiveUpKeeps
    <3> QED
      BY <1>5, <3>2, <3>3 DEF replyFinished
  <2>2. Link'
    BY <1>1, <1>2, <1>5 DEF replyFinished, Link, chanVars
  <2> QED
    BY <1>3, <2>1, <2>2 DEF MasterInvariant
<1> QED
  BY <1>4, <1>5

\* A trigger that is declined, for want of work or of a reply.
LEMMA DeclineKeeps ==
  ASSUME ChannelAssumption, MasterInvariant, NEW u \in Users,
         triggered(u), UNCHANGED jobs, \E n \in {0, 1} : Post(Job(u) \o Asks(u, n))
  PROVE  ChannelInvariant'
<1>1. /\ u \in Users \ gone /\ ChannelInvariant
      /\ trigQ \in [Users -> Nat] /\ jobs \in [Users -> Nat]
  BY DEF MasterInvariant, ChannelInvariant, Link, TypeOK
<1>2. /\ trigQ[u] > 0 /\ trigQ' = [trigQ EXCEPT ![u] = @ - 1]
      /\ UNCHANGED <<registered, gone, waiting, busy, lastBusy, since, frameTimer,
                     jobs>>
  BY DEF triggered
<1>3. PICK n \in Nat : Post(Job(u) \o Asks(u, n))
  OBVIOUS
<1>4. trigQ[u] \in Nat /\ jobs[u] \in Nat
  BY <1>1
<1>5. /\ trigQ' \in [Users -> Nat] /\ jobs' \in [Users -> Nat]
      /\ trigQ[u] + jobs[u] > 0
      /\ trigQ'[u] + jobs'[u] = trigQ[u] + jobs[u] - 1
      /\ \A v \in Users \ {u} : trigQ'[v] = trigQ[v] /\ jobs'[v] = jobs[v]
  BY <1>1, <1>2, <1>4
<1> QED
  BY <1>1, <1>2, <1>3, <1>5, ReportStep

\* The triggered master executes a query, has nothing to do or gives up.
LEMMA ExecuteStep ==
  ASSUME ChannelAssumption, MasterInvariant, NEW u \in Users, executeNext(u)
  PROVE  MasterInvariant'
<1>1. ChannelInvariant /\ TypeOK /\ OneTurn /\ Link /\ Armed /\ u \in Users \ gone
  BY DEF MasterInvariant, ChannelInvariant, Link
<1>2. /\ triggered(u) /\ trigQ[u] > 0
      /\ UNCHANGED <<registered, gone, finished>>
  BY DEF executeNext, executeNothing, executeWrite, executeRead, triggered
<1>3. \/ UNCHANGED <<jobs, flight, device, reconnectTimer>> /\ allQueriesDone(u)
      \/ connected(u) /\ \E q : execute(u, q)
  <2>1. CASE executeNothing(u)
    BY <2>1 DEF executeNothing
  <2>2. CASE executeWrite(u)
    BY <2>2, Zenon DEF executeWrite
  <2>3. CASE executeRead(u)
    BY <2>3, Zenon DEF executeRead
  <2> QED
    BY <2>1, <2>2, <2>3 DEF executeNext
<1>4. CASE UNCHANGED <<jobs, flight, device, reconnectTimer>> /\ allQueriesDone(u)
  <2>1. Job(u) \o Asks(u, 0) = Job(u)
    BY DEF Asks, Job
  <2>2. \E n \in {0, 1} : Post(Job(u) \o Asks(u, n))
    BY <1>4, <2>1 DEF allQueriesDone
  <2>3. ChannelInvariant'
    BY <1>2, <1>4, <2>2, DeclineKeeps
  <2>4. Link' /\ Armed'
    BY <1>1, <1>2, <1>4 DEF Link, Armed
  <2> QED
    BY <2>3, <2>4 DEF MasterInvariant
<1>5. CASE connected(u) /\ \E q : execute(u, q)
  <2>1. PICK q : execute(u, q)
    BY <1>5
  <2>2. CASE /\ jobs' = [jobs EXCEPT ![u] = @ + 1]
             /\ flight' = [flight EXCEPT ![u] = q]
             /\ UNCHANGED <<chanQ, device, reconnectTimer>>
    <3>1. ChannelInvariant'
      BY <1>1, <1>2, <2>2, StartStep DEF triggered
    <3>2. jobs[u] = 0 /\ jobs \in [Users -> Nat]
      <4>1. jobs[u] \in Nat /\ trigQ[u] \in Nat /\ jobs \in [Users -> Nat]
        BY <1>1 DEF TypeOK
      <4>2. trigQ[u] + jobs[u] = 1
        BY <1>1, <1>2, <4>1 DEF OneTurn
      <4> QED
        BY <1>2, <4>1, <4>2
    <3>3. jobs'[u] = 1 /\ \A v \in Users \ {u} : jobs'[v] = jobs[v]
      BY <2>2, <3>2
    <3>4. flight[u] = NoQuery /\ ~finished[u]
      BY <1>1, <3>2 DEF Link
    <3>5. Link'
      BY <1>1, <1>2, <2>2, <3>3, <3>4 DEF Link
    <3>6. Armed'
      BY <1>1, <1>2, <2>2 DEF Armed
    <3> QED
      BY <3>1, <3>5, <3>6 DEF MasterInvariant
  <2>3. CASE /\ queryDone(u) /\ UNCHANGED <<jobs, flight>>
             /\ UNCHANGED <<device, reconnectTimer>> \/ reconnect(u)
    <3>1. ChannelInvariant'
      BY <1>2, <2>3, DeclineKeeps DEF queryDone
    <3>2. Link'
      BY <1>1, <1>2, <2>3 DEF Link
    <3>3. Armed'
      <4>1. CASE UNCHANGED <<device, reconnectTimer>>
        BY <1>1, <1>2, <4>1 DEF Armed
      <4>2. CASE reconnect(u)
        BY <1>1, <1>2, <1>5, <4>2, GiveUpKeeps
      <4> QED
        BY <2>3, <4>1, <4>2
    <3> QED
      BY <3>1, <3>2, <3>3 DEF MasterInvariant
  <2> QED
    BY <2>1, <2>2, <2>3 DEF execute
<1> QED
  BY <1>3, <1>4, <1>5

\* The reply is gone: the job is reported.
LEMMA ReplyDestroyedStep ==
  ASSUME ChannelAssumption, MasterInvariant, NEW u \in Users, replyDestroyed(u)
  PROVE  MasterInvariant'
<1>1. ChannelInvariant /\ TypeOK /\ Link /\ Armed /\ u \in Users \ gone
  BY DEF MasterInvariant, ChannelInvariant, Link
<1>2. /\ finished[u]
      /\ flight' = [flight EXCEPT ![u] = NoQuery]
      /\ finished' = [finished EXCEPT ![u] = FALSE]
      /\ jobs' = [jobs EXCEPT ![u] = @ - 1]
      /\ Post(Job(u) \o Asks(u, 1))
      /\ UNCHANGED <<registered, gone, waiting, busy, lastBusy, since, frameTimer, trigQ,
                     device, reconnectTimer>>
  BY DEF replyDestroyed, queryDone, chosen
<1>3. jobs[u] = 1
  BY <1>1, <1>2 DEF Link
<1>4. trigQ \in [Users -> Nat] /\ jobs \in [Users -> Nat] /\ 0 \in 0..FrameGap
  BY <1>1 DEF TypeOK, ChannelAssumption
<1>5. trigQ[u] \in Nat
  BY <1>4
<1>6. /\ trigQ' \in [Users -> Nat] /\ jobs' \in [Users -> Nat]
      /\ trigQ[u] + jobs[u] > 0
      /\ trigQ'[u] + jobs'[u] = trigQ[u] + jobs[u] - 1
      /\ \A v \in Users \ {u} : trigQ'[v] = trigQ[v] /\ jobs'[v] = jobs[v]
  BY <1>2, <1>3, <1>4, <1>5
<1>7. ChannelInvariant'
  BY <1>1, <1>2, <1>6, ReportStep
<1>8. Link'
  BY <1>1, <1>2, <1>6 DEF Link
<1>9. Armed'
  BY <1>1, <1>2 DEF Armed
<1> QED
  BY <1>7, <1>8, <1>9 DEF MasterInvariant

\* Every step of the channel and of the masters keeps the invariant.
LEMMA NextMaster ==
  ASSUME ChannelAssumption, MasterAssumption, MasterInvariant, [MasterNext]_vars
  PROVE  MasterInvariant'
<1>1. CASE ChannelStep
  BY <1>1, ChannelStepKeeps
<1>2. ASSUME NEW u \in Users, MasterStep(u)
      PROVE  MasterInvariant'
  BY <1>2, OnRunStep, ReconnectStep, AskingSteps, QuietSteps, ExecuteStep,
     ReplyDestroyedStep DEF MasterStep
<1>3. CASE UNCHANGED vars
  <2>1. UNCHANGED chanVars /\ UNCHANGED masterVars
    BY <1>3 DEF vars
  <2>2. ChannelInvariant'
    BY <2>1, NextChannel DEF MasterInvariant
  <2>3. Link' /\ Armed'
    BY <2>1 DEF MasterInvariant, Link, Armed, chanVars, masterVars
  <2> QED
    BY <2>2, <2>3 DEF MasterInvariant
<1> QED
  BY <1>1, <1>2, <1>3 DEF MasterNext
----------------------------------------------------------------------------
(* Polling: no wakeup is lost. *)

\* The variables of the masters have their types, and a serial port is never on
\* its way to being open: the ask of its queries is posted when it opens.
PollingTypes ==
  /\ device \in [Users -> {"unconnected", "connecting", "connected"}]
  /\ reconnectTimer \in [Users -> BOOLEAN]
  /\ readQueue \in [Users -> Seq(Query)]
  /\ writeQueue \in [Users -> Nat]
  /\ flight \in [Users -> Query \cup {Write, NoQuery}]
  /\ finished \in [Users -> BOOLEAN]
  /\ writes \in [Users -> 0..MaxWrites]
  /\ \A u \in Serial : device[u] # "connecting"

\* The queries enqeueRead adds are queries, and there are none of them when none
\* is missing from the queue.
LEMMA FreshFacts ==
  ASSUME MasterAssumption, NEW u \in Users
  PROVE  /\ Fresh(u) \in Seq(Query)
         /\ Missing(u) = {} => Fresh(u) = <<>>
<1> DEFINE n == Len(Queries[u])
           K == Missing(u)
           v == [i \in 1..n |-> Queries[u][i]]
           none == <<>>
<1>1. /\ Queries[u] \in Seq(Query) /\ n \in Nat /\ DOMAIN Queries[u] = 1..n
      /\ v \in [1..n -> Query] /\ none \in Seq(Query)
  BY DEF MasterAssumption
<1>2. \E g : Fresh(u) = g[1..n] /\ KeptFold(g, n, K, v, none)
  <2> DEFINE Own(g) == g = [T \in SUBSET (1..n) |->
                              IF T = {} THEN <<>>
                              ELSE IF Queued(u, Queries[u][Max(T)])
                                   THEN g[T \ {Max(T)}]
                                   ELSE Append(g[T \ {Max(T)}], Queries[u][Max(T)])]
  <2>1. Fresh(u) = (CHOOSE g : Own(g))[1..n]
    BY <1>1, Zenon DEF Fresh, FoldLeft, MapThenFoldSet
  <2>2. ASSUME NEW T \in SUBSET (1..n), T # {}
        PROVE  /\ Max(T) \in K <=> ~Queued(u, Queries[u][Max(T)])
               /\ v[Max(T)] = Queries[u][Max(T)]
    <3>1. Max(T) \in 1..n
      BY <1>1, <2>2, MaxFacts
    <3> QED
      BY <1>1, <3>1 DEF Missing
  <2>3. none = <<>>
    OBVIOUS
  <2> HIDE DEF n, K, v, none
  <2>4. ASSUME NEW g PROVE KeptFold(g, n, K, v, none) <=> Own(g)
    BY <2>2, <2>3 DEF KeptFold
  <2>5. \E g : KeptFold(g, n, K, v, none)
    BY <1>1, KeptExists
  <2> HIDE DEF Own
  <2> QED
    BY <2>1, <2>4, <2>5
<1> PICK g : Fresh(u) = g[1..n] /\ KeptFold(g, n, K, v, none)
  BY <1>2
<1>3. K = {} <=> Missing(u) = {}
  OBVIOUS
<1>4. none = <<>>
  OBVIOUS
<1> HIDE DEF n, K, v, none
<1>5. PICK r : Keeps(r, g, n, K, v, none, Query)
  BY <1>1, KeptSteps
<1>6. Fresh(u) \in Seq(Query)
  BY <1>1, <1>5 DEF Keeps
<1>7. ASSUME K = {} PROVE Fresh(u) = <<>>
  <2> DEFINE P == {k \in Nat : k <= n => r[k] = <<>>}
  <2>1. 0 \in P
    BY <1>4, <1>5 DEF Keeps
  <2>2. ASSUME NEW k \in Nat, k \in P PROVE k + 1 \in P
    <3> SUFFICES ASSUME k + 1 <= n PROVE r[k + 1] = <<>>
      OBVIOUS
    <3>1. k + 1 \in 1..n /\ r[k] = <<>> /\ (k + 1) - 1 = k
      BY <1>1, <2>2
    <3>2. r[k + 1] = r[(k + 1) - 1]
      BY <1>5, <1>7, <3>1 DEF Keeps
    <3> QED
      BY <3>1, <3>2
  <2>3. \A k \in Nat : k \in P
    <3> HIDE DEF P
    <3> QED
      BY <2>1, <2>2, NaturalsInduct
  <2> QED
    BY <1>1, <1>5, <2>3 DEF Keeps
<1> QED
  BY <1>3, <1>6, <1>7

\* A master the channel knows of is still known of when something is posted ...
LEMMA PostKeepsAwake ==
  ASSUME TypeOK, NEW evs \in Seq(Event), Post(evs), NEW u \in Users, Awake(u),
         UNCHANGED <<waiting, trigQ[u], jobs[u]>>
  PROVE  Awake(u)'
<1>1. CASE u \in waiting \/ trigQ[u] + jobs[u] > 0
  BY <1>1 DEF Awake
<1>2. CASE \E i \in DOMAIN chanQ : chanQ[i] = [what |-> "ask", who |-> u]
  <2>1. \E i \in DOMAIN chanQ' : chanQ'[i] = [what |-> "ask", who |-> u]
    BY <1>2, PostFacts
  <2> QED
    BY <2>1 DEF Awake
<1> QED
  BY <1>1, <1>2 DEF Awake

\* ... and one that asks becomes known, also when it reports before it asks.
LEMMA AskWakes ==
  ASSUME TypeOK, NEW u \in Users, NEW n \in Nat, n > 0,
         Post(Asks(u, n)) \/ Post(Job(u) \o Asks(u, n))
  PROVE  Awake(u)'
<1>1. /\ Asks(u, n) \in Seq(Event) /\ DOMAIN Asks(u, n) = 1..n
      /\ Asks(u, n)[1] = [what |-> "ask", who |-> u]
  <2>1. Asks(u, n)[1] = [what |-> "ask", who |-> u]
    BY DEF Asks
  <2> QED
    BY <2>1, AsksFacts
<1>2. CASE Post(Asks(u, n))
  <2>1. \E i \in DOMAIN chanQ' : chanQ'[i] = [what |-> "ask", who |-> u]
    BY <1>1, <1>2, PostFacts
  <2> QED
    BY <2>1 DEF Awake
<1>3. CASE Post(Job(u) \o Asks(u, n))
  <2> DEFINE evs == Report(u, n)
  <2>1. evs \in Seq(Event) /\ 2 \in DOMAIN evs /\ evs[2].what = "ask" /\ evs[2].who = u
    BY ReportFacts
  <2>2. Post(evs)
    BY <1>3 DEF Report
  <2> HIDE DEF evs
  <2>3. evs[2] = [what |-> "ask", who |-> u]
    <3>1. evs[2] \in Event
      BY <2>1
    <3> QED
      BY <2>1, <3>1 DEF Event
  <2>4. \E i \in DOMAIN chanQ' : chanQ'[i] = [what |-> "ask", who |-> u]
    BY <2>1, <2>2, <2>3, PostFacts
  <2> QED
    BY <2>4 DEF Awake
<1> QED
  BY <1>2, <1>3

\* The choice triggers whom it takes from the waiting.
LEMMA ChoiceKeepsAwake ==
  ASSUME ChannelAssumption, TypeOK, gone = {},
         NEW b \in Users \cup {NoUser}, NEW w \in SUBSET (Users \cup {NoUser}),
         NEW last, NEW timer \in BOOLEAN, chooseNext(b, w, last, timer),
         NEW u \in Users, u \in w \/ trigQ[u] + jobs[u] > 0, UNCHANGED jobs
  PROVE  u \in waiting' \/ trigQ'[u] + jobs'[u] > 0
<1>1. trigQ[u] \in Nat /\ jobs[u] \in Nat
  BY DEF TypeOK
<1>2. CASE waiting' = w /\ trigQ' = trigQ
  BY <1>2
<1>3. ASSUME NEW who \in w, activate(who, w)
      PROVE  u \in waiting' \/ trigQ'[u] + jobs'[u] > 0
  BY <1>1, <1>3 DEF activate
<1> QED
  BY <1>2, <1>3, ChooseNext

\* The channel turns an ask into a wait and a wait into a trigger.
LEMMA ChannelKeepsAwake ==
  ASSUME ChannelAssumption, MasterInvariant, ChannelStep, NEW u \in Users, Awake(u)
  PROVE  Awake(u)'
<1>1. TypeOK /\ GoneAreQuiet /\ gone = {}
  BY DEF MasterInvariant, ChannelInvariant, Link
<1>2. /\ waiting \in SUBSET (Users \cup {NoUser}) /\ frameTimer \in BOOLEAN
      /\ busy \in Users \cup {NoUser}
  BY <1>1 DEF TypeOK
<1>3. CASE askTrigger
  <2> DEFINE ask == chanQ[1]
  <2>1. /\ Receives("ask") /\ UNCHANGED jobs
        /\ chooseNext(busy, waiting \cup {Head(chanQ).who}, lastBusy, frameTimer)
    BY <1>1, <1>3 DEF askTrigger
  <2>2. /\ Head(chanQ) = ask /\ ask \in Event
        /\ \A i \in DOMAIN chanQ : i # 1 => i - 1 \in DOMAIN chanQ' /\ chanQ'[i - 1] = chanQ[i]
    BY <1>1, <2>1, ReceiveFacts
  <2>3. waiting \cup {ask.who} \in SUBSET (Users \cup {NoUser})
    BY <1>2, <2>2 DEF Event
  <2>4. CASE u \in waiting \cup {ask.who} \/ trigQ[u] + jobs[u] > 0
    <3>1. u \in waiting' \/ trigQ'[u] + jobs'[u] > 0
      BY <1>1, <1>2, <2>1, <2>2, <2>3, <2>4, ChoiceKeepsAwake
    <3> QED
      BY <3>1 DEF Awake
  <2>5. CASE ~(u \in waiting \cup {ask.who} \/ trigQ[u] + jobs[u] > 0)
    <3>1. PICK i \in DOMAIN chanQ : chanQ[i] = [what |-> "ask", who |-> u]
      BY <2>5 DEF Awake
    <3>2. i # 1
      BY <2>5, <3>1
    <3>3. i - 1 \in DOMAIN chanQ' /\ chanQ'[i - 1] = [what |-> "ask", who |-> u]
      BY <2>2, <3>1, <3>2
    <3> QED
      BY <3>3 DEF Awake
  <2> QED
    BY <2>4, <2>5
<1>4. CASE onJobDone
  <2>1. /\ Receives("job") /\ UNCHANGED jobs
        /\ chooseNext(NoUser, waiting, busy, frameTimer)
    BY <1>4 DEF onJobDone
  <2>2. /\ chanQ[1].what = "job"
        /\ \A i \in DOMAIN chanQ : i # 1 => i - 1 \in DOMAIN chanQ' /\ chanQ'[i - 1] = chanQ[i]
    BY <1>1, <2>1, ReceiveFacts
  <2>3. CASE u \in waiting \/ trigQ[u] + jobs[u] > 0
    <3>1. u \in waiting' \/ trigQ'[u] + jobs'[u] > 0
      BY <1>1, <1>2, <2>1, <2>3, ChoiceKeepsAwake
    <3> QED
      BY <3>1 DEF Awake
  <2>4. CASE ~(u \in waiting \/ trigQ[u] + jobs[u] > 0)
    <3>1. PICK i \in DOMAIN chanQ : chanQ[i] = [what |-> "ask", who |-> u]
      BY <2>4 DEF Awake
    <3>2. i # 1
      BY <2>2, <3>1
    <3>3. i - 1 \in DOMAIN chanQ' /\ chanQ'[i - 1] = [what |-> "ask", who |-> u]
      BY <2>2, <3>1, <3>2
    <3> QED
      BY <3>3 DEF Awake
  <2> QED
    BY <2>3, <2>4
<1>5. CASE frameTimeout
  <2>1. chooseNext(busy, waiting, lastBusy, FALSE) /\ UNCHANGED <<chanQ, jobs>>
    BY <1>5 DEF frameTimeout
  <2>2. CASE u \in waiting \/ trigQ[u] + jobs[u] > 0
    <3>1. u \in waiting' \/ trigQ'[u] + jobs'[u] > 0
      BY <1>1, <1>2, <2>1, <2>2, ChoiceKeepsAwake
    <3> QED
      BY <3>1 DEF Awake
  <2>3. CASE \E i \in DOMAIN chanQ : chanQ[i] = [what |-> "ask", who |-> u]
    BY <2>1, <2>3 DEF Awake
  <2> QED
    BY <2>2, <2>3 DEF Awake
<1>6. CASE Tick
  BY <1>6 DEF Tick, Awake
<1>7. ~userDestroyed
  BY NobodyDestroyed
<1> QED
  BY <1>3, <1>4, <1>5, <1>6, <1>7 DEF ChannelStep, Serve
\* A handler of one master forgets nobody if it does not forget that master.
LEMMA NoneForgotten ==
  ASSUME MasterAssumption, TypeOK, NoLostWakeup, NEW u \in Users,
         NEW evs \in Seq(Event), Post(evs), UNCHANGED waiting,
         \A v \in Users \ {u} :
           UNCHANGED <<device[v], readQueue[v], writeQueue[v], trigQ[v], jobs[v]>>,
         u \in Serial /\ connected(u)' /\ HasWork(u)' => Awake(u)'
  PROVE  NoLostWakeup'
<1> SUFFICES ASSUME NEW v \in Serial, connected(v)', HasWork(v)' PROVE Awake(v)'
  BY DEF NoLostWakeup
<1>1. v \in Users
  BY DEF MasterAssumption
<1>2. CASE v # u
  <2>1. connected(v) /\ HasWork(v)
    BY <1>1, <1>2 DEF connected, HasWork
  <2>2. Awake(v)
    BY <2>1 DEF NoLostWakeup
  <2> QED
    BY <1>1, <1>2, <2>2, PostKeepsAwake
<1> QED
  BY <1>2

\* A handler that leaves the channel's queue alone posts nothing.
LEMMA NothingPosted ==
  ASSUME TypeOK, UNCHANGED chanQ
  PROVE  <<>> \in Seq(Event) /\ Post(<<>>)
<1>1. chanQ \in Seq(Event)
  BY DEF TypeOK
<1>2. chanQ \o <<>> = chanQ
  BY <1>1
<1> QED
  BY <1>2 DEF Post

\* A read posts an ask for every query it adds.
LEMMA DoReadFacts ==
  ASSUME MasterAssumption, PollingTypes, NEW u \in Users, NEW more \in Nat, doRead(u, more)
  PROVE  /\ readQueue' \in [Users -> Seq(Query)]
         /\ \A v \in Users \ {u} : readQueue'[v] = readQueue[v]
         /\ readQueue'[u] # <<>> => readQueue[u] # <<>> \/ Missing(u) # {}
         /\ \E n \in Nat : /\ Post(Asks(u, n))
                           /\ Missing(u) # {} \/ more > 0 => n > 0
<1>1. /\ Fresh(u) \in Seq(Query) /\ readQueue[u] \in Seq(Query)
      /\ readQueue' = [readQueue EXCEPT ![u] = @ \o Fresh(u)]
      /\ readQueue \in [Users -> Seq(Query)]
      /\ Post(Asks(u, Cardinality(Missing(u)) + more))
  BY FreshFacts DEF doRead, PollingTypes
<1>2. readQueue' \in [Users -> Seq(Query)] /\ \A v \in Users \ {u} : readQueue'[v] = readQueue[v]
  BY <1>1
<1>3. ASSUME Missing(u) = {} PROVE readQueue'[u] = readQueue[u]
  <2>1. Fresh(u) = <<>>
    BY <1>3, FreshFacts
  <2>2. readQueue[u] \o <<>> = readQueue[u]
    BY <1>1
  <2> QED
    BY <1>1, <2>1, <2>2
<1>4. /\ Cardinality(Missing(u)) \in Nat
      /\ Missing(u) # {} => Cardinality(Missing(u)) > 0
  <2>1. DOMAIN Queries[u] = 1..Len(Queries[u]) /\ Len(Queries[u]) \in Nat
    BY DEF MasterAssumption
  <2>2. IsFiniteSet(DOMAIN Queries[u])
    BY <2>1, FS_Interval
  <2>3. IsFiniteSet(Missing(u))
    BY <2>2, FS_Subset DEF Missing
  <2> QED
    BY <2>3, FS_CardinalityType, FS_EmptySet
<1>5. /\ Cardinality(Missing(u)) + more \in Nat
      /\ Missing(u) # {} \/ more > 0 => Cardinality(Missing(u)) + more > 0
  BY <1>4
<1>6. \E n \in Nat : /\ Post(Asks(u, n))
                     /\ Missing(u) # {} \/ more > 0 => n > 0
  BY <1>1, <1>5
<1> QED
  BY <1>2, <1>3, <1>6

\* Connecting a device announces what is left in its queues.
LEMMA ConnectPolls ==
  ASSUME MasterAssumption, TypeOK, PollingTypes, NoLostWakeup, NEW u \in Users,
         connectDevice(u), OnlyPosts, UNCHANGED <<writeQueue, flight, finished, writes>>
  PROVE  PollingTypes' /\ NoLostWakeup'
<1>1. UNCHANGED <<waiting, trigQ, jobs>>
  BY DEF OnlyPosts, chosen
<1>2. CASE /\ reconnectTimer' = [reconnectTimer EXCEPT ![u] = TRUE]
           /\ UNCHANGED <<device, readQueue, chanQ>>
  <2>1. PollingTypes'
    BY <1>2 DEF PollingTypes
  <2>2. Awake(u) => Awake(u)'
    BY <1>1, <1>2 DEF Awake
  <2>3. u \in Serial /\ connected(u)' /\ HasWork(u)' => Awake(u)'
    BY <1>2, <2>2 DEF NoLostWakeup, connected, HasWork
  <2> QED
    BY <1>1, <1>2, <2>1, <2>3, NothingPosted, NoneForgotten
<1>3. CASE /\ u \in Serial
           /\ device' = [device EXCEPT ![u] = "connected"]
           /\ reconnectTimer' = [reconnectTimer EXCEPT ![u] = FALSE]
           /\ doRead(u, IF HasWork(u) \/ Missing(u) # {} THEN 1 ELSE 0)
  <2> DEFINE more == IF HasWork(u) \/ Missing(u) # {} THEN 1 ELSE 0
  <2>1. more \in Nat /\ (HasWork(u) \/ Missing(u) # {} => more > 0) /\ doRead(u, more)
    BY <1>3
  <2> HIDE DEF more
  <2>2. /\ readQueue' \in [Users -> Seq(Query)]
        /\ \A v \in Users \ {u} : readQueue'[v] = readQueue[v]
        /\ readQueue'[u] # <<>> => readQueue[u] # <<>> \/ Missing(u) # {}
        /\ \E n \in Nat : Post(Asks(u, n)) /\ (Missing(u) # {} \/ more > 0 => n > 0)
    BY <2>1, DoReadFacts
  <2>3. PICK n \in Nat : Post(Asks(u, n)) /\ (Missing(u) # {} \/ more > 0 => n > 0)
    BY <2>2
  <2>4. PollingTypes'
    BY <1>3, <2>2 DEF PollingTypes
  <2>5. ASSUME HasWork(u)' PROVE Awake(u)'
    <3>1. n > 0
      BY <2>1, <2>2, <2>3, <2>5 DEF HasWork
    <3> QED
      BY <2>3, <3>1, AskWakes
  <2>6. \A v \in Users \ {u} : UNCHANGED <<device[v], readQueue[v], writeQueue[v], trigQ[v], jobs[v]>>
    BY <1>1, <1>3, <2>2 DEF PollingTypes
  <2>7. Asks(u, n) \in Seq(Event)
    BY AsksFacts
  <2> QED
    BY <1>1, <2>3, <2>4, <2>5, <2>6, <2>7, NoneForgotten
<1>4. CASE /\ u \notin Serial
           /\ device' = [device EXCEPT ![u] = "connecting"]
           /\ reconnectTimer' = [reconnectTimer EXCEPT ![u] = FALSE]
           /\ Post(Asks(u, IF HasWork(u) THEN 1 ELSE 0))
           /\ UNCHANGED readQueue
  <2>1. PollingTypes'
    BY <1>4 DEF PollingTypes
  <2>2. \A v \in Users \ {u} : UNCHANGED <<device[v], readQueue[v], writeQueue[v], trigQ[v], jobs[v]>>
    BY <1>1, <1>4 DEF PollingTypes
  <2>3. PICK n \in Nat : Post(Asks(u, n))
    BY <1>4
  <2>4. Asks(u, n) \in Seq(Event)
    BY AsksFacts
  <2> QED
    BY <1>1, <1>4, <2>1, <2>2, <2>3, <2>4, NoneForgotten
<1> QED
  BY <1>2, <1>3, <1>4 DEF connectDevice

\* A connection comes up or the poll timer fires: what is added is asked for.
LEMMA ReadPolls ==
  ASSUME MasterAssumption, TypeOK, PollingTypes, NoLostWakeup, NEW u \in Users,
         doRead(u, 0), OnlyPosts,
         UNCHANGED <<reconnectTimer, writeQueue, flight, finished, writes>>,
         \/ UNCHANGED device
         \/ device[u] = "connecting" /\ device' = [device EXCEPT ![u] = "connected"]
  PROVE  PollingTypes' /\ NoLostWakeup'
<1>1. UNCHANGED <<waiting, trigQ, jobs>>
  BY DEF OnlyPosts, chosen
<1>2. /\ readQueue' \in [Users -> Seq(Query)]
      /\ \A v \in Users \ {u} : readQueue'[v] = readQueue[v]
      /\ readQueue'[u] # <<>> => readQueue[u] # <<>> \/ Missing(u) # {}
      /\ \E n \in Nat : Post(Asks(u, n)) /\ (Missing(u) # {} \/ 0 > 0 => n > 0)
  BY DoReadFacts
<1>3. PICK n \in Nat : Post(Asks(u, n)) /\ (Missing(u) # {} => n > 0)
  BY <1>2
<1>4. PollingTypes' /\ (u \in Serial => UNCHANGED device)
  BY <1>2 DEF PollingTypes
<1>5. ASSUME u \in Serial, connected(u)', HasWork(u)' PROVE Awake(u)'
  <2>1. CASE Missing(u) # {}
    BY <1>3, <2>1, AskWakes
  <2>2. CASE HasWork(u)
    <3>1. Awake(u)
      BY <1>4, <1>5, <2>2 DEF NoLostWakeup, connected
    <3>2. Asks(u, n) \in Seq(Event)
      BY AsksFacts
    <3> QED
      BY <1>1, <1>3, <3>1, <3>2, PostKeepsAwake
  <2> QED
    BY <1>2, <1>5, <2>1, <2>2 DEF HasWork
<1>6. \A v \in Users \ {u} : UNCHANGED <<device[v], readQueue[v], writeQueue[v], trigQ[v], jobs[v]>>
  BY <1>1, <1>2 DEF PollingTypes
<1>7. Asks(u, n) \in Seq(Event)
  BY AsksFacts
<1> QED
  BY <1>1, <1>3, <1>4, <1>5, <1>6, <1>7, NoneForgotten

\* A write is asked for.
LEMMA WritePolls ==
  ASSUME MasterAssumption, TypeOK, PollingTypes, NoLostWakeup, NEW u \in Users, onMsg(u)
  PROVE  PollingTypes' /\ NoLostWakeup'
<1>1. /\ writes[u] < MaxWrites /\ writes' = [writes EXCEPT ![u] = @ + 1]
      /\ writeQueue' = [writeQueue EXCEPT ![u] = @ + 1]
      /\ Post(Asks(u, 1))
      /\ UNCHANGED <<waiting, trigQ, jobs, device, reconnectTimer, readQueue, flight,
                     finished>>
  BY DEF onMsg, OnlyPosts, chosen
<1>2. PollingTypes'
  <2>1. writes[u] + 1 \in 0..MaxWrites /\ writeQueue[u] + 1 \in Nat
    BY <1>1 DEF PollingTypes, MasterAssumption
  <2> QED
    BY <1>1, <2>1 DEF PollingTypes
<1>3. \A v \in Users \ {u} : UNCHANGED <<device[v], readQueue[v], writeQueue[v], trigQ[v], jobs[v]>>
  BY <1>1 DEF PollingTypes
<1>4. Awake(u)'
  BY <1>1, AskWakes
<1>5. Asks(u, 1) \in Seq(Event)
  BY AsksFacts
<1> QED
  BY <1>1, <1>2, <1>3, <1>4, <1>5, NoneForgotten

\* A connection is lost, or a reply is finished: no master becomes connected.
LEMMA QuietPolls ==
  ASSUME MasterAssumption, TypeOK, PollingTypes, NoLostWakeup, NEW u \in Users,
         connectionLost(u) \/ replyFinished(u)
  PROVE  PollingTypes' /\ NoLostWakeup'
<1>1. /\ UNCHANGED <<waiting, trigQ, jobs, chanQ, readQueue, writeQueue, flight, writes>>
      /\ \/ UNCHANGED <<device, reconnectTimer>>
         \/ /\ device' = [device EXCEPT ![u] = "unconnected"]
            /\ reconnectTimer' = [reconnectTimer EXCEPT ![u] = TRUE]
      /\ \/ finished' = [finished EXCEPT ![u] = TRUE]
         \/ finished' = [finished EXCEPT ![u] = (flight[u] # NoQuery)]
  BY DEF connectionLost, replyFinished, reconnect, chanVars, chosen
<1>2. PollingTypes'
  BY <1>1 DEF PollingTypes
<1>3. NoLostWakeup'
  <2> SUFFICES ASSUME NEW v \in Serial, connected(v)', HasWork(v)' PROVE Awake(v)'
    BY DEF NoLostWakeup
  <2>1. connected(v) /\ HasWork(v)
    BY <1>1 DEF connected, HasWork, PollingTypes, MasterAssumption
  <2>2. Awake(v)
    BY <2>1 DEF NoLostWakeup
  <2> QED
    BY <1>1, <2>2 DEF Awake
<1> QED
  BY <1>2, <1>3

\* A query that is executed has a job, or asks again when it is reported.
LEMMA ExecutePolls ==
  ASSUME MasterAssumption, TypeOK, PollingTypes, NEW u \in Users,
         NEW q \in Query \cup {Write}, execute(u, q), triggered(u)
  PROVE  /\ Awake(u)'
         /\ UNCHANGED waiting
         /\ \E evs \in Seq(Event) : Post(evs)
         /\ \A v \in Users \ {u} : UNCHANGED <<device[v], trigQ[v], jobs[v]>>
         /\ device' \in [Users -> {"unconnected", "connecting", "connected"}]
         /\ reconnectTimer' \in [Users -> BOOLEAN]
         /\ flight' \in [Users -> Query \cup {Write, NoQuery}]
         /\ \A v \in Serial : device'[v] # "connecting"
<1>1. /\ trigQ \in [Users -> Nat] /\ jobs \in [Users -> Nat] /\ trigQ[u] > 0
      /\ trigQ' = [trigQ EXCEPT ![u] = @ - 1] /\ UNCHANGED waiting
  BY DEF TypeOK, triggered
<1>2. \A v \in Users \ {u} : trigQ'[v] = trigQ[v]
  BY <1>1
<1>3. CASE /\ jobs' = [jobs EXCEPT ![u] = @ + 1]
           /\ flight' = [flight EXCEPT ![u] = q]
           /\ UNCHANGED <<chanQ, device, reconnectTimer>>
  <2>1. jobs[u] \in Nat /\ trigQ[u] - 1 \in Nat /\ jobs'[u] = jobs[u] + 1
        /\ trigQ'[u] = trigQ[u] - 1
    BY <1>1, <1>3
  <2>2. trigQ'[u] + jobs'[u] > 0
    BY <2>1
  <2>3. Awake(u)'
    BY <2>2 DEF Awake
  <2>4. \A v \in Users \ {u} : jobs'[v] = jobs[v]
    BY <1>1, <1>3
  <2>5. flight' \in [Users -> Query \cup {Write, NoQuery}]
    BY <1>3 DEF PollingTypes
  <2>6. \E evs \in Seq(Event) : Post(evs)
    BY <1>3, NothingPosted
  <2> QED
    BY <1>1, <1>2, <1>3, <2>3, <2>4, <2>5, <2>6 DEF PollingTypes
<1>4. CASE /\ queryDone(u) /\ UNCHANGED <<jobs, flight>>
           /\ UNCHANGED <<device, reconnectTimer>> \/ reconnect(u)
  <2>1. Awake(u)' /\ Post(Report(u, 1)) /\ Report(u, 1) \in Seq(Event)
    BY <1>4, AskWakes, ReportFacts DEF queryDone, Report
  <2>2. /\ device' \in [Users -> {"unconnected", "connecting", "connected"}]
        /\ reconnectTimer' \in [Users -> BOOLEAN]
        /\ \A v \in Users \ {u} : device'[v] = device[v]
        /\ \A v \in Serial : device'[v] # "connecting"
    <3>1. CASE UNCHANGED <<device, reconnectTimer>>
      BY <3>1 DEF PollingTypes
    <3>2. CASE reconnect(u)
      BY <3>2 DEF reconnect, PollingTypes, MasterAssumption
    <3> QED
      BY <1>4, <3>1, <3>2
  <2> QED
    BY <1>1, <1>2, <1>4, <2>1, <2>2 DEF PollingTypes
<1> QED
  BY <1>3, <1>4 DEF execute

\* The triggered master: it gives up its turn only when it has nothing to send.
LEMMA TriggerPolls ==
  ASSUME MasterAssumption, TypeOK, PollingTypes, NoLostWakeup, NEW u \in Users,
         executeNext(u)
  PROVE  PollingTypes' /\ NoLostWakeup'
<1>1. CASE executeNothing(u)
  <2>1. /\ trigQ' = [trigQ EXCEPT ![u] = @ - 1]
        /\ ~connected(u) \/ ~HasWork(u)
        /\ Post(Job(u))
        /\ UNCHANGED <<waiting, jobs, device, reconnectTimer, readQueue, writeQueue,
                       flight, finished, writes>>
    BY <1>1 DEF executeNothing, triggered, allQueriesDone
  <2>2. Job(u) \in Seq(Event)
    BY DEF Job, Event
  <2>3. ~(connected(u)' /\ HasWork(u)')
    BY <2>1 DEF connected, HasWork
  <2>4. \A v \in Users \ {u} : UNCHANGED <<device[v], readQueue[v], writeQueue[v], trigQ[v], jobs[v]>>
    BY <2>1 DEF TypeOK
  <2>5. NoLostWakeup'
    BY <2>1, <2>2, <2>3, <2>4, NoneForgotten
  <2> QED
    BY <2>1, <2>5 DEF PollingTypes
<1>2. ASSUME triggered(u), NEW q \in Query \cup {Write}, execute(u, q),
             readQueue' \in [Users -> Seq(Query)], writeQueue' \in [Users -> Nat],
             \A v \in Users \ {u} : UNCHANGED <<readQueue[v], writeQueue[v]>>
      PROVE  PollingTypes' /\ NoLostWakeup'
  <2>1. UNCHANGED <<finished, writes>>
    BY <1>2 DEF triggered
  <2>2. /\ Awake(u)' /\ UNCHANGED waiting
        /\ \E evs \in Seq(Event) : Post(evs)
        /\ \A v \in Users \ {u} : UNCHANGED <<device[v], trigQ[v], jobs[v]>>
        /\ device' \in [Users -> {"unconnected", "connecting", "connected"}]
        /\ reconnectTimer' \in [Users -> BOOLEAN]
        /\ flight' \in [Users -> Query \cup {Write, NoQuery}]
        /\ \A v \in Serial : device'[v] # "connecting"
    BY <1>2, ExecutePolls
  <2>3. PollingTypes'
    BY <1>2, <2>1, <2>2 DEF PollingTypes
  <2>4. PICK evs \in Seq(Event) : Post(evs)
    BY <2>2
  <2>5. NoLostWakeup'
    BY <1>2, <2>2, <2>4, NoneForgotten
  <2> QED
    BY <2>3, <2>5
<1>3. CASE executeWrite(u)
  <2>1. /\ triggered(u) /\ execute(u, Write) /\ Write \in Query \cup {Write}
        /\ writeQueue[u] > 0 /\ writeQueue' = [writeQueue EXCEPT ![u] = @ - 1]
        /\ UNCHANGED readQueue
    BY <1>3 DEF executeWrite
  <2>2. /\ readQueue' \in [Users -> Seq(Query)] /\ writeQueue' \in [Users -> Nat]
        /\ \A v \in Users \ {u} : UNCHANGED <<readQueue[v], writeQueue[v]>>
    <3>1. writeQueue[u] - 1 \in Nat
      BY <2>1 DEF PollingTypes
    <3> QED
      BY <2>1, <3>1 DEF PollingTypes
  <2> QED
    BY <1>2, <2>1, <2>2
<1>4. CASE executeRead(u)
  <2> DEFINE q == Head(readQueue[u])
  <2>1. /\ triggered(u) /\ execute(u, q)
        /\ readQueue[u] # <<>> /\ readQueue' = [readQueue EXCEPT ![u] = Tail(@)]
        /\ UNCHANGED writeQueue
    BY <1>4 DEF executeRead
  <2>2. /\ readQueue' \in [Users -> Seq(Query)] /\ writeQueue' \in [Users -> Nat]
        /\ \A v \in Users \ {u} : UNCHANGED <<readQueue[v], writeQueue[v]>>
        /\ q \in Query
    <3>1. Tail(readQueue[u]) \in Seq(Query) /\ q \in Query
      BY <2>1 DEF PollingTypes
    <3> QED
      BY <2>1, <3>1 DEF PollingTypes
  <2> HIDE DEF q
  <2> QED
    BY <1>2, <2>1, <2>2
<1> QED
  BY <1>1, <1>3, <1>4 DEF executeNext

\* A reply that is deleted asks for the next query.
LEMMA ReplyPolls ==
  ASSUME MasterAssumption, TypeOK, PollingTypes, NoLostWakeup, NEW u \in Users,
         replyDestroyed(u)
  PROVE  PollingTypes' /\ NoLostWakeup'
<1>1. /\ flight' = [flight EXCEPT ![u] = NoQuery]
      /\ finished' = [finished EXCEPT ![u] = FALSE]
      /\ jobs' = [jobs EXCEPT ![u] = @ - 1]
      /\ Post(Job(u) \o Asks(u, 1))
      /\ UNCHANGED <<waiting, trigQ, device, reconnectTimer, readQueue, writeQueue, writes>>
  BY DEF replyDestroyed, queryDone, chosen
<1>2. PollingTypes'
  BY <1>1 DEF PollingTypes
<1>3. Awake(u)'
  BY <1>1, AskWakes
<1>4. Post(Report(u, 1)) /\ Report(u, 1) \in Seq(Event)
  BY <1>1, ReportFacts DEF Report
<1>5. \A v \in Users \ {u} : UNCHANGED <<device[v], readQueue[v], writeQueue[v], trigQ[v], jobs[v]>>
  BY <1>1 DEF TypeOK
<1> QED
  BY <1>1, <1>2, <1>3, <1>4, <1>5, NoneForgotten

\* The inductive invariant of polling.
Polling == MasterInvariant /\ PollingTypes /\ NoLostWakeup

\* Nobody is connected at first, so nobody is forgotten.
LEMMA InitPolling == ChannelAssumption /\ MasterAssumption /\ MasterInit => Polling
<1> SUFFICES ASSUME ChannelAssumption, MasterAssumption, MasterInit PROVE Polling
  OBVIOUS
<1>1. PollingTypes /\ NoLostWakeup
  BY DEF MasterInit, PollingTypes, NoLostWakeup, connected, MasterAssumption
<1> QED
  BY <1>1, InitMaster DEF Polling

\* No step forgets a master that is connected and has work.
LEMMA NextPolling ==
  ASSUME ChannelAssumption, MasterAssumption, Polling, [MasterNext]_vars
  PROVE  Polling'
<1>1. MasterInvariant /\ TypeOK /\ PollingTypes /\ NoLostWakeup
  BY DEF Polling, MasterInvariant, ChannelInvariant
<1>2. MasterInvariant'
  BY <1>1, NextMaster
<1>3. CASE ChannelStep
  <2>1. UNCHANGED masterVars
    BY <1>3 DEF ChannelStep
  <2>2. PollingTypes'
    BY <1>1, <2>1 DEF PollingTypes, masterVars
  <2>3. ASSUME NEW u \in Serial, connected(u)', HasWork(u)' PROVE Awake(u)'
    <3>1. u \in Users /\ connected(u) /\ HasWork(u)
      BY <2>1, <2>3 DEF MasterAssumption, connected, HasWork, masterVars
    <3>2. Awake(u)
      BY <1>1, <3>1 DEF NoLostWakeup
    <3> QED
      BY <1>1, <1>3, <3>1, <3>2, ChannelKeepsAwake
  <2> QED
    BY <1>2, <2>2, <2>3 DEF Polling, NoLostWakeup
<1>4. ASSUME NEW u \in Users, MasterStep(u)
      PROVE  PollingTypes' /\ NoLostWakeup'
  <2>1. CASE onRun(u) \/ reconnectTimeout(u)
    <3>1. connectDevice(u) /\ OnlyPosts /\ UNCHANGED <<writeQueue, flight, finished, writes>>
      BY <2>1 DEF onRun, reconnectTimeout
    <3> QED
      BY <1>1, <3>1, ConnectPolls
  <2>2. CASE established(u) \/ poll(u)
    <3>1. /\ doRead(u, 0) /\ OnlyPosts
          /\ UNCHANGED <<reconnectTimer, writeQueue, flight, finished, writes>>
          /\ \/ UNCHANGED device
             \/ device[u] = "connecting" /\ device' = [device EXCEPT ![u] = "connected"]
      BY <2>2 DEF established, poll
    <3> QED
      BY <1>1, <3>1, ReadPolls
  <2> QED
    BY <1>1, <1>4, <2>1, <2>2, WritePolls, QuietPolls, TriggerPolls, ReplyPolls
       DEF MasterStep
<1>5. CASE UNCHANGED vars
  BY <1>1, <1>2, <1>5 DEF Polling, PollingTypes, NoLostWakeup, Awake, connected, HasWork,
     vars, chanVars, chosen, masterVars
<1> QED
  BY <1>2, <1>3, <1>4, <1>5 DEF MasterNext, Polling
----------------------------------------------------------------------------
(* The contract of the channel: what the masters do is what its users do.  *)

\* The channel knows registered masters only.
OnlyRegistered ==
  /\ \A u \in Users : u \in waiting \/ trigQ[u] > 0 \/ jobs[u] > 0 => u \in registered
  /\ \A i \in DOMAIN chanQ : chanQ[i].who \in registered

\* A user that registers, and one that is registered, with as many asks as it likes.
Registering(u) ==
  /\ u \notin registered
  /\ registered' = registered \cup {u}
  /\ \E n \in Nat : Post(Asks(u, n))
  /\ UNCHANGED <<gone, waiting, chosen, jobs>>

Asking(u) ==
  /\ u \in registered
  /\ \E n \in Nat : Post(Asks(u, n))
  /\ UNCHANGED <<registered, gone, waiting, chosen, jobs>>

\* What a user of the channel may do.
UserStep(u) ==
  \/ Registering(u)
  \/ Asking(u)
  \/ StartJob(u)
  \/ \E again \in BOOLEAN : DeclineJob(u, again)
  \/ FinishJob(u)

\* A triggered master does a job, or declines it with a report.
LEMMA ExecuteIsTurn ==
  ASSUME MasterInvariant, OnlyRegistered, NEW u \in Users, executeNext(u)
  PROVE  UserStep(u)
<1>1. trigQ[u] \in Nat /\ jobs \in [Users -> Nat] /\ gone = {}
  BY DEF MasterInvariant, ChannelInvariant, TypeOK, Link
<1>2. triggered(u) /\ trigQ[u] > 0
  BY DEF executeNext, executeNothing, executeWrite, executeRead, triggered
<1>3. Alive(u) /\ TakeTrigger(u)
  BY <1>1, <1>2 DEF OnlyRegistered, Alive, TakeTrigger, triggered
<1>4. UNCHANGED <<registered, gone, waiting, busy, lastBusy, since, frameTimer>>
  BY <1>2 DEF triggered
<1>5. \/ UNCHANGED jobs /\ Post(Job(u))
      \/ \E q : execute(u, q)
  <2>1. CASE executeNothing(u)
    BY <2>1 DEF executeNothing, allQueriesDone
  <2>2. CASE executeWrite(u)
    BY <2>2, Zenon DEF executeWrite
  <2>3. CASE executeRead(u)
    BY <2>3, Zenon DEF executeRead
  <2> QED
    BY <2>1, <2>2, <2>3 DEF executeNext
<1>6. CASE UNCHANGED jobs /\ Post(Job(u))
  <2>1. Job(u) \o <<>> = Job(u)
    BY DEF Job
  <2>2. DeclineJob(u, FALSE)
    BY <1>3, <1>4, <1>6, <2>1 DEF DeclineJob
  <2> QED
    BY <2>2 DEF UserStep
<1>7. ASSUME NEW q, execute(u, q) PROVE UserStep(u)
  <2>1. CASE jobs' = [jobs EXCEPT ![u] = @ + 1] /\ UNCHANGED chanQ
    <3>1. StartJob(u)
      BY <1>3, <1>4, <2>1 DEF StartJob
    <3> QED
      BY <3>1 DEF UserStep
  <2>2. CASE queryDone(u) /\ UNCHANGED jobs
    <3>1. DeclineJob(u, TRUE)
      BY <1>3, <1>4, <2>2 DEF DeclineJob, queryDone
    <3> QED
      BY <3>1 DEF UserStep
  <2> QED
    BY <1>7, <2>1, <2>2 DEF execute
<1> QED
  BY <1>5, <1>6, <1>7

\* Every handler of a master is a step of a user of the channel, or none at all.
LEMMA HandlersAreUserSteps ==
  ASSUME MasterAssumption, MasterInvariant, OnlyRegistered, NEW u \in Users, MasterStep(u)
  PROVE  UserStep(u) \/ UNCHANGED chanVars
<1>1. TypeOK /\ gone = {} /\ Armed /\ Link
  BY DEF MasterInvariant, ChannelInvariant, Link
<1>2. CASE onRun(u)
  <2>1. /\ u \notin registered /\ registered' = registered \cup {u} /\ connectDevice(u)
        /\ UNCHANGED <<gone, waiting, chosen, jobs>>
    BY <1>2 DEF onRun, OnlyPosts
  <2>2. Registering(u)
    BY <1>1, <2>1, ConnectAsks DEF Registering
  <2> QED
    BY <2>2 DEF UserStep
<1>3. CASE reconnectTimeout(u)
  <2>1. /\ u \in registered /\ connectDevice(u)
        /\ UNCHANGED <<registered, gone, waiting, chosen, jobs>>
    BY <1>1, <1>3 DEF reconnectTimeout, OnlyPosts, Armed
  <2>2. Asking(u)
    BY <1>1, <2>1, ConnectAsks DEF Asking
  <2> QED
    BY <2>2 DEF UserStep
<1>4. CASE established(u) \/ poll(u) \/ onMsg(u)
  <2>1. /\ u \in registered /\ UNCHANGED <<registered, gone, waiting, chosen, jobs>>
        /\ doRead(u, 0) \/ Post(Asks(u, 1))
    BY <1>1, <1>4 DEF established, poll, onMsg, OnlyPosts, Armed
  <2>2. \E n \in Nat : Post(Asks(u, n))
    BY <2>1, DoReadAsks
  <2>3. Asking(u)
    BY <2>1, <2>2 DEF Asking
  <2> QED
    BY <2>3 DEF UserStep
<1>5. CASE connectionLost(u) \/ replyFinished(u)
  BY <1>5 DEF connectionLost, replyFinished
<1>6. CASE executeNext(u)
  BY <1>6, ExecuteIsTurn
<1>7. CASE replyDestroyed(u)
  <2>1. /\ finished[u] /\ jobs' = [jobs EXCEPT ![u] = @ - 1]
        /\ Post(Job(u) \o Asks(u, 1))
        /\ UNCHANGED <<registered, gone, waiting, chosen>>
    BY <1>7 DEF replyDestroyed, queryDone
  <2>2. jobs[u] > 0
    BY <1>1, <2>1 DEF Link
  <2>3. FinishJob(u)
    BY <1>1, <2>1, <2>2 DEF FinishJob, Alive, OnlyRegistered
  <2> QED
    BY <2>3 DEF UserStep
<1> QED
  BY <1>2, <1>3, <1>4, <1>5, <1>6, <1>7 DEF MasterStep

\* Who posts is registered.
LEMMA PostersRegistered ==
  ASSUME TypeOK, OnlyRegistered, registered \subseteq registered',
         NEW u \in registered', NEW evs \in Seq(Event), Post(evs),
         \A k \in DOMAIN evs : evs[k].who = u
  PROVE  \A i \in DOMAIN chanQ' : chanQ'[i].who \in registered'
<1> SUFFICES ASSUME NEW i \in DOMAIN chanQ' PROVE chanQ'[i].who \in registered'
  OBVIOUS
<1>1. CASE i \in DOMAIN chanQ
  BY <1>1, PostFacts DEF OnlyRegistered
<1>2. CASE i \notin DOMAIN chanQ
  BY <1>2, PostFacts
<1> QED
  BY <1>1, <1>2

\* A step of a user names that user alone, and registers it.
LEMMA UserStepRegistered ==
  ASSUME TypeOK, OnlyRegistered, NEW u \in Users, UserStep(u)
  PROVE  OnlyRegistered'
<1>1. /\ registered \subseteq registered' /\ u \in registered'
      /\ waiting' = waiting
      /\ \A v \in Users \ {u} : trigQ'[v] = trigQ[v] /\ jobs'[v] = jobs[v]
      /\ \/ UNCHANGED chanQ
         \/ \E n \in Nat : Post(Asks(u, n))
         \/ Post(Job(u) \o <<>>)
         \/ Post(Job(u) \o Asks(u, 1))
  <2>1. CASE Registering(u) \/ Asking(u)
    BY <2>1 DEF Registering, Asking, chosen
  <2>2. CASE StartJob(u)
    BY <2>2 DEF StartJob, TakeTrigger, Alive, TypeOK
  <2>3. ASSUME NEW again \in BOOLEAN, DeclineJob(u, again)
        PROVE  /\ registered' = registered /\ u \in registered /\ waiting' = waiting
               /\ \A v \in Users \ {u} : trigQ'[v] = trigQ[v] /\ jobs'[v] = jobs[v]
               /\ Post(Job(u) \o <<>>) \/ Post(Job(u) \o Asks(u, 1))
    BY <2>3 DEF DeclineJob, TakeTrigger, Alive, TypeOK
  <2>4. CASE FinishJob(u)
    BY <2>4 DEF FinishJob, Alive, TypeOK, chosen
  <2> QED
    BY <2>1, <2>2, <2>3, <2>4 DEF UserStep
<1>2. \A v \in Users : v \in waiting' \/ trigQ'[v] > 0 \/ jobs'[v] > 0 => v \in registered'
  BY <1>1 DEF OnlyRegistered
<1>3. \A i \in DOMAIN chanQ' : chanQ'[i].who \in registered'
  <2>1. CASE UNCHANGED chanQ
    BY <1>1, <2>1 DEF OnlyRegistered
  <2>2. ASSUME NEW n \in Nat, Post(Asks(u, n))
        PROVE  \A i \in DOMAIN chanQ' : chanQ'[i].who \in registered'
    BY <1>1, <2>2, AsksFacts, PostersRegistered
  <2>3. CASE Post(Job(u) \o <<>>)
    <3>1. Job(u) \o <<>> = Job(u) /\ Job(u) \in Seq(Event)
          /\ \A k \in DOMAIN Job(u) : Job(u)[k].who = u
      BY DEF Job, Event
    <3> QED
      BY <1>1, <2>3, <3>1, PostersRegistered
  <2>4. CASE Post(Job(u) \o Asks(u, 1))
    <3>1. /\ Report(u, 1) \in Seq(Event)
          /\ \A k \in DOMAIN Report(u, 1) : Report(u, 1)[k].who = u
      BY ReportFacts
    <3>2. Post(Report(u, 1))
      BY <2>4 DEF Report
    <3> QED
      BY <1>1, <3>1, <3>2, PostersRegistered
  <2> QED
    BY <1>1, <2>1, <2>2, <2>3, <2>4
<1> QED
  BY <1>2, <1>3 DEF OnlyRegistered

\* The channel names those it heard of, who are registered.
LEMMA ChannelStepRegistered ==
  ASSUME ChannelAssumption, MasterInvariant, OnlyRegistered, ChannelStep
  PROVE  OnlyRegistered'
<1>1. TypeOK /\ GoneAreQuiet /\ gone = {}
  BY DEF MasterInvariant, ChannelInvariant, Link
<1>2. /\ waiting \in SUBSET (Users \cup {NoUser}) /\ frameTimer \in BOOLEAN
      /\ busy \in Users \cup {NoUser} /\ trigQ \in [Users -> Nat]
  BY <1>1 DEF TypeOK
<1>3. ASSUME NEW b \in Users \cup {NoUser}, NEW w \in SUBSET (Users \cup {NoUser}), NEW last,
             NEW timer \in BOOLEAN, chooseNext(b, w, last, timer), UNCHANGED <<jobs, registered>>,
             \A v \in Users : v \in w => v \in registered
      PROVE  \A v \in Users : v \in waiting' \/ trigQ'[v] > 0 \/ jobs'[v] > 0 => v \in registered'
  <2>1. \/ waiting' = w /\ trigQ' = trigQ
        \/ \E who \in w : activate(who, w)
    BY <1>1, <1>3, ChooseNext
  <2>2. ASSUME NEW who \in w, activate(who, w)
        PROVE  \A v \in Users : /\ v \in waiting' => v \in w
                                /\ v \notin w => trigQ'[v] = trigQ[v]
    BY <2>2 DEF activate
  <2> QED
    BY <1>3, <2>1, <2>2 DEF OnlyRegistered
<1>4. ASSUME NEW what, Receives(what), UNCHANGED registered
      PROVE  \A i \in DOMAIN chanQ' : chanQ'[i].who \in registered'
  <2>1. \A i \in DOMAIN chanQ' : i + 1 \in DOMAIN chanQ /\ chanQ'[i] = chanQ[i + 1]
    BY <1>1, <1>4, ReceiveFacts
  <2> QED
    BY <1>4, <2>1 DEF OnlyRegistered
<1>5. CASE askTrigger
  <2>1. /\ Receives("ask") /\ UNCHANGED <<jobs, registered>>
        /\ chooseNext(busy, waiting \cup {Head(chanQ).who}, lastBusy, frameTimer)
    BY <1>1, <1>5 DEF askTrigger
  <2>2. Head(chanQ).who \in registered /\ Head(chanQ).who \in Users
    <3>1. Head(chanQ) = chanQ[1] /\ 1 \in DOMAIN chanQ /\ chanQ[1] \in Event
      BY <1>1, <2>1, ReceiveFacts
    <3> QED
      BY <3>1 DEF OnlyRegistered, Event
  <2> DEFINE w == waiting \cup {Head(chanQ).who}
  <2>3. w \in SUBSET (Users \cup {NoUser}) /\ \A v \in Users : v \in w => v \in registered
    BY <1>2, <2>2 DEF OnlyRegistered
  <2>4. chooseNext(busy, w, lastBusy, frameTimer)
    BY <2>1
  <2> HIDE DEF w
  <2> QED
    BY <1>2, <1>3, <1>4, <2>1, <2>3, <2>4 DEF OnlyRegistered
<1>6. CASE onJobDone
  <2>1. /\ Receives("job") /\ UNCHANGED <<jobs, registered>>
        /\ chooseNext(NoUser, waiting, busy, frameTimer)
    BY <1>6 DEF onJobDone
  <2> QED
    BY <1>2, <1>3, <1>4, <2>1 DEF OnlyRegistered
<1>7. CASE frameTimeout
  <2>1. /\ UNCHANGED <<jobs, registered, chanQ>>
        /\ chooseNext(busy, waiting, lastBusy, FALSE)
    BY <1>7 DEF frameTimeout
  <2> QED
    BY <1>2, <1>3, <2>1 DEF OnlyRegistered
<1>8. CASE Tick
  BY <1>8 DEF Tick, OnlyRegistered
<1>9. ~userDestroyed
  BY NobodyDestroyed
<1> QED
  BY <1>5, <1>6, <1>7, <1>8, <1>9 DEF ChannelStep, Serve

\* The operators of the channel with bounded asks are those of the channel.
LEMMA BoundedChoice ==
  ASSUME NEW c \in Nat
  PROVE  \A b, w, last, timer :
           Bounded(c)!chooseNext(b, w, last, timer) <=> chooseNext(b, w, last, timer)
<1>1. \A S : Bounded(c)!max_element(S) = max_element(S)
  BY Zenon DEF max_element, whatPrio, Bounded!max_element, Bounded!whatPrio
<1>2. \A S : Bounded(c)!Cardinality(S) = Cardinality(S)
  BY Zenon DEF Cardinality, Bounded!Cardinality
<1>3. \A w, last : Bounded(c)!Candidates(w, last) = Candidates(w, last)
  BY <1>2 DEF Candidates, Bounded!Candidates
<1>4. \A who, w : Bounded(c)!activate(who, w) <=> activate(who, w)
  BY DEF activate, Bounded!activate
<1> QED
  BY <1>1, <1>3, <1>4 DEF chooseNext, Bounded!chooseNext

\* The signals are the same whatever the bound on asks.
LEMMA BoundedSignals ==
  ASSUME NEW c \in Nat
  PROVE  /\ \A what : Bounded(c)!Receives(what) <=> Receives(what)
         /\ \A evs : Bounded(c)!Post(evs) <=> Post(evs)
         /\ \A u, n : Bounded(c)!Asks(u, n) = Asks(u, n)
         /\ \A u : Bounded(c)!Job(u) = Job(u)
         /\ \A u : Bounded(c)!Alive(u) <=> Alive(u)
         /\ \A u : Bounded(c)!TakeTrigger(u) <=> TakeTrigger(u)
<1>1. \A what : Bounded(c)!Receives(what) <=> Receives(what)
  BY DEF Receives, Bounded!Receives
<1>2. \A evs : Bounded(c)!Post(evs) <=> Post(evs)
  BY DEF Post, Bounded!Post
<1>3. \A u, n : Bounded(c)!Asks(u, n) = Asks(u, n)
  BY DEF Asks, Bounded!Asks
<1>4. \A u : Bounded(c)!Job(u) = Job(u)
  BY DEF Job, Bounded!Job
<1>5. \A u : Bounded(c)!Alive(u) <=> Alive(u)
  BY DEF Alive, Bounded!Alive
<1>6. \A u : Bounded(c)!TakeTrigger(u) <=> TakeTrigger(u)
  BY <1>5 DEF TakeTrigger, Bounded!TakeTrigger
<1> QED
  BY <1>1, <1>2, <1>3, <1>4, <1>5, <1>6

\* The channel's own steps know no bound on asks.
LEMMA BoundedServe ==
  ASSUME NEW c \in Nat, onJobDone \/ askTrigger \/ frameTimeout \/ Tick
  PROVE  Bounded(c)!Next
<1>1. CASE onJobDone
  <2>1. Bounded(c)!onJobDone
    BY <1>1, BoundedChoice, BoundedSignals DEF onJobDone, Bounded!onJobDone
  <2> QED
    BY <2>1 DEF Bounded!Next, Bounded!Serve
<1>2. CASE askTrigger
  <2>1. Bounded(c)!askTrigger
    BY <1>2, BoundedChoice, BoundedSignals DEF askTrigger, Bounded!askTrigger
  <2> QED
    BY <2>1 DEF Bounded!Next, Bounded!Serve
<1>3. CASE frameTimeout
  <2>1. Bounded(c)!frameTimeout
    BY <1>3, BoundedChoice DEF frameTimeout, Bounded!frameTimeout
  <2> QED
    BY <2>1 DEF Bounded!Next
<1>4. CASE Tick
  <2>1. Bounded(c)!Tick
    BY <1>4 DEF Tick, Bounded!Tick
  <2> QED
    BY <2>1 DEF Bounded!Next
<1> QED
  BY <1>1, <1>2, <1>3, <1>4

\* A step of a user is one of the bounded channel, if the bound is above the
\* lengths of its queue; but asking for nothing is no step.
LEMMA BoundedUser ==
  ASSUME TypeOK, gone = {}, NEW u \in Users, UserStep(u),
         NEW c \in Nat, c = Len(chanQ) + Len(chanQ') + 1
  PROVE  Bounded(c)!Next \/ UNCHANGED chanVars
<1>1. chanQ \in Seq(Event) /\ Len(chanQ) \in Nat
  BY DEF TypeOK
<1>2. ASSUME NEW n \in Nat, Post(Asks(u, n))
      PROVE  /\ n \in 0..c /\ Len(chanQ) < c
             /\ n = 0 => UNCHANGED chanQ
             /\ n > 0 => n \in 1..c
  <2> DEFINE a == Asks(u, n)
  <2>1. a \in Seq(Event) /\ Len(a) = n /\ chanQ' = chanQ \o a
    BY <1>2, AsksFacts DEF Post
  <2> HIDE DEF a
  <2>2. Len(chanQ') = Len(chanQ) + n
    BY <1>1, <2>1, ConcatProperties
  <2>3. n = 0 => a = <<>>
    BY <2>1
  <2>4. n = 0 => UNCHANGED chanQ
    BY <1>1, <2>1, <2>3
  <2> QED
    BY <1>1, <2>2, <2>4
<1>3. CASE Registering(u)
  <2>1. PICK n \in Nat : Post(Asks(u, n))
    BY <1>3 DEF Registering
  <2>2. n \in 0..c /\ Len(chanQ) < c /\ Bounded(c)!Post(Bounded(c)!Asks(u, n))
    BY <1>2, <2>1, BoundedSignals
  <2>3. Bounded(c)!registerUser(u)
    BY <1>3, <2>2 DEF Registering, Bounded!registerUser, chosen, Bounded!chosen
  <2> QED
    BY <2>3 DEF Bounded!Next
<1>4. CASE Asking(u)
  <2>1. PICK n \in Nat : Post(Asks(u, n))
    BY <1>4 DEF Asking
  <2>2. CASE n = 0
    BY <1>2, <1>4, <2>1, <2>2 DEF Asking, chanVars
  <2>3. CASE n > 0
    <3>1. n \in 1..c /\ Len(chanQ) < c /\ Bounded(c)!Post(Bounded(c)!Asks(u, n))
      BY <1>2, <2>1, <2>3, BoundedSignals
    <3>2. Bounded(c)!Alive(u)
      BY <1>4, BoundedSignals DEF Asking, Alive
    <3>3. Bounded(c)!Ask(u)
      BY <1>4, <3>1, <3>2 DEF Asking, Bounded!Ask, chosen, Bounded!chosen
    <3> QED
      BY <3>3 DEF Bounded!Next
  <2> QED
    BY <2>2, <2>3
<1>5. CASE StartJob(u)
  <2>1. Bounded(c)!StartJob(u)
    BY <1>5, BoundedSignals DEF StartJob, Bounded!StartJob
  <2> QED
    BY <2>1 DEF Bounded!Next
<1>6. ASSUME NEW again \in BOOLEAN, DeclineJob(u, again) PROVE Bounded(c)!Next
  <2>1. Bounded(c)!DeclineJob(u, again)
    BY <1>6, BoundedSignals DEF DeclineJob, Bounded!DeclineJob
  <2> QED
    BY <2>1 DEF Bounded!Next
<1>7. CASE FinishJob(u)
  <2>1. Bounded(c)!FinishJob(u)
    BY <1>7, BoundedSignals DEF FinishJob, Bounded!FinishJob, chosen, Bounded!chosen
  <2> QED
    BY <2>1 DEF Bounded!Next
<1> QED
  BY <1>3, <1>4, <1>5, <1>6, <1>7 DEF UserStep

----------------------------------------------------------------------------
(* The theorems. *)

\* The masters keep the channel's invariant, have at most the one reply in flight
\* that is their job, and run the reconnect timer exactly while unconnected.
THEOREM MasterSafety == MasterSpec => []MasterInvariant
<1>1. MasterInit => MasterInvariant
  BY InitMaster, ChannelAssumption
<1>2. MasterInvariant /\ [MasterNext]_vars => MasterInvariant'
  BY NextMaster, ChannelAssumption, MasterAssumption
<1> QED
  BY <1>1, <1>2, PTL DEF MasterSpec

\* At no time do two masters of one channel have a query on the line, whatever
\* fails, times out or reconnects.
THEOREM OneQueryAtATime == MasterSpec => []OneQueryOnLine
<1>1. MasterInvariant => OneQueryOnLine
  <2> SUFFICES ASSUME MasterInvariant, NEW u \in Users, flight[u] # NoQuery
               PROVE  busy = u /\ \A v \in Users \ {u} : flight[v] = NoQuery
    BY DEF OneQueryOnLine
  <2>1. OneTurn /\ Link /\ \A v \in Users : trigQ[v] \in Nat
    BY DEF MasterInvariant, ChannelInvariant, TypeOK
  <2>2. \A v \in Users : flight[v] # NoQuery => trigQ[v] + jobs[v] > 0
    BY <2>1 DEF Link
  <2>3. \A v \in Users : flight[v] # NoQuery => busy = v
    BY <2>1, <2>2 DEF OneTurn
  <2> QED
    BY <2>3
<1> QED
  BY <1>1, MasterSafety, PTL

\* Every master that runs is connected, connecting, or about to try again.
THEOREM AlwaysRearmed == MasterSpec => []ReconnectArmed
<1>1. MasterInvariant => ReconnectArmed
  BY DEF MasterInvariant, ChannelInvariant, TypeOK, Armed, ReconnectArmed
<1> QED
  BY <1>1, MasterSafety, PTL

\* The variables of the masters keep their types, and a connected serial master
\* with queries or writes in its queues is never forgotten: an ask, a wait, a
\* trigger or a job will lead it to its next query.
THEOREM NeverForgotten == MasterSpec => []PollingInvariant
<1>1. MasterInit => Polling
  BY InitPolling, ChannelAssumption, MasterAssumption
<1>2. Polling /\ [MasterNext]_vars => Polling'
  BY NextPolling, ChannelAssumption, MasterAssumption
<1>3. Polling => PollingInvariant
  BY DEF Polling, MasterInvariant, ChannelInvariant, PollingTypes, PollingInvariant,
     MasterTypeOK
<1> QED
  BY <1>1, <1>2, <1>3, PTL DEF MasterSpec

\* Seen from the channel, the masters are users that keep its contract: each step
\* of theirs is one of the channel's specification, or none of it.
THEOREM ContractKept == MasterSpec => KeepsChannelContract
<1> DEFINE Inv == MasterInvariant /\ OnlyRegistered
<1>1. MasterInit => Inv
  <2> SUFFICES ASSUME MasterInit PROVE Inv
    OBVIOUS
  <2>1. OnlyRegistered
    BY DEF MasterInit, Init, OnlyRegistered
  <2> QED
    BY <2>1, InitMaster, ChannelAssumption
<1>2. Inv /\ [MasterNext]_vars => Inv'
  <2> SUFFICES ASSUME Inv, [MasterNext]_vars PROVE Inv'
    OBVIOUS
  <2>1. MasterInvariant' /\ TypeOK
    BY NextMaster, ChannelAssumption, MasterAssumption DEF MasterInvariant, ChannelInvariant
  <2>2. CASE ChannelStep
    BY <2>1, <2>2, ChannelStepRegistered, ChannelAssumption
  <2>3. ASSUME NEW u \in Users, MasterStep(u) PROVE OnlyRegistered'
    <3>1. CASE UserStep(u)
      BY <2>1, <3>1, UserStepRegistered
    <3>2. CASE UNCHANGED chanVars
      BY <3>2 DEF OnlyRegistered, chanVars, chosen
    <3> QED
      BY <2>3, <3>1, <3>2, HandlersAreUserSteps, MasterAssumption
  <2>4. CASE UNCHANGED vars
    BY <2>1, <2>4 DEF OnlyRegistered, vars, chanVars, chosen
  <2> QED
    BY <2>1, <2>2, <2>3, <2>4 DEF MasterNext
<1>3. Inv /\ [MasterNext]_vars =>
        [\E b \in {Len(chanQ) + Len(chanQ') + 1} : Bounded(b)!Next]_chanVars
  <2> SUFFICES ASSUME Inv, [MasterNext]_vars
               PROVE  \/ \E b \in {Len(chanQ) + Len(chanQ') + 1} : Bounded(b)!Next
                      \/ UNCHANGED chanVars
    OBVIOUS
  <2>1. MasterInvariant' /\ TypeOK /\ TypeOK' /\ gone = {}
    BY <1>2, NextMaster, ChannelAssumption, MasterAssumption
       DEF MasterInvariant, ChannelInvariant, Link
  <2>2. PICK c \in Nat : c = Len(chanQ) + Len(chanQ') + 1
    <3>1. Len(chanQ) + Len(chanQ') + 1 \in Nat
      BY <2>1 DEF TypeOK
    <3> QED
      BY <3>1
  <2> HIDE DEF Inv
  <2>3. CASE ChannelStep
    <3>1. onJobDone \/ askTrigger \/ frameTimeout \/ Tick
      BY <2>3, NobodyDestroyed DEF ChannelStep, Serve, Inv
    <3>2. Bounded(c)!Next
      BY <3>1, BoundedServe
    <3> QED
      BY <2>2, <3>2
  <2>4. ASSUME NEW u \in Users, MasterStep(u)
        PROVE  Bounded(c)!Next \/ UNCHANGED chanVars
    <3>1. UserStep(u) \/ UNCHANGED chanVars
      BY <2>4, HandlersAreUserSteps, MasterAssumption DEF Inv
    <3>2. CASE UserStep(u)
      BY <2>1, <2>2, <3>2, BoundedUser
    <3> QED
      BY <3>1, <3>2
  <2>5. CASE UNCHANGED vars
    BY <2>5 DEF vars
  <2> QED
    BY <2>2, <2>3, <2>4, <2>5 DEF MasterNext
<1>4. MasterInit => Init
  BY DEF MasterInit
<1> QED
  BY <1>1, <1>2, <1>3, <1>4, PTL DEF MasterSpec, KeepsChannelContract
====
