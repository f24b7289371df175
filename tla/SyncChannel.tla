---- MODULE SyncChannel ----
(***************************************************************************)
(* The channel that masters on one serial line or gateway share: it lives  *)
(* in a thread of its own and lets one user at a time do one job.          *)
(*                                                                         *)
(* A user asks for the trigger; the channel marks it waiting, and when it  *)
(* is free and the frame gap has passed it triggers the user it chooses.   *)
(* The user does its job in its own thread and reports.  All these signals *)
(* are queued: chanQ is the event queue of the channel's thread, trigQ[u]  *)
(* counts the triggers in the queue of the thread of u.                    *)
(***************************************************************************)
EXTENDS Naturals, Sequences, FiniteSets

CONSTANTS
  Users,      \* objects that may be registered
  NoUser,     \* nullptr
  Priority,   \* priority a user registers with: 50, 100 or 200
  Order,      \* iteration order of the hash userStates
  FrameGap,   \* frame_gap, in ticks
  Mortal,     \* users that may be destroyed while the channel runs
  MaxBurst,   \* bound on the asks one handler of a user emits
  MaxEvents   \* bound on chanQ when a user asks

ASSUME ChannelAssumption ==
  /\ NoUser \notin Users
  /\ Priority \in [Users -> {50, 100, 200}]
  /\ Order \in [Users \cup {NoUser} -> Nat]
  /\ \A S \in SUBSET (Users \cup {NoUser}) : S # {} =>
       \E u \in S : \A v \in S \ {u} : Order[u] < Order[v]
  /\ FrameGap \in Nat
  /\ Mortal \subseteq Users
  /\ MaxBurst \in Nat
  /\ MaxEvents \in Nat

VARIABLES
  registered,  \* users in userStates
  gone,        \* users destroyed
  waiting,     \* entries of userStates whose waitingForTrigger is set
  busy,        \* the user that has the trigger
  lastBusy,    \* the one that had it before
  since,       \* ticks since lastFrame, up to FrameGap
  frameTimer,  \* the single-shot frame timer runs
  chanQ,       \* events queued for the channel
  trigQ,       \* trigQ[u]: triggers queued for u
  jobs         \* jobs[u]: jobs u has started and not reported

chosen   == <<busy, lastBusy, since, frameTimer, trigQ>>
chanVars == <<registered, gone, waiting, chosen, chanQ, jobs>>

Event == [what : {"ask", "job", "destroyed"}, who : Users]
Asks(u, n) == [i \in 1..n |-> [what |-> "ask", who |-> u]]
Job(u) == <<[what |-> "job", who |-> u]>>

\* The constructor.
Init ==
  /\ registered = {}
  /\ gone = {}
  /\ waiting = {}
  /\ busy = NoUser
  /\ lastBusy = NoUser
  /\ since = 0
  /\ frameTimer = FALSE
  /\ chanQ = <<>>
  /\ trigQ = [u \in Users |-> 0]
  /\ jobs = [u \in Users |-> 0]
----------------------------------------------------------------------------
(* Choosing the next user, in the channel's thread. *)

\* An entry askTrigger made for an unknown sender is all zeros.
whatPrio(u) == IF u = NoUser THEN 0 ELSE Priority[u]

\* max_element returns the first of the greatest in iteration order.
max_element(S) ==
  CHOOSE u \in S : \A v \in S \ {u} :
    \/ whatPrio(u) > whatPrio(v)
    \/ whatPrio(u) = whatPrio(v) /\ Order[u] < Order[v]

\* Variant for mutation: the user served last is not passed over.
CandidatesAll(w, last) == w

\* With several waiting, the user served last is passed over.
Candidates(w, last) == IF Cardinality(w) > 1 THEN w \ {last} ELSE w

\* busy is set even when who is null or gone, and the trigger then reaches nobody.
activate(who, w) ==
  /\ busy' = who
  /\ waiting' = w \ {who}
  /\ trigQ' = [u \in Users |-> IF u = who /\ u \notin gone
                                THEN trigQ[u] + 1 ELSE trigQ[u]]

\* Variant for mutation: a busy channel does not stop the choice.
chooseNextUnguarded(b, w, last, timer) ==
  IF since < FrameGap
  THEN /\ frameTimer' = TRUE
       /\ busy' = b /\ waiting' = w
       /\ UNCHANGED <<since, trigQ>>
  ELSE /\ since' = 0
       /\ frameTimer' = timer
       /\ IF w = {}
          THEN busy' = b /\ waiting' = w /\ UNCHANGED trigQ
          ELSE activate(max_element(Candidates(w, last)), w)

\* chooseNext(), once busy is b, the waiting entries are w, lastBusy is last and
\* the frame timer runs or not.
chooseNext(b, w, last, timer) ==
  IF b # NoUser \/ since < FrameGap
  THEN /\ frameTimer' = (timer \/ b = NoUser)
       /\ busy' = b /\ waiting' = w
       /\ UNCHANGED <<since, trigQ>>
  ELSE /\ since' = 0
       /\ frameTimer' = timer
       /\ IF w = {}
          THEN busy' = b /\ waiting' = w /\ UNCHANGED trigQ
          ELSE activate(max_element(Candidates(w, last)), w)

\* The event at the head of the queue of the channel's thread is of kind what.
Receives(what) ==
  /\ chanQ # <<>>
  /\ Head(chanQ).what = what
  /\ chanQ' = Tail(chanQ)

\* Variant for mutation: busy is reset before it is kept as lastBusy.
onJobDoneForgets ==
  /\ Receives("job")
  /\ lastBusy' = NoUser
  /\ chooseNext(NoUser, waiting, NoUser, frameTimer)
  /\ UNCHANGED <<registered, gone, jobs>>

onJobDone ==
  /\ Receives("job")
  /\ lastBusy' = busy
  /\ chooseNext(NoUser, waiting, busy, frameTimer)
  /\ UNCHANGED <<registered, gone, jobs>>

\* sender() is null once the user is destroyed; userStates[nullptr] then becomes
\* an entry of its own.
askTrigger ==
  /\ Receives("ask")
  /\ LET checked == IF Head(chanQ).who \in gone THEN NoUser ELSE Head(chanQ).who
     IN  chooseNext(busy, waiting \cup {checked}, lastBusy, frameTimer)
  /\ UNCHANGED <<registered, gone, lastBusy, jobs>>

\* Variant for mutation: the channel stays with the user that is gone.
userDestroyedKeepsBusy ==
  /\ Receives("destroyed")
  /\ LET u == Head(chanQ).who IN
       /\ registered' = registered \ {u}
       /\ waiting' = waiting \ {u}
  /\ UNCHANGED <<gone, chosen, jobs>>

\* The lambda that registerUser connects to QObject::destroyed.  It frees the
\* channel but chooses nobody.
userDestroyed ==
  /\ Receives("destroyed")
  /\ LET u == Head(chanQ).who IN
       /\ registered' = registered \ {u}
       /\ waiting' = waiting \ {u}
       /\ busy' = IF busy = u THEN NoUser ELSE busy
  /\ UNCHANGED <<gone, lastBusy, since, frameTimer, trigQ, jobs>>

\* The coarse frame timer may fire early: chooseNext then starts it again.
frameTimeout ==
  /\ frameTimer
  /\ chooseNext(busy, waiting, lastBusy, FALSE)
  /\ UNCHANGED <<registered, gone, lastBusy, chanQ, jobs>>

Tick ==
  /\ since < FrameGap
  /\ since' = since + 1
  /\ UNCHANGED <<registered, gone, waiting, busy, lastBusy, frameTimer, chanQ,
                 trigQ, jobs>>
----------------------------------------------------------------------------
(* The users, each in its own thread.  A user may ask at any time, and       *)
(* reports every trigger exactly once, at once or when its job is done.      *)

Alive(u) == u \in registered \ gone

\* The queued signals a user emits, in order.
Post(evs) == chanQ' = chanQ \o evs

\* A user registers, and may ask in the same handler.
registerUser(u) ==
  /\ u \notin registered \cup gone
  /\ registered' = registered \cup {u}
  /\ Len(chanQ) < MaxEvents
  /\ \E n \in 0..MaxBurst : Post(Asks(u, n))
  /\ UNCHANGED <<gone, waiting, chosen, jobs>>

Ask(u) ==
  /\ Alive(u)
  /\ Len(chanQ) < MaxEvents
  /\ \E n \in 1..MaxBurst : Post(Asks(u, n))
  /\ UNCHANGED <<registered, gone, waiting, chosen, jobs>>

TakeTrigger(u) ==
  /\ Alive(u)
  /\ trigQ[u] > 0
  /\ trigQ' = [trigQ EXCEPT ![u] = @ - 1]

\* The triggered user starts a job that takes time.
StartJob(u) ==
  /\ TakeTrigger(u)
  /\ jobs' = [jobs EXCEPT ![u] = @ + 1]
  /\ UNCHANGED <<registered, gone, waiting, busy, lastBusy, since, frameTimer,
                 chanQ>>

\* The triggered user has nothing to do, or cannot do it, and reports at once.
DeclineJob(u, again) ==
  /\ TakeTrigger(u)
  /\ Post(Job(u) \o IF again THEN Asks(u, 1) ELSE <<>>)
  /\ UNCHANGED <<registered, gone, waiting, busy, lastBusy, since, frameTimer,
                 jobs>>

\* The end of a job is reported, and the trigger asked for again, by one signal
\* that is connected to both slots.
FinishJob(u) ==
  /\ Alive(u)
  /\ jobs[u] > 0
  /\ jobs' = [jobs EXCEPT ![u] = @ - 1]
  /\ Post(Job(u) \o Asks(u, 1))
  /\ UNCHANGED <<registered, gone, waiting, chosen>>

\* The user is destroyed: whatever was queued for it is gone.
destroy(u) ==
  /\ Alive(u)
  /\ u \in Mortal
  /\ gone' = gone \cup {u}
  /\ trigQ' = [trigQ EXCEPT ![u] = 0]
  /\ jobs' = [jobs EXCEPT ![u] = 0]
  /\ Post(<<[what |-> "destroyed", who |-> u]>>)
  /\ UNCHANGED <<registered, waiting, busy, lastBusy, since, frameTimer>>
----------------------------------------------------------------------------
Serve == onJobDone \/ askTrigger \/ userDestroyed

Next ==
  \/ Serve
  \/ frameTimeout
  \/ Tick
  \/ \E u \in Users :
       \/ registerUser(u)
       \/ Ask(u)
       \/ StartJob(u)
       \/ \E again \in BOOLEAN : DeclineJob(u, again)
       \/ FinishJob(u)
       \/ destroy(u)

Spec == Init /\ [][Next]_chanVars

\* The channel's event loop and timer run, time passes, and a live user takes its
\* triggers and reports its jobs.  Nobody is forced to ask.
Fairness ==
  /\ WF_chanVars(Serve)
  /\ WF_chanVars(frameTimeout)
  /\ WF_chanVars(Tick)
  /\ \A u \in Users :
       /\ WF_chanVars(StartJob(u) \/ \E again \in BOOLEAN : DeclineJob(u, again))
       /\ WF_chanVars(FinishJob(u))

FairSpec == Spec /\ Fairness
----------------------------------------------------------------------------
(* Properties. *)

TypeOK ==
  /\ registered \subseteq Users
  /\ gone \subseteq Users
  /\ waiting \subseteq Users \cup {NoUser}
  /\ busy \in Users \cup {NoUser}
  /\ lastBusy \in Users \cup {NoUser}
  /\ since \in 0..FrameGap
  /\ frameTimer \in BOOLEAN
  /\ chanQ \in Seq(Event)
  /\ trigQ \in [Users -> Nat]
  /\ jobs \in [Users -> Nat]

\* The job events of the queue.
JobEvents == {i \in DOMAIN chanQ : chanQ[i].what = "job"}

\* One turn at a time: the turn is a trigger on its way, a job being done or a
\* report on its way; there is never more than one, and it belongs to the user
\* the channel is busy with.  Two masters would otherwise talk on the line at
\* once, and a report would free the channel under the feet of another user.
OneTurn ==
  /\ \A u \in Users :
       trigQ[u] + jobs[u] > 0 =>
         /\ busy = u
         /\ trigQ[u] + jobs[u] = 1
         /\ JobEvents = {}
  /\ \A i \in JobEvents : chanQ[i].who = busy /\ JobEvents = {i}

\* A user destroyed during its turn gives the channel back: whoever the channel
\* is busy with has the turn, or the news of its end is on its way.
BusyIsJustified ==
  busy # NoUser =>
    \/ trigQ[busy] + jobs[busy] > 0
    \/ \E i \in DOMAIN chanQ :
         chanQ[i].who = busy /\ chanQ[i].what \in {"job", "destroyed"}

\* The news of a user's destruction is the last event of that user, which takes
\* no trigger and does no job any more.
GoneAreQuiet ==
  /\ \A u \in gone : trigQ[u] = 0 /\ jobs[u] = 0
  /\ \A i \in DOMAIN chanQ : chanQ[i].what = "destroyed" =>
       /\ chanQ[i].who \in gone
       /\ \A j \in DOMAIN chanQ : chanQ[j].who = chanQ[i].who => j <= i

\* A destroyed user waits no longer than until that news arrives.
GoneWaitersLeave ==
  \A u \in waiting \cap gone :
    \E i \in DOMAIN chanQ : chanQ[i].what = "destroyed" /\ chanQ[i].who = u

\* The inductive invariant of the channel.
ChannelInvariant ==
  /\ TypeOK
  /\ OneTurn
  /\ GoneAreQuiet
  /\ GoneWaitersLeave
  /\ BusyIsJustified

\* The user whose turn is, or was, the last one.
LastServed == IF busy = NoUser THEN lastBusy ELSE busy

\* Nobody is served twice in a row while somebody else waits: a trigger goes to the
\* user served last only if it leaves no entry waiting.  This is said of every step
\* that triggers, onJobDone among them, where the end of one turn and the choice of
\* the next are one and busy need not change.
TakesTurns ==
  [][\A u \in Users : trigQ'[u] > trigQ[u] /\ u = LastServed => waiting' = {}]_chanVars

\* Of two users that wait, each is served in the end.
EventuallyServed ==
  \A u \in Users : u \in waiting ~> (busy = u \/ u \in gone)
====
