---- MODULE CacheContextsProofs ----
(***************************************************************************)
(* Proofs about CacheContexts: no context of a cache worker is removed     *)
(* while its command is pending, and every request has at most the one     *)
(* reply its class sends, whatever the requests and the order of answers.  *)
(*                                                                         *)
(* The handlers are built from operators on states [ctxs, pending,         *)
(* replies], so the lemmas are about such states.  Between the answer to a *)
(* command and the next command of the same context that context is busy:  *)
(* it has yet to reply and no command is pending for it.                   *)
(***************************************************************************)
EXTENDS CacheContexts, SequenceLemmas

----------------------------------------------------------------------------
(* The invariant. *)

\* The classes whose replies are sent.
Answering(c) == c.kind \in {"simple", "pack"}

\* The replies that may have been sent to request q.
Answered(q, sent) ==
  /\ \/ Len(sent) <= 1
     \/ /\ q.cmds = <<"object">>
        /\ sent = <<<<[pos |-> 1, ok |-> FALSE]>>, <<[pos |-> 1, ok |-> TRUE]>>>>
  /\ q.what = "pack" => \A n \in DOMAIN sent : PackAnswered(q.cmds, sent[n])

\* What a context has got of the replies to its commands.
Progress(c) ==
  /\ c.kind = "pack" => /\ Len(c.got) <= Len(c.cmds)
                        /\ \A j \in DOMAIN c.cmds : c.cmds[j] # "object"
  /\ c.kind # "pack" => c.got = <<>> /\ Len(c.cmds) = 1
  /\ ~c.done => /\ Len(c.got) < Len(c.cmds)
                /\ \A j \in DOMAIN c.got : c.got[j] = [pos |-> j, ok |-> TRUE]

\* A context has the commands of the request it replies to, once.
Replies(c, requests, sent) ==
  Answering(c) => /\ c.req \in DOMAIN requests
                  /\ c.cmds = requests[c.req].cmds
                  /\ c.kind = "pack" <=> requests[c.req].what = "pack"
                  /\ ~c.done => sent[c.req] = <<>>

\* A command is pending for a context that waits for it, and not for the busy one.
Awaited(p, cs, busy) ==
  /\ p.handle \in DOMAIN cs /\ p.handle # busy
  /\ ~cs[p.handle].done
  /\ p.pos = Len(cs[p.handle].got) + 1
  /\ p.cmd = cs[p.handle].cmds[p.pos]

\* The contexts, their commands and the replies that were sent.
Contexts(cs, requests, sent) ==
  /\ \A h \in DOMAIN cs : Progress(cs[h]) /\ Replies(cs[h], requests, sent)
  /\ \A g, h \in DOMAIN cs :
       Answering(cs[g]) /\ Answering(cs[h]) /\ cs[g].req = cs[h].req => g = h
  /\ \A i \in DOMAIN sent : Answered(requests[i], sent[i])

Commands(cs, waiting, busy) ==
  /\ \A k \in DOMAIN waiting : Awaited(waiting[k], cs, busy)
  /\ \A j, k \in DOMAIN waiting : waiting[j].handle = waiting[k].handle => j = k
  /\ \A h \in DOMAIN cs : ~cs[h].done /\ cs[h].kind # "msg" /\ h # busy =>
       \E k \in DOMAIN waiting : waiting[k].handle = h

Good(s, requests, busy) ==
  /\ Contexts(s.ctxs, requests, s.replies)
  /\ Commands(s.ctxs, s.pending, busy)

\* The states with contexts D after these requests.
States(D, requests) ==
  [ctxs : [D -> Context], pending : Seq(Command),
   replies : [1..Len(requests) -> Seq(Seq(Entry))]]

\* No handle is 0.
CacheInvariant ==
  /\ role \in {"consumer", "producer"}
  /\ link \in {"connecting", "up", "closing", "crashed", "threw"}
  /\ asked \in Seq(Requests)
  /\ current \in 1..(MaxContexts + 1)
  /\ DOMAIN ctxs \subseteq 1..(current - 1)
  /\ State \in States(DOMAIN ctxs, asked)
  /\ Running => Good(State, asked, 0)
----------------------------------------------------------------------------
(* What the operators on states return. *)

\* What was sent once context c has sent these entries.
SentTo(sent, c, entries) ==
  [i \in DOMAIN sent |-> IF Answering(c) /\ i = c.req THEN Append(sent[i], entries) ELSE sent[i]]

\* A context that has sent its reply.
Ended(c) == [c EXCEPT !.done = TRUE]

\* A context with more replies to its commands.
With(c, got) == [c EXCEPT !.got = got]

\* State t has these parts.
HasParts(t, D, requests, cs, waiting, sent) ==
  /\ t \in States(D, requests)
  /\ t.ctxs = cs /\ t.pending = waiting /\ t.replies = sent

\* A context ends and sends its reply.
LEMMA FinishIs ==
  ASSUME NEW D, NEW requests, NEW s \in States(D, requests), NEW h \in D,
         NEW entries \in Seq(Entry)
  PROVE  HasParts(Finish(s, h, entries), D, requests,
                  [s.ctxs EXCEPT ![h] = Ended(@)], s.pending, SentTo(s.replies, s.ctxs[h], entries))
<1>1. /\ s.ctxs \in [D -> Context] /\ s.ctxs[h] \in Context
      /\ s.pending \in Seq(Command)
      /\ s.replies \in [1..Len(requests) -> Seq(Seq(Entry))]
  BY DEF States
<1>2. Ended(s.ctxs[h]) \in Context
  BY <1>1 DEF Ended, Context
<1>3. [s.ctxs EXCEPT ![h] = Ended(@)] \in [D -> Context]
  BY <1>1, <1>2
<1>4. SentTo(s.replies, s.ctxs[h], entries) \in [1..Len(requests) -> Seq(Seq(Entry))]
  BY <1>1 DEF SentTo
<1> DEFINE A == [s.ctxs EXCEPT ![h] = Ended(@)]
           B == SentTo(s.replies, s.ctxs[h], entries)
<1>5. Finish(s, h, entries) = [s EXCEPT !.ctxs = A, !.replies = B]
  BY Zenon DEF Finish, Ended, SentTo, Answering
<1> HIDE DEF A, B
<1>6. ASSUME NEW t, t = [s EXCEPT !.ctxs = A, !.replies = B]
      PROVE  t.ctxs = A /\ t.pending = s.pending /\ t.replies = B
  BY <1>6 DEF States
<1>7. [s EXCEPT !.ctxs = A, !.replies = B] \in States(D, requests)
  BY <1>1, <1>3, <1>4 DEF A, B, States
<1> QED
  BY <1>5, <1>6, <1>7 DEF A, B, HasParts

\* What a context has got is all that this changes of a state.
LEMMA GotIs ==
  ASSUME NEW D, NEW requests, NEW s \in States(D, requests), NEW h \in D,
         NEW got \in Seq(Entry)
  PROVE  HasParts([s EXCEPT !.ctxs[h].got = got], D, requests,
                  [s.ctxs EXCEPT ![h] = With(@, got)], s.pending, s.replies)
<1>1. s.ctxs \in [D -> Context] /\ s.ctxs[h] \in Context
  BY DEF States
<1>2. With(s.ctxs[h], got) \in Context
  BY <1>1 DEF With, Context
<1>3. [s.ctxs EXCEPT ![h] = With(@, got)] \in [D -> Context]
  BY <1>1, <1>2
<1>4. [s EXCEPT !.ctxs[h].got = got] = [s EXCEPT !.ctxs = [s.ctxs EXCEPT ![h] = With(@, got)]]
  BY DEF With
<1> QED
  BY <1>3, <1>4 DEF States, HasParts

\* The filled reply pack of a context that fails, and what is in it.
LEMMA FilledIs ==
  ASSUME NEW c \in Context, NEW e \in Entry
  PROVE  /\ Filled(c, e) \in Seq(Entry)
         /\ Len(c.got) < Len(c.cmds) =>
              /\ Len(Filled(c, e)) = Len(c.cmds)
              /\ \A j \in 1..Len(c.cmds) :
                   Filled(c, e)[j] = IF j <= Len(c.got) THEN c.got[j]
                                     ELSE IF j = Len(c.got) + 1 THEN e ELSE Filler
<1> DEFINE n == Len(c.got) + 1
           m == IF n <= Len(c.cmds) THEN Len(c.cmds) ELSE n
           v(j) == IF j < n THEN c.got[j] ELSE IF j = n THEN e ELSE Filler
<1>1. /\ Len(c.got) \in Nat /\ Len(c.cmds) \in Nat /\ n \in Nat /\ m \in Nat
      /\ c.got \in Seq(Entry)
  BY DEF Context
<1>2. Filler \in Entry
  BY DEF Filler, Entry
<1>3. \A j \in 1..m : v(j) \in Entry
  BY <1>1, <1>2
<1>4. Filled(c, e) = [j \in 1..m |-> v(j)]
  BY DEF Filled
<1> HIDE DEF v
<1>5. Filled(c, e) \in Seq(Entry) /\ Len(Filled(c, e)) = m /\ \A j \in 1..m : Filled(c, e)[j] = v(j)
  BY <1>1, <1>3, <1>4
<1> QED
  BY <1>1, <1>5 DEF v
----------------------------------------------------------------------------
(* Replies. *)

\* The reply to a pack whose next command fails.
LEMMA FailureAnswers ==
  ASSUME NEW c \in Context, Len(c.got) < Len(c.cmds),
         \A j \in DOMAIN c.got : c.got[j] = [pos |-> j, ok |-> TRUE]
  PROVE  PackAnswered(c.cmds, Filled(c, [pos |-> Len(c.got) + 1, ok |-> FALSE]))
<1> DEFINE n == Len(c.got) + 1
           e == [pos |-> n, ok |-> FALSE]
           all == Filled(c, e)
<1>1. /\ Len(c.got) \in Nat /\ Len(c.cmds) \in Nat /\ n \in Nat
      /\ DOMAIN c.got = 1..Len(c.got) /\ DOMAIN c.cmds = 1..Len(c.cmds)
      /\ n \in 1..Len(c.cmds)
  BY DEF Context
<1>2. e \in Entry /\ e.pos = n /\ e.ok = FALSE
  BY <1>1 DEF Entry
<1>3. /\ all \in Seq(Entry) /\ Len(all) = Len(c.cmds)
      /\ \A j \in 1..Len(c.cmds) : all[j] = IF j <= Len(c.got) THEN c.got[j]
                                            ELSE IF j = n THEN e ELSE Filler
  BY <1>2, FilledIs
<1> HIDE DEF all, e
<1>4. ASSUME NEW j \in DOMAIN c.cmds
      PROVE  /\ all[j].pos = (IF j <= n THEN j ELSE 0)
             /\ all[j].ok <=> j < n
  <2>1. CASE j <= Len(c.got)
    <3>1. j \in DOMAIN c.got /\ all[j] = c.got[j] /\ j < n
      BY <1>1, <1>3, <2>1
    <3>2. all[j] = [pos |-> j, ok |-> TRUE]
      BY <3>1
    <3> QED
      BY <3>1, <3>2, <1>1
  <2>2. CASE j = n
    BY <1>1, <1>2, <1>3, <2>2
  <2>3. CASE ~(j <= Len(c.got)) /\ j # n
    <3>1. all[j] = Filler /\ ~(j <= n)
      BY <1>1, <1>3, <2>3
    <3> QED
      BY <3>1, <1>1 DEF Filler
  <2> QED
    BY <2>1, <2>2, <2>3
<1>5. ~all[n].ok /\ n \in DOMAIN c.cmds
  BY <1>1, <1>4
<1> HIDE DEF n
<1>6. PackAnswered(c.cmds, all)
  BY <1>1, <1>3, <1>4, <1>5 DEF PackAnswered
<1> QED
  BY <1>6 DEF all, e, n

\* The reply to a pack whose last command succeeds.
LEMMA SuccessAnswers ==
  ASSUME NEW c \in Context, Len(c.got) + 1 = Len(c.cmds),
         \A j \in DOMAIN c.got : c.got[j] = [pos |-> j, ok |-> TRUE],
         NEW all, all = Append(c.got, [pos |-> Len(c.got) + 1, ok |-> TRUE])
  PROVE  PackAnswered(c.cmds, all)
<1> DEFINE n == Len(c.cmds)
<1>1. /\ Len(c.got) \in Nat /\ n \in Nat /\ n \in DOMAIN c.cmds
      /\ DOMAIN c.got = 1..Len(c.got) /\ DOMAIN c.cmds = 1..n /\ c.got \in Seq(Entry)
  BY DEF Context
<1>2. Len(all) = n
  BY <1>1
<1>3. ASSUME NEW j \in 1..n PROVE all[j].pos = j /\ all[j].ok
  <2>1. all[j] = [pos |-> j, ok |-> TRUE]
    <3>1. CASE j = n
      <4>1. all[n] = [pos |-> Len(c.got) + 1, ok |-> TRUE]
        BY <1>1
      <4> QED
        BY <3>1, <4>1
    <3>2. CASE j # n
      <4>1. j \in DOMAIN c.got
        BY <1>1, <3>2
      <4>2. all[j] = c.got[j]
        BY <1>1, <4>1
      <4> QED
        BY <4>1, <4>2
    <3> QED
      BY <3>1, <3>2
  <2> QED
    BY <2>1
<1> QED
  BY <1>1, <1>2, <1>3 DEF PackAnswered

\* The first reply to a request.
LEMMA FirstAnswer ==
  ASSUME NEW q, NEW entries, q.what = "pack" => PackAnswered(q.cmds, entries)
  PROVE  Answered(q, Append(<<>>, entries))
<1>1. Append(<<>>, entries) = <<entries>>
  OBVIOUS
<1>2. Len(<<entries>>) = 1 /\ \A n \in DOMAIN <<entries>> : <<entries>>[n] = entries
  OBVIOUS
<1> QED
  BY <1>1, <1>2 DEF Answered

\* A context that ends with a reply it may send.
LEMMA EndOfContext ==
  ASSUME NEW D, NEW requests \in Seq(Requests), NEW cs \in [D -> Context], NEW h \in D,
         NEW sent \in [1..Len(requests) -> Seq(Seq(Entry))], Contexts(cs, requests, sent),
         NEW c \in Context, c.done, Progress(c),
         c.kind = cs[h].kind, c.req = cs[h].req, c.cmds = cs[h].cmds,
         NEW entries \in Seq(Entry),
         Answering(c) => Answered(requests[c.req], Append(sent[c.req], entries))
  PROVE  Contexts([cs EXCEPT ![h] = c], requests, SentTo(sent, c, entries))
<1> DEFINE new == [cs EXCEPT ![h] = c]
           all == SentTo(sent, c, entries)
<1>1. /\ DOMAIN cs = D /\ DOMAIN new = D /\ DOMAIN all = 1..Len(requests)
      /\ DOMAIN sent = 1..Len(requests) /\ DOMAIN requests = 1..Len(requests)
  BY DEF SentTo
<1>2. new[h] = c /\ \A g \in D : g # h => new[g] = cs[g]
  OBVIOUS
<1>3. \A g \in D : Answering(new[g]) <=> Answering(cs[g])
  BY <1>2 DEF Answering
<1>4. \A g \in D : new[g].req = cs[g].req
  BY <1>2
<1>5. \A i \in DOMAIN sent :
        all[i] = IF Answering(c) /\ i = c.req THEN Append(sent[i], entries) ELSE sent[i]
  BY DEF SentTo
<1> HIDE DEF new, all
<1>6. ASSUME NEW f \in D, NEW g \in D, Answering(new[f]), Answering(new[g]), new[f].req = new[g].req
      PROVE  f = g
  BY <1>1, <1>3, <1>4, <1>6 DEF Contexts
<1>7. ASSUME NEW i \in DOMAIN all PROVE Answered(requests[i], all[i])
  BY <1>1, <1>5 DEF Contexts
<1>8. ASSUME NEW g \in D PROVE Progress(new[g]) /\ Replies(new[g], requests, all)
  <2>1. CASE g = h
    <3>1. Replies(cs[h], requests, sent)
      BY <1>1 DEF Contexts
    <3> QED
      BY <1>2, <2>1, <3>1 DEF Replies, Answering
  <2>2. CASE g # h
    <3>1. Progress(cs[g]) /\ Replies(cs[g], requests, sent) /\ new[g] = cs[g]
      BY <1>1, <1>2, <2>2 DEF Contexts
    <3>2. Answering(cs[g]) => cs[g].req \in DOMAIN sent /\ all[cs[g].req] = sent[cs[g].req]
      <4> SUFFICES ASSUME Answering(cs[g]) PROVE cs[g].req \in DOMAIN sent /\ all[cs[g].req] = sent[cs[g].req]
        OBVIOUS
      <4>1. cs[g].req \in DOMAIN sent
        BY <1>1, <3>1 DEF Replies
      <4>2. ~(Answering(c) /\ cs[g].req = c.req)
        BY <1>1, <2>2 DEF Contexts, Answering
      <4> QED
        BY <1>5, <4>1, <4>2
    <3> QED
      BY <3>1, <3>2 DEF Replies
  <2> QED
    BY <2>1, <2>2
<1>9. Contexts(new, requests, all)
  BY <1>1, <1>6, <1>7, <1>8 DEF Contexts
<1> QED
  BY <1>9 DEF new, all

\* Once a context is done, nothing is pending for it and it is not busy.
LEMMA EndOfCommands ==
  ASSUME NEW D \in SUBSET (Nat \ {0}), NEW cs \in [D -> Context], NEW h \in D,
         NEW waiting \in Seq(Command), NEW busy \in {0, h}, Commands(cs, waiting, busy),
         \A k \in DOMAIN waiting : waiting[k].handle # h,
         NEW c, c.done \/ c.kind = "msg", c.kind = cs[h].kind
  PROVE  Commands([cs EXCEPT ![h] = c], waiting, 0)
<1> DEFINE new == [cs EXCEPT ![h] = c]
<1>1. DOMAIN cs = D /\ DOMAIN new = D /\ 0 \notin D
  OBVIOUS
<1>2. new[h] = c /\ \A g \in D : g # h => new[g] = cs[g]
  OBVIOUS
<1> HIDE DEF new
<1>3. ASSUME NEW k \in DOMAIN waiting PROVE Awaited(waiting[k], new, 0)
  <2>1. Awaited(waiting[k], cs, busy) /\ waiting[k].handle # h
    BY DEF Commands
  <2> QED
    BY <1>1, <1>2, <2>1 DEF Awaited
<1>4. ASSUME NEW g \in D, ~new[g].done, new[g].kind # "msg"
      PROVE  \E k \in DOMAIN waiting : waiting[k].handle = g
  <2>1. g # h /\ new[g] = cs[g] /\ g # busy
    BY <1>1, <1>2, <1>4
  <2> QED
    BY <1>1, <1>4, <2>1 DEF Commands
<1>5. Commands(new, waiting, 0)
  BY <1>1, <1>3, <1>4 DEF Commands
<1> QED
  BY <1>5 DEF new

\* The busy context waits for the reply to its next command.
Busy(s, requests, h) ==
  /\ h \in DOMAIN s.ctxs
  /\ ~s.ctxs[h].done
  /\ Good(s, requests, h)

\* What a busy context is.
LEMMA BusyFacts ==
  ASSUME NEW D, NEW requests \in Seq(Requests), NEW s \in States(D, requests), NEW h,
         Busy(s, requests, h)
  PROVE  /\ h \in D /\ s.ctxs \in [D -> Context] /\ s.ctxs[h] \in Context
         /\ s.pending \in Seq(Command)
         /\ s.replies \in [1..Len(requests) -> Seq(Seq(Entry))]
         /\ Len(s.ctxs[h].got) \in Nat /\ Len(s.ctxs[h].cmds) \in Nat
         /\ Progress(s.ctxs[h]) /\ Replies(s.ctxs[h], requests, s.replies)
         /\ \A k \in DOMAIN s.pending : s.pending[k].handle # h
<1>1. h \in D /\ s.ctxs \in [D -> Context] /\ s.pending \in Seq(Command)
  BY DEF States, Busy
<1>2. s.ctxs[h] \in Context
  BY <1>1
<1>3. Len(s.ctxs[h].got) \in Nat /\ Len(s.ctxs[h].cmds) \in Nat
  BY <1>2 DEF Context
<1>4. Progress(s.ctxs[h]) /\ Replies(s.ctxs[h], requests, s.replies)
  BY DEF Busy, Good, Contexts
<1>5. \A k \in DOMAIN s.pending : s.pending[k].handle # h
  BY DEF Busy, Good, Commands, Awaited
<1> QED
  BY <1>1, <1>2, <1>3, <1>4, <1>5 DEF States

\* A context that has no reply pack sends its reply.
LEMMA OtherEnds ==
  ASSUME NEW D \in SUBSET (Nat \ {0}), NEW requests \in Seq(Requests),
         NEW s \in States(D, requests), NEW h \in D, NEW busy \in {0, h},
         Good(s, requests, busy), s.ctxs[h].kind # "pack",
         \A k \in DOMAIN s.pending : s.pending[k].handle # h,
         NEW entries \in Seq(Entry),
         Answering(s.ctxs[h]) =>
           Answered(requests[s.ctxs[h].req], Append(s.replies[s.ctxs[h].req], entries))
  PROVE  Good(Finish(s, h, entries), requests, 0)
<1> DEFINE c == Ended(s.ctxs[h])
           t == Finish(s, h, entries)
<1>1. /\ s.ctxs \in [D -> Context] /\ s.ctxs[h] \in Context /\ s.pending \in Seq(Command)
      /\ s.replies \in [1..Len(requests) -> Seq(Seq(Entry))] /\ DOMAIN s.ctxs = D
  BY DEF States
<1>2. /\ c \in Context /\ c.done /\ c.kind = s.ctxs[h].kind /\ c.req = s.ctxs[h].req
      /\ c.cmds = s.ctxs[h].cmds /\ c.got = s.ctxs[h].got
  BY <1>1 DEF Ended, Context
<1>3. HasParts(t, D, requests, [s.ctxs EXCEPT ![h] = c], s.pending, SentTo(s.replies, s.ctxs[h], entries))
  BY FinishIs, Zenon
<1>4. SentTo(s.replies, s.ctxs[h], entries) = SentTo(s.replies, c, entries)
  BY <1>2 DEF SentTo, Answering
<1> HIDE DEF t, c
<1>5. Progress(c)
  BY <1>1, <1>2 DEF Progress, Good, Contexts
<1>6. Answering(c) => Answered(requests[c.req], Append(s.replies[c.req], entries))
  BY <1>2 DEF Answering
<1>7. Contexts(s.ctxs, requests, s.replies) /\ Commands(s.ctxs, s.pending, busy)
  BY DEF Good
<1>8. Contexts([s.ctxs EXCEPT ![h] = c], requests, SentTo(s.replies, c, entries))
  BY <1>1, <1>2, <1>5, <1>6, <1>7, EndOfContext, Zenon
<1>9. Commands([s.ctxs EXCEPT ![h] = c], s.pending, 0)
  BY <1>1, <1>2, <1>7, EndOfCommands, Zenon
<1>10. Good(t, requests, 0)
  BY <1>3, <1>4, <1>8, <1>9, Zenon DEF Good, HasParts
<1> QED
  BY <1>10 DEF t

\* A context sends its reply pack.
LEMMA PackEnds ==
  ASSUME NEW D \in SUBSET (Nat \ {0}), NEW requests \in Seq(Requests),
         NEW s \in States(D, requests), NEW h, Busy(s, requests, h),
         s.ctxs[h].kind = "pack", NEW all \in Seq(Entry), Len(all) <= Len(s.ctxs[h].cmds),
         PackAnswered(s.ctxs[h].cmds, all)
  PROVE  Good(Finish([s EXCEPT !.ctxs[h].got = all], h, all), requests, 0)
<1> DEFINE u == [s EXCEPT !.ctxs[h].got = all]
           c == Ended(With(s.ctxs[h], all))
           t == Finish(u, h, all)
<1>1. /\ h \in D /\ s.ctxs \in [D -> Context] /\ s.ctxs[h] \in Context
      /\ s.pending \in Seq(Command)
      /\ s.replies \in [1..Len(requests) -> Seq(Seq(Entry))] /\ DOMAIN s.ctxs = D
      /\ Progress(s.ctxs[h]) /\ Replies(s.ctxs[h], requests, s.replies)
      /\ \A k \in DOMAIN s.pending : s.pending[k].handle # h
  BY BusyFacts
<1>2. /\ c \in Context /\ c.done /\ c.kind = s.ctxs[h].kind /\ c.req = s.ctxs[h].req
      /\ c.cmds = s.ctxs[h].cmds /\ c.got = all
      /\ With(s.ctxs[h], all).kind = c.kind /\ With(s.ctxs[h], all).req = c.req
  BY <1>1 DEF Ended, With, Context
<1>3. HasParts(u, D, requests, [s.ctxs EXCEPT ![h] = With(@, all)], s.pending, s.replies)
  BY <1>1, GotIs, Zenon
<1> HIDE DEF u
<1>4. /\ u \in States(D, requests) /\ u.ctxs = [s.ctxs EXCEPT ![h] = With(@, all)]
      /\ HasParts(t, D, requests, [u.ctxs EXCEPT ![h] = Ended(@)], u.pending,
                  SentTo(u.replies, u.ctxs[h], all))
  <2>1. u \in States(D, requests) /\ u.ctxs = [s.ctxs EXCEPT ![h] = With(@, all)]
    BY <1>3, Zenon DEF HasParts
  <2> QED
    BY <1>1, <2>1, FinishIs, Zenon
<1> HIDE DEF t
<1>5. /\ u.ctxs[h] = With(s.ctxs[h], all) /\ t.ctxs = [s.ctxs EXCEPT ![h] = c]
      /\ t.pending = s.pending
  BY <1>1, <1>3, <1>4 DEF HasParts
<1>6. t.replies = SentTo(s.replies, c, all)
  BY <1>2, <1>3, <1>4, <1>5 DEF SentTo, Answering, HasParts
<1> HIDE DEF c
<1>7. Progress(c)
  BY <1>1, <1>2 DEF Progress
<1>8. Answering(c) => Answered(requests[c.req], Append(s.replies[c.req], all))
  <2> SUFFICES ASSUME Answering(c) PROVE Answered(requests[c.req], Append(s.replies[c.req], all))
    OBVIOUS
  <2>1. /\ s.replies[c.req] = <<>> /\ requests[c.req].cmds = s.ctxs[h].cmds
    BY <1>1, <1>2 DEF Replies, Answering, Busy
  <2> QED
    BY <2>1, FirstAnswer
<1>9. Contexts(s.ctxs, requests, s.replies) /\ Commands(s.ctxs, s.pending, h) /\ h \in {0, h}
  BY DEF Good, Busy
<1>10. Contexts([s.ctxs EXCEPT ![h] = c], requests, SentTo(s.replies, c, all))
  BY <1>1, <1>2, <1>7, <1>8, <1>9, EndOfContext, Zenon
<1>11. Commands([s.ctxs EXCEPT ![h] = c], s.pending, 0)
  BY <1>1, <1>2, <1>9, EndOfCommands, Zenon
<1>12. Good(t, requests, 0)
  BY <1>4, <1>5, <1>6, <1>10, <1>11, Zenon DEF Good
<1> QED
  BY <1>12 DEF t, u
----------------------------------------------------------------------------
(* The operators on states. *)

\* Failing a context keeps the types, whatever the state.
LEMMA FailTyped ==
  ASSUME NEW D, NEW requests, NEW s \in States(D, requests), NEW h \in D, NEW pos \in Nat
  PROVE  fail(s, h, pos) \in States(D, requests)
<1> DEFINE e == [pos |-> pos, ok |-> FALSE]
           all == Filled(s.ctxs[h], e)
           u == [s EXCEPT !.ctxs[h].got = all]
<1>1. e \in Entry /\ <<e>> \in Seq(Entry)
  <2>1. e \in Entry
    BY DEF Entry
  <2> HIDE DEF e
  <2> QED
    BY <2>1
<1>2. s.ctxs[h] \in Context
  BY DEF States
<1>3. all \in Seq(Entry)
  BY <1>1, <1>2, FilledIs
<1> HIDE DEF e, all
<1>4. u \in States(D, requests)
  BY <1>3, GotIs, Zenon DEF HasParts
<1>5. Finish(u, h, all) \in States(D, requests)
  BY <1>3, <1>4, FinishIs, Zenon DEF HasParts
<1>6. Finish(s, h, <<e>>) \in States(D, requests)
  BY <1>1, FinishIs, Zenon DEF HasParts
<1>7. CASE s.ctxs[h].kind = "pack"
  <2>1. fail(s, h, pos) = Finish(u, h, all)
    BY <1>7 DEF fail, e, all
  <2> QED
    BY <1>5, <2>1
<1>8. CASE s.ctxs[h].kind = "msg"
  <2>1. fail(s, h, pos) = s
    BY <1>8 DEF fail
  <2> QED
    BY <2>1
<1>9. CASE s.ctxs[h].kind \notin {"pack", "msg"}
  <2>1. fail(s, h, pos) = Finish(s, h, <<e>>)
    BY <1>9 DEF fail, e
  <2> QED
    BY <1>6, <2>1
<1> QED
  BY <1>7, <1>8, <1>9

\* The one entry of a reply that is not a pack.
LEMMA OneEntry ==
  ASSUME NEW ok \in BOOLEAN, NEW pos \in Nat
  PROVE  <<[pos |-> pos, ok |-> ok]>> \in Seq(Entry)
<1>1. [pos |-> pos, ok |-> ok] \in Entry
  BY DEF Entry
<1> QED
  BY <1>1

\* The first reply of a busy context that has no reply pack.
LEMMA FirstEnds ==
  ASSUME NEW D \in SUBSET (Nat \ {0}), NEW requests \in Seq(Requests),
         NEW s \in States(D, requests), NEW h, Busy(s, requests, h), s.ctxs[h].kind # "pack",
         NEW entries \in Seq(Entry)
  PROVE  Good(Finish(s, h, entries), requests, 0)
<1>1. /\ h \in D /\ Replies(s.ctxs[h], requests, s.replies)
      /\ \A k \in DOMAIN s.pending : s.pending[k].handle # h
  BY BusyFacts
<1>2. Answering(s.ctxs[h]) =>
        Answered(requests[s.ctxs[h].req], Append(s.replies[s.ctxs[h].req], entries))
  <2> SUFFICES ASSUME Answering(s.ctxs[h])
               PROVE  Answered(requests[s.ctxs[h].req], Append(s.replies[s.ctxs[h].req], entries))
    OBVIOUS
  <2>1. s.replies[s.ctxs[h].req] = <<>> /\ requests[s.ctxs[h].req].what # "pack"
    BY <1>1 DEF Replies, Busy
  <2> QED
    BY <2>1, FirstAnswer
<1>3. Good(s, requests, h) /\ h \in {0, h}
  BY DEF Busy
<1> QED
  BY <1>1, <1>2, <1>3, OtherEnds, Zenon

\* A busy context that fails has sent its reply, or never will.
LEMMA FailStep ==
  ASSUME NEW D \in SUBSET (Nat \ {0}), NEW requests \in Seq(Requests),
         NEW s \in States(D, requests), NEW h, Busy(s, requests, h)
  PROVE  Good(fail(s, h, Len(s.ctxs[h].got) + 1), requests, 0)
<1> DEFINE c == s.ctxs[h]
           pos == Len(c.got) + 1
           e == [pos |-> pos, ok |-> FALSE]
           all == Filled(c, e)
<1>1. /\ h \in D /\ c \in Context /\ s.ctxs \in [D -> Context]
      /\ s.pending \in Seq(Command) /\ Progress(c)
      /\ Len(c.got) \in Nat /\ Len(c.cmds) \in Nat
      /\ \A k \in DOMAIN s.pending : s.pending[k].handle # h
  BY BusyFacts
<1>2. CASE c.kind = "pack"
  <2>1. ~c.done
    BY DEF Busy
  <2>2. /\ Len(c.got) < Len(c.cmds)
        /\ \A j \in DOMAIN c.got : c.got[j] = [pos |-> j, ok |-> TRUE]
    BY <2>1, <1>1, Zenon DEF Progress
  <2>3. e \in Entry
    BY <1>1 DEF Entry
  <2>4. all \in Seq(Entry) /\ Len(all) = Len(c.cmds)
    <3> HIDE DEF e
    <3> QED
      BY <1>1, <2>2, <2>3, FilledIs
  <2>5. PackAnswered(c.cmds, all)
    <3> HIDE DEF c
    <3> QED
      BY <1>1, <2>2, FailureAnswers
  <2>6. Len(all) <= Len(c.cmds)
    BY <1>1, <2>4
  <2>7. fail(s, h, pos) = Finish([s EXCEPT !.ctxs[h].got = all], h, all)
    BY <1>2 DEF fail
  <2> HIDE DEF all
  <2>8. Good(Finish([s EXCEPT !.ctxs[h].got = all], h, all), requests, 0)
    BY <1>2, <2>4, <2>5, <2>6, PackEnds, Zenon
  <2> QED
    BY <2>7, <2>8, Zenon
<1>3. CASE c.kind = "msg"
  <2>1. fail(s, h, pos) = s /\ [s.ctxs EXCEPT ![h] = c] = s.ctxs
    BY <1>1, <1>3 DEF fail
  <2>2. Commands(s.ctxs, s.pending, h) /\ h \in {0, h}
    BY DEF Busy, Good
  <2>3. Commands([s.ctxs EXCEPT ![h] = c], s.pending, 0)
    BY <1>1, <1>3, <2>2, EndOfCommands, Zenon
  <2>4. Good(s, requests, 0)
    BY <2>1, <2>3, Zenon DEF Good, Busy
  <2> QED
    BY <2>1, <2>4, Zenon
<1>4. CASE c.kind \notin {"pack", "msg"}
  <2>1. fail(s, h, pos) = Finish(s, h, <<e>>)
    BY <1>4 DEF fail
  <2>2. <<e>> \in Seq(Entry)
    <3>1. pos \in Nat /\ FALSE \in BOOLEAN
      BY <1>1
    <3> QED
      BY <3>1, OneEntry, Zenon
  <2> HIDE DEF e
  <2>3. Good(Finish(s, h, <<e>>), requests, 0)
    BY <1>4, <2>2, FirstEnds
  <2> QED
    BY <2>1, <2>3, Zenon
<1> QED
  BY <1>2, <1>3, <1>4

\* A command that is taken is pending for the context that was busy.
LEMMA TakenStep ==
  ASSUME NEW D \in SUBSET (Nat \ {0}), NEW requests \in Seq(Requests),
         NEW s \in States(D, requests), NEW h, Busy(s, requests, h),
         NEW p \in Command, p.handle = h, p.pos = Len(s.ctxs[h].got) + 1,
         p.cmd = s.ctxs[h].cmds[p.pos],
         NEW t, t = [s EXCEPT !.pending = Append(@, p)]
  PROVE  t \in States(D, requests) /\ Good(t, requests, 0)
<1> DEFINE n == Len(s.pending)
<1>1. /\ h \in D /\ s.ctxs \in [D -> Context] /\ s.pending \in Seq(Command) /\ DOMAIN s.ctxs = D
      /\ \A k \in DOMAIN s.pending : s.pending[k].handle # h
  BY BusyFacts
<1>2. t \in States(D, requests)
  <2>1. Append(s.pending, p) \in Seq(Command)
    BY <1>1
  <2>2. ASSUME NEW waiting \in Seq(Command)
        PROVE  [s EXCEPT !.pending = waiting] \in States(D, requests)
    BY DEF States
  <2> QED
    BY <2>1, <2>2
<1>3. t.ctxs = s.ctxs /\ t.replies = s.replies /\ t.pending = Append(s.pending, p)
  BY DEF States
<1>4. /\ n \in Nat /\ DOMAIN s.pending = 1..n /\ DOMAIN t.pending = 1..(n + 1)
      /\ t.pending[n + 1] = p /\ \A k \in 1..n : t.pending[k] = s.pending[k]
  BY <1>1, <1>3
<1>5. Commands(s.ctxs, s.pending, h) /\ Contexts(s.ctxs, requests, s.replies) /\ ~s.ctxs[h].done
  BY DEF Busy, Good
<1>6. 0 \notin D
  OBVIOUS
<1> HIDE DEF n
<1>7. \A k \in 1..(n + 1) : k \in 1..n \/ k = n + 1
  BY <1>4
<1>8. ASSUME NEW k \in DOMAIN t.pending PROVE Awaited(t.pending[k], s.ctxs, 0)
  <2>1. CASE k \in 1..n
    BY <1>1, <1>4, <1>5, <1>6, <2>1 DEF Commands, Awaited
  <2>2. CASE k = n + 1
    BY <1>1, <1>4, <1>5, <1>6, <2>2 DEF Awaited
  <2> QED
    BY <1>4, <1>7, <2>1, <2>2
<1>9. ASSUME NEW j \in DOMAIN t.pending, NEW k \in DOMAIN t.pending,
             t.pending[j].handle = t.pending[k].handle
      PROVE  j = k
  BY <1>1, <1>4, <1>5, <1>7, <1>9 DEF Commands
<1>10. ASSUME NEW g \in DOMAIN s.ctxs, ~s.ctxs[g].done, s.ctxs[g].kind # "msg"
       PROVE  \E k \in DOMAIN t.pending : t.pending[k].handle = g
  <2>1. CASE g = h
    BY <1>4, <2>1
  <2>2. CASE g # h
    <3>1. PICK k \in DOMAIN s.pending : s.pending[k].handle = g
      BY <1>5, <1>10, <2>2 DEF Commands
    <3>2. k \in DOMAIN t.pending /\ t.pending[k].handle = g
      BY <1>4, <3>1
    <3> QED
      BY <3>2
  <2> QED
    BY <2>1, <2>2
<1>11. Commands(t.ctxs, t.pending, 0)
  BY <1>3, <1>8, <1>9, <1>10 DEF Commands
<1> QED
  BY <1>2, <1>3, <1>5, <1>11 DEF Good

\* A command is taken and pending, or it fails.
LEMMA HandleStep ==
  ASSUME NEW D \in SUBSET (Nat \ {0}), NEW requests \in Seq(Requests),
         NEW s \in States(D, requests), NEW h, Busy(s, requests, h),
         NEW pos, pos = Len(s.ctxs[h].got) + 1, NEW cmd, cmd = s.ctxs[h].cmds[pos]
  PROVE  /\ handleCommand(s, h, pos, cmd) \in States(D, requests)
         /\ Good(handleCommand(s, h, pos, cmd), requests, 0)
<1> DEFINE p == [handle |-> h, pos |-> pos, cmd |-> cmd]
           t == [s EXCEPT !.pending = Append(@, p)]
<1>1. /\ h \in D /\ h \in Nat /\ pos \in Nat
      /\ Len(s.ctxs[h].got) \in Nat /\ Len(s.ctxs[h].cmds) \in Nat
      /\ s.ctxs[h] \in Context /\ Progress(s.ctxs[h]) /\ ~s.ctxs[h].done
  <2>1. h \in D /\ s.ctxs[h] \in Context /\ Progress(s.ctxs[h])
    BY BusyFacts, Zenon
  <2>2. Len(s.ctxs[h].got) \in Nat /\ Len(s.ctxs[h].cmds) \in Nat
    BY BusyFacts, Zenon
  <2>3. ~s.ctxs[h].done
    BY Zenon DEF Busy
  <2> QED
    BY <2>1, <2>2, <2>3
<1>2. pos \in 1..Len(s.ctxs[h].cmds)
  BY <1>1 DEF Progress
<1>3. cmd \in Cmds
  BY <1>1, <1>2 DEF Context
<1>4. p \in Command
  BY <1>1, <1>3 DEF Command
<1>5. p.handle = h /\ p.pos = pos /\ p.cmd = cmd
  OBVIOUS
<1>6. t \in States(D, requests) /\ Good(t, requests, 0)
  <2> HIDE DEF p
  <2> QED
    BY <1>4, <1>5, TakenStep, Zenon
<1>7. fail(s, h, pos) \in States(D, requests) /\ Good(fail(s, h, pos), requests, 0)
  BY <1>1, FailTyped, FailStep, Zenon
<1>8. handleCommand(s, h, pos, cmd) = t \/ handleCommand(s, h, pos, cmd) = fail(s, h, pos)
  BY Zenon DEF handleCommand
<1> QED
  BY <1>6, <1>7, <1>8, Zenon

\* The reply to one command of a pack, of which more are to come.
LEMMA GotStep ==
  ASSUME NEW D \in SUBSET (Nat \ {0}), NEW requests \in Seq(Requests),
         NEW s \in States(D, requests), NEW h, Busy(s, requests, h),
         s.ctxs[h].kind = "pack", Len(s.ctxs[h].got) + 1 < Len(s.ctxs[h].cmds),
         NEW got, got = Append(s.ctxs[h].got, [pos |-> Len(s.ctxs[h].got) + 1, ok |-> TRUE]),
         NEW t, t = [s EXCEPT !.ctxs[h].got = got]
  PROVE  t \in States(D, requests) /\ Busy(t, requests, h) /\ t.ctxs[h] = With(s.ctxs[h], got)
<1> DEFINE e == [pos |-> Len(s.ctxs[h].got) + 1, ok |-> TRUE]
           c == With(s.ctxs[h], got)
           n == Len(s.ctxs[h].got)
<1>1. /\ h \in D /\ s.ctxs \in [D -> Context] /\ s.ctxs[h] \in Context /\ DOMAIN s.ctxs = D
      /\ n \in Nat /\ Len(s.ctxs[h].cmds) \in Nat
      /\ Progress(s.ctxs[h]) /\ Replies(s.ctxs[h], requests, s.replies)
      /\ \A k \in DOMAIN s.pending : s.pending[k].handle # h
  BY BusyFacts
<1>2. e \in Entry /\ s.ctxs[h].got \in Seq(Entry)
  BY <1>1 DEF Entry, Context
<1>3. /\ got \in Seq(Entry) /\ Len(got) = n + 1 /\ DOMAIN got = 1..(n + 1)
      /\ got[n + 1] = e /\ \A j \in 1..n : got[j] = s.ctxs[h].got[j]
  BY <1>1, <1>2
<1>4. /\ c \in Context /\ c.kind = s.ctxs[h].kind /\ c.req = s.ctxs[h].req
      /\ c.cmds = s.ctxs[h].cmds /\ c.got = got /\ c.done = s.ctxs[h].done
  BY <1>1, <1>3 DEF With, Context
<1>5. HasParts(t, D, requests, [s.ctxs EXCEPT ![h] = c], s.pending, s.replies)
  BY <1>1, <1>3, GotIs, Zenon
<1> HIDE DEF c
<1>6. /\ t \in States(D, requests) /\ t.ctxs = [s.ctxs EXCEPT ![h] = c]
      /\ t.pending = s.pending /\ t.replies = s.replies
  BY <1>5, Zenon DEF HasParts
<1>7. DOMAIN t.ctxs = D /\ t.ctxs[h] = c /\ \A g \in D : g # h => t.ctxs[g] = s.ctxs[g]
  BY <1>1, <1>6
<1>8. ~c.done /\ Contexts(s.ctxs, requests, s.replies) /\ Commands(s.ctxs, s.pending, h)
  BY <1>4 DEF Busy, Good
<1>9. Progress(c)
  <2>1. \A j \in 1..n : got[j] = [pos |-> j, ok |-> TRUE]
    <3>1. \A j \in DOMAIN s.ctxs[h].got : s.ctxs[h].got[j] = [pos |-> j, ok |-> TRUE]
      BY <1>1, Zenon DEF Progress, Busy
    <3>2. DOMAIN s.ctxs[h].got = 1..n
      BY <1>2
    <3> QED
      BY <1>3, <3>1, <3>2
  <2>2. got[n + 1] = [pos |-> n + 1, ok |-> TRUE]
    BY <1>3
  <2>3. \A j \in DOMAIN got : j \in 1..n \/ j = n + 1
    BY <1>1, <1>3
  <2>4. \A j \in DOMAIN got : got[j] = [pos |-> j, ok |-> TRUE]
    BY <2>1, <2>2, <2>3
  <2>5. Len(got) < Len(c.cmds) /\ Len(got) <= Len(c.cmds)
    BY <1>1, <1>3, <1>4
  <2> QED
    BY <1>1, <1>4, <2>4, <2>5 DEF Progress
<1>10. Replies(c, requests, t.replies)
  BY <1>1, <1>4, <1>6 DEF Replies, Answering
<1>11. \A g \in D : Answering(t.ctxs[g]) = Answering(s.ctxs[g]) /\ t.ctxs[g].req = s.ctxs[g].req
  BY <1>4, <1>7 DEF Answering
<1>12. Contexts(t.ctxs, requests, t.replies)
  <2>1. \A g \in D : Progress(t.ctxs[g]) /\ Replies(t.ctxs[g], requests, t.replies)
    BY <1>1, <1>6, <1>7, <1>8, <1>9, <1>10 DEF Contexts
  <2>2. \A f, g \in D :
          Answering(t.ctxs[f]) /\ Answering(t.ctxs[g]) /\ t.ctxs[f].req = t.ctxs[g].req => f = g
    BY <1>1, <1>8, <1>11 DEF Contexts
  <2>3. \A i \in DOMAIN t.replies : Answered(requests[i], t.replies[i])
    BY <1>6, <1>8 DEF Contexts
  <2> QED
    BY <1>7, <2>1, <2>2, <2>3 DEF Contexts
<1>13. Commands(t.ctxs, t.pending, h)
  <2>1. \A k \in DOMAIN t.pending : Awaited(t.pending[k], t.ctxs, h)
    <3> SUFFICES ASSUME NEW k \in DOMAIN s.pending PROVE Awaited(s.pending[k], t.ctxs, h)
      BY <1>6
    <3>1. Awaited(s.pending[k], s.ctxs, h)
      BY <1>8 DEF Commands
    <3> QED
      BY <1>1, <1>7, <3>1 DEF Awaited
  <2>2. \A j, k \in DOMAIN t.pending : t.pending[j].handle = t.pending[k].handle => j = k
    BY <1>6, <1>8 DEF Commands
  <2>3. ASSUME NEW g \in D, ~t.ctxs[g].done, t.ctxs[g].kind # "msg", g # h
        PROVE  \E k \in DOMAIN t.pending : t.pending[k].handle = g
    BY <1>1, <1>6, <1>7, <1>8, <2>3 DEF Commands
  <2> QED
    BY <1>7, <2>1, <2>2, <2>3 DEF Commands
<1> QED
  BY <1>6, <1>7, <1>8, <1>12, <1>13 DEF Busy, Good, c

\* A busy context is replied to with a success.
LEMMA ReplyStep ==
  ASSUME NEW D \in SUBSET (Nat \ {0}), NEW requests \in Seq(Requests),
         NEW s \in States(D, requests), NEW h, Busy(s, requests, h),
         NEW pos, pos = Len(s.ctxs[h].got) + 1
  PROVE  reply(s, h, pos) \in States(D, requests) /\ Good(reply(s, h, pos), requests, 0)
<1> DEFINE c == s.ctxs[h]
           e == [pos |-> pos, ok |-> TRUE]
           all == Append(c.got, e)
           t == [s EXCEPT !.ctxs[h].got = all]
<1>1. /\ h \in D /\ c \in Context /\ Progress(c) /\ pos \in Nat /\ TRUE \in BOOLEAN
      /\ Len(c.got) \in Nat /\ Len(c.cmds) \in Nat
  BY BusyFacts
<1>2. <<e>> \in Seq(Entry)
  BY <1>1, OneEntry, Zenon
<1>3. all \in Seq(Entry) /\ Len(all) = pos
  <2>1. c.got \in Seq(Entry) /\ e \in Entry /\ pos = Len(c.got) + 1
    BY <1>1 DEF Context, Entry
  <2> HIDE DEF e, c
  <2> QED
    BY <1>1, <2>1
<1>4. ~c.done
  BY DEF Busy
<1>5. /\ Len(c.got) < Len(c.cmds)
      /\ \A j \in DOMAIN c.got : c.got[j] = [pos |-> j, ok |-> TRUE]
  BY <1>1, <1>4, Zenon DEF Progress
<1> HIDE DEF all
<1>6. HasParts(t, D, requests, [s.ctxs EXCEPT ![h] = With(@, all)], s.pending, s.replies)
  BY <1>1, <1>3, GotIs, Zenon
<1>7. t.ctxs[h] = With(c, all) /\ With(c, all).got = all /\ With(c, all).cmds = c.cmds
  <2>1. t.ctxs = [s.ctxs EXCEPT ![h] = With(@, all)] /\ s.ctxs \in [D -> Context]
    BY <1>6, Zenon DEF HasParts, States
  <2> HIDE DEF t
  <2> QED
    BY <1>1, <2>1 DEF With, Context
<1>8. CASE c.kind # "pack"
  <2>1. reply(s, h, pos) = Finish(s, h, <<e>>)
    BY <1>8 DEF reply
  <2> HIDE DEF e
  <2>2. Finish(s, h, <<e>>) \in States(D, requests)
    BY <1>1, <1>2, FinishIs, Zenon DEF HasParts
  <2>3. Good(Finish(s, h, <<e>>), requests, 0)
    BY <1>2, <1>8, FirstEnds
  <2> QED
    BY <2>1, <2>2, <2>3, Zenon
<1>9. CASE c.kind = "pack" /\ Len(c.got) + 1 = Len(c.cmds)
  <2>1. Len(c.got) + 1 >= Len(c.cmds)
    BY <1>1, <1>9
  <2>2. reply(s, h, pos) = Finish(t, h, t.ctxs[h].got)
    BY <1>9, <2>1, Zenon DEF reply, all
  <2>3. t.ctxs[h].got = all
    BY <1>7
  <2>4. reply(s, h, pos) = Finish(t, h, all)
    BY <2>2, <2>3, Zenon
  <2>5. PackAnswered(c.cmds, all)
    <3>1. all = Append(c.got, [pos |-> Len(c.got) + 1, ok |-> TRUE])
      BY DEF all
    <3> HIDE DEF c
    <3> QED
      BY <1>1, <1>5, <1>9, <3>1, SuccessAnswers, Zenon
  <2>6. Len(all) <= Len(c.cmds)
    BY <1>1, <1>3, <1>9
  <2>7. Good(Finish(t, h, all), requests, 0)
    BY <1>3, <1>9, <2>5, <2>6, PackEnds, Zenon
  <2>8. t \in States(D, requests)
    BY <1>6, Zenon DEF HasParts
  <2>9. Finish(t, h, all) \in States(D, requests)
    <3> HIDE DEF t
    <3> QED
      BY <1>1, <1>3, <2>8, FinishIs, Zenon DEF HasParts
  <2> QED
    BY <2>4, <2>7, <2>9, Zenon
<1>10. CASE c.kind = "pack" /\ Len(c.got) + 1 # Len(c.cmds)
  <2>1. ~(Len(c.got) + 1 >= Len(c.cmds)) /\ Len(c.got) + 1 < Len(c.cmds)
    BY <1>1, <1>5, <1>10
  <2>2. reply(s, h, pos) = nextOfPack(t, h)
    BY <1>10, <2>1, Zenon DEF reply, all
  <2>3. t \in States(D, requests) /\ Busy(t, requests, h)
    BY <1>10, <2>1, GotStep, Zenon DEF all
  <2> HIDE DEF t
  <2>4. /\ nextOfPack(t, h) \in States(D, requests)
        /\ Good(nextOfPack(t, h), requests, 0)
    BY <2>3, HandleStep, Zenon DEF nextOfPack
  <2> QED
    BY <2>2, <2>4, Zenon
<1> QED
  BY <1>8, <1>9, <1>10

\* The object read that found nothing is replied to twice.
LEMMA EmptyObjectStep ==
  ASSUME NEW D \in SUBSET (Nat \ {0}), NEW requests \in Seq(Requests),
         NEW s \in States(D, requests), NEW h, Busy(s, requests, h),
         NEW pos, pos = Len(s.ctxs[h].got) + 1, s.ctxs[h].cmds[pos] = "object"
  PROVE  /\ reply(fail(s, h, pos), h, pos) \in States(D, requests)
         /\ Good(reply(fail(s, h, pos), h, pos), requests, 0)
<1> DEFINE c == s.ctxs[h]
           no == [pos |-> pos, ok |-> FALSE]
           yes == [pos |-> pos, ok |-> TRUE]
           t == Finish(s, h, <<no>>)
<1>1. h \in D /\ c \in Context /\ Progress(c) /\ Len(c.got) \in Nat /\ Len(c.cmds) \in Nat
  BY BusyFacts, Zenon
<1>2. s.ctxs \in [D -> Context] /\ Replies(c, requests, s.replies)
  BY BusyFacts, Zenon
<1>3. /\ s.replies \in [1..Len(requests) -> Seq(Seq(Entry))]
      /\ \A k \in DOMAIN s.pending : s.pending[k].handle # h
  BY BusyFacts, Zenon
<1>4. ~c.done
  BY DEF Busy
<1>5. c.kind # "pack"
  <2>1. pos \in DOMAIN c.cmds
    BY <1>1, <1>4 DEF Progress, Context
  <2> QED
    BY <1>1, <2>1 DEF Progress
<1>6. pos = 1 /\ c.cmds = <<"object">>
  <2>1. c.got = <<>> /\ Len(c.cmds) = 1
    BY <1>1, <1>5 DEF Progress
  <2>2. pos = 1
    BY <2>1
  <2>3. c.cmds \in Seq(Cmds) /\ c.cmds[1] = "object"
    BY <1>1, <2>2 DEF Context
  <2> QED
    BY <2>1, <2>2, <2>3
<1>7. <<no>> \in Seq(Entry) /\ <<yes>> \in Seq(Entry)
  <2>1. 1 \in Nat /\ TRUE \in BOOLEAN /\ FALSE \in BOOLEAN
    OBVIOUS
  <2> QED
    BY <1>6, <2>1, OneEntry, Zenon
<1>8. reply(s, h, pos) = Finish(s, h, <<yes>>)
  BY <1>5 DEF reply
<1>9. CASE c.kind = "msg"
  <2>1. fail(s, h, pos) = s
    BY <1>9 DEF fail
  <2>2. reply(s, h, pos) \in States(D, requests) /\ Good(reply(s, h, pos), requests, 0)
    BY ReplyStep
  <2> QED
    BY <2>1, <2>2, Zenon
<1>10. CASE c.kind # "msg"
  <2>1. fail(s, h, pos) = t
    BY <1>5, <1>10 DEF fail
  <2>2. Good(t, requests, 0)
    <3> HIDE DEF no
    <3> QED
      BY <1>5, <1>7, FirstEnds
  <2>3. HasParts(t, D, requests, [s.ctxs EXCEPT ![h] = Ended(@)], s.pending, SentTo(s.replies, c, <<no>>))
    BY <1>1, <1>7, FinishIs, Zenon
  <2> HIDE DEF t
  <2>4. /\ t \in States(D, requests) /\ t.ctxs[h] = Ended(c)
        /\ t.pending = s.pending /\ t.replies = SentTo(s.replies, c, <<no>>)
    BY <1>1, <1>2, <2>3 DEF HasParts
  <2>5. Ended(c).kind = c.kind /\ Ended(c).req = c.req /\ Ended(c).cmds = c.cmds
    BY <1>1 DEF Ended, Context
  <2>6. reply(t, h, pos) = Finish(t, h, <<yes>>)
    BY <1>5, <2>4, <2>5 DEF reply
  <2>7. Answering(t.ctxs[h]) =>
          Answered(requests[t.ctxs[h].req], Append(t.replies[t.ctxs[h].req], <<yes>>))
    <3> SUFFICES ASSUME Answering(c)
                 PROVE  Answered(requests[c.req], Append(t.replies[c.req], <<yes>>))
      BY <2>4, <2>5 DEF Answering
    <3>1. /\ c.req \in DOMAIN requests /\ requests[c.req].cmds = <<"object">>
          /\ requests[c.req].what # "pack" /\ s.replies[c.req] = <<>>
      BY <1>2, <1>4, <1>5, <1>6 DEF Replies
    <3>2. c.req \in DOMAIN s.replies
      BY <1>3, <3>1
    <3>3. t.replies[c.req] = Append(<<>>, <<no>>)
      BY <2>4, <3>1, <3>2 DEF SentTo
    <3>4. Append(Append(<<>>, <<no>>), <<yes>>) = <<<<no>>, <<yes>>>>
      <4>1. ASSUME NEW x, NEW y PROVE Append(Append(<<>>, x), y) = <<x, y>>
        <5>1. Append(<<>>, x) = <<x>>
          OBVIOUS
        <5>2. <<x>> \in Seq({x, y}) /\ Len(<<x>>) = 1 /\ <<x>>[1] = x
          OBVIOUS
        <5>3. ASSUME NEW z, z = Append(<<x>>, y) PROVE z = <<x, y>>
          <6>1. z \in Seq({x, y}) /\ Len(z) = 2 /\ z[1] = x /\ z[2] = y
            BY <5>2, <5>3
          <6> HIDE <5>3
          <6> QED
            BY <6>1
        <5> QED
          BY <5>1, <5>3
      <4> QED
        BY <4>1, Zenon
    <3>5. Append(t.replies[c.req], <<yes>>) = <<<<no>>, <<yes>>>>
      BY <3>3, <3>4, Zenon
    <3>6. no = [pos |-> 1, ok |-> FALSE] /\ yes = [pos |-> 1, ok |-> TRUE]
      BY <1>6
    <3> HIDE DEF no, yes
    <3> QED
      BY <3>1, <3>5, <3>6, Zenon DEF Answered
  <2>8. t.ctxs[h].kind # "pack" /\ \A k \in DOMAIN t.pending : t.pending[k].handle # h
    BY <1>3, <1>5, <2>4, <2>5
  <2>9. 0 \in {0, h}
    OBVIOUS
  <2>10. Good(Finish(t, h, <<yes>>), requests, 0)
    <3> HIDE DEF yes
    <3> QED
      BY <1>1, <1>7, <2>2, <2>4, <2>7, <2>8, <2>9, OtherEnds, Zenon
  <2>11. Finish(t, h, <<yes>>) \in States(D, requests)
    BY <1>1, <1>7, <2>4, FinishIs, Zenon DEF HasParts
  <2> QED
    BY <2>1, <2>6, <2>10, <2>11, Zenon
<1> QED
  BY <1>9, <1>10

\* The callback of the command a busy context waits for.
LEMMA CallbackStep ==
  ASSUME NEW D \in SUBSET (Nat \ {0}), NEW requests \in Seq(Requests),
         NEW s \in States(D, requests), NEW p, Busy(s, requests, p.handle),
         p.pos = Len(s.ctxs[p.handle].got) + 1, p.cmd = s.ctxs[p.handle].cmds[p.pos],
         NEW what
  PROVE  callback(s, p, what) \in States(D, requests) /\ Good(callback(s, p, what), requests, 0)
<1> DEFINE h == p.handle
<1>1. reply(s, h, p.pos) \in States(D, requests) /\ Good(reply(s, h, p.pos), requests, 0)
  BY ReplyStep
<1>2. fail(s, h, p.pos) \in States(D, requests) /\ Good(fail(s, h, p.pos), requests, 0)
  <2>1. h \in D /\ p.pos \in Nat
    <3>1. h \in D /\ Len(s.ctxs[h].got) \in Nat
      BY BusyFacts, Zenon
    <3> QED
      BY <3>1
  <2> QED
    BY <2>1, FailTyped, FailStep, Zenon
<1>3. p.cmd = "object" =>
        /\ reply(fail(s, h, p.pos), h, p.pos) \in States(D, requests)
        /\ Good(reply(fail(s, h, p.pos), h, p.pos), requests, 0)
  BY EmptyObjectStep
<1>4. \/ callback(s, p, what) = reply(s, h, p.pos)
      \/ callback(s, p, what) = fail(s, h, p.pos)
      \/ p.cmd = "object" /\ callback(s, p, what) = reply(fail(s, h, p.pos), h, p.pos)
  BY DEF callback
<1> QED
  BY <1>1, <1>2, <1>3, <1>4, Zenon

\* The context of p waits for p, which is pending no more.
IsTakenOff(t, D, requests, p) ==
  /\ t \in States(D, requests) /\ Busy(t, requests, p.handle)
  /\ p.pos = Len(t.ctxs[p.handle].got) + 1 /\ p.cmd = t.ctxs[p.handle].cmds[p.pos]

\* The oldest command is taken off the list for its callback.
LEMMA TakeOffStep ==
  ASSUME NEW D \in SUBSET (Nat \ {0}), NEW requests \in Seq(Requests),
         NEW s \in States(D, requests), Good(s, requests, 0), s.pending # <<>>,
         NEW p, p = Head(s.pending), NEW t, t = [s EXCEPT !.pending = Tail(@)]
  PROVE  IsTakenOff(t, D, requests, p)
<1> DEFINE n == Len(s.pending)
<1>1. s.ctxs \in [D -> Context] /\ s.pending \in Seq(Command) /\ DOMAIN s.ctxs = D
  BY DEF States
<1>2. /\ n \in Nat /\ n >= 1 /\ 1 \in 1..n /\ p = s.pending[1] /\ Tail(s.pending) \in Seq(Command)
      /\ Len(Tail(s.pending)) = n - 1
      /\ \A i \in 1..(n - 1) : i + 1 \in 1..n /\ Tail(s.pending)[i] = s.pending[i + 1]
  BY <1>1, HeadAndTail
<1>3. DOMAIN s.pending = 1..n /\ DOMAIN Tail(s.pending) = 1..(n - 1)
  BY <1>1, <1>2
<1>4. t \in States(D, requests)
  <2>1. ASSUME NEW waiting \in Seq(Command)
        PROVE  [s EXCEPT !.pending = waiting] \in States(D, requests)
    BY DEF States
  <2> QED
    BY <1>2, <2>1
<1>5. t.ctxs = s.ctxs /\ t.replies = s.replies /\ t.pending = Tail(s.pending)
  BY DEF States
<1>6. Contexts(s.ctxs, requests, s.replies) /\ Commands(s.ctxs, s.pending, 0)
  BY DEF Good
<1> HIDE DEF n
<1>7. Awaited(p, s.ctxs, 0)
  BY <1>2, <1>3, <1>6 DEF Commands
<1>8. ASSUME NEW i \in 1..(n - 1)
      PROVE  t.pending[i] = s.pending[i + 1] /\ i + 1 \in DOMAIN s.pending /\ i + 1 # 1
  BY <1>2, <1>3, <1>5
<1>9. \A i \in 1..(n - 1) : t.pending[i].handle # p.handle
  BY <1>2, <1>3, <1>6, <1>8 DEF Commands
<1>10. Commands(t.ctxs, t.pending, p.handle)
  <2>1. \A i \in DOMAIN t.pending : Awaited(t.pending[i], s.ctxs, p.handle)
    <3> SUFFICES ASSUME NEW i \in 1..(n - 1) PROVE Awaited(t.pending[i], s.ctxs, p.handle)
      BY <1>3, <1>5
    <3>1. Awaited(s.pending[i + 1], s.ctxs, 0)
      BY <1>6, <1>8 DEF Commands
    <3> QED
      BY <1>8, <1>9, <3>1 DEF Awaited
  <2>2. ASSUME NEW i \in 1..(n - 1), NEW j \in 1..(n - 1), t.pending[i].handle = t.pending[j].handle
        PROVE  i = j
    <3>1. /\ i + 1 \in DOMAIN s.pending /\ j + 1 \in DOMAIN s.pending
          /\ s.pending[i + 1].handle = s.pending[j + 1].handle
      BY <1>8, <2>2
    <3>2. i + 1 = j + 1
      BY <1>6, <3>1, Zenon DEF Commands
    <3> QED
      BY <1>2, <3>2
  <2>3. ASSUME NEW g \in D, ~s.ctxs[g].done, s.ctxs[g].kind # "msg", g # p.handle
        PROVE  \E i \in DOMAIN t.pending : t.pending[i].handle = g
    <3>0. g # 0
      OBVIOUS
    <3>1. PICK k \in DOMAIN s.pending : s.pending[k].handle = g
      BY <1>1, <1>6, <2>3, <3>0 DEF Commands
    <3>2. k # 1 /\ k - 1 \in 1..(n - 1)
      BY <1>2, <1>3, <2>3, <3>1
    <3>3. t.pending[k - 1] = s.pending[(k - 1) + 1]
      BY <1>8, <3>2
    <3>4. (k - 1) + 1 = k
      BY <1>3
    <3> QED
      BY <1>3, <1>5, <3>1, <3>2, <3>3, <3>4
  <2> QED
    BY <1>1, <1>3, <1>5, <2>1, <2>2, <2>3 DEF Commands
<1> QED
  BY <1>4, <1>5, <1>6, <1>7, <1>10 DEF Busy, Good, Awaited, IsTakenOff

\* Removing the contexts that are done leaves nothing that is pending without one.
LEMMA ClearStep ==
  ASSUME NEW D, NEW requests, NEW s \in States(D, requests), Good(s, requests, 0)
  PROVE  \E E \in SUBSET D : /\ clearDone(s) \in States(E, requests)
                             /\ Good(clearDone(s), requests, 0)
<1> DEFINE E == {h \in D : ~s.ctxs[h].done}
           cs == [h \in E |-> s.ctxs[h]]
           t == [s EXCEPT !.ctxs = cs]
<1>1. s.ctxs \in [D -> Context] /\ DOMAIN s.ctxs = D
  BY DEF States
<1>2. {h \in DOMAIN s.ctxs : ~Done(s.ctxs[h])} = E
  BY <1>1 DEF Done
<1>3. clearDone(s) = t
  BY <1>2 DEF clearDone, Restrict
<1>4. cs \in [E -> Context]
  BY <1>1
<1>5. /\ DOMAIN cs = E /\ E \in SUBSET D
      /\ \A h \in E : cs[h] = s.ctxs[h] /\ ~s.ctxs[h].done
      /\ \A h \in D : ~s.ctxs[h].done => h \in E
  OBVIOUS
<1> HIDE DEF cs, E
<1>6. t \in States(E, requests)
  BY <1>4 DEF States
<1>7. t.ctxs = cs /\ t.pending = s.pending /\ t.replies = s.replies
  BY DEF States
<1> HIDE DEF t
<1>8. Contexts(s.ctxs, requests, s.replies) /\ Commands(s.ctxs, s.pending, 0)
  BY DEF Good
<1>9. Contexts(cs, requests, s.replies)
  BY <1>1, <1>5, <1>8 DEF Contexts
<1>10. Commands(cs, s.pending, 0)
  <2>1. \A k \in DOMAIN s.pending : Awaited(s.pending[k], cs, 0)
    <3> SUFFICES ASSUME NEW k \in DOMAIN s.pending PROVE Awaited(s.pending[k], cs, 0)
      OBVIOUS
    <3>1. Awaited(s.pending[k], s.ctxs, 0)
      BY <1>8 DEF Commands
    <3> QED
      BY <1>1, <1>5, <3>1 DEF Awaited
  <2>2. \A h \in E : ~cs[h].done /\ cs[h].kind # "msg" /\ h # 0 =>
          \E k \in DOMAIN s.pending : s.pending[k].handle = h
    BY <1>1, <1>5, <1>8 DEF Commands
  <2> QED
    BY <1>5, <1>8, <2>1, <2>2 DEF Commands
<1>11. Good(t, requests, 0)
  BY <1>7, <1>9, <1>10, Zenon DEF Good
<1> QED
  BY <1>3, <1>5, <1>6, <1>11, Zenon

\* g is f with x at its end, both functions on the first numbers.
LongerBy(g, f, m, x, S) ==
  g \in [1..(m + 1) -> S] /\ g[m + 1] = x /\ \A i \in 1..m : g[i] = f[i]

\* Append, of a sequence that is known as a function.
LEMMA OneLonger ==
  ASSUME NEW S, NEW m \in Nat, NEW f \in [1..m -> S], NEW x \in S
  PROVE  LongerBy(Append(f, x), f, m, x, S)
<1>1. f \in Seq(S)
  OBVIOUS
<1>2. Len(f) = m
  BY <1>1
<1>3. Append(f, x) \in Seq(S) /\ Len(Append(f, x)) = m + 1
  BY <1>1, <1>2
<1>4. Append(f, x)[m + 1] = x /\ \A i \in 1..m : Append(f, x)[i] = f[i]
  BY <1>1, <1>2
<1>5. ASSUME NEW g \in Seq(S), Len(g) = m + 1 PROVE g \in [1..(m + 1) -> S]
  BY <1>5
<1> QED
  BY <1>3, <1>4, <1>5 DEF LongerBy

\* q is the last request of more, without a reply or a context.
HasAsked(t, D, requests, more, q) ==
  /\ more \in Seq(Requests) /\ t \in States(D, more) /\ Good(t, more, 0)
  /\ Len(requests) + 1 \in DOMAIN more /\ more[Len(requests) + 1] = q
  /\ t.replies[Len(requests) + 1] = <<>>
  /\ \A g \in D : Answering(t.ctxs[g]) => t.ctxs[g].req # Len(requests) + 1

\* A new request has no reply, and no context replies to it yet.
LEMMA AskStep ==
  ASSUME NEW D, NEW requests \in Seq(Requests), NEW s \in States(D, requests),
         Good(s, requests, 0), NEW q \in Requests,
         NEW more, more = Append(requests, q),
         NEW t, t = [s EXCEPT !.replies = Append(@, <<>>)]
  PROVE  HasAsked(t, D, requests, more, q)
<1> DEFINE n == Len(requests)
           sent == Append(s.replies, <<>>)
<1>1. /\ s.ctxs \in [D -> Context] /\ DOMAIN s.ctxs = D
      /\ s.replies \in [1..n -> Seq(Seq(Entry))] /\ n \in Nat
  BY DEF States
<1>2. /\ more \in Seq(Requests) /\ Len(more) = n + 1 /\ DOMAIN requests = 1..n
      /\ DOMAIN more = 1..(n + 1) /\ more[n + 1] = q /\ \A i \in 1..n : more[i] = requests[i]
  OBVIOUS
<1>3. /\ sent \in [1..(n + 1) -> Seq(Seq(Entry))]
      /\ sent[n + 1] = <<>> /\ \A i \in 1..n : sent[i] = s.replies[i]
  <2>1. <<>> \in Seq(Seq(Entry))
    OBVIOUS
  <2>2. LongerBy(Append(s.replies, <<>>), s.replies, n, <<>>, Seq(Seq(Entry)))
    BY <1>1, <2>1, OneLonger, Zenon
  <2> QED
    BY <2>2 DEF LongerBy
<1> HIDE DEF sent
<1>4. t \in States(D, more)
  BY <1>2, <1>3 DEF sent, States
<1>5. t.ctxs = s.ctxs /\ t.pending = s.pending /\ t.replies = sent
  BY DEF sent, States
<1>6. Contexts(s.ctxs, requests, s.replies) /\ Commands(s.ctxs, s.pending, 0)
  BY DEF Good
<1> HIDE DEF n
<1>7. \A i \in 1..(n + 1) : i \in 1..n \/ i = n + 1
  BY <1>1
<1>8. n + 1 \notin 1..n /\ n + 1 \in 1..(n + 1) /\ \A i \in 1..n : i \in 1..(n + 1)
  BY <1>1
<1>9. \A g \in D : Answering(s.ctxs[g]) => s.ctxs[g].req \in 1..n
  BY <1>1, <1>2, <1>6 DEF Contexts, Replies
<1>10. Contexts(s.ctxs, more, sent)
  <2>1. ASSUME NEW g \in D PROVE Progress(s.ctxs[g]) /\ Replies(s.ctxs[g], more, sent)
    <3>1. Progress(s.ctxs[g]) /\ Replies(s.ctxs[g], requests, s.replies)
      BY <1>1, <1>6 DEF Contexts
    <3> QED
      BY <1>2, <1>3, <1>8, <1>9, <3>1 DEF Replies
  <2>2. ASSUME NEW i \in DOMAIN sent PROVE Answered(more[i], sent[i])
    <3>1. CASE i \in 1..n
      BY <1>1, <1>2, <1>3, <1>6, <3>1 DEF Contexts
    <3>2. CASE i = n + 1
      <4>1. sent[i] = <<>>
        BY <1>3, <3>2
      <4>2. Len(<<>>) <= 1 /\ \A k : ~(k \in DOMAIN <<>>)
        OBVIOUS
      <4> QED
        BY <4>1, <4>2 DEF Answered
    <3>3. DOMAIN sent = 1..(n + 1)
      BY <1>3
    <3> QED
      BY <1>7, <3>1, <3>2, <3>3
  <2> QED
    BY <1>1, <1>6, <2>1, <2>2 DEF Contexts
<1>11. Good(t, more, 0)
  BY <1>5, <1>6, <1>10, Zenon DEF Good
<1> QED
  BY <1>2, <1>3, <1>4, <1>5, <1>8, <1>9, <1>11 DEF n, HasAsked

\* The handles in use are those given out so far.
GivenOut(D) == D \subseteq 1..(current - 1)

\* What create may be given: the kinds that reply do so to a request of their own.
Creatable(s, D, requests, kind, req, cmds) ==
  /\ kind \in {"simple", "pack", "msg", "noReply"}
  /\ req \in Nat
  /\ cmds \in Seq(Cmds) /\ Len(cmds) >= 1
  /\ kind # "pack" => Len(cmds) = 1
  /\ kind = "pack" => \A j \in DOMAIN cmds : cmds[j] # "object"
  /\ kind \in {"simple", "pack"} =>
       /\ req \in DOMAIN requests /\ cmds = requests[req].cmds
       /\ kind = "pack" <=> requests[req].what = "pack"
       /\ s.replies[req] = <<>>
       /\ \A g \in D : Answering(s.ctxs[g]) => s.ctxs[g].req # req

\* Its context is the one that was created, and busy.
Created(t, D, requests, cmds) ==
  /\ t \in States(D \cup {current}, requests) /\ Busy(t, requests, current)
  /\ t.ctxs[current].got = <<>> /\ t.ctxs[current].cmds = cmds

\* A new context is busy until its first command is handled.
LEMMA CreateStep ==
  ASSUME NEW D, GivenOut(D), current \in Nat \ {0}, NEW requests \in Seq(Requests),
         NEW s \in States(D, requests), Good(s, requests, 0),
         NEW kind, NEW req, NEW cmds, Creatable(s, D, requests, kind, req, cmds)
  PROVE  Created(create(s, kind, req, cmds), D, requests, cmds)
<1> DEFINE t == create(s, kind, req, cmds)
           c == [kind |-> kind, req |-> req, cmds |-> cmds, got |-> <<>>, done |-> FALSE]
           cs == [h \in D \cup {current} |-> IF h = current THEN c ELSE s.ctxs[h]]
<1>1. s.ctxs \in [D -> Context] /\ DOMAIN s.ctxs = D
  BY DEF States
<1>2. current \notin D /\ 0 \notin D /\ current # 0
  BY DEF GivenOut
<1>3. c \in Context
  <2>1. <<>> \in Seq(Entry)
    OBVIOUS
  <2> QED
    BY <2>1 DEF Creatable, Context
<1>4. /\ c.kind = kind /\ c.req = req /\ c.cmds = cmds /\ c.got = <<>> /\ c.done = FALSE
      /\ Len(c.got) = 0 /\ \A j : ~(j \in DOMAIN c.got)
  OBVIOUS
<1>5. t = [s EXCEPT !.ctxs = cs]
  BY <1>1 DEF create
<1> HIDE DEF c
<1>6. cs \in [D \cup {current} -> Context] /\ cs[current] = c /\ \A g \in D : cs[g] = s.ctxs[g]
  BY <1>1, <1>2, <1>3
<1>7. DOMAIN cs = D \cup {current}
  OBVIOUS
<1> HIDE DEF cs, t
<1>8. t \in States(D \cup {current}, requests)
  BY <1>5, <1>6 DEF States
<1>9. t.ctxs = cs /\ t.pending = s.pending /\ t.replies = s.replies
  BY <1>5 DEF States
<1>10. Contexts(s.ctxs, requests, s.replies) /\ Commands(s.ctxs, s.pending, 0)
  BY DEF Good
<1>11. Progress(c)
  BY <1>4 DEF Progress, Creatable
<1>12. Replies(c, requests, s.replies)
  BY <1>4 DEF Replies, Answering, Creatable
<1>13. Contexts(cs, requests, s.replies)
  <2>1. \A g \in D \cup {current} : Progress(cs[g]) /\ Replies(cs[g], requests, s.replies)
    BY <1>1, <1>6, <1>10, <1>11, <1>12 DEF Contexts
  <2>2. \A g \in D : Answering(s.ctxs[g]) /\ Answering(c) => s.ctxs[g].req # c.req
    BY <1>4 DEF Creatable, Answering
  <2>3. ASSUME NEW f \in D \cup {current}, NEW g \in D \cup {current},
               Answering(cs[f]), Answering(cs[g]), cs[f].req = cs[g].req
        PROVE  f = g
    BY <1>1, <1>6, <1>10, <2>2, <2>3 DEF Contexts
  <2> QED
    BY <1>7, <1>10, <2>1, <2>3 DEF Contexts
<1>14. Commands(cs, s.pending, current)
  <2>1. \A k \in DOMAIN s.pending : Awaited(s.pending[k], cs, current)
    <3> SUFFICES ASSUME NEW k \in DOMAIN s.pending PROVE Awaited(s.pending[k], cs, current)
      OBVIOUS
    <3>1. Awaited(s.pending[k], s.ctxs, 0)
      BY <1>10 DEF Commands
    <3> QED
      BY <1>1, <1>2, <1>6, <1>7, <3>1 DEF Awaited
  <2>2. ASSUME NEW g \in D \cup {current}, ~cs[g].done, cs[g].kind # "msg", g # current
        PROVE  \E k \in DOMAIN s.pending : s.pending[k].handle = g
    BY <1>1, <1>2, <1>6, <1>10, <2>2 DEF Commands
  <2> QED
    BY <1>7, <1>10, <2>1, <2>2 DEF Commands
<1>15. Busy(t, requests, current)
  BY <1>4, <1>6, <1>7, <1>9, <1>13, <1>14 DEF Busy, Good
<1> QED
  BY <1>4, <1>6, <1>8, <1>9, <1>15 DEF Created, t

\* Failing any of the contexts, in whatever order, keeps the types.
LEMMA FailAllTyped ==
  ASSUME NEW D, NEW requests, NEW s \in States(D, requests), NEW T \in SUBSET D, IsFiniteSet(T)
  PROVE  FoldSet(LAMBDA h, u : fail(u, h, Len(u.ctxs[h].got) + 1), s, T) \in States(D, requests)
<1> DEFINE W == States(D, requests)
           pick == [U \in SUBSET T |-> CHOOSE x \in U : TRUE]
           step == [xw \in T \X W |-> fail(xw[2], xw[1], Len(xw[2].ctxs[xw[1]].got) + 1)]
           Own(g) == g = [U \in SUBSET T |->
                            IF U = {} THEN s
                            ELSE fail(g[U \ {CHOOSE x \in U : TRUE}], CHOOSE x \in U : TRUE,
                                      Len(g[U \ {CHOOSE x \in U : TRUE}].ctxs[CHOOSE x \in U : TRUE].got) + 1)]
<1>1. FoldSet(LAMBDA h, u : fail(u, h, Len(u.ctxs[h].got) + 1), s, T) = (CHOOSE g : Own(g))[T]
  BY Zenon DEF FoldSet, MapThenFoldSet
<1>2. ASSUME NEW U \in SUBSET T, U # {}
      PROVE  pick[U] = (CHOOSE x \in U : TRUE) /\ pick[U] \in U /\ pick[U] \in T
  <2>1. (CHOOSE x \in U : TRUE) \in U
    BY <1>2
  <2> QED
    BY <2>1
<1>3. ASSUME NEW x \in T, NEW w \in W
      PROVE  step[<<x, w>>] = fail(w, x, Len(w.ctxs[x].got) + 1) /\ step[<<x, w>>] \in W
  <2>1. step[<<x, w>>] = fail(w, x, Len(w.ctxs[x].got) + 1)
    BY <1>3
  <2>2. w.ctxs[x] \in Context /\ x \in D
    BY DEF States
  <2>3. Len(w.ctxs[x].got) + 1 \in Nat
    BY <2>2 DEF Context
  <2>4. fail(w, x, Len(w.ctxs[x].got) + 1) \in W
    BY <2>2, <2>3, FailTyped, Zenon
  <2> QED
    BY <2>1, <2>4, Zenon
<1> HIDE DEF pick, step, W
<1>4. PICK f \in [SUBSET T -> W] : IsFold(f, T, pick, s, step)
  <2>1. Picks(pick, T) /\ StaysIn(step, T, W)
    BY <1>2, <1>3 DEF Picks, StaysIn
  <2>2. s \in W
    BY DEF W
  <2> QED
    BY <2>1, <2>2, FoldExists, Zenon
<1>5. Own(f)
  <2>1. ASSUME NEW U \in SUBSET T, U # {}
        PROVE  f[U] = fail(f[U \ {pick[U]}], pick[U], Len(f[U \ {pick[U]}].ctxs[pick[U]].got) + 1)
    <3>1. pick[U] \in T /\ f[U \ {pick[U]}] \in W
      BY <1>2, <2>1
    <3>2. f[U] = step[<<pick[U], f[U \ {pick[U]}]>>]
      BY <1>4, <2>1 DEF IsFold
    <3> QED
      BY <1>3, <3>1, <3>2
  <2>2. f[{}] = s
    BY <1>4 DEF IsFold
  <2> QED
    BY <1>2, <2>1, <2>2
<1> PICK g : g = (CHOOSE h : Own(h))
  OBVIOUS
<1>6. Own(g)
  <2> HIDE DEF Own
  <2> QED
    BY <1>5
<1>7. \A U \in SUBSET T : g[U] \in W
  <2> DEFINE P == {U \in SUBSET T : g[U] \in W}
  <2>1. {} \in P
    <3>1. g[{}] = s
      BY <1>6
    <3> QED
      BY <3>1 DEF W
  <2>2. ASSUME NEW U \in SUBSET T, U # {}, U \ {pick[U]} \in P PROVE U \in P
    <3>1. pick[U] \in T /\ pick[U] = (CHOOSE x \in U : TRUE) /\ g[U \ {pick[U]}] \in W
      BY <1>2, <2>2
    <3>2. g[U] = fail(g[U \ {pick[U]}], pick[U], Len(g[U \ {pick[U]}].ctxs[pick[U]].got) + 1)
      BY <1>6, <2>2, <3>1
    <3> QED
      BY <1>3, <3>1, <3>2
  <2> HIDE DEF P
  <2>3. Picks(pick, T)
    BY <1>2 DEF Picks
  <2>4. Inductive(P, T, pick)
    BY <2>1, <2>2 DEF Inductive
  <2>5. SUBSET T \subseteq P
    BY <2>3, <2>4, SubsetsInduct, Zenon
  <2> QED
    BY <2>5 DEF P
<1> QED
  BY <1>1, <1>7 DEF W
----------------------------------------------------------------------------
(* The handlers. *)

\* A handler that puts down a good state keeps the invariant.
LEMMA AssignStep ==
  ASSUME NEW E, E \subseteq 1..(current' - 1), asked' \in Seq(Requests),
         NEW t \in States(E, asked'), Assign(t),
         role' \in {"consumer", "producer"},
         link' \in {"connecting", "up", "closing", "crashed", "threw"},
         current' \in 1..(MaxContexts + 1),
         Running' => Good(t, asked', 0)
  PROVE  CacheInvariant'
<1>1. ctxs' = t.ctxs /\ pending' = t.pending /\ replies' = t.replies
  BY DEF Assign
<1>2. t.ctxs \in [E -> Context] /\ DOMAIN ctxs' = E
  BY <1>1 DEF States
<1>3. State' \in States(DOMAIN ctxs', asked')
  BY <1>1, <1>2 DEF State, States
<1>4. Good(t, asked', 0) => Good(State', asked', 0)
  BY <1>1 DEF Good, State
<1> QED
  BY <1>2, <1>3, <1>4 DEF CacheInvariant, Good

\* What the handlers find.
LEMMA HandlerFacts ==
  ASSUME CacheInvariant
  PROVE  /\ asked \in Seq(Requests) /\ current \in Nat \ {0} /\ current \in 1..(MaxContexts + 1)
         /\ State \in States(DOMAIN ctxs, asked)
         /\ GivenOut(DOMAIN ctxs) /\ DOMAIN ctxs \in SUBSET (Nat \ {0})
         /\ role \in {"consumer", "producer"}
         /\ Alive \/ link = "closing" => Good(State, asked, 0)
<1>1. current \in Nat \ {0}
  BY CacheAssumption DEF CacheInvariant
<1>2. DOMAIN ctxs \in SUBSET (Nat \ {0})
  BY <1>1 DEF CacheInvariant
<1> QED
  BY <1>1, <1>2 DEF CacheInvariant, Running, Alive, GivenOut

\* A new context and its first command.
LEMMA NewContextStep ==
  ASSUME current \in Nat \ {0}, NEW D, GivenOut(D), D \in SUBSET (Nat \ {0}),
         NEW requests \in Seq(Requests), NEW s \in States(D, requests), Good(s, requests, 0),
         NEW kind, NEW req, NEW cmds, Creatable(s, D, requests, kind, req, cmds),
         NEW cmd, cmd = cmds[1],
         NEW t, t = handleCommand(create(s, kind, req, cmds), current, 1, cmd)
  PROVE  \E E : /\ E \subseteq 1..current /\ E \in SUBSET (Nat \ {0})
                /\ t \in States(E, requests) /\ Good(t, requests, 0)
<1> DEFINE u == create(s, kind, req, cmds)
           E == D \cup {current}
<1>1. /\ u \in States(E, requests) /\ Busy(u, requests, current)
      /\ u.ctxs[current].got = <<>> /\ u.ctxs[current].cmds = cmds
  <2>1. Created(u, D, requests, cmds)
    BY CreateStep, Zenon
  <2> QED
    BY <2>1, Zenon DEF Created
<1>2. E \subseteq 1..current /\ E \in SUBSET (Nat \ {0})
  BY DEF GivenOut
<1> HIDE DEF u, E
<1>3. 1 = Len(u.ctxs[current].got) + 1 /\ cmd = u.ctxs[current].cmds[1]
  BY <1>1
<1>4. t \in States(E, requests) /\ Good(t, requests, 0)
  BY <1>1, <1>2, <1>3, HandleStep, Zenon DEF u
<1> QED
  BY <1>2, <1>4

\* A command or a pack.
LEMMA OnCommandStep ==
  ASSUME CacheInvariant, NEW q \in Requests, onCommand(q)
  PROVE  CacheInvariant'
<1> DEFINE D == DOMAIN ctxs
           n == Len(asked)
           s == [State EXCEPT !.replies = Append(@, <<>>)]
           more == Append(asked, q)
<1>1. /\ asked \in Seq(Requests) /\ current \in Nat \ {0} /\ State \in States(D, asked)
      /\ GivenOut(D) /\ D \in SUBSET (Nat \ {0}) /\ role \in {"consumer", "producer"}
  BY HandlerFacts
<1>2. /\ Good(State, asked, 0) /\ asked' = more /\ current' = current + 1
      /\ current <= MaxContexts /\ role' = role
  BY HandlerFacts DEF onCommand, conn
<1>3. current' \in 1..(MaxContexts + 1) /\ current' - 1 = current
  BY <1>1, <1>2, CacheAssumption
<1>4. n \in Nat
  BY <1>1
<1>5. /\ more \in Seq(Requests) /\ s \in States(D, more) /\ Good(s, more, 0)
      /\ n + 1 \in DOMAIN more /\ more[n + 1] = q
      /\ s.replies[n + 1] = <<>>
      /\ \A g \in D : Answering(s.ctxs[g]) => s.ctxs[g].req # n + 1
  <2>1. HasAsked(s, D, asked, more, q)
    BY <1>1, <1>2, AskStep, Zenon
  <2> HIDE DEF s, more
  <2> QED
    BY <2>1, Zenon DEF HasAsked
<1>6. CASE Throws(q)
  <2>1. link' = "threw" /\ Assign(s)
    BY <1>6 DEF onCommand, Assign, State
  <2> HIDE DEF s, more
  <2>2. ~Running'
    BY <2>1 DEF Running
  <2>3. D \subseteq 1..(current' - 1) /\ s \in States(D, asked') /\ asked' \in Seq(Requests)
    BY <1>1, <1>2, <1>3, <1>5 DEF GivenOut
  <2> HIDE DEF D
  <2> QED
    BY <1>1, <1>2, <1>3, <2>1, <2>2, <2>3, AssignStep
<1>7. CASE ~Throws(q)
  <2> DEFINE kind == KindOf(q)
             req == IF kind = "msg" THEN 0 ELSE n + 1
             t == handleCommand(create(s, kind, req, q.cmds), current, 1, q.cmds[1])
  <2>1. Assign(clearDone(t)) /\ link' = link
    BY <1>7, Zenon DEF onCommand, conn, start
  <2> HIDE DEF s, more
  <2>2. /\ q.cmds \in Seq(Cmds) /\ q.what \in {"command", "pack", "trigger"}
        /\ Len(q.cmds) >= 1 /\ (q.what # "pack" => Len(q.cmds) = 1)
    BY CacheAssumption DEF Request
  <2>3. kind \in {"simple", "pack", "msg"} /\ (kind = "pack" <=> q.what = "pack")
    BY <2>2 DEF KindOf
  <2>4. kind = "pack" => \A j \in DOMAIN q.cmds : q.cmds[j] # "object"
    BY <1>7, <2>3 DEF Throws
  <2>5. req \in Nat /\ (kind # "msg" => req = n + 1)
    BY <1>4
  <2> HIDE DEF kind, req
  <2>6. Creatable(s, D, more, kind, req, q.cmds)
    <3>1. kind \in {"simple", "pack"} =>
            /\ req \in DOMAIN more /\ q.cmds = more[req].cmds
            /\ kind = "pack" <=> more[req].what = "pack"
            /\ s.replies[req] = <<>>
            /\ \A g \in D : Answering(s.ctxs[g]) => s.ctxs[g].req # req
      <4> HIDE DEF n, D
      <4> QED
        BY <1>5, <2>3, <2>5
    <3> QED
      BY <2>2, <2>3, <2>4, <2>5, <3>1 DEF Creatable
  <2> HIDE DEF n, D
  <2>7. PICK E : /\ E \subseteq 1..current /\ E \in SUBSET (Nat \ {0})
                 /\ t \in States(E, more) /\ Good(t, more, 0)
    BY <1>1, <1>5, <2>6, NewContextStep, Zenon
  <2> HIDE DEF t
  <2>8. PICK F \in SUBSET E : clearDone(t) \in States(F, more) /\ Good(clearDone(t), more, 0)
    BY <2>7, ClearStep
  <2>9. link' \in {"connecting", "up", "closing", "crashed", "threw"}
    BY <2>1 DEF CacheInvariant
  <2>10. F \subseteq 1..(current' - 1)
    BY <1>3, <2>7
  <2> QED
    BY <1>1, <1>2, <1>3, <1>5, <2>1, <2>8, <2>9, <2>10, AssignStep
<1> QED
  BY <1>6, <1>7

\* A message that a producer writes.
LEMMA OnMsgStep ==
  ASSUME CacheInvariant, onMsg
  PROVE  CacheInvariant'
<1> DEFINE D == DOMAIN ctxs
           s == clearDone(State)
           t == handleCommand(create(s, "noReply", 0, <<"write">>), current, 1, "write")
<1>1. /\ asked \in Seq(Requests) /\ current \in Nat \ {0} /\ State \in States(D, asked)
      /\ GivenOut(D) /\ D \in SUBSET (Nat \ {0}) /\ role \in {"consumer", "producer"}
  BY HandlerFacts
<1>2. /\ Good(State, asked, 0) /\ asked' = asked /\ current' = current + 1
      /\ current <= MaxContexts /\ role' = role /\ link' = link /\ Assign(t)
  BY HandlerFacts DEF onMsg, conn
<1>3. current' \in 1..(MaxContexts + 1) /\ current' - 1 = current
  BY <1>1, <1>2, CacheAssumption
<1>4. PICK E \in SUBSET D : s \in States(E, asked) /\ Good(s, asked, 0)
  BY <1>1, <1>2, ClearStep
<1>5. GivenOut(E) /\ E \in SUBSET (Nat \ {0})
  BY <1>1 DEF GivenOut
<1> HIDE DEF s
<1>6. Creatable(s, E, asked, "noReply", 0, <<"write">>)
  <2>1. <<"write">> \in Seq(Cmds) /\ Len(<<"write">>) = 1
    BY DEF Cmds, Writes
  <2> QED
    BY <2>1 DEF Creatable
<1>7. "write" = <<"write">>[1]
  OBVIOUS
<1>8. PICK F : /\ F \subseteq 1..current /\ F \in SUBSET (Nat \ {0})
               /\ t \in States(F, asked) /\ Good(t, asked, 0)
  BY <1>1, <1>4, <1>5, <1>6, <1>7, NewContextStep, Zenon
<1> HIDE DEF t
<1>9. link' \in {"connecting", "up", "closing", "crashed", "threw"}
  BY <1>2 DEF CacheInvariant
<1> QED
  BY <1>1, <1>2, <1>3, <1>8, <1>9, AssignStep

\* The periodic read of an object.
LEMMA PeriodicReadStep ==
  ASSUME CacheInvariant, requestObjectSimple
  PROVE  CacheInvariant'
<1> DEFINE D == DOMAIN ctxs
           t == handleCommand(create(State, "msg", 0, <<"object">>), current, 1, "object")
<1>1. /\ asked \in Seq(Requests) /\ current \in Nat \ {0} /\ State \in States(D, asked)
      /\ GivenOut(D) /\ D \in SUBSET (Nat \ {0}) /\ role \in {"consumer", "producer"}
  BY HandlerFacts
<1>2. /\ Good(State, asked, 0) /\ asked' = asked /\ current' = current + 1
      /\ current <= MaxContexts /\ role' = role /\ link' = link /\ Assign(t)
  BY HandlerFacts DEF requestObjectSimple, conn, Alive
<1>3. current' \in 1..(MaxContexts + 1) /\ current' - 1 = current
  BY <1>1, <1>2, CacheAssumption
<1>4. Creatable(State, D, asked, "msg", 0, <<"object">>)
  <2>1. <<"object">> \in Seq(Cmds) /\ Len(<<"object">>) = 1
    BY DEF Cmds, Reads
  <2> QED
    BY <2>1 DEF Creatable
<1>5. "object" = <<"object">>[1]
  OBVIOUS
<1>6. PICK F : /\ F \subseteq 1..current /\ F \in SUBSET (Nat \ {0})
               /\ t \in States(F, asked) /\ Good(t, asked, 0)
  BY <1>1, <1>2, <1>4, <1>5, NewContextStep, Zenon
<1> HIDE DEF t
<1>7. link' \in {"connecting", "up", "closing", "crashed", "threw"}
  BY <1>2 DEF CacheInvariant
<1> QED
  BY <1>1, <1>2, <1>3, <1>6, <1>7, AssignStep

\* A callback.
LEMMA CallNextStep ==
  ASSUME CacheInvariant, NEW what, link \in {"up", "closing"}, CallNext(what)
  PROVE  CacheInvariant'
<1> DEFINE D == DOMAIN ctxs
           s == [State EXCEPT !.pending = Tail(@)]
           p == Head(pending)
           t == callback(s, p, what)
<1>1. /\ asked \in Seq(Requests) /\ State \in States(D, asked) /\ D \in SUBSET (Nat \ {0})
      /\ GivenOut(D)
  BY HandlerFacts
<1>2. Good(State, asked, 0)
  BY HandlerFacts DEF Alive
<1>3. pending # <<>> /\ Assign(t) /\ UNCHANGED <<role, link, asked, current>>
  BY DEF CallNext, conn
<1>4. State.pending = pending
  BY DEF State
<1>5. /\ s \in States(D, asked) /\ Busy(s, asked, p.handle)
      /\ p.pos = Len(s.ctxs[p.handle].got) + 1 /\ p.cmd = s.ctxs[p.handle].cmds[p.pos]
  <2>1. IsTakenOff(s, D, asked, p)
    BY <1>1, <1>2, <1>3, <1>4, TakeOffStep, Zenon
  <2> HIDE DEF s, p
  <2> QED
    BY <2>1, Zenon DEF IsTakenOff
<1> HIDE DEF s, p
<1>6. t \in States(D, asked) /\ Good(t, asked, 0)
  BY <1>1, <1>5, CallbackStep, Zenon
<1>7. D \subseteq 1..(current' - 1)
  BY <1>1, <1>3 DEF GivenOut
<1> HIDE DEF t, D
<1> QED
  BY <1>3, <1>6, <1>7, AssignStep DEF CacheInvariant

\* The program ends in onDisconnect, with the types of its state intact.
LEMMA OnDisconnectStep ==
  ASSUME CacheInvariant, onDisconnect
  PROVE  CacheInvariant'
<1> DEFINE D == DOMAIN ctxs
<1>1. asked \in Seq(Requests) /\ State \in States(D, asked) /\ GivenOut(D)
  BY HandlerFacts
<1>2. PICK first : Assign(FoldSet(LAMBDA h, s : fail(s, h, Len(s.ctxs[h].got) + 1),
                                  State, D \ {first}))
  BY DEF onDisconnect
<1> DEFINE t == FoldSet(LAMBDA h, s : fail(s, h, Len(s.ctxs[h].got) + 1), State, D \ {first})
<1>3. IsFiniteSet(D \ {first})
  <2>1. current - 1 \in Nat
    BY HandlerFacts
  <2>2. IsFiniteSet(1..(current - 1))
    BY <2>1, FS_Interval
  <2> QED
    BY <1>1, <2>2, FS_Subset DEF GivenOut
<1>4. D \ {first} \in SUBSET D
  OBVIOUS
<1>5. t \in States(D, asked)
  BY <1>1, <1>3, <1>4, FailAllTyped, Zenon
<1>6. link' = "crashed" /\ UNCHANGED <<role, asked, current>>
  BY DEF onDisconnect
<1>7. ~Running' /\ D \subseteq 1..(current' - 1)
  BY <1>1, <1>6 DEF Running, GivenOut
<1>8. Assign(t)
  BY <1>2
<1> HIDE DEF t, D
<1> QED
  BY <1>5, <1>6, <1>7, <1>8, AssignStep DEF CacheInvariant
----------------------------------------------------------------------------
(* The theorems. *)

\* The contexts, the pending commands and the replies agree in every state.
THEOREM CacheSafety == Spec => []CacheInvariant
<1>1. ASSUME Init PROVE CacheInvariant
  <2>1. /\ role \in {"consumer", "producer"} /\ link = "connecting" /\ current = 1
        /\ asked = <<>> /\ ctxs = <<>> /\ pending = <<>> /\ replies = <<>>
    BY <1>1 DEF Init
  <2>2. asked \in Seq(Requests) /\ pending \in Seq(Command) /\ Len(asked) = 0
    BY <2>1
  <2>3. \A i : ~(i \in DOMAIN ctxs) /\ ~(i \in DOMAIN pending) /\ ~(i \in DOMAIN replies)
    BY <2>1
  <2>4. DOMAIN ctxs = {} /\ 1..Len(asked) = {}
    BY <2>2, <2>3, OneMoreInRange
  <2>5. ctxs \in [DOMAIN ctxs -> Context] /\ replies \in [1..Len(asked) -> Seq(Seq(Entry))]
    <3>1. ASSUME NEW S, NEW f, f = <<>> PROVE f \in [{} -> S]
      BY <3>1
    <3> QED
      BY <2>1, <2>4, <3>1
  <2>6. State \in States(DOMAIN ctxs, asked)
    BY <2>2, <2>5 DEF State, States
  <2>7. /\ Contexts(ctxs, asked, replies) /\ Commands(ctxs, pending, 0)
    BY <2>3 DEF Contexts, Commands
  <2>8. Good(State, asked, 0)
    BY <2>7 DEF Good, State
  <2>9. current \in 1..(MaxContexts + 1)
    BY <2>1, CacheAssumption
  <2> QED
    BY <2>1, <2>2, <2>4, <2>6, <2>8, <2>9 DEF CacheInvariant
<1>2. CacheInvariant /\ [Next]_vars => CacheInvariant'
  <2> SUFFICES ASSUME CacheInvariant, [Next]_vars PROVE CacheInvariant'
    OBVIOUS
  <2>1. CASE connected \/ contextEnds \/ UNCHANGED vars
    <3>1. /\ UNCHANGED <<role, asked, current, ctxs, pending, replies>>
          /\ \/ link' = link
             \/ link = "connecting" /\ link' = "up"
             \/ link = "up" /\ link' = "closing"
      BY <2>1 DEF connected, contextEnds, vars, conn, store
    <3>2. State' = State /\ (Running' => Running)
      BY <3>1 DEF State, Running
    <3>3. Good(State, asked, 0)' <=> Good(State', asked', 0)
      BY DEF Good
    <3>4. link' \in {"connecting", "up", "closing", "crashed", "threw"}
      BY <3>1 DEF CacheInvariant
    <3> QED
      BY <3>1, <3>2, <3>3, <3>4 DEF CacheInvariant
  <2>2. ASSUME NEW q \in Requests, onCommand(q) PROVE CacheInvariant'
    BY <2>2, OnCommandStep
  <2>3. ASSUME NEW a, answer(a) PROVE CacheInvariant'
    BY <2>3, CallNextStep DEF answer
  <2>4. CASE answerNull
    BY <2>4, CallNextStep DEF answerNull
  <2>5. CASE disconnectCallback \/ setConnectedFalse
    BY <2>5, OnDisconnectStep DEF disconnectCallback, setConnectedFalse
  <2> QED
    BY <2>1, <2>2, <2>3, <2>4, <2>5, OnMsgStep, PeriodicReadStep DEF Next
<1> QED
  BY <1>1, <1>2, PTL DEF Spec

\* Every callback finds its context, and one that still waits for it; and every
\* context that has yet to reply has its one command pending (clearDone removes
\* only what is done, nextOfPack asks for one command at a time).
THEOREM ContextsSafety == Spec => []ContextsInvariant
<1>1. ASSUME CacheInvariant PROVE ContextsInvariant
  <2> DEFINE D == DOMAIN ctxs
  <2>1. /\ ctxs \in [D -> Context] /\ pending \in Seq(Command)
        /\ replies \in [1..Len(asked) -> Seq(Seq(Entry))]
    BY <1>1 DEF CacheInvariant, State, States
  <2>2. asked \in Seq(Requests) /\ Len(asked) \in Nat
    BY <1>1 DEF CacheInvariant
  <2>3. Running => Contexts(ctxs, asked, replies) /\ Commands(ctxs, pending, 0)
    BY <1>1 DEF CacheInvariant, Good, State
  <2>4. D \subseteq 1..(current - 1) /\ 0 \notin D
    BY <1>1 DEF CacheInvariant
  <2>5. Len(replies) = Len(asked) /\ \A i \in DOMAIN replies : replies[i] \in Seq(Seq(Entry))
    <3>1. ASSUME NEW S, NEW n \in Nat, NEW f \in [1..n -> S] PROVE Len(f) = n
      <4>1. f \in Seq(S)
        OBVIOUS
      <4> QED
        BY <4>1
    <3> QED
      BY <2>1, <2>2, <3>1
  <2>6. TypeOK
    <3>1. Running => \A h \in D : ctxs[h].kind = "pack" => Len(ctxs[h].got) <= Len(ctxs[h].cmds)
      BY <2>3 DEF Contexts, Progress
    <3>2. \A h \in D : ctxs[h] \in Context
      BY <2>1
    <3>3. \A k \in DOMAIN pending : pending[k] \in Command
      BY <2>1
    <3> HIDE DEF D
    <3> QED
      BY <1>1, <2>2, <2>4, <2>5, <3>1, <3>2, <3>3, Zenon DEF TypeOK, CacheInvariant, D
  <2>7. ASSUME Running PROVE InProgress
    <3>1. \A k \in DOMAIN pending : Awaited(pending[k], ctxs, 0)
      BY <2>3, <2>7 DEF Commands
    <3>2. ASSUME NEW h \in D, ~ctxs[h].done, ctxs[h].kind # "msg"
          PROVE  \E k \in DOMAIN pending : PendingOf(h) = {k} /\ pending[k].pos = Len(ctxs[h].got) + 1
      <4>1. h # 0
        BY <2>4
      <4>2. PICK k \in DOMAIN pending : pending[k].handle = h
        BY <2>3, <2>7, <3>2, <4>1 DEF Commands
      <4>3. \A j \in DOMAIN pending : pending[j].handle = h => j = k
        BY <2>3, <2>7, <4>2 DEF Commands
      <4>4. PendingOf(h) = {k}
        BY <4>2, <4>3 DEF PendingOf
      <4>5. pending[k].pos = Len(ctxs[h].got) + 1
        BY <3>1, <4>2 DEF Awaited
      <4> QED
        BY <4>4, <4>5
    <3> QED
      BY <3>1, <3>2 DEF InProgress, Awaited
  <2>8. InProgress
    BY <2>7 DEF InProgress
  <2> QED
    BY <2>6, <2>8 DEF ContextsInvariant
<1> QED
  BY <1>1, CacheSafety, PTL

\* No request is answered twice, but for the read of an object that is empty
\* (readObjectCallback fails and goes on to reply).
THEOREM AnswersOnce == Spec => []AnsweredOnce
<1>1. CacheInvariant => AnsweredOnce
  BY DEF CacheInvariant, Good, Contexts, State, Answered, AnsweredOnce
<1> QED
  BY <1>1, CacheSafety, PTL

\* The reply to a pack has an entry for each of its commands, in their order.
THEOREM PackReplies == Spec => []PackAnswers
<1>1. CacheInvariant => PackAnswers
  BY DEF CacheInvariant, Good, Contexts, State, Answered, PackAnswers
<1> QED
  BY <1>1, CacheSafety, PTL
====
