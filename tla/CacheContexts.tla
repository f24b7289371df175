---- MODULE CacheContexts ----
(***************************************************************************)
(* The contexts of a cache worker, which reads or writes Redis on behalf   *)
(* of other workers.  A command creates a context; its handle travels with *)
(* the Redis command, and the callback finds the context by it and         *)
(* replies.  A command pack is run one command after the other by the same *)
(* context, and a periodic read has a context too.                         *)
(*                                                                         *)
(* Everything happens in the worker's thread.  The connection is           *)
(* RedisConnector's, of which only its life matters here: it comes up      *)
(* once, because onDisconnect ends the program.                            *)
(***************************************************************************)
EXTENDS Naturals, Sequences, FiniteSetsExt, Functions

CONSTANTS
  Requests,      \* the command messages others may send
  MaxRequests,   \* bound on those sent
  MaxContexts    \* bound on the contexts created

\* What the callback of a command does with its answer: reads reply whatever
\* they got, an object read fails when it got nothing, a write expects "OK", and
\* the answer of SADD and DEL, a number, never is.
Reads == {"read", "object"}
Writes == {"write", "count"}
Cmds == Reads \cup Writes \cup {"unsupported"}

\* A command, a pack of commands, or CommandTriggerRead.
Request == [what : {"command", "pack", "trigger"}, cmds : Seq(Cmds)]

ASSUME CacheAssumption ==
  /\ \A q \in Requests : q \in Request /\ q.cmds # <<>>
  /\ \A q \in Requests : q.what # "pack" => Len(q.cmds) = 1
  /\ \A q \in Requests : q.what = "trigger" => q.cmds = <<"object">>
  /\ MaxRequests \in Nat
  /\ MaxContexts \in Nat

VARIABLES
  role,      \* "consumer" or "producer"
  link,      \* the connection, or how the program has ended
  asked,     \* history: the requests received
  current,   \* ContextManager::m_current
  ctxs,      \* ContextManager::m_ctxs
  pending,   \* the Redis commands that wait for an answer
  replies    \* history: replies[i], those sent to request i

conn  == <<role, link>>
store == <<current, ctxs, pending, replies>>
vars  == <<conn, asked, store>>

\* One reply, or one of a reply pack: to the command at pos, 0 for a filler.
Entry == [pos : Nat, ok : BOOLEAN]

Context ==
  [kind : {"simple", "pack", "msg", "noReply"},  \* the class
   req : Nat,               \* the request it replies to, 0 for none
   cmds : Seq(Cmds),        \* its commands, in m_msg
   got : Seq(Entry),        \* m_replyPack
   done : BOOLEAN]          \* m_isDone

Command == [handle : Nat, pos : Nat, cmd : Cmds]

Init ==
  /\ role \in {"consumer", "producer"}
  /\ link = "connecting"
  /\ asked = <<>>
  /\ current = 1
  /\ ctxs = <<>>
  /\ pending = <<>>
  /\ replies = <<>>
----------------------------------------------------------------------------
(* Contexts.  The operators map states [ctxs, pending, replies] to the next. *)

State == [ctxs |-> ctxs, pending |-> pending, replies |-> replies]

Assign(s) ==
  /\ ctxs' = s.ctxs
  /\ pending' = s.pending
  /\ replies' = s.replies

\* Context h sends a reply, if its class does, and is done.
Finish(s, h, entries) ==
  LET c == s.ctxs[h] IN
    [s EXCEPT
      !.ctxs[h].done = TRUE,
      !.replies = [i \in DOMAIN @ |->
                     IF c.kind \in {"simple", "pack"} /\ i = c.req
                     THEN Append(@[i], entries) ELSE @[i]]]

Filler == [pos |-> 0, ok |-> FALSE]

\* Variant for mutation: a reply pack that fails is not filled.
NotFilled(c, e) == Append(c.got, e)

\* The reply pack of c with a failure, filled up.  A pack that is full already
\* only grows by the failure.
Filled(c, e) ==
  LET n == Len(c.got) + 1 IN
    [j \in 1..(IF n <= Len(c.cmds) THEN Len(c.cmds) ELSE n) |->
       IF j < n THEN c.got[j] ELSE IF j = n THEN e ELSE Filler]

\* fail() of context h, for the command at pos.  A pack is filled up and sent; a
\* SimpleMsgContext returns early and is never done.
fail(s, h, pos) ==
  LET c == s.ctxs[h]
      e == [pos |-> pos, ok |-> FALSE]
      all == Filled(c, e)
  IN  CASE c.kind = "pack" -> Finish([s EXCEPT !.ctxs[h].got = all], h, all)
        [] c.kind = "msg"  -> s
        [] OTHER           -> Finish(s, h, <<e>>)

\* A connected connector takes commands until its context begins to end.
Accepts == link = "up"

\* Variant for mutation: a command that is not taken is not failed.
handleSilently(s, h, pos, cmd) ==
  IF Accepts /\ cmd \in (IF role = "consumer" THEN Reads ELSE Writes)
  THEN [s EXCEPT !.pending =
          Append(@, [handle |-> h, pos |-> pos, cmd |-> cmd])]
  ELSE s

\* handleCommand of the command at pos, and the request functions it calls.
handleCommand(s, h, pos, cmd) ==
  IF Accepts /\ cmd \in (IF role = "consumer" THEN Reads ELSE Writes)
  THEN [s EXCEPT !.pending =
          Append(@, [handle |-> h, pos |-> pos, cmd |-> cmd])]
  ELSE fail(s, h, pos)

\* The command after those that have their replies.
nextOfPack(s, h) ==
  LET n == Len(s.ctxs[h].got) + 1 IN handleCommand(s, h, n, s.ctxs[h].cmds[n])

\* reply() of context h with a reply that is ok.
reply(s, h, pos) ==
  LET c == s.ctxs[h]
      e == [pos |-> pos, ok |-> TRUE]
      t == [s EXCEPT !.ctxs[h].got = Append(@, e)]
  IN  IF c.kind # "pack"
      THEN Finish(s, h, <<e>>)
      ELSE IF Len(c.got) + 1 >= Len(c.cmds)
           THEN Finish(t, h, t.ctxs[h].got)
           ELSE nextOfPack(t, h)

\* Variant for mutation: a write that failed goes on to reply.
callbackTwice(s, p, answer) ==
  IF p.cmd \in Reads \/ answer = "full"
  THEN reply(s, p.handle, p.pos)
  ELSE reply(fail(s, p.handle, p.pos), p.handle, p.pos)

\* The callback of a command.  An object read that found nothing fails and then
\* replies all the same.
callback(s, p, answer) ==
  CASE p.cmd = "read" -> reply(s, p.handle, p.pos)
    [] p.cmd = "object" ->
         reply(IF answer = "full" THEN s ELSE fail(s, p.handle, p.pos),
               p.handle, p.pos)
    [] p.cmd = "write" /\ answer = "full" -> reply(s, p.handle, p.pos)
    [] OTHER -> fail(s, p.handle, p.pos)

Done(c) == c.done

\* Variant for mutation: every context without a reply pack is removed.
clearAnswered(s) ==
  [s EXCEPT !.ctxs = Restrict(@, {h \in DOMAIN @ : ~Done(@[h]) /\ @[h].got # <<>>})]

clearDone(s) ==
  [s EXCEPT !.ctxs = Restrict(@, {h \in DOMAIN @ : ~Done(@[h])})]

\* create(): a context under a new handle.
create(s, kind, req, cmds) ==
  [s EXCEPT !.ctxs =
     [h \in DOMAIN @ \cup {current} |->
        IF h = current
        THEN [kind |-> kind, req |-> req, cmds |-> cmds, got |-> <<>>, done |-> FALSE]
        ELSE @[h]]]
----------------------------------------------------------------------------
(* Handlers. *)

Alive == link \in {"connecting", "up"}

\* connectCallback.
connected ==
  /\ link = "connecting"
  /\ link' = "up"
  /\ UNCHANGED <<role, asked, store>>

\* CommandTriggerRead is known to the consumer only.
KindOf(q) ==
  CASE q.what = "pack" -> "pack"
    [] q.what = "trigger" /\ role = "consumer" -> "msg"
    [] OTHER -> "simple"

\* A pack that holds an object read throws out of the handler.
Throws(q) == q.what = "pack" /\ \E k \in DOMAIN q.cmds : q.cmds[k] = "object"

\* The new context of request q, and its first command.
start(q) ==
  LET s == create([State EXCEPT !.replies = Append(@, <<>>)], KindOf(q),
                  IF KindOf(q) = "msg" THEN 0 ELSE Len(asked) + 1, q.cmds)
  IN  handleCommand(s, current, 1, q.cmds[1])

onCommand(q) ==
  /\ Alive
  /\ Len(asked) < MaxRequests
  /\ current <= MaxContexts
  /\ asked' = Append(asked, q)
  /\ current' = current + 1
  /\ IF Throws(q)
     THEN /\ link' = "threw"
          /\ replies' = Append(replies, <<>>)
          /\ UNCHANGED <<role, ctxs, pending>>
     ELSE /\ Assign(clearDone(start(q)))
          /\ UNCHANGED conn

\* A message for the producer is written under a context that never replies.
onMsg ==
  /\ Alive
  /\ role = "producer"
  /\ current <= MaxContexts
  /\ current' = current + 1
  /\ Assign(handleCommand(create(clearDone(State), "noReply", 0, <<"write">>), current, 1, "write"))
  /\ UNCHANGED <<conn, asked>>

\* The timer of the periodic read, which clears no contexts.
requestObjectSimple ==
  /\ link = "up"
  /\ role = "consumer"
  /\ current <= MaxContexts
  /\ current' = current + 1
  /\ Assign(handleCommand(create(State, "msg", 0, <<"object">>), current, 1, "object"))
  /\ UNCHANGED <<conn, asked>>

\* The callback of the oldest command, which hiredis has taken off its list.
CallNext(answer) ==
  /\ pending # <<>>
  /\ Assign(callback([State EXCEPT !.pending = Tail(@)], Head(pending), answer))
  /\ UNCHANGED <<conn, asked, current>>

\* "full" stands for "OK" too, "empty" for nothing found or an error.
answer(a) == link = "up" /\ CallNext(a)

\* The connection is closed: hiredis frees the context, which takes no command
\* any more, and calls what is pending with null.
contextEnds ==
  /\ link = "up"
  /\ link' = "closing"
  /\ UNCHANGED <<role, asked, store>>

answerNull == link = "closing" /\ CallNext("empty")

\* forEach passes over the context it starts with, fails the others whether they
\* are done or not, and dereferences the end of the hash.
onDisconnect ==
  /\ link' = "crashed"
  /\ \E first \in IF ctxs = <<>> THEN {0} ELSE DOMAIN ctxs :
       Assign(FoldSet(LAMBDA h, s : fail(s, h, Len(s.ctxs[h].got) + 1),
                      State, DOMAIN ctxs \ {first}))
  /\ UNCHANGED <<role, asked, current>>

\* disconnectCallback, once all callbacks are done, a time-out or a failed ping.
disconnectCallback == link = "closing" /\ pending = <<>> /\ onDisconnect
setConnectedFalse == link = "up" /\ onDisconnect

Next ==
  \/ connected
  \/ \E q \in Requests : onCommand(q)
  \/ onMsg
  \/ requestObjectSimple
  \/ \E a \in {"full", "empty"} : answer(a)
  \/ contextEnds
  \/ answerNull
  \/ disconnectCallback
  \/ setConnectedFalse

\* The server answers what it has been sent, or else the connection ends; that
\* it ever comes up, or that anyone asks anything, is not assumed.
Fairness ==
  /\ WF_vars(\E a \in {"full", "empty"} : answer(a))
  /\ WF_vars(answerNull)
  /\ WF_vars(disconnectCallback)

Spec == Init /\ [][Next]_vars /\ Fairness
----------------------------------------------------------------------------
(* Properties. *)

Running == link \in {"connecting", "up", "closing"}

\* The types of the state, and the sizes of its parts: a reply pack never holds
\* more replies than the command pack has commands.
TypeOK ==
  /\ role \in {"consumer", "producer"}
  /\ link \in {"connecting", "up", "closing", "crashed", "threw"}
  /\ asked \in Seq(Requests)
  /\ current \in 1..(MaxContexts + 1)
  /\ DOMAIN ctxs \subseteq 1..(current - 1)
  /\ \A h \in DOMAIN ctxs : ctxs[h] \in Context
  /\ \A k \in DOMAIN pending : pending[k] \in Command
  /\ Len(replies) = Len(asked)
  /\ \A i \in DOMAIN replies : replies[i] \in Seq(Seq(Entry))
  /\ Running => \A h \in DOMAIN ctxs :
                  ctxs[h].kind = "pack" => Len(ctxs[h].got) <= Len(ctxs[h].cmds)

\* The commands pending for context h.
PendingOf(h) == {k \in DOMAIN pending : pending[k].handle = h}

\* Every callback finds its context, and one that still waits: the contexts that
\* clearDone removes are not those of pending commands.  And every context that
\* has yet to reply has one command pending, the next of its pack, so it is
\* neither forgotten nor run twice.
InProgress ==
  Running =>
    /\ \A k \in DOMAIN pending :
         pending[k].handle \in DOMAIN ctxs /\ ~ctxs[pending[k].handle].done
    /\ \A h \in DOMAIN ctxs :
         ~ctxs[h].done /\ ctxs[h].kind # "msg" =>
           \E k \in DOMAIN pending :
             /\ PendingOf(h) = {k}
             /\ pending[k].pos = Len(ctxs[h].got) + 1

\* What every callback relies on: the types and sizes of the contexts, and that each
\* has its one command.
ContextsInvariant ==
  /\ TypeOK
  /\ InProgress

\* A request is answered at most once; only a read of an object that is empty is
\* answered twice, as a failure and then as a success (readObjectCallback).
AnsweredOnce ==
  Running => \A i \in DOMAIN replies :
    \/ Len(replies[i]) <= 1
    \/ /\ asked[i].cmds = <<"object">>
       /\ replies[i] = <<<<[pos |-> 1, ok |-> FALSE]>>, <<[pos |-> 1, ok |-> TRUE]>>>>

\* The reply to a pack has one entry for each command (CommandPack::replyOk asks
\* for as many): the replies in the order of the commands, then one failure, if
\* there is one, and fillers for the commands that were not run.
PackAnswered(cmds, entries) ==
  /\ Len(entries) = Len(cmds)
  /\ \E ran \in DOMAIN cmds :
       /\ \A j \in DOMAIN cmds : entries[j].pos = (IF j <= ran THEN j ELSE 0)
       /\ \A j \in DOMAIN cmds : entries[j].ok <=> (j < ran \/ (j = ran /\ entries[ran].ok))
       /\ ran < Len(cmds) => ~entries[ran].ok

PackAnswers ==
  Running => \A i \in DOMAIN replies :
    asked[i].what = "pack" =>
      \A n \in DOMAIN replies[i] : PackAnswered(asked[i].cmds, replies[i][n])

\* Every command and every pack is answered, by the server, by the failure to
\* send it or by the end of the connection, unless the program ends before.
EventuallyReplied ==
  \A i \in 1..MaxRequests :
    (i \in DOMAIN asked /\ asked[i].what # "trigger")
      ~> ((i \in DOMAIN replies /\ replies[i] # <<>>) \/ ~Running)
====
