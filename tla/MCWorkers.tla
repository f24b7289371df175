---- MODULE MCWorkers ----
(* Three workers at the edge of the program, each in a small instance.  They share *)
(* nothing, and a behaviour is one of one of them.                               *)
EXTENDS ProcessWorker, WebsocketServer, Streams

VARIABLE subject

Persistent == "persistent"
Setup(mode, kept) ==
  [mode |-> [c \in Consumers |-> IF c = "c" THEN Persistent ELSE mode],
   program |-> [c \in Consumers |-> "p"],
   kept |-> kept]
ThreeSetups == {Setup(Persistent, 0), Setup("top", -1), Setup("first", -1)}

allVars == <<subject, processVars, serverVars, streamVars>>

Init ==
  /\ subject \in {"process", "server", "stream"}
  /\ ProcessInit /\ ServerInit /\ StreamInit
  /\ (subject # "process" => restarts = {})
  /\ (subject # "stream" => setup = Setup(Persistent, 0))

Next ==
  \/ subject = "process" /\ ProcessNext /\ UNCHANGED <<subject, serverVars, streamVars>>
  \/ subject = "server" /\ ServerNext /\ UNCHANGED <<subject, processVars, streamVars>>
  \/ subject = "stream" /\ StreamNext /\ UNCHANGED <<subject, processVars, serverVars>>

\* Nothing is owed to a worker that has not begun.
Spec == Init /\ [][Next]_allVars /\ ProcessFairness /\ ServerFairness /\ StreamFairness
====
