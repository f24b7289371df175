---- MODULE MCBroker ----
(* Small instances of Broker for TLC. *)
EXTENDS Broker, TLC

NoChain == {}
Filtering == {NoChain, {"content"}}
AllChains == {NoChain, {"pass"}, {"content"}, {"mute"}}
OneCallback == {"okOnly"}
TwoCallbacks == {"both", "ignore"}
AllCallbacks == {"none", "okOnly", "both", "ignore"}
Symmetry == Permutations(Workers)

\* The states in which set-up and runAll have just ended, one for each set of
\* at most MaxConnects pipes: all of them are reachable from Init.
Running ==
  /\ phase = "loop"
  /\ registered = Workers
  /\ connections \in {cs \in SUBSET {pc \in Pairs : pc[1] # pc[2]} :
                        Cardinality(cs) <= MaxConnects}
  /\ live = connections
  /\ \E f \in [connections -> Chains] :
       chain = [pc \in Pairs |-> IF pc \in connections THEN f[pc] ELSE {}]
  /\ consumers = [w \in Workers |-> {c \in Workers : <<w, c>> \in connections}]
  /\ producers = [w \in Workers |-> {p \in Workers : <<p, w>> \in connections}]
  /\ up = Workers
  /\ wasRun = Workers
  /\ starting = NoWorker
  /\ brokerQ = <<>>
  /\ queue = [w \in Workers |-> <<>>]
  /\ sent = <<>>
  /\ dropped = {}
  /\ handled = [w \in Workers |-> <<>>]

RunningSpec == Running /\ [][Next]_vars
RunningFairSpec == RunningSpec /\ Fairness
====
