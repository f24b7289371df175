---- MODULE MCModbusMaster ----
(* Small instances of ModbusMaster for TLC. *)
EXTENDS ModbusMaster

CONSTANTS u1, u2, u3, q1, q2

EqualPriority == [u \in Users |-> 100]
HashOrder == [u \in Users \cup {NoUser} |->
                CASE u = u1 -> 1 [] u = u2 -> 2 [] u = u3 -> 3 [] OTHER -> 0]
OneQuery == [u \in Users |-> <<q1>>]
TwoQueries == [u \in Users |-> <<q1, q2>>]
OneAndTwo == [u \in Users |-> IF u = u1 THEN <<q1, q2>> ELSE <<q1>>]
====
