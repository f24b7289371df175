---- MODULE MCSyncChannel ----
(* Small instances of SyncChannel for TLC. *)
EXTENDS SyncChannel

CONSTANTS u1, u2, u3

EqualPriority == [u \in Users |-> 100]
MixedPriority == [u \in Users |-> IF u = u1 THEN 200 ELSE 100]
HashOrder == [u \in Users \cup {NoUser} |->
                CASE u = u1 -> 1 [] u = u2 -> 2 [] u = u3 -> 3 [] OTHER -> 0]
====
