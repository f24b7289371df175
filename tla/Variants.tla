---- MODULE Variants ----
(***************************************************************************)
(* QVariant: values, and maps and lists of them nested in each other.  A   *)
(* variant is a record of one field, named for its kind.  What a value is  *)
(* does not matter here, only whether two are the same.                    *)
(***************************************************************************)

Leaf(x) == [leaf |-> x]
Map(f)  == [map |-> f]
List(s) == [list |-> s]
Invalid == [invalid |-> TRUE]

IsMap(v)  == "map" \in DOMAIN v
IsList(v) == "list" \in DOMAIN v
isValid(v) == v # Invalid

NoKeys == [k \in {} |-> Invalid]
Empty == Map(NoKeys)
====
