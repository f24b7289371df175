---- MODULE JsonDict ----
(***************************************************************************)
(* JsonDict, the dictionary every message carries: maps and lists nested   *)
(* in each other with values at the leaves, reached by paths of keys.      *)
(*                                                                         *)
(* A dictionary is always a map at the top.                                *)
(***************************************************************************)
EXTENDS Variants, Naturals, SequencesExt

CONSTANTS
  Keys,    \* the keys used, in the order of QMap, no two the same
  Parts    \* Parts[k]: the parts of a key between separators

\* toIndex: the position a key of the form "[i]" stands for.
IndexKeys == <<"[0]", "[1]", "[2]">>
IsIndex(key) == key \in ToSet(IndexKeys)
toIndex(key) == CHOOSE i \in DOMAIN IndexKeys : IndexKeys[i] = key
----------------------------------------------------------------------------
(* Access. *)

\* What a container has under a key: nothing under the other kind's keys.
find(v, key) ==
  IF IsMap(v) /\ key \in DOMAIN v.map THEN v.map[key]
  ELSE IF IsList(v) /\ IsIndex(key) /\ toIndex(key) <= Len(v.list) THEN v.list[toIndex(key)]
  ELSE Invalid

\* recurseTo, which finds nothing on a path that leads nowhere, and value.
RECURSIVE recurseTo(_, _)
recurseTo(v, path) == IF path = <<>> THEN v ELSE recurseTo(find(v, Head(path)), Tail(path))

value(d, path) == IF path = <<>> THEN Invalid ELSE recurseTo(d, path)

containsKey(d, path) == isValid(value(d, path))

\* operator[] throws where a nested map is used as a list or a list as a map;
\* the top of a dictionary takes any key.
Clash(d, path) ==
  \/ path = <<>>
  \/ \E i \in 2..Len(path) :
       LET v == value(d, SubSeq(path, 1, i - 1)) IN
         \/ IsMap(v) /\ IsIndex(path[i])
         \/ IsList(v) /\ ~IsIndex(path[i])

\* The container to descend into under a key: the one there, or an empty one in
\* the place of what is not a container.
Opened(v, key) ==
  IF IsMap(v) \/ IsList(v) THEN v ELSE IF IsIndex(key) THEN List(<<>>) ELSE Empty

\* A container with x under a key, a list padded with invalid values up to it.
With(v, key, x) ==
  IF IsMap(v)
    THEN Map([k \in DOMAIN v.map \cup {key} |-> IF k = key THEN x ELSE v.map[k]])
    ELSE List([i \in 1..(IF Len(v.list) < toIndex(key) THEN toIndex(key) ELSE Len(v.list)) |->
                IF i = toIndex(key) THEN x
                ELSE IF i <= Len(v.list) THEN v.list[i] ELSE Invalid])

RECURSIVE Put(_, _, _)
Put(v, path, x) ==
  IF path = <<>> THEN x
  ELSE LET c == Opened(v, Head(path))
       IN With(c, Head(path), Put(find(c, Head(path)), Tail(path), x))

\* insert: where it throws the dictionary stays as it is, since whatever is
\* created on the way to a clash lies behind it.
insert(d, path, x) == IF Clash(d, path) THEN d ELSE Put(d, path, x)

----------------------------------------------------------------------------
(* Iteration.  An iterator is the stack of the containers it is in, each   *)
(* with its entries and the place reached.                                 *)

Entries(v) ==
  IF IsMap(v)
    THEN LET ks == SelectSeq(Keys, LAMBDA k : k \in DOMAIN v.map)
         IN [i \in DOMAIN ks |-> <<ks[i], v.map[ks[i]]>>]
    ELSE [i \in DOMAIN v.list |-> <<IndexKeys[i], v.list[i]>>]

Frame(v) == [items |-> Entries(v), pos |-> 1]
Stepped(it) == [it EXCEPT ![Len(it)].pos = @ + 1]
atEnd(it) == Last(it).pos > Len(Last(it).items)
iterKey(it) == [i \in DOMAIN it |-> it[i].items[it[i].pos][1]]
iterValue(it) == Last(it).items[Last(it).pos][2]

\* Variant for mutation: the place after a container is passed over when the
\* iterator leaves it.
RECURSIVE descendSkipping(_)
descendSkipping(it) ==
  IF atEnd(it)
    THEN IF Len(it) = 1 THEN it ELSE descendSkipping(Stepped(Stepped(Front(it))))
  ELSE IF IsMap(iterValue(it)) \/ IsList(iterValue(it))
    THEN descendSkipping(Append(it, Frame(iterValue(it))))
  ELSE IF ~isValid(iterValue(it)) THEN descendSkipping(Stepped(it))
  ELSE it

\* operator++ once the place has moved, or while it "is in recursion": down into
\* containers, past invalid values, up where one ends.
RECURSIVE descend(_)
descend(it) ==
  IF atEnd(it)
    THEN IF Len(it) = 1 THEN it ELSE descend(Stepped(Front(it)))
  ELSE IF IsMap(iterValue(it)) \/ IsList(iterValue(it))
    THEN descend(Append(it, Frame(iterValue(it))))
  ELSE IF ~isValid(iterValue(it)) THEN descend(Stepped(it))
  ELSE it

begin(d) == descend(<<Frame(d)>>)
next(it) == descend(Stepped(it))

\* What a range-based for over a dictionary visits: its paths and values.
RECURSIVE Visited(_)
Visited(it) ==
  IF atEnd(it) THEN <<>> ELSE <<<<iterKey(it), iterValue(it)>>>> \o Visited(next(it))
leaves(d) == Visited(begin(d))

deepCount(d) == Len(leaves(d))
isEmpty(d) == deepCount(d) = 0

\* Of a path visited: its last key, and what that lies in.
field(path) == Last(path)
domainKey(path) == IF Len(path) = 1 THEN path ELSE Front(path)
domainMap(d, path) == value(d, Front(path))
----------------------------------------------------------------------------
(* Dictionaries from dictionaries. *)

\* Insertion of a sequence of paths and values, up to the first that throws.
RECURSIVE InsertAll(_, _)
InsertAll(d, entries) ==
  IF entries = <<>> THEN [ok |-> TRUE, dict |-> d]
  ELSE LET e == Head(entries)
       IN IF Clash(d, e[1]) THEN [ok |-> FALSE, dict |-> d]
          ELSE InsertAll(Put(d, e[1], e[2]), Tail(entries))

\* merge and update overwrite what differs; ok is FALSE when one throws midway.
\* No path that src visits leads through another, so that no insertion changes
\* what a later one is compared with.
merge(d, src) == InsertAll(d, SelectSeq(leaves(src), LAMBDA e : value(d, e[1]) # e[2]))

update(d, src) == [result |-> merge(d, src),
                   changed |-> \E e \in ToSet(leaves(src)) : value(d, e[1]) # e[2]]

\* diff with full = false, which operator- is: what d has otherwise.
diff(d, other) ==
  InsertAll(Empty, SelectSeq(leaves(d), LAMBDA e : value(other, e[1]) # e[2])).dict

containsDict(d, src) ==
  \A e \in ToSet(leaves(src)) : value(d, e[1]) = e[2]

sanitized(d) == InsertAll(Empty, leaves(d)).dict

\* A path as one key: its parts, with separators in between.
join(path) == FlattenSeq([i \in DOMAIN path |-> Parts[path[i]]])

\* Entries whose keys are the joined paths.  Two paths with one joined key leave
\* the value of the later.
flatten(d) ==
  LET all == leaves(d) IN [i \in DOMAIN all |-> <<join(all[i][1]), all[i][2]>>]

\* The constructor splits the keys of each map, also of those in lists.
RECURSIVE nested(_)
nested(v) ==
  IF ~IsMap(v) THEN v
  ELSE LET inner(x) == IF IsList(x) THEN List([i \in DOMAIN x.list |-> nested(x.list[i])])
                       ELSE nested(x)
           ks == SelectSeq(Keys, LAMBDA k : k \in DOMAIN v.map)
       IN InsertAll(Empty, [i \in DOMAIN ks |-> <<Parts[ks[i]], inner(v.map[ks[i]])>>]).dict
====
