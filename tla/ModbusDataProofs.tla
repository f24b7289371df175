---- MODULE ModbusDataProofs ----
(***************************************************************************)
(* Proofs about ModbusData: what a value becomes in words and back, for    *)
(* values of any length, and what merging makes of units, for any number   *)
(* of units of any lengths, as long as no two of one table start at the    *)
(* same address (the constructors of masters and slaves refuse registers   *)
(* that do).                                                               *)
(***************************************************************************)
EXTENDS ModbusData, SequenceLemmas

----------------------------------------------------------------------------
(* Units. *)

Tables == {"holding", "di", "input", "coils"}

\* Units of words W.
Units(W) == [table : Tables, start : Nat, values : Seq(W) \ {<<>>}]

\* The address after a unit, and what it has at each of its addresses.
End(u) == u.start + Len(u.values)
Cells(u) == {<<u.table, u.start + i - 1, u.values[i]>> : i \in 1..Len(u.values)}

\* The cells of the units with these indices.
CellsOf(us, K) == UNION {Cells(us[k]) : k \in K}

Apart(u, v) == u.table # v.table \/ End(u) <= v.start \/ End(v) <= u.start

\* No two units start at the same address, or overlap, or could be merged.
StartApart(us) ==
  \A k, l \in DOMAIN us : k # l => us[k].table # us[l].table \/ us[k].start # us[l].start
NoneOverlap(us) == \A k, l \in DOMAIN us : k # l => Apart(us[k], us[l])
NoneMergeable(us) == \A k, l \in DOMAIN us : ~Precedes(us[k], us[l])

\* What a unit is.
LEMMA UnitFacts ==
  ASSUME NEW W, NEW u \in Units(W)
  PROVE  /\ u.table \in Tables /\ u.start \in Nat /\ u.values \in Seq(W)
         /\ Len(u.values) \in Nat /\ Len(u.values) > 0
         /\ End(u) \in Nat /\ u.start < End(u)
<1>1. u.table \in Tables /\ u.start \in Nat /\ u.values \in Seq(W) /\ u.values # <<>>
  BY DEF Units
<1>2. Len(u.values) \in Nat /\ Len(u.values) > 0
  BY <1>1
<1> QED
  BY <1>1, <1>2 DEF End

\* w is u with the words of v after its own.
Glued(w, u, v, W) ==
  /\ w \in Units(W)
  /\ w.table = u.table /\ w.start = u.start /\ End(w) = End(v)
  /\ Cells(w) = Cells(u) \cup Cells(v)

\* What appending a unit to the one before it makes of that.
LEMMA Glue ==
  ASSUME NEW W, NEW u \in Units(W), NEW v \in Units(W), Precedes(u, v)
  PROVE  Glued([u EXCEPT !.values = @ \o v.values], u, v, W)
<1> DEFINE w == [u EXCEPT !.values = @ \o v.values]
           m == Len(u.values)
           n == Len(v.values)
           all == u.values \o v.values
<1>1. /\ m \in Nat /\ n \in Nat /\ m > 0 /\ n > 0
      /\ u.start \in Nat /\ v.start = u.start + m /\ v.table = u.table
      /\ u.values \in Seq(W) /\ v.values \in Seq(W)
  BY UnitFacts DEF Precedes
<1>2. /\ all \in Seq(W) /\ Len(all) = m + n
      /\ \A i \in 1..(m + n) : all[i] = IF i <= m THEN u.values[i] ELSE v.values[i - m]
  <2>1. ASSUME NEW s \in Seq(W), NEW t \in Seq(W)
        PROVE  /\ s \o t \in Seq(W) /\ Len(s \o t) = Len(s) + Len(t)
               /\ \A i \in 1..(Len(s) + Len(t)) :
                    (s \o t)[i] = IF i <= Len(s) THEN s[i] ELSE t[i - Len(s)]
    BY ConcatProperties
  <2> QED
    BY <1>1, <2>1, Zenon
<1>3. all # <<>>
  BY <1>1, <1>2
<1>4. w.table = u.table /\ w.start = u.start /\ w.values = all
  BY DEF Units
<1>5. w \in Units(W)
  BY <1>2, <1>3 DEF Units
<1>6. End(w) = End(v)
  <2>1. End(w) = u.start + (m + n) /\ End(v) = v.start + n
    BY <1>2, <1>4, Zenon DEF End
  <2> HIDE DEF w, m, n
  <2> QED
    BY <1>1, <2>1
<1> HIDE DEF w, all, m, n
<1>7. Cells(w) = {<<u.table, u.start + i - 1, all[i]>> : i \in 1..(m + n)}
  BY <1>2, <1>4 DEF Cells
<1>8. Cells(u) = {<<u.table, u.start + i - 1, all[i]>> : i \in 1..m}
  <2>1. \A i \in 1..m : i \in 1..(m + n) /\ all[i] = u.values[i]
    BY <1>1, <1>2
  <2> QED
    BY <2>1 DEF Cells, m
<1>9. Cells(v) = {<<u.table, u.start + i - 1, all[i]>> : i \in (m + 1)..(m + n)}
  <2>1. ASSUME NEW i \in 1..n
        PROVE  /\ i + m \in (m + 1)..(m + n) /\ all[i + m] = v.values[i]
               /\ u.start + (i + m) - 1 = v.start + i - 1
    <3>1. i + m \in 1..(m + n) /\ ~(i + m <= m) /\ (i + m) - m = i
      BY <1>1
    <3> QED
      BY <1>1, <1>2, <3>1
  <2>2. ASSUME NEW j \in (m + 1)..(m + n) PROVE j - m \in 1..n /\ (j - m) + m = j
    BY <1>1
  <2>3. Cells(v) = {<<u.table, v.start + i - 1, v.values[i]>> : i \in 1..n}
    BY <1>1, Zenon DEF Cells, n
  <2> DEFINE cell(i) == <<u.table, v.start + i - 1, v.values[i]>>
             there(j) == <<u.table, u.start + j - 1, all[j]>>
  <2>4. ASSUME NEW i \in 1..n PROVE cell(i) = there(i + m)
    BY <2>1
  <2>5. ASSUME NEW j \in (m + 1)..(m + n) PROVE there(j) = cell(j - m)
    BY <2>2, <2>4
  <2>6. Cells(v) = {cell(i) : i \in 1..n}
    BY <2>3
  <2> HIDE DEF cell, there
  <2>7. {cell(i) : i \in 1..n} = {there(j) : j \in (m + 1)..(m + n)}
    BY <2>1, <2>2, <2>4, <2>5
  <2> QED
    BY <2>6, <2>7 DEF there
<1>10. 1..(m + n) = (1..m) \cup ((m + 1)..(m + n))
  BY <1>1
<1>11. Cells(w) = Cells(u) \cup Cells(v)
  BY <1>7, <1>8, <1>9, <1>10
<1> QED
  BY <1>4, <1>5, <1>6, <1>11 DEF Glued, w

\* What overlaps neither of two units does not overlap them glued.
LEMMA GluedApart ==
  ASSUME NEW W, NEW u \in Units(W), NEW v \in Units(W), Precedes(u, v),
         NEW w, Glued(w, u, v, W), NEW x \in Units(W), Apart(u, x), Apart(v, x)
  PROVE  Apart(w, x) /\ Apart(x, w)
<1>1. /\ u.start \in Nat /\ u.start < End(u) /\ End(u) \in Nat /\ End(u) = v.start
      /\ v.start \in Nat /\ v.start < End(v) /\ End(v) \in Nat
      /\ x.start \in Nat /\ x.start < End(x) /\ End(x) \in Nat /\ u.table = v.table
  BY UnitFacts DEF Precedes, End
<1>2. w.table = u.table /\ w.start = u.start /\ End(w) = End(v)
  BY DEF Glued
<1> QED
  BY <1>1, <1>2 DEF Apart

\* The first unit that a unit can be appended to, if there is one.
LEMMA PredecessorFacts ==
  ASSUME NEW W, NEW us \in Seq(Units(W)), NEW unit
  PROVE  LET P == Predecessor(us, unit) IN
           /\ P \in Nat
           /\ P = 0 => \A i \in 1..Len(us) : ~Precedes(us[i], unit)
           /\ P # 0 => /\ P \in 1..Len(us) /\ Precedes(us[P], unit)
                       /\ \A i \in 1..Len(us) : Precedes(us[i], unit) => P <= i
<1> DEFINE I == {i \in 1..Len(us) : Precedes(us[i], unit)}
<1>1. Predecessor(us, unit) = IF I # {} THEN Min(I) ELSE 0
  BY Zenon DEF Predecessor, SelectInSeq
<1>2. I \subseteq Nat /\ \A i \in I : i # 0
  OBVIOUS
<1>3. I # {} => Min(I) \in I /\ \A i \in I : Min(I) <= i
  BY <1>2, MinFacts
<1> QED
  BY <1>1, <1>2, <1>3

\* t is us with unit appended to its predecessor.
Merged(t, us, unit, W) ==
  LET P == Predecessor(us, unit) IN
    /\ t \in Seq(Units(W)) /\ Len(t) = Len(us)
    /\ \A i \in 1..Len(us) : i # P => t[i] = us[i]
    /\ Glued(t[P], us[P], unit, W)

\* What mergeDataUnit does.
LEMMA MergeFacts ==
  ASSUME NEW W, NEW us \in Seq(Units(W)), NEW unit \in Units(W), Predecessor(us, unit) # 0
  PROVE  Merged(mergeDataUnit(us, unit), us, unit, W)
<1> PICK P : P = Predecessor(us, unit)
  OBVIOUS
<1> DEFINE w == [us[P] EXCEPT !.values = @ \o unit.values]
<1>1. P \in 1..Len(us) /\ Precedes(us[P], unit)
  BY PredecessorFacts
<1>2. us[P] \in Units(W)
  BY <1>1
<1>3. Glued(w, us[P], unit, W)
  BY <1>1, <1>2, Glue
<1>4. mergeDataUnit(us, unit) = [us EXCEPT ![P] = w]
  BY DEF mergeDataUnit
<1>5. w \in Units(W)
  BY <1>3 DEF Glued
<1> HIDE DEF w
<1>6. /\ [us EXCEPT ![P] = w] \in Seq(Units(W))
      /\ Len([us EXCEPT ![P] = w]) = Len(us)
      /\ [us EXCEPT ![P] = w][P] = w
      /\ \A i \in 1..Len(us) : i # P => [us EXCEPT ![P] = w][i] = us[i]
  BY <1>1, <1>5
<1> QED
  BY <1>3, <1>4, <1>6 DEF Merged
----------------------------------------------------------------------------
(* Sorting. *)

\* t has the units us, each once, in the order of f.
Arranged(t, us, f) ==
  LET D == 1..Len(us) IN
    /\ f \in [D -> D]
    /\ \A k, l \in D : f[k] = f[l] => k = l
    /\ \A j \in D : \E k \in D : f[k] = j
    /\ t = [k \in D |-> us[f[k]]]
    /\ \A k, l \in D : k < l => Earlier(us, f[k], f[l])

\* A unit comes where there are as many before it as are earlier.
LEMMA SortedOnce ==
  ASSUME NEW W, NEW us \in Seq(Units(W))
  PROVE  \E f : Arranged(byAddress(us), us, f)
<1> DEFINE D == 1..Len(us)
           earlier(j) == {i \in D : Earlier(us, i, j)}
           rank == [j \in D |-> Cardinality(earlier(j))]
<1>1. /\ \A i \in D : ~Earlier(us, i, i)
      /\ \A i, j \in D : i # j => Earlier(us, i, j) \/ Earlier(us, j, i)
      /\ \A i, j, k \in D : Earlier(us, i, j) /\ Earlier(us, j, k) => Earlier(us, i, k)
  <2>1. \A i \in D : us[i].start \in Nat /\ i \in Nat
    BY UnitFacts
  <2> QED
    BY <2>1 DEF Earlier
<1>2. IsFiniteSet(D) /\ Cardinality(D) = Len(us) /\ Len(us) \in Nat
  <2>1. Len(us) \in Nat
    OBVIOUS
  <2>2. ASSUME NEW n \in Nat PROVE IsFiniteSet(1..n) /\ Cardinality(1..n) = n
    BY FS_Interval
  <2> QED
    BY <2>1, <2>2
<1>3. \A j \in D : earlier(j) \in SUBSET D /\ IsFiniteSet(earlier(j)) /\ Cardinality(earlier(j)) \in Nat
  BY <1>2, FS_Subset, FS_CardinalityType
<1>4. ASSUME NEW i \in D, NEW j \in D, Earlier(us, i, j)
      PROVE  rank[i] < rank[j]
  <2>1. earlier(i) \subseteq earlier(j)
    BY <1>1, <1>4
  <2>2. i \in earlier(j) /\ i \notin earlier(i)
    BY <1>1, <1>4
  <2>3. /\ Cardinality(earlier(i)) <= Cardinality(earlier(j))
        /\ Cardinality(earlier(i)) = Cardinality(earlier(j)) => earlier(i) = earlier(j)
    BY <1>3, <2>1, FS_Subset
  <2> HIDE DEF earlier
  <2> QED
    BY <1>3, <2>2, <2>3
<1>5. ASSUME NEW j \in D PROVE rank[j] \in 0..(Len(us) - 1)
  <2>1. earlier(j) \subseteq D /\ j \notin earlier(j)
    BY <1>1
  <2>2. /\ Cardinality(earlier(j)) <= Cardinality(D)
        /\ Cardinality(earlier(j)) = Cardinality(D) => earlier(j) = D
    BY <1>2, <2>1, FS_Subset
  <2> HIDE DEF earlier, D
  <2> QED
    BY <1>2, <1>3, <2>1, <2>2
<1>6. \A i, j \in D : rank[i] = rank[j] => i = j
  <2> HIDE DEF rank
  <2>1. \A j \in D : rank[j] \in Int
    BY <1>5
  <2>2. \A i, j \in D : i # j => rank[i] < rank[j] \/ rank[j] < rank[i]
    BY <1>1, <1>4
  <2> QED
    BY <2>1, <2>2
<1> DEFINE place == [j \in D |-> rank[j] + 1]
<1>7. \A k \in D : \E j \in D : rank[j] = k - 1
  <2>1. \A j \in D : place[j] \in D
    BY <1>2, <1>5
  <2>2. place \in Injection(D, D)
    <3> HIDE DEF D, rank
    <3>1. \A j \in D : rank[j] \in Int
      BY <1>5
    <3> QED
      BY <1>6, <2>1, <3>1 DEF Injection, IsInjective
  <2> HIDE DEF place, D
  <2>3. place \in Surjection(D, D)
    BY <1>2, <2>2, FS_Injection
  <2>4. \A k \in D : \E j \in D : place[j] = k
    BY <2>3 DEF Surjection
  <2> SUFFICES ASSUME NEW k \in D PROVE \E j \in D : rank[j] = k - 1
    OBVIOUS
  <2>5. PICK j \in D : place[j] = k
    BY <2>4
  <2>6. place[j] = rank[j] + 1 /\ rank[j] \in Int
    <3>1. rank[j] \in Int
      BY <1>5
    <3> HIDE DEF rank
    <3> QED
      BY <3>1 DEF place
  <2> HIDE DEF rank
  <2> QED
    BY <2>5, <2>6
<1> DEFINE chosen(k) == CHOOSE j \in D : Cardinality(earlier(j)) = k - 1
           f == [k \in D |-> chosen(k)]
<1>8. byAddress(us) = [k \in D |-> us[f[k]]]
  <2>1. DOMAIN us = D
    OBVIOUS
  <2> DEFINE from(S) == [k \in S |-> us[CHOOSE j \in S :
                                       Cardinality({i \in S : Earlier(us, i, j)}) = k - 1]]
  <2>2. byAddress(us) = [k \in D |-> us[chosen(k)]]
    <3>1. byAddress(us) = from(DOMAIN us)
      BY Zenon DEF byAddress
    <3>2. from(D) = [k \in D |-> us[chosen(k)]]
      BY Zenon
    <3> HIDE DEF from, chosen, D
    <3> QED
      BY <2>1, <3>1, <3>2
  <2> HIDE DEF chosen
  <2> QED
    BY <2>2
<1>9. ASSUME NEW k \in D PROVE f[k] \in D /\ rank[f[k]] = k - 1
  <2>1. \E j \in D : Cardinality(earlier(j)) = k - 1
    BY <1>7
  <2> HIDE DEF earlier, D
  <2>2. chosen(k) \in D /\ Cardinality(earlier(chosen(k))) = k - 1
    BY <2>1
  <2> QED
    BY <2>2
<1> HIDE DEF f, rank
<1>10. \A k, l \in D : f[k] = f[l] => k = l
  BY <1>9
<1>11. \A j \in D : \E k \in D : f[k] = j
  <2> SUFFICES ASSUME NEW j \in D PROVE \E k \in D : f[k] = j
    OBVIOUS
  <2>1. rank[j] + 1 \in D /\ (rank[j] + 1) - 1 = rank[j]
    BY <1>2, <1>5
  <2> QED
    BY <1>6, <1>9, <2>1
<1>12. ASSUME NEW k \in D, NEW l \in D, k < l PROVE Earlier(us, f[k], f[l])
  <2>1. f[k] \in D /\ f[l] \in D /\ rank[f[k]] < rank[f[l]]
    BY <1>9, <1>12
  <2>2. f[k] # f[l] /\ ~Earlier(us, f[l], f[k])
    <3>1. rank[f[k]] \in Int /\ rank[f[l]] \in Int
      BY <1>5, <2>1
    <3> QED
      BY <1>4, <2>1, <3>1
  <2> QED
    BY <1>1, <2>1, <2>2
<1>13. f \in [D -> D]
  BY <1>9 DEF f
<1> QED
  BY <1>8, <1>10, <1>11, <1>12, <1>13 DEF Arranged
----------------------------------------------------------------------------
(* Appending the sorted units of a table. *)

\* Units of one table, each of which starts after the one before it.
Rising(us, t, W) ==
  /\ us \in Seq(Units(W))
  /\ \A k \in 1..Len(us) : us[k].table = t
  /\ \A k, l \in 1..Len(us) : k < l => us[k].start < us[l].start

\* The indices of the units that are not appended to others.
Live(us, r) == (1..Len(us)) \ r.removed

\* After the first n of the units us.  One that is appended is not found again
\* when another could be appended to it: a unit before it ends where it ends.
AppendedUpTo(n, us, r, W) ==
  /\ r.units \in Seq(Units(W)) /\ Len(r.units) = Len(us)
  /\ r.removed \subseteq 1..n
  /\ \A k \in 1..Len(us) : r.units[k].start = us[k].start /\ r.units[k].table = us[k].table
  /\ \A k \in (n + 1)..Len(us) : r.units[k] = us[k]
  /\ CellsOf(r.units, Live(us, r)) = CellsOf(us, 1..Len(us))
  /\ \A k \in r.removed, j \in (n + 1)..Len(us) :
       End(r.units[k]) = us[j].start =>
         \E l \in Live(us, r) : l < k /\ End(r.units[l]) = us[j].start
  /\ \A k, l \in Live(us, r) : k <= n /\ l <= n => End(r.units[k]) # us[l].start
  /\ NoneOverlap(us) => \A k, l \in Live(us, r) : k # l => Apart(r.units[k], r.units[l])

\* What one more unit makes of that.
OneMoreAppended(r, us, i) ==
  IF Predecessor(r.units, us[i]) = 0 THEN r
  ELSE [units |-> mergeDataUnit(r.units, us[i]), removed |-> r.removed \cup {i}]

\* Where a unit of a table ends is where the next one starts.
LEMMA PrecedesInTable ==
  ASSUME NEW W, NEW t, NEW us, Rising(us, t, W), NEW n \in Nat, NEW r,
         AppendedUpTo(n, us, r, W), NEW k \in 1..Len(us), NEW j \in 1..Len(us)
  PROVE  /\ r.units[k] \in Units(W) /\ us[j] \in Units(W)
         /\ Precedes(r.units[k], us[j]) <=> End(r.units[k]) = us[j].start
         /\ End(r.units[k]) \in Nat /\ us[k].start \in Nat /\ us[k].start < End(r.units[k])
<1>1. /\ r.units[k] \in Units(W) /\ us[j] \in Units(W)
      /\ r.units[k].start = us[k].start
      /\ r.units[k].table = us[k].table /\ us[k].table = t /\ us[j].table = t
  BY DEF AppendedUpTo, Rising
<1>2. End(r.units[k]) \in Nat /\ r.units[k].start \in Nat /\ r.units[k].start < End(r.units[k])
  BY <1>1, UnitFacts
<1> QED
  BY <1>1, <1>2 DEF Precedes, End

\* A unit that cannot be appended stays.
LEMMA NotAppended ==
  ASSUME NEW W, NEW t, NEW us, Rising(us, t, W), NEW n \in Nat, n < Len(us), NEW r,
         AppendedUpTo(n, us, r, W), Predecessor(r.units, us[n + 1]) = 0
  PROVE  AppendedUpTo(n + 1, us, r, W)
<1>1. us \in Seq(Units(W)) /\ Len(us) \in Nat /\ n + 1 \in 1..Len(us)
  BY DEF Rising
<1>2. ASSUME NEW k \in 1..Len(us) PROVE End(r.units[k]) # us[n + 1].start
  <2>1. ~Precedes(r.units[k], us[n + 1])
    BY PredecessorFacts DEF AppendedUpTo
  <2> QED
    BY <1>1, <2>1, PrecedesInTable
<1>3. \A k \in 1..(n + 1) : k \in 1..n \/ k = n + 1
  BY <1>1
<1>4. \A k \in ((n + 1) + 1)..Len(us) : k \in (n + 1)..Len(us)
  BY <1>1
<1>5. r.removed \subseteq 1..(n + 1)
  BY <1>1 DEF AppendedUpTo
<1>6. ASSUME NEW k \in Live(us, r), NEW l \in Live(us, r), k <= n + 1, l <= n + 1
      PROVE  End(r.units[k]) # us[l].start
  <2>1. k \in 1..Len(us) /\ l \in 1..Len(us)
    BY DEF Live
  <2>2. CASE l = n + 1
    BY <1>2, <2>1, <2>2
  <2>3. CASE l # n + 1 /\ k = n + 1
    <3>1. us[l].start < us[k].start /\ us[l].start \in Nat
      <4>1. l < k
        BY <1>1, <1>6, <2>1, <2>3
      <4>2. us[l].start \in Nat
        BY <2>1, PrecedesInTable
      <4> QED
        BY <2>1, <4>1, <4>2 DEF Rising
    <3>2. us[k].start < End(r.units[k]) /\ End(r.units[k]) \in Nat /\ us[k].start \in Nat
      BY <2>1, PrecedesInTable
    <3> QED
      BY <3>1, <3>2
  <2>4. CASE l # n + 1 /\ k # n + 1
    <3>1. k <= n /\ l <= n
      BY <1>6, <2>1, <2>4
    <3> QED
      BY <3>1 DEF AppendedUpTo
  <2> QED
    BY <2>2, <2>3, <2>4
<1> QED
  BY <1>4, <1>5, <1>6 DEF AppendedUpTo

\* A unit that can be appended is appended to one that is not removed, and the
\* cells are where they were.
LEMMA OneAppended ==
  ASSUME NEW W, NEW t, NEW us, Rising(us, t, W), NEW n \in Nat, n < Len(us), NEW r,
         AppendedUpTo(n, us, r, W), Predecessor(r.units, us[n + 1]) # 0,
         NEW s, s.units = mergeDataUnit(r.units, us[n + 1]), s.removed = r.removed \cup {n + 1}
  PROVE  AppendedUpTo(n + 1, us, s, W)
<1> PICK i : i = n + 1
  OBVIOUS
<1> PICK P : P = Predecessor(r.units, us[i])
  OBVIOUS
<1>1. /\ us \in Seq(Units(W)) /\ Len(us) \in Nat /\ i \in 1..Len(us)
      /\ us[i] \in Units(W) /\ r.units \in Seq(Units(W)) /\ Len(r.units) = Len(us)
  BY DEF Rising, AppendedUpTo
<1>2. /\ P \in 1..Len(us) /\ Precedes(r.units[P], us[i])
      /\ \A k \in 1..Len(us) : Precedes(r.units[k], us[i]) => P <= k
  BY <1>1, PredecessorFacts
<1>3. End(r.units[P]) = us[i].start
  BY <1>1, <1>2, PrecedesInTable
<1>4. P < i
  <2>1. us[P].start < us[i].start /\ us[P].start \in Nat /\ us[i].start \in Nat
    BY <1>1, <1>2, <1>3, PrecedesInTable
  <2>2. ~(i < P) /\ P # i
    BY <1>1, <1>2, <2>1 DEF Rising
  <2> QED
    BY <1>1, <1>2, <2>2
<1>5. P \notin r.removed /\ i \notin r.removed
  <2>1. i \notin r.removed
    BY <1>1 DEF AppendedUpTo
  <2>2. ASSUME P \in r.removed PROVE FALSE
    <3>1. i \in (n + 1)..Len(us)
      BY <1>1
    <3>2. PICK l \in Live(us, r) : l < P /\ End(r.units[l]) = us[i].start
      BY <1>3, <2>2, <3>1 DEF AppendedUpTo
    <3>3. l \in 1..Len(us) /\ Precedes(r.units[l], us[i])
      BY <1>1, <3>2, PrecedesInTable DEF Live
    <3>4. P <= l
      BY <1>2, <3>3
    <3> QED
      BY <1>2, <3>2, <3>3, <3>4
  <2> QED
    BY <2>1, <2>2
<1>6. P \in Live(us, r) /\ i \in Live(us, r) /\ Live(us, s) = Live(us, r) \ {i}
  BY <1>1, <1>2, <1>5 DEF Live
<1>7. r.units[i] = us[i]
  BY <1>1 DEF AppendedUpTo
<1>8. Merged(s.units, r.units, us[i], W)
  BY <1>1, <1>2, MergeFacts
<1>9. /\ s.units \in Seq(Units(W)) /\ Len(s.units) = Len(us)
      /\ \A k \in 1..Len(us) : k # P => s.units[k] = r.units[k]
      /\ Glued(s.units[P], r.units[P], us[i], W)
  BY <1>1, <1>8 DEF Merged
<1>10. /\ s.units[P].start = r.units[P].start /\ s.units[P].table = r.units[P].table
       /\ End(s.units[P]) = End(us[i])
       /\ Cells(s.units[P]) = Cells(r.units[P]) \cup Cells(us[i])
  BY <1>9 DEF Glued
<1>11. s.removed \subseteq 1..(n + 1)
  BY <1>1 DEF AppendedUpTo
<1>12. \A k \in 1..Len(us) : s.units[k].start = us[k].start /\ s.units[k].table = us[k].table
  BY <1>9, <1>10 DEF AppendedUpTo
<1>13. \A k \in ((n + 1) + 1)..Len(us) : s.units[k] = us[k]
  <2>1. \A k \in ((n + 1) + 1)..Len(us) : k \in 1..Len(us) /\ k # P /\ k \in (n + 1)..Len(us)
    BY <1>1, <1>2, <1>4
  <2> QED
    BY <1>9, <2>1 DEF AppendedUpTo
<1>14. CellsOf(s.units, Live(us, s)) = CellsOf(us, 1..Len(us))
  <2>1. \A k \in Live(us, r) : k # P => Cells(s.units[k]) = Cells(r.units[k])
    BY <1>9 DEF Live
  <2>2. P # i
    BY <1>1, <1>2, <1>4
  <2>3. CellsOf(s.units, Live(us, r) \ {i}) = CellsOf(r.units, Live(us, r))
    BY <1>6, <1>7, <1>10, <2>1, <2>2 DEF CellsOf
  <2> QED
    BY <1>6, <2>3 DEF AppendedUpTo
<1>15. ASSUME NEW k \in s.removed, NEW j \in ((n + 1) + 1)..Len(us),
              End(s.units[k]) = us[j].start
       PROVE  \E l \in Live(us, s) : l < k /\ End(s.units[l]) = us[j].start
  <2>1. j \in 1..Len(us) /\ j \in (n + 1)..Len(us) /\ i < j
    BY <1>1
  <2>2. us[i].start < us[j].start /\ us[i].start \in Nat
    BY <1>1, <2>1, PrecedesInTable DEF Rising
  <2>3. CASE k = i
    <3>1. s.units[k] = us[i]
      BY <1>1, <1>2, <1>4, <1>7, <1>9, <2>3
    <3>2. P \in Live(us, s) /\ End(s.units[P]) = us[j].start
      BY <1>2, <1>4, <1>1, <1>6, <1>10, <1>15, <3>1
    <3> QED
      BY <1>4, <2>3, <3>2
  <2>4. CASE k \in r.removed
    <3>1. k # P /\ k \in 1..Len(us) /\ k < i
      BY <1>1, <1>5, <2>4 DEF AppendedUpTo
    <3>2. End(r.units[k]) = us[j].start
      BY <1>9, <1>15, <3>1
    <3>3. PICK l \in Live(us, r) : l < k /\ End(r.units[l]) = us[j].start
      BY <2>1, <2>4, <3>2 DEF AppendedUpTo
    <3>4. l # P
      BY <1>3, <2>2, <3>3, PrecedesInTable, <2>1
    <3>5. l \in 1..Len(us) /\ l # i
      BY <1>1, <3>1, <3>3 DEF Live
    <3> QED
      BY <1>6, <1>9, <3>3, <3>4, <3>5
  <2> QED
    BY <2>3, <2>4
<1>16. ASSUME NEW k \in Live(us, s), NEW l \in Live(us, s), k <= n + 1, l <= n + 1
       PROVE  End(s.units[k]) # us[l].start
  <2>1. k \in Live(us, r) /\ l \in Live(us, r) /\ k # i /\ l # i
    BY <1>6
  <2>2. k \in 1..Len(us) /\ l \in 1..Len(us) /\ k <= n /\ l <= n
    BY <1>16, <2>1 DEF Live
  <2>3. CASE k # P
    BY <1>9, <2>1, <2>2, <2>3 DEF AppendedUpTo
  <2>4. CASE k = P
    <3>1. us[l].start < us[i].start /\ us[l].start \in Nat
      <4>1. l < i
        BY <2>2
      <4>2. us[l].start \in Nat
        BY <2>2, PrecedesInTable
      <4> QED
        BY <1>1, <2>2, <4>1, <4>2 DEF Rising
    <3>2. us[i].start < End(us[i]) /\ End(us[i]) \in Nat /\ us[i].start \in Nat
      BY <1>1, UnitFacts
    <3> QED
      BY <1>10, <2>4, <3>1, <3>2
  <2> QED
    BY <2>3, <2>4
<1>17. ASSUME NoneOverlap(us), NEW k \in Live(us, s), NEW l \in Live(us, s), k # l
       PROVE  Apart(s.units[k], s.units[l])
  <2>1. /\ k \in Live(us, r) /\ l \in Live(us, r) /\ k # i /\ l # i
        /\ k \in 1..Len(us) /\ l \in 1..Len(us)
    BY <1>6 DEF Live
  <2>2. ASSUME NEW x \in Live(us, r), x # P, x # i
        PROVE  Apart(s.units[P], s.units[x]) /\ Apart(s.units[x], s.units[P])
    <3>1. x \in 1..Len(us) /\ s.units[x] = r.units[x]
      BY <1>9, <2>2 DEF Live
    <3>2. Apart(r.units[P], r.units[x]) /\ Apart(us[i], r.units[x])
      BY <1>6, <1>7, <1>17, <2>2 DEF AppendedUpTo
    <3>3. r.units[P] \in Units(W) /\ r.units[x] \in Units(W)
      BY <1>1, <1>2, <3>1
    <3> QED
      BY <1>1, <1>2, <1>9, <3>1, <3>2, <3>3, GluedApart
  <2>3. CASE k = P
    BY <1>17, <2>1, <2>2, <2>3
  <2>4. CASE l = P
    BY <1>17, <2>1, <2>2, <2>4
  <2>5. CASE k # P /\ l # P
    BY <1>9, <1>17, <2>1, <2>5 DEF AppendedUpTo
  <2> QED
    BY <2>3, <2>4, <2>5
<1> QED
  BY <1>9, <1>11, <1>12, <1>13, <1>14, <1>15, <1>16, <1>17 DEF AppendedUpTo

\* The fold goes unit by unit.
LEMMA AppendingSteps ==
  ASSUME NEW W, NEW t, NEW us, Rising(us, t, W)
  PROVE  \E r : /\ r[0] = [units |-> us, removed |-> {}]
                /\ \A i \in 1..Len(us) : r[i] = OneMoreAppended(r[i - 1], us, i)
                /\ appendedInOrder(us) = r[Len(us)]
<1> DEFINE n == Len(us)
           base == [units |-> us, removed |-> {}]
           State == [units : Seq(Units(W)), removed : SUBSET Nat]
           ids == [i \in DOMAIN us |-> i]
           step == [xw \in (1..n) \X State |-> OneMoreAppended(xw[2], us, xw[1])]
           Own(g) == g = [T \in SUBSET (DOMAIN ids) |->
                            IF T = {} THEN base
                            ELSE OneMoreAppended(g[T \ {Max(T)}], us, ids[Max(T)])]
<1>1. us \in Seq(Units(W)) /\ n \in Nat /\ DOMAIN us = 1..n /\ base \in State
  BY DEF Rising
<1>2. ASSUME NEW x \in 1..n, NEW w \in State PROVE OneMoreAppended(w, us, x) \in State
  <2>1. us[x] \in Units(W) /\ w.units \in Seq(Units(W)) /\ w.removed \cup {x} \in SUBSET Nat
    BY <1>1
  <2>2. Predecessor(w.units, us[x]) # 0 => mergeDataUnit(w.units, us[x]) \in Seq(Units(W))
    BY <2>1, MergeFacts DEF Merged
  <2> QED
    BY <2>1, <2>2 DEF OneMoreAppended
<1>3. DOMAIN ids = 1..n /\ \A i \in 1..n : ids[i] = i
  BY <1>1
<1>4. appendedInOrder(us) = (CHOOSE g : Own(g))[DOMAIN ids]
  BY Zenon DEF appendedInOrder, OneMoreAppended, FoldLeft, MapThenFoldSet
<1>5. \E g : Own(g)
  <2>1. \A x \in 1..n, w \in State : step[<<x, w>>] = OneMoreAppended(w, us, x)
    OBVIOUS
  <2>2. StaysIn(step, 1..n, State)
    <3> HIDE DEF step, State
    <3> QED
      BY <1>2, <2>1 DEF StaysIn
  <2> HIDE DEF step, State, base, n
  <2>3. PICK f \in [SUBSET (1..n) -> State] : FoldsRange(f, n, base, step)
    BY <1>1, <2>2, FoldOverRange, Zenon
  <2>4. ASSUME NEW T \in SUBSET (1..n)
        PROVE  f[T] = IF T = {} THEN base
                      ELSE OneMoreAppended(f[T \ {Max(T)}], us, ids[Max(T)])
    <3>1. CASE T = {}
      BY <2>3, <3>1 DEF FoldsRange
    <3>2. CASE T # {}
      <4>1. Max(T) \in 1..n /\ ids[Max(T)] = Max(T) /\ f[T \ {Max(T)}] \in State
        BY <1>1, <1>3, <3>2, MaxFacts
      <4>2. f[T] = step[<<Max(T), f[T \ {Max(T)}]>>]
        BY <2>3, <3>2 DEF FoldsRange
      <4> QED
        BY <2>1, <3>2, <4>1, <4>2
    <3> QED
      BY <3>1, <3>2
  <2>5. Own(f)
    <3> HIDE DEF ids
    <3> QED
      BY <1>3, <2>4
  <2> HIDE DEF Own
  <2> QED
    BY <2>5
<1> DEFINE g == CHOOSE h : Own(h)
<1>6. Own(g)
  <2> HIDE DEF Own
  <2> QED
    BY <1>5
<1>7. g[{}] = base
  <2> HIDE DEF g, base, ids
  <2> QED
    BY <1>6
<1>8. ASSUME NEW i \in 1..n PROVE g[1..i] = OneMoreAppended(g[1..(i - 1)], us, i)
  <2>1. /\ 1..i \in SUBSET (1..n) /\ 1..i # {}
        /\ Max(1..i) = i /\ (1..i) \ {i} = 1..(i - 1)
    BY <1>1, RangeFacts
  <2>2. ids[i] = i
    BY <1>3
  <2> HIDE DEF g, base, ids, n
  <2>3. \A T \in SUBSET (1..n) :
          T # {} => g[T] = OneMoreAppended(g[T \ {Max(T)}], us, ids[Max(T)])
    BY <1>3, <1>6
  <2>4. g[1..i] = OneMoreAppended(g[(1..i) \ {Max(1..i)}], us, ids[Max(1..i)])
    BY <2>1, <2>3, Zenon
  <2> QED
    BY <2>1, <2>2, <2>4, Zenon
<1>9. 1..0 = {}
  OBVIOUS
<1> DEFINE r == [i \in 0..n |-> g[1..i]]
<1>10. r[0] = base /\ r[n] = g[1..n]
  <2> HIDE DEF g, base
  <2> QED
    BY <1>1, <1>7, <1>9
<1>11. ASSUME NEW i \in 1..n PROVE r[i] = OneMoreAppended(r[i - 1], us, i)
  <2>1. i \in 0..n /\ i - 1 \in 0..n
    BY <1>1
  <2> HIDE DEF g
  <2> QED
    BY <1>8, <2>1
<1>12. appendedInOrder(us) = r[n]
  <2> HIDE DEF Own, ids, r
  <2> QED
    BY <1>3, <1>4, <1>10
<1> HIDE DEF r
<1> QED
  BY <1>10, <1>11, <1>12

\* What appending in order makes of the units of a table.
LEMMA AllAppended ==
  ASSUME NEW W, NEW t, NEW us, Rising(us, t, W)
  PROVE  AppendedUpTo(Len(us), us, appendedInOrder(us), W)
<1> PICK r : /\ r[0] = [units |-> us, removed |-> {}]
             /\ \A i \in 1..Len(us) : r[i] = OneMoreAppended(r[i - 1], us, i)
             /\ appendedInOrder(us) = r[Len(us)]
  BY AppendingSteps
<1>1. us \in Seq(Units(W)) /\ Len(us) \in Nat
  BY DEF Rising
<1> DEFINE P == {i \in Nat : i <= Len(us) => AppendedUpTo(i, us, r[i], W)}
<1>2. AppendedUpTo(0, us, r[0], W)
  <2>1. r[0].units = us /\ r[0].removed = {} /\ Live(us, r[0]) = 1..Len(us)
    BY DEF Live
  <2>2. \A k \in 1..Len(us) : k \in DOMAIN us /\ ~(k <= 0)
    BY <1>1
  <2>3. \A k \in Live(us, r[0]) : k \in DOMAIN us /\ ~(k <= 0)
    BY <2>1, <2>2
  <2> QED
    BY <1>1, <2>1, <2>2, <2>3 DEF AppendedUpTo, NoneOverlap
<1>3. ASSUME NEW i \in Nat, i + 1 <= Len(us), AppendedUpTo(i, us, r[i], W)
      PROVE  AppendedUpTo(i + 1, us, r[i + 1], W)
  <2>1. i + 1 \in 1..Len(us) /\ (i + 1) - 1 = i /\ i < Len(us)
    BY <1>1, <1>3
  <2>2. r[i + 1] = OneMoreAppended(r[i], us, i + 1)
    BY <2>1
  <2>3. CASE Predecessor(r[i].units, us[i + 1]) = 0
    BY <1>3, <2>1, <2>2, <2>3, NotAppended DEF OneMoreAppended
  <2>4. CASE Predecessor(r[i].units, us[i + 1]) # 0
    <3>1. /\ r[i + 1].units = mergeDataUnit(r[i].units, us[i + 1])
          /\ r[i + 1].removed = r[i].removed \cup {i + 1}
      BY <2>2, <2>4 DEF OneMoreAppended
    <3> QED
      BY <1>3, <2>1, <2>4, <3>1, OneAppended
  <2> QED
    BY <2>3, <2>4
<1>4. \A i \in Nat : i \in P
  <2>1. 0 \in P
    BY <1>2
  <2>2. ASSUME NEW i \in Nat, i \in P PROVE i + 1 \in P
    BY <1>1, <1>3, <2>2
  <2> HIDE DEF P
  <2> QED
    BY <2>1, <2>2, NaturalsInduct
<1> QED
  BY <1>1, <1>4

\* The units that are not appended are what is kept.
LEMMA RemainingKept ==
  ASSUME NEW W, NEW us \in Seq(Units(W)), NEW r, r = appendedInOrder(byAddress(us)),
         r.units \in Seq(Units(W)), Len(r.units) = Len(us)
  PROVE  Kept(sortAndMergeDataUnits(us), Len(us), Live(us, r), r.units, Units(W))
<1> DEFINE n == Len(us)
           K == Live(us, r)
           none == <<>>
           ids == [i \in DOMAIN us |-> i]
           Own(g) == g = [T \in SUBSET (DOMAIN ids) |->
                            IF T = {} THEN <<>>
                            ELSE IF ids[Max(T)] \in r.removed THEN g[T \ {Max(T)}]
                            ELSE Append(g[T \ {Max(T)}], r.units[ids[Max(T)]])]
<1>1. /\ n \in Nat /\ DOMAIN ids = 1..n /\ \A i \in 1..n : ids[i] = i
      /\ none \in Seq(Units(W)) /\ none = <<>> /\ r.units \in [1..n -> Units(W)]
  OBVIOUS
<1>2. sortAndMergeDataUnits(us) = (CHOOSE g : Own(g))[DOMAIN ids]
  BY Zenon DEF sortAndMergeDataUnits, FoldLeft, MapThenFoldSet
<1>3. ASSUME NEW T \in SUBSET (1..n), T # {}
      PROVE  Max(T) \in 1..n /\ ids[Max(T)] = Max(T) /\ (Max(T) \in K <=> Max(T) \notin r.removed)
  <2>1. Max(T) \in 1..n
    BY <1>1, <1>3, MaxFacts
  <2> QED
    BY <1>1, <2>1 DEF Live
<1> HIDE DEF n, K, none, ids
<1>4. ASSUME NEW g PROVE KeptFold(g, n, K, r.units, none) <=> Own(g)
  <2> DEFINE kept(T) == IF T = {} THEN none
                        ELSE IF Max(T) \in K THEN Append(g[T \ {Max(T)}], r.units[Max(T)])
                        ELSE g[T \ {Max(T)}]
             own(T) == IF T = {} THEN <<>>
                       ELSE IF ids[Max(T)] \in r.removed THEN g[T \ {Max(T)}]
                       ELSE Append(g[T \ {Max(T)}], r.units[ids[Max(T)]])
  <2>1. \A T \in SUBSET (1..n) : kept(T) = own(T)
    BY <1>1, <1>3
  <2>2. KeptFold(g, n, K, r.units, none) <=> g = [T \in SUBSET (1..n) |-> kept(T)]
    BY Zenon DEF KeptFold
  <2>3. Own(g) <=> g = [T \in SUBSET (DOMAIN ids) |-> own(T)]
    BY Zenon
  <2> HIDE DEF kept, own, Own
  <2> QED
    BY <1>1, <2>1, <2>2, <2>3
<1>5. \E g : KeptFold(g, n, K, r.units, none)
  BY <1>1, KeptExists
<1> DEFINE g == CHOOSE h : Own(h)
<1>6. KeptFold(g, n, K, r.units, none)
  <2> HIDE DEF Own
  <2> QED
    BY <1>4, <1>5
<1>7. sortAndMergeDataUnits(us) = g[1..n]
  <2> HIDE DEF Own
  <2> QED
    BY <1>1, <1>2
<1> HIDE DEF g
<1>8. PICK s : Keeps(s, g, n, K, r.units, none, Units(W))
  BY <1>1, <1>6, KeptSteps
<1>9. Kept(g[1..n], n, K, r.units, Units(W))
  BY <1>1, <1>8 DEF Keeps, Kept
<1> QED
  BY <1>7, <1>9 DEF n, K

\* m is what merging makes of the units us of table t.
MergedTable(m, us, t, W) ==
  /\ m \in Seq(Units(W)) /\ \A k \in 1..Len(m) : m[k].table = t
  /\ CellsOf(m, 1..Len(m)) = CellsOf(us, 1..Len(us))
  /\ StartApart(m) /\ NoneMergeable(m)
  /\ NoneOverlap(us) => NoneOverlap(m)

\* What sorting and merging makes of units of a table that start apart.
LEMMA SortedMerge ==
  ASSUME NEW W, NEW t, NEW us \in Seq(Units(W)),
         \A k \in 1..Len(us) : us[k].table = t, StartApart(us)
  PROVE  MergedTable(sortAndMergeDataUnits(us), us, t, W)
<1> DEFINE n == Len(us)
<1> PICK b : b = byAddress(us)
  OBVIOUS
<1> PICK f : Arranged(b, us, f)
  BY SortedOnce
<1>1. n \in Nat /\ DOMAIN us = 1..n
  OBVIOUS
<1>2. /\ f \in [1..n -> 1..n] /\ b = [k \in 1..n |-> us[f[k]]]
      /\ \A k, l \in 1..n : f[k] = f[l] => k = l
      /\ \A j \in 1..n : \E k \in 1..n : f[k] = j
      /\ \A k, l \in 1..n : k < l => Earlier(us, f[k], f[l])
  BY DEF Arranged
<1>3. b \in Seq(Units(W)) /\ Len(b) = n /\ DOMAIN b = 1..n /\ \A k \in 1..n : b[k] = us[f[k]] /\ f[k] \in 1..n
  <2>1. \A k \in 1..n : f[k] \in 1..n /\ us[f[k]] \in Units(W)
    BY <1>2
  <2>2. b \in [1..n -> Units(W)]
    BY <1>2, <2>1
  <2>3. ASSUME NEW c \in [1..n -> Units(W)] PROVE c \in Seq(Units(W)) /\ Len(c) = n /\ DOMAIN c = 1..n
    BY <1>1
  <2> HIDE DEF n
  <2>4. b \in Seq(Units(W)) /\ Len(b) = n /\ DOMAIN b = 1..n
    BY <2>2, <2>3, Zenon
  <2> QED
    BY <1>2, <2>1, <2>4
<1> HIDE DEF n
<1>4. Rising(b, t, W)
  <2>1. \A k \in 1..n : b[k].table = t
    BY <1>3 DEF n
  <2>2. ASSUME NEW k \in 1..n, NEW l \in 1..n, k < l PROVE b[k].start < b[l].start
    <3>1. Earlier(us, f[k], f[l]) /\ f[k] # f[l] /\ f[k] \in 1..n /\ f[l] \in 1..n
      BY <1>1, <1>2, <2>2
    <3>2. us[f[k]].table = t /\ us[f[l]].table = t
      BY <3>1 DEF n
    <3>3. us[f[k]].start # us[f[l]].start
      BY <1>1, <3>1, <3>2 DEF StartApart
    <3> QED
      BY <1>3, <3>1, <3>3 DEF Earlier
  <2> QED
    BY <1>3, <2>1, <2>2 DEF Rising
<1>5. CellsOf(b, 1..n) = CellsOf(us, 1..n)
  <2>1. \A k \in 1..n : f[k] \in 1..n /\ Cells(b[k]) = Cells(us[f[k]])
    BY <1>3
  <2>2. \A j \in 1..n : \E k \in 1..n : Cells(us[j]) = Cells(b[k])
    <3> SUFFICES ASSUME NEW j \in 1..n PROVE \E k \in 1..n : Cells(us[j]) = Cells(b[k])
      OBVIOUS
    <3>1. PICK k \in 1..n : f[k] = j
      BY <1>2
    <3> QED
      BY <2>1, <3>1
  <2> QED
    BY <2>1, <2>2, Zenon DEF CellsOf
<1>6. NoneOverlap(us) => NoneOverlap(b)
  <2> SUFFICES ASSUME NoneOverlap(us), NEW k \in 1..n, NEW l \in 1..n, k # l
               PROVE  Apart(b[k], b[l])
    BY <1>3, Zenon DEF NoneOverlap
  <2>1. f[k] # f[l] /\ f[k] \in DOMAIN us /\ f[l] \in DOMAIN us
    BY <1>1, <1>2, <1>3
  <2>2. Apart(us[f[k]], us[f[l]])
    BY <2>1 DEF NoneOverlap
  <2> QED
    BY <1>3, <2>2
<1> PICK r : r = appendedInOrder(b)
  OBVIOUS
<1> PICK m : m = sortAndMergeDataUnits(us)
  OBVIOUS
<1>7. AppendedUpTo(n, b, r, W)
  BY <1>3, <1>4, AllAppended
<1>8. /\ r.units \in Seq(Units(W)) /\ Len(r.units) = n
      /\ \A k \in 1..n : r.units[k].start = b[k].start /\ r.units[k].table = t
      /\ CellsOf(r.units, Live(b, r)) = CellsOf(us, 1..n)
      /\ NoneOverlap(us) => \A k, l \in Live(b, r) : k # l => Apart(r.units[k], r.units[l])
      /\ \A k \in Live(b, r) : k \in 1..n
      /\ Live(us, r) = Live(b, r)
  BY <1>3, <1>4, <1>5, <1>6, <1>7 DEF AppendedUpTo, Live, Rising, n
<1>9. \A k, l \in Live(b, r) : End(r.units[k]) # b[l].start
  <2>1. \A k \in Live(b, r) : k \in 1..n /\ k <= n
    BY <1>1, <1>8
  <2> QED
    BY <1>7, <2>1 DEF AppendedUpTo
<1> DEFINE K == Live(b, r)
<1>10. Kept(m, n, K, r.units, Units(W))
  BY <1>8, RemainingKept DEF n
<1> HIDE DEF K
<1>11. \A k \in K \cap (1..n) : r.units[k] \in Units(W)
  BY <1>8
<1>12. m \in Seq(Units(W)) /\ \E h : KeptFrom(h, m, n, K, r.units)
  BY <1>1, <1>10, <1>11, KeptInPlace
<1> PICK h : KeptFrom(h, m, n, K, r.units)
  BY <1>12
<1>13. \A i \in 1..Len(m) : h[i] \in K /\ h[i] \in 1..n /\ m[i] = r.units[h[i]]
  BY DEF KeptFrom
<1>14. \A i, j \in 1..Len(m) : i # j => h[i] # h[j]
  <2>1. Len(m) \in Nat
    BY <1>12
  <2>2. \A i, j \in 1..Len(m) : i < j \/ j < i \/ i = j
    BY <2>1
  <2>3. \A i, j \in 1..Len(m) : i < j => h[i] < h[j]
    BY DEF KeptFrom
  <2>4. \A i \in 1..Len(m) : h[i] \in Int
    BY <1>1, <1>13
  <2> QED
    BY <2>2, <2>3, <2>4
<1>15. \A k \in K : \E i \in 1..Len(m) : h[i] = k
  BY <1>8 DEF KeptFrom, K
<1>16. CellsOf(m, 1..Len(m)) = CellsOf(us, 1..n)
  <2>1. CellsOf(m, 1..Len(m)) = CellsOf(r.units, K)
    <3>1. \A i \in 1..Len(m) : h[i] \in K /\ Cells(m[i]) = Cells(r.units[h[i]])
      BY <1>13
    <3>2. \A k \in K : \E i \in 1..Len(m) : Cells(r.units[k]) = Cells(m[i])
      BY <1>15, <3>1
    <3>3. \A c : c \in CellsOf(m, 1..Len(m)) <=> \E i \in 1..Len(m) : c \in Cells(m[i])
      BY Zenon DEF CellsOf
    <3>4. \A c : c \in CellsOf(r.units, K) <=> \E k \in K : c \in Cells(r.units[k])
      BY Zenon DEF CellsOf
    <3>5. \A c : c \in CellsOf(m, 1..Len(m)) <=> c \in CellsOf(r.units, K)
      BY <3>1, <3>2, <3>3, <3>4
    <3> QED
      BY <3>5 DEF CellsOf
  <2> QED
    BY <1>8, <2>1 DEF K
<1>17. DOMAIN m = 1..Len(m)
  BY <1>12
<1>18. ASSUME NEW i \in 1..Len(m), NEW j \in 1..Len(m)
       PROVE  /\ m[i].table = t /\ m[j].table = t /\ ~Precedes(m[i], m[j])
              /\ i # j => m[i].start # m[j].start
              /\ NoneOverlap(us) /\ i # j => Apart(m[i], m[j])
  <2>1. /\ h[i] \in K /\ h[j] \in K /\ h[i] \in 1..n /\ h[j] \in 1..n
        /\ m[i] = r.units[h[i]] /\ m[j] = r.units[h[j]] /\ (i # j => h[i] # h[j])
    BY <1>13, <1>14
  <2>2. m[i].table = t /\ m[j].table = t /\ m[i].start = b[h[i]].start /\ m[j].start = b[h[j]].start
    BY <1>8, <2>1
  <2>3. End(m[i]) # m[j].start
    BY <1>9, <2>1, <2>2 DEF K
  <2>4. ~Precedes(m[i], m[j])
    BY <2>3 DEF Precedes, End
  <2>5. ASSUME i # j PROVE m[i].start # m[j].start
    <3>1. h[i] < h[j] \/ h[j] < h[i]
      BY <1>1, <2>1, <2>5
    <3>2. b[h[i]].start \in Nat /\ b[h[j]].start \in Nat
      <4>1. b[h[i]] \in Units(W) /\ b[h[j]] \in Units(W)
        BY <1>3, <2>1
      <4> QED
        BY <4>1, UnitFacts
    <3> QED
      BY <1>3, <1>4, <2>1, <2>2, <3>1, <3>2 DEF Rising
  <2> QED
    BY <1>8, <2>1, <2>2, <2>4, <2>5 DEF K
<1> QED
  BY <1>12, <1>16, <1>17, <1>18 DEF MergedTable, StartApart, NoneMergeable, NoneOverlap, n
----------------------------------------------------------------------------
(* Collecting the units of a table. *)

\* The indices of the first k units that are of the table t.
OfTable(src, t, k) == {j \in 1..k : src[j].table = t}

\* us is what is collected of the first k units of src.
CollectedUpTo(k, src, t, us, W) ==
  /\ us \in Seq(Units(W))
  /\ \A i \in 1..Len(us) : /\ us[i].table = t
                           /\ \E j \in OfTable(src, t, k) : us[i].start = src[j].start
  /\ \A i, l \in 1..Len(us) : i # l => us[i].start # us[l].start
  /\ CellsOf(us, 1..Len(us)) = CellsOf(src, OfTable(src, t, k))
  /\ NoneOverlap(src) =>
       /\ \A i, l \in 1..Len(us) : i # l => Apart(us[i], us[l])
       /\ \A i \in 1..Len(us), j \in (k + 1)..Len(src) : Apart(us[i], src[j])

\* What one more unit makes of that.
OneMoreCollected(us, u, t) ==
  IF u.table # t THEN us
  ELSE IF Predecessor(us, u) = 0 THEN Append(us, u)
  ELSE mergeDataUnit(us, u)

\* A unit that none ends before is put at the end.
LEMMA CollectedAtEnd ==
  ASSUME NEW W, NEW t, NEW src \in Seq(Units(W)), StartApart(src),
         NEW k \in Nat, k < Len(src), NEW us, CollectedUpTo(k, src, t, us, W),
         src[k + 1].table = t
  PROVE  CollectedUpTo(k + 1, src, t, Append(us, src[k + 1]), W)
<1> DEFINE u == src[k + 1]
           m == Len(us)
           w == Append(us, u)
           I == OfTable(src, t, k)
           J == OfTable(src, t, k + 1)
<1>1. /\ us \in Seq(Units(W)) /\ u \in Units(W) /\ m \in Nat
      /\ Len(src) \in Nat /\ DOMAIN src = 1..Len(src) /\ k + 1 \in 1..Len(src)
  BY DEF CollectedUpTo
<1>2. /\ w \in Seq(Units(W)) /\ Len(w) = m + 1 /\ w[m + 1] = u
      /\ \A i \in 1..m : w[i] = us[i]
  BY <1>1, AppendProperties
<1>3. /\ 1..(m + 1) = (1..m) \cup {m + 1} /\ 1..(k + 1) = (1..k) \cup {k + 1}
  BY <1>1, OneMoreInRange
<1>4. J = I \cup {k + 1} /\ \A j \in I : j \in 1..k /\ src[j].table = t
  BY <1>3 DEF OfTable
<1> HIDE DEF w, m, I, J
<1>5. /\ \A i \in 1..m : us[i].table = t /\ \E j \in I : us[i].start = src[j].start
      /\ \A i, l \in 1..m : i # l => us[i].start # us[l].start
      /\ CellsOf(us, 1..m) = CellsOf(src, I)
      /\ NoneOverlap(src) =>
           /\ \A i, l \in 1..m : i # l => Apart(us[i], us[l])
           /\ \A i \in 1..m, j \in (k + 1)..Len(src) : Apart(us[i], src[j])
  BY DEF CollectedUpTo, m, I
<1>6. \A i \in 1..m : us[i].start # u.start
  <2> SUFFICES ASSUME NEW i \in 1..m PROVE us[i].start # u.start
    OBVIOUS
  <2>1. PICK j \in I : us[i].start = src[j].start
    BY <1>5
  <2>2. j \in DOMAIN src /\ j # k + 1 /\ k + 1 \in DOMAIN src /\ src[j].table = u.table
    BY <1>1, <1>4
  <2>3. src[j].start # src[k + 1].start
    BY <2>2 DEF StartApart
  <2> QED
    BY <2>1, <2>3
<1>7. \A i \in 1..(m + 1) : w[i].table = t /\ \E j \in J : w[i].start = src[j].start
  BY <1>2, <1>3, <1>4, <1>5
<1>8. \A i, l \in 1..(m + 1) : i # l => w[i].start # w[l].start
  BY <1>2, <1>3, <1>5, <1>6
<1>9. CellsOf(w, 1..(m + 1)) = CellsOf(src, J)
  <2>1. CellsOf(w, 1..(m + 1)) = CellsOf(us, 1..m) \cup Cells(u)
    BY <1>2, <1>3 DEF CellsOf
  <2>2. CellsOf(src, J) = CellsOf(src, I) \cup Cells(u)
    BY <1>4 DEF CellsOf
  <2> QED
    BY <1>5, <2>1, <2>2
<1>10. ASSUME NoneOverlap(src)
       PROVE  /\ \A i, l \in 1..(m + 1) : i # l => Apart(w[i], w[l])
              /\ \A i \in 1..(m + 1), j \in ((k + 1) + 1)..Len(src) : Apart(w[i], src[j])
  <2>1. ASSUME NEW j \in ((k + 1) + 1)..Len(src)
        PROVE  j \in (k + 1)..Len(src) /\ Apart(u, src[j])
    <3>1. j \in (k + 1)..Len(src) /\ j \in DOMAIN src /\ k + 1 \in DOMAIN src /\ j # k + 1
      BY <1>1
    <3> QED
      BY <1>10, <3>1 DEF NoneOverlap
  <2>2. \A i \in 1..m : Apart(us[i], u) /\ Apart(u, us[i])
    <3>1. k + 1 \in (k + 1)..Len(src)
      BY <1>1
    <3>2. \A i \in 1..m : Apart(us[i], u)
      BY <1>5, <1>10, <3>1
    <3> QED
      BY <3>2 DEF Apart
  <2> QED
    BY <1>2, <1>3, <1>5, <1>10, <2>1, <2>2
<1>11. CollectedUpTo(k + 1, src, t, w, W)
  BY <1>2, <1>7, <1>8, <1>9, <1>10 DEF CollectedUpTo, J
<1> QED
  BY <1>11 DEF w

\* A unit that can be is appended to the one before it.
LEMMA CollectedIntoOne ==
  ASSUME NEW W, NEW t, NEW src \in Seq(Units(W)), NEW k \in Nat, k < Len(src),
         NEW us, CollectedUpTo(k, src, t, us, W),
         src[k + 1].table = t, Predecessor(us, src[k + 1]) # 0
  PROVE  CollectedUpTo(k + 1, src, t, mergeDataUnit(us, src[k + 1]), W)
<1> DEFINE u == src[k + 1]
           m == Len(us)
           I == OfTable(src, t, k)
           J == OfTable(src, t, k + 1)
<1> PICK P : P = Predecessor(us, u)
  OBVIOUS
<1> PICK w : w = mergeDataUnit(us, u)
  OBVIOUS
<1>1. /\ us \in Seq(Units(W)) /\ u \in Units(W) /\ m \in Nat
      /\ Len(src) \in Nat /\ DOMAIN src = 1..Len(src) /\ k + 1 \in 1..Len(src)
  BY DEF CollectedUpTo
<1>2. P \in 1..m /\ Precedes(us[P], u)
  BY <1>1, PredecessorFacts
<1>3. Merged(w, us, u, W)
  BY <1>1, MergeFacts
<1>4. /\ w \in Seq(Units(W)) /\ Len(w) = m /\ \A i \in 1..m : i # P => w[i] = us[i]
      /\ Glued(w[P], us[P], u, W)
  BY <1>3 DEF Merged
<1>5. /\ w[P].table = us[P].table /\ w[P].start = us[P].start
      /\ Cells(w[P]) = Cells(us[P]) \cup Cells(u)
  BY <1>4 DEF Glued
<1>6. 1..(k + 1) = (1..k) \cup {k + 1}
  BY OneMoreInRange
<1>7. J = I \cup {k + 1}
  BY <1>6 DEF OfTable
<1> HIDE DEF m, I, J
<1>8. /\ \A i \in 1..m : us[i].table = t /\ \E j \in I : us[i].start = src[j].start
      /\ \A i, l \in 1..m : i # l => us[i].start # us[l].start
      /\ CellsOf(us, 1..m) = CellsOf(src, I)
      /\ NoneOverlap(src) =>
           /\ \A i, l \in 1..m : i # l => Apart(us[i], us[l])
           /\ \A i \in 1..m, j \in (k + 1)..Len(src) : Apart(us[i], src[j])
  BY DEF CollectedUpTo, m, I
<1>9. \A i \in 1..m : w[i].table = us[i].table /\ w[i].start = us[i].start
  BY <1>4, <1>5
<1>10. CellsOf(w, 1..m) = CellsOf(src, J)
  <2>1. \A i \in 1..m : i # P => Cells(w[i]) = Cells(us[i])
    BY <1>4
  <2>2. CellsOf(w, 1..m) = CellsOf(us, 1..m) \cup Cells(u)
    BY <1>2, <1>5, <2>1 DEF CellsOf
  <2>3. CellsOf(src, J) = CellsOf(src, I) \cup Cells(u)
    BY <1>7 DEF CellsOf
  <2> QED
    BY <1>8, <2>2, <2>3
<1>11. ASSUME NoneOverlap(src)
       PROVE  /\ \A i, l \in 1..m : i # l => Apart(w[i], w[l])
              /\ \A i \in 1..m, j \in ((k + 1) + 1)..Len(src) : Apart(w[i], src[j])
  <2>1. ASSUME NEW j \in ((k + 1) + 1)..Len(src)
        PROVE  j \in (k + 1)..Len(src) /\ Apart(u, src[j]) /\ src[j] \in Units(W)
    <3>1. j \in (k + 1)..Len(src) /\ j \in DOMAIN src /\ k + 1 \in DOMAIN src /\ j # k + 1
      BY <1>1
    <3> QED
      BY <1>11, <3>1 DEF NoneOverlap
  <2>2. \A i \in 1..m : Apart(us[i], u) /\ Apart(u, us[i]) /\ us[i] \in Units(W)
    <3>1. k + 1 \in (k + 1)..Len(src)
      BY <1>1
    <3>2. \A i \in 1..m : Apart(us[i], u)
      BY <1>8, <1>11, <3>1
    <3> QED
      BY <1>1, <3>2 DEF Apart, m
  <2>3. ASSUME NEW x \in Units(W), Apart(us[P], x), Apart(u, x)
        PROVE  Apart(w[P], x) /\ Apart(x, w[P])
    <3>1. us[P] \in Units(W)
      BY <1>2, <2>2
    <3> QED
      BY <1>1, <1>2, <1>4, <2>3, <3>1, GluedApart
  <2>4. \A i \in 1..m : i # P => Apart(w[P], us[i]) /\ Apart(us[i], w[P])
    BY <1>2, <1>8, <1>11, <2>2, <2>3
  <2>5. ASSUME NEW i \in 1..m, NEW l \in 1..m, i # l PROVE Apart(w[i], w[l])
    BY <1>4, <1>8, <1>11, <2>4, <2>5
  <2>6. ASSUME NEW i \in 1..m, NEW j \in ((k + 1) + 1)..Len(src) PROVE Apart(w[i], src[j])
    BY <1>2, <1>4, <1>8, <1>11, <2>1, <2>3
  <2> QED
    BY <2>5, <2>6
<1>12. \A i \in 1..m : w[i].table = t /\ \E j \in J : w[i].start = src[j].start
  BY <1>7, <1>8, <1>9
<1>13. \A i, l \in 1..m : i # l => w[i].start # w[l].start
  BY <1>8, <1>9
<1> QED
  BY <1>4, <1>10, <1>11, <1>12, <1>13 DEF CollectedUpTo, J

\* A unit of another table is left out.
LEMMA NotCollected ==
  ASSUME NEW W, NEW t, NEW src \in Seq(Units(W)), NEW k \in Nat, k < Len(src),
         NEW us, CollectedUpTo(k, src, t, us, W), src[k + 1].table # t
  PROVE  CollectedUpTo(k + 1, src, t, us, W)
<1>1. 1..(k + 1) = (1..k) \cup {k + 1}
  BY OneMoreInRange
<1>2. OfTable(src, t, k + 1) = OfTable(src, t, k)
  BY <1>1 DEF OfTable
<1>3. \A j \in ((k + 1) + 1)..Len(src) : j \in (k + 1)..Len(src)
  OBVIOUS
<1> QED
  BY <1>2, <1>3 DEF CollectedUpTo

\* The fold goes unit by unit.
LEMMA CollectingSteps ==
  ASSUME NEW W, NEW src \in Seq(Units(W)), NEW t
  PROVE  \E r : /\ r[0] = <<>>
                /\ \A i \in 1..Len(src) : r[i] = OneMoreCollected(r[i - 1], src[i], t)
                /\ collected(src, t) = r[Len(src)]
<1> DEFINE n == Len(src)
           State == Seq(Units(W))
           none == <<>>
           step == [xw \in (1..n) \X State |-> OneMoreCollected(xw[2], src[xw[1]], t)]
           Own(g) == g = [T \in SUBSET (DOMAIN src) |->
                            IF T = {} THEN <<>>
                            ELSE OneMoreCollected(g[T \ {Max(T)}], src[Max(T)], t)]
<1>1. n \in Nat /\ DOMAIN src = 1..n /\ none \in State /\ none = <<>>
  OBVIOUS
<1>2. ASSUME NEW x \in 1..n, NEW w \in State PROVE OneMoreCollected(w, src[x], t) \in State
  <2>1. src[x] \in Units(W) /\ w \in Seq(Units(W))
    OBVIOUS
  <2>2. Predecessor(w, src[x]) # 0 => mergeDataUnit(w, src[x]) \in Seq(Units(W))
    BY <2>1, MergeFacts DEF Merged
  <2>3. Append(w, src[x]) \in Seq(Units(W))
    BY <2>1, AppendProperties
  <2> QED
    BY <2>1, <2>2, <2>3 DEF OneMoreCollected
<1>3. collected(src, t) = (CHOOSE g : Own(g))[DOMAIN src]
  BY Zenon DEF collected, OneMoreCollected, FoldLeft, MapThenFoldSet
<1> HIDE DEF none
<1>4. \E g : Own(g)
  <2>1. \A x \in 1..n, w \in State : step[<<x, w>>] = OneMoreCollected(w, src[x], t)
    OBVIOUS
  <2>2. StaysIn(step, 1..n, State)
    <3> HIDE DEF step, State
    <3> QED
      BY <1>2, <2>1, Zenon DEF StaysIn
  <2> HIDE DEF step, State, n
  <2>3. PICK f \in [SUBSET (1..n) -> State] : FoldsRange(f, n, none, step)
    BY <1>1, <2>2, FoldOverRange, Zenon
  <2>4. ASSUME NEW T \in SUBSET (1..n)
        PROVE  f[T] = IF T = {} THEN none
                      ELSE OneMoreCollected(f[T \ {Max(T)}], src[Max(T)], t)
    <3>1. CASE T = {}
      BY <2>3, <3>1 DEF FoldsRange
    <3>2. CASE T # {}
      <4>1. Max(T) \in 1..n /\ f[T \ {Max(T)}] \in State
        BY <1>1, <3>2, MaxFacts
      <4>2. f[T] = step[<<Max(T), f[T \ {Max(T)}]>>]
        BY <2>3, <3>2 DEF FoldsRange
      <4> QED
        BY <2>1, <3>2, <4>1, <4>2
    <3> QED
      BY <3>1, <3>2
  <2>5. Own(f)
    BY <1>1, <2>4
  <2> HIDE DEF Own
  <2> QED
    BY <2>5
<1> DEFINE g == CHOOSE h : Own(h)
<1>5. Own(g)
  <2> HIDE DEF Own
  <2> QED
    BY <1>4
<1>6. g[{}] = <<>>
  <2> HIDE DEF g
  <2> QED
    BY <1>5
<1>7. ASSUME NEW i \in 1..n PROVE g[1..i] = OneMoreCollected(g[1..(i - 1)], src[i], t)
  <2>1. /\ 1..i \in SUBSET (1..n) /\ 1..i # {}
        /\ Max(1..i) = i /\ (1..i) \ {i} = 1..(i - 1)
    BY <1>1, RangeFacts
  <2> HIDE DEF g, n
  <2>2. \A T \in SUBSET (1..n) :
          T # {} => g[T] = OneMoreCollected(g[T \ {Max(T)}], src[Max(T)], t)
    BY <1>1, <1>5
  <2>3. g[1..i] = OneMoreCollected(g[(1..i) \ {Max(1..i)}], src[Max(1..i)], t)
    BY <2>1, <2>2, Zenon
  <2> QED
    BY <2>1, <2>3, Zenon
<1>8. 1..0 = {}
  OBVIOUS
<1> DEFINE r == [i \in 0..n |-> g[1..i]]
<1>9. r[0] = <<>> /\ r[n] = g[1..n]
  <2> HIDE DEF g
  <2> QED
    BY <1>1, <1>6, <1>8
<1>10. ASSUME NEW i \in 1..n PROVE r[i] = OneMoreCollected(r[i - 1], src[i], t)
  <2>1. i \in 0..n /\ i - 1 \in 0..n
    BY <1>1
  <2> HIDE DEF g
  <2> QED
    BY <1>7, <2>1
<1>11. collected(src, t) = r[n]
  <2> HIDE DEF Own, r
  <2> QED
    BY <1>1, <1>3, <1>9
<1> HIDE DEF r
<1> QED
  BY <1>9, <1>10, <1>11

\* What is collected of all units.
LEMMA AllCollected ==
  ASSUME NEW W, NEW src \in Seq(Units(W)), StartApart(src), NEW t
  PROVE  CollectedUpTo(Len(src), src, t, collected(src, t), W)
<1> PICK r : /\ r[0] = <<>>
             /\ \A i \in 1..Len(src) : r[i] = OneMoreCollected(r[i - 1], src[i], t)
             /\ collected(src, t) = r[Len(src)]
  BY CollectingSteps
<1>1. Len(src) \in Nat
  OBVIOUS
<1> DEFINE P == {i \in Nat : i <= Len(src) => CollectedUpTo(i, src, t, r[i], W)}
<1>2. CollectedUpTo(0, src, t, r[0], W)
  <2>1. r[0] \in Seq(Units(W)) /\ Len(r[0]) = 0 /\ 1..0 = {}
    OBVIOUS
  <2>2. OfTable(src, t, 0) = {}
    BY <2>1 DEF OfTable
  <2> QED
    BY <2>1, <2>2 DEF CollectedUpTo, CellsOf
<1>3. ASSUME NEW i \in Nat, i + 1 <= Len(src), CollectedUpTo(i, src, t, r[i], W)
      PROVE  CollectedUpTo(i + 1, src, t, r[i + 1], W)
  <2>1. i + 1 \in 1..Len(src) /\ (i + 1) - 1 = i /\ i < Len(src)
    BY <1>1, <1>3
  <2>2. r[i + 1] = OneMoreCollected(r[i], src[i + 1], t)
    BY <2>1
  <2>3. CASE src[i + 1].table # t
    BY <1>3, <2>1, <2>2, <2>3, NotCollected DEF OneMoreCollected
  <2>4. CASE src[i + 1].table = t /\ Predecessor(r[i], src[i + 1]) = 0
    <3>1. r[i + 1] = Append(r[i], src[i + 1])
      BY <2>2, <2>4 DEF OneMoreCollected
    <3> QED
      BY <1>3, <2>1, <2>4, <3>1, CollectedAtEnd
  <2>5. CASE src[i + 1].table = t /\ Predecessor(r[i], src[i + 1]) # 0
    <3>1. r[i + 1] = mergeDataUnit(r[i], src[i + 1])
      BY <2>2, <2>5 DEF OneMoreCollected
    <3> QED
      BY <1>3, <2>1, <2>5, <3>1, CollectedIntoOne
  <2> QED
    BY <2>3, <2>4, <2>5
<1>4. \A i \in Nat : i \in P
  <2>1. 0 \in P
    BY <1>2
  <2>2. ASSUME NEW i \in Nat, i \in P PROVE i + 1 \in P
    BY <1>1, <1>3, <2>2
  <2> HIDE DEF P
  <2> QED
    BY <2>1, <2>2, NaturalsInduct
<1> QED
  BY <1>1, <1>4
----------------------------------------------------------------------------
(* Merging all units. *)

\* m is what is made of the units of src of one table.
TableOf(m, src, t, W) ==
  /\ m \in Seq(Units(W)) /\ \A k \in 1..Len(m) : m[k].table = t
  /\ CellsOf(m, 1..Len(m)) = CellsOf(src, OfTable(src, t, Len(src)))
  /\ NoneMergeable(m)
  /\ NoneOverlap(src) => NoneOverlap(m)

\* The units of one table.
LEMMA EachTable ==
  ASSUME NEW W, NEW src \in Seq(Units(W)), StartApart(src), NEW t
  PROVE  TableOf(sortAndMergeDataUnits(collected(src, t)), src, t, W)
<1> PICK us : us = collected(src, t)
  OBVIOUS
<1>1. CollectedUpTo(Len(src), src, t, us, W)
  BY AllCollected
<1>2. /\ us \in Seq(Units(W)) /\ DOMAIN us = 1..Len(us)
      /\ \A k \in 1..Len(us) : us[k].table = t
      /\ StartApart(us)
      /\ CellsOf(us, 1..Len(us)) = CellsOf(src, OfTable(src, t, Len(src)))
      /\ NoneOverlap(src) => NoneOverlap(us)
  BY <1>1 DEF CollectedUpTo, StartApart, NoneOverlap
<1>3. MergedTable(sortAndMergeDataUnits(us), us, t, W)
  BY <1>2, SortedMerge
<1> QED
  BY <1>2, <1>3 DEF MergedTable, TableOf

\* m is made of the units of src of some tables.
TablesOf(m, src, ts, W) ==
  /\ m \in Seq(Units(W)) /\ \A k \in 1..Len(m) : m[k].table \in ts
  /\ CellsOf(m, 1..Len(m)) = UNION {CellsOf(src, OfTable(src, t, Len(src))) : t \in ts}
  /\ NoneMergeable(m)
  /\ NoneOverlap(src) => NoneOverlap(m)

\* The units of another table after them.
LEMMA OneMoreTable ==
  ASSUME NEW W, NEW src, NEW ts, NEW m, TablesOf(m, src, ts, W),
         NEW t, t \notin ts, NEW w, TableOf(w, src, t, W)
  PROVE  TablesOf(m \o w, src, ts \cup {t}, W)
<1> DEFINE a == Len(m)
           b == Len(w)
<1> PICK x : x = m \o w
  OBVIOUS
<1>1. /\ m \in Seq(Units(W)) /\ w \in Seq(Units(W)) /\ a \in Nat /\ b \in Nat
      /\ DOMAIN m = 1..a /\ DOMAIN w = 1..b
  BY DEF TablesOf, TableOf
<1>2. /\ x \in Seq(Units(W)) /\ Len(x) = a + b
      /\ \A i \in 1..(a + b) : x[i] = IF i <= a THEN m[i] ELSE w[i - a]
  <2>1. ASSUME NEW p \in Seq(Units(W)), NEW q \in Seq(Units(W))
        PROVE  /\ p \o q \in Seq(Units(W)) /\ Len(p \o q) = Len(p) + Len(q)
               /\ \A i \in 1..(Len(p) + Len(q)) :
                    (p \o q)[i] = IF i <= Len(p) THEN p[i] ELSE q[i - Len(p)]
    BY ConcatProperties
  <2> QED
    BY <1>1, <2>1, Zenon
<1> HIDE DEF a, b
<1>3. /\ \A i \in 1..a : i \in 1..(a + b) /\ x[i] = m[i]
      /\ \A i \in 1..b : i + a \in 1..(a + b) /\ x[i + a] = w[i]
  <2>1. \A i \in 1..a : i \in 1..(a + b) /\ i <= a
    BY <1>1
  <2>2. \A i \in 1..b : i + a \in 1..(a + b) /\ ~(i + a <= a) /\ (i + a) - a = i
    BY <1>1
  <2> QED
    BY <1>2, <2>1, <2>2
<1>4. \A i \in 1..(a + b) : i \in 1..a \/ (i - a \in 1..b /\ (i - a) + a = i)
  BY <1>1
<1>5. /\ \A i \in 1..a : m[i].table \in ts
      /\ \A i \in 1..b : w[i].table = t
      /\ CellsOf(m, 1..a) = UNION {CellsOf(src, OfTable(src, q, Len(src))) : q \in ts}
      /\ CellsOf(w, 1..b) = CellsOf(src, OfTable(src, t, Len(src)))
      /\ \A i, j \in 1..a : ~Precedes(m[i], m[j])
      /\ \A i, j \in 1..b : ~Precedes(w[i], w[j])
  BY <1>1 DEF TablesOf, TableOf, NoneMergeable, a, b
<1>6. ASSUME NEW i \in 1..(a + b)
      PROVE  \/ \E p \in 1..a : i = p /\ x[i] = m[p] /\ x[i].table \in ts
             \/ \E p \in 1..b : i = p + a /\ x[i] = w[p] /\ x[i].table = t
  <2>1. CASE i \in 1..a
    BY <1>3, <1>5, <2>1
  <2>2. CASE i - a \in 1..b /\ (i - a) + a = i
    <3>1. PICK p : p = i - a
      OBVIOUS
    <3>2. p \in 1..b /\ i = p + a
      BY <2>2, <3>1
    <3>3. x[i] = w[p] /\ w[p].table = t
      BY <1>3, <1>5, <3>2
    <3> QED
      BY <3>2, <3>3
  <2> QED
    BY <1>4, <2>1, <2>2
<1>7. \A i \in 1..(a + b) : x[i].table \in ts \cup {t}
  BY <1>6
<1>8. CellsOf(x, 1..(a + b)) = CellsOf(m, 1..a) \cup CellsOf(w, 1..b)
  <2>1. \A c : c \in CellsOf(x, 1..(a + b)) <=> \E i \in 1..(a + b) : c \in Cells(x[i])
    BY Zenon DEF CellsOf
  <2>2. \A c : c \in CellsOf(m, 1..a) <=> \E i \in 1..a : c \in Cells(m[i])
    BY Zenon DEF CellsOf
  <2>3. \A c : c \in CellsOf(w, 1..b) <=> \E i \in 1..b : c \in Cells(w[i])
    BY Zenon DEF CellsOf
  <2>4. ASSUME NEW c, NEW i \in 1..(a + b), c \in Cells(x[i])
        PROVE  c \in CellsOf(m, 1..a) \cup CellsOf(w, 1..b)
    BY <1>6, <2>2, <2>3, <2>4
  <2>5. ASSUME NEW c, NEW i \in 1..a, c \in Cells(m[i]) PROVE c \in CellsOf(x, 1..(a + b))
    BY <1>3, <2>1, <2>5
  <2>6. ASSUME NEW c, NEW i \in 1..b, c \in Cells(w[i]) PROVE c \in CellsOf(x, 1..(a + b))
    BY <1>3, <2>1, <2>6
  <2>7. \A c : c \in CellsOf(x, 1..(a + b)) <=> c \in CellsOf(m, 1..a) \cup CellsOf(w, 1..b)
    BY <2>1, <2>2, <2>3, <2>4, <2>5, <2>6
  <2> QED
    BY <2>7 DEF CellsOf
<1>9. CellsOf(x, 1..(a + b))
        = UNION {CellsOf(src, OfTable(src, q, Len(src))) : q \in ts \cup {t}}
  <2> DEFINE of(q) == CellsOf(src, OfTable(src, q, Len(src)))
  <2>1. CellsOf(x, 1..(a + b)) = (UNION {of(q) : q \in ts}) \cup of(t)
    BY <1>5, <1>8
  <2> HIDE DEF of
  <2>2. (UNION {of(q) : q \in ts}) \cup of(t) = UNION {of(q) : q \in ts \cup {t}}
    OBVIOUS
  <2> QED
    BY <2>1, <2>2 DEF of
<1>10. ASSUME NEW i \in 1..(a + b), NEW j \in 1..(a + b)
       PROVE  /\ ~Precedes(x[i], x[j])
              /\ NoneOverlap(src) /\ i # j => Apart(x[i], x[j])
  <2>1. CASE x[i].table # x[j].table
    BY <2>1 DEF Precedes, Apart
  <2>2. CASE x[i].table \in ts /\ x[j].table \in ts
    <3>1. PICK p \in 1..a : i = p /\ x[i] = m[p]
      BY <1>6, <2>2
    <3>2. PICK q \in 1..a : j = q /\ x[j] = m[q]
      BY <1>6, <2>2
    <3>3. NoneOverlap(src) /\ p # q => Apart(m[p], m[q])
      BY <1>1 DEF TablesOf, NoneOverlap
    <3> QED
      BY <1>5, <3>1, <3>2, <3>3
  <2>3. CASE x[i].table = t /\ x[j].table = t
    <3>1. PICK p \in 1..b : i = p + a /\ x[i] = w[p]
      BY <1>6, <2>3
    <3>2. PICK q \in 1..b : j = q + a /\ x[j] = w[q]
      BY <1>6, <2>3
    <3>3. NoneOverlap(src) /\ p # q => Apart(w[p], w[q])
      BY <1>1 DEF TableOf, NoneOverlap
    <3> QED
      BY <1>5, <3>1, <3>2, <3>3
  <2> QED
    BY <1>7, <2>1, <2>2, <2>3
<1>11. DOMAIN x = 1..(a + b)
  BY <1>1, <1>2
<1>12. NoneMergeable(x) /\ (NoneOverlap(src) => NoneOverlap(x))
  BY <1>10, <1>11, Zenon DEF NoneMergeable, NoneOverlap
<1> QED
  BY <1>2, <1>7, <1>9, <1>12 DEF TablesOf

\* Merging keeps every word at its address: what is asked of the device, or given
\* to it, is what the registers say, in units of which no two could have been one
\* and, if those given do not overlap, none do.
THEOREM MergingKeepsCells ==
  ASSUME NEW W, NEW src \in Seq(Units(W)), StartApart(src)
  PROVE  /\ mergeDataUnits(src) \in Seq(Units(W))
         /\ CellsOf(mergeDataUnits(src), DOMAIN mergeDataUnits(src)) = CellsOf(src, DOMAIN src)
         /\ NoneMergeable(mergeDataUnits(src))
         /\ NoneOverlap(src) => NoneOverlap(mergeDataUnits(src))
<1> DEFINE merged(t) == sortAndMergeDataUnits(collected(src, t))
<1>1. \A t : TableOf(merged(t), src, t, W)
  BY EachTable
<1>2. mergeDataUnits(src)
        = merged("holding") \o merged("di") \o merged("input") \o merged("coils")
  BY Zenon DEF mergeDataUnits
<1> HIDE DEF merged
<1>3. TablesOf(merged("holding"), src, {"holding"}, W)
  <2>1. TableOf(merged("holding"), src, "holding", W)
    BY <1>1
  <2>2. UNION {CellsOf(src, OfTable(src, t, Len(src))) : t \in {"holding"}}
          = CellsOf(src, OfTable(src, "holding", Len(src)))
    OBVIOUS
  <2> QED
    BY <2>1, <2>2 DEF TableOf, TablesOf
<1>4. TablesOf(merged("holding") \o merged("di"), src, {"holding"} \cup {"di"}, W)
  BY <1>1, <1>3, OneMoreTable
<1>5. TablesOf(merged("holding") \o merged("di") \o merged("input"),
               src, {"holding"} \cup {"di"} \cup {"input"}, W)
  BY <1>1, <1>4, OneMoreTable
<1>6. TablesOf(mergeDataUnits(src), src,
               {"holding"} \cup {"di"} \cup {"input"} \cup {"coils"}, W)
  BY <1>1, <1>2, <1>5, OneMoreTable
<1> PICK m : m = mergeDataUnits(src)
  OBVIOUS
<1>7. {"holding"} \cup {"di"} \cup {"input"} \cup {"coils"} = Tables
  BY DEF Tables
<1>8. TablesOf(m, src, Tables, W)
  BY <1>6, <1>7
<1>9. UNION {CellsOf(src, OfTable(src, t, Len(src))) : t \in Tables} = CellsOf(src, DOMAIN src)
  <2>1. \A j \in DOMAIN src : src[j].table \in Tables /\ j \in 1..Len(src)
    BY UnitFacts
  <2>2. \A t \in Tables : \A j \in OfTable(src, t, Len(src)) : j \in DOMAIN src
    BY DEF OfTable
  <2>3. \A j \in DOMAIN src : j \in OfTable(src, src[j].table, Len(src))
    BY <2>1 DEF OfTable
  <2> DEFINE of(t) == CellsOf(src, OfTable(src, t, Len(src)))
  <2>4. \A c, t : c \in of(t) <=> \E j \in OfTable(src, t, Len(src)) : c \in Cells(src[j])
    BY Zenon DEF CellsOf
  <2>5. \A c : c \in CellsOf(src, DOMAIN src) <=> \E j \in DOMAIN src : c \in Cells(src[j])
    BY Zenon DEF CellsOf
  <2> HIDE DEF of
  <2>6. \A c : c \in CellsOf(src, DOMAIN src) <=> \E t \in Tables : c \in of(t)
    <3>1. ASSUME NEW c, c \in CellsOf(src, DOMAIN src) PROVE \E t \in Tables : c \in of(t)
      <4>1. PICK j \in DOMAIN src : c \in Cells(src[j])
        BY <2>5, <3>1
      <4> QED
        BY <2>1, <2>3, <2>4, <4>1
    <3>2. ASSUME NEW c, NEW t \in Tables, c \in of(t) PROVE c \in CellsOf(src, DOMAIN src)
      <4>1. PICK j \in OfTable(src, t, Len(src)) : c \in Cells(src[j])
        BY <2>4, <3>2
      <4> QED
        BY <2>2, <2>5, <4>1
    <3> QED
      BY <3>1, <3>2
  <2>7. UNION {of(t) : t \in Tables} = CellsOf(src, DOMAIN src)
    <3>1. \A c : c \in UNION {of(t) : t \in Tables} <=> c \in CellsOf(src, DOMAIN src)
      BY <2>6
    <3> QED
      BY <3>1 DEF CellsOf
  <2> QED
    BY <2>7 DEF of
<1>10. m \in Seq(Units(W)) /\ DOMAIN m = 1..Len(m)
  BY <1>8 DEF TablesOf
<1> QED
  BY <1>8, <1>9, <1>10 DEF TablesOf
----------------------------------------------------------------------------
(* Values and words. *)

\* Reversing twice.
LEMMA ReverseTwice ==
  ASSUME NEW S, NEW s \in Seq(S)
  PROVE  /\ Reverse(s) \in Seq(S) /\ Len(Reverse(s)) = Len(s)
         /\ \A i \in 1..Len(s) : Len(s) - i + 1 \in 1..Len(s) /\ Reverse(s)[i] = s[Len(s) - i + 1]
         /\ Reverse(Reverse(s)) = s
<1> DEFINE n == Len(s)
<1>1. n \in Nat /\ s = [i \in 1..n |-> s[i]] /\ \A i \in 1..n : s[i] \in S
  OBVIOUS
<1> HIDE DEF n
<1>2. \A i \in 1..n : n - i + 1 \in 1..n /\ n - (n - i + 1) + 1 = i
  BY <1>1
<1>3. Reverse(s) = [i \in 1..n |-> s[n - i + 1]]
  BY DEF Reverse, n
<1>4. Reverse(s) \in [1..n -> S]
  BY <1>1, <1>2, <1>3
<1>5. ASSUME NEW c \in [1..n -> S] PROVE c \in Seq(S) /\ Len(c) = n
  BY <1>1
<1>6. Reverse(s) \in Seq(S) /\ Len(Reverse(s)) = n
  BY <1>4, <1>5, Zenon
<1>7. \A i \in 1..n : Reverse(s)[i] = s[n - i + 1]
  BY <1>3
<1>8. ASSUME NEW c, Len(c) = n PROVE Reverse(c) = [i \in 1..n |-> c[n - i + 1]]
  BY <1>8 DEF Reverse
<1>9. Reverse(Reverse(s)) = [i \in 1..n |-> Reverse(s)[n - i + 1]]
  BY <1>6, <1>8, Zenon
<1>10. \A i \in 1..n : Reverse(s)[n - i + 1] = s[i]
  BY <1>2, <1>7
<1>11. Reverse(Reverse(s)) = s
  BY <1>1, <1>9, <1>10
<1> QED
  BY <1>2, <1>6, <1>7, <1>11 DEF n

\* Each word with its bytes the other way round.
Flipped(words) == [i \in DOMAIN words |-> Reverse(words[i])]

LEMMA FlipTwice ==
  ASSUME NEW B, NEW ws \in Seq(Seq(B))
  PROVE  /\ Flipped(ws) \in Seq(Seq(B)) /\ Flipped(Flipped(ws)) = ws
         /\ Flipped(Reverse(ws)) = Reverse(Flipped(ws))
<1> DEFINE n == Len(ws)
<1>1. n \in Nat /\ DOMAIN ws = 1..n /\ ws = [i \in 1..n |-> ws[i]] /\ \A i \in 1..n : ws[i] \in Seq(B)
  OBVIOUS
<1>2. \A i \in 1..n : Reverse(ws[i]) \in Seq(B) /\ Reverse(Reverse(ws[i])) = ws[i]
  BY <1>1, ReverseTwice
<1> HIDE DEF n
<1>3. Flipped(ws) \in [1..n -> Seq(B)] /\ \A i \in 1..n : Flipped(ws)[i] = Reverse(ws[i])
  BY <1>1, <1>2 DEF Flipped
<1>4. ASSUME NEW c \in [1..n -> Seq(B)] PROVE c \in Seq(Seq(B)) /\ Len(c) = n /\ DOMAIN c = 1..n
  <2>1. ASSUME NEW S, NEW k \in Nat, NEW d \in [1..k -> S]
        PROVE  d \in Seq(S) /\ Len(d) = k /\ DOMAIN d = 1..k
    OBVIOUS
  <2> QED
    BY <1>1, <2>1, Zenon
<1>5. Flipped(ws) \in Seq(Seq(B)) /\ Len(Flipped(ws)) = n /\ DOMAIN Flipped(ws) = 1..n
  BY <1>3, <1>4, Zenon
<1>6. Flipped(Flipped(ws)) = ws
  <2>1. Flipped(Flipped(ws)) = [i \in 1..n |-> Reverse(Flipped(ws)[i])]
    BY <1>5, Zenon DEF Flipped
  <2>2. \A i \in 1..n : Reverse(Flipped(ws)[i]) = ws[i]
    BY <1>2, <1>3
  <2> QED
    BY <1>1, <2>1, <2>2
<1>7. Flipped(Reverse(ws)) = Reverse(Flipped(ws))
  <2> PICK x : x = Reverse(ws)
    OBVIOUS
  <2> PICK y : y = Flipped(ws)
    OBVIOUS
  <2>1. /\ x \in Seq(Seq(B)) /\ Len(x) = n /\ DOMAIN x = 1..n
        /\ \A i \in 1..n : n - i + 1 \in 1..n /\ x[i] = ws[n - i + 1]
    BY ReverseTwice DEF n
  <2>2. Flipped(x) = [i \in 1..n |-> Reverse(x[i])]
    BY <2>1, Zenon DEF Flipped
  <2>3. Reverse(y) = [i \in 1..n |-> y[n - i + 1]]
    BY <1>5 DEF Reverse
  <2>4. \A i \in 1..n : Reverse(x[i]) = y[n - i + 1]
    <3>1. \A k \in 1..n : y[k] = Reverse(ws[k])
      BY <1>3
    <3>2. ASSUME NEW i \in 1..n PROVE Reverse(x[i]) = y[n - i + 1]
      <4>1. n - i + 1 \in 1..n /\ x[i] = ws[n - i + 1]
        BY <2>1
      <4> QED
        BY <3>1, <4>1, Zenon
    <3> QED
      BY <3>2, Zenon
  <2>5. Flipped(x) = Reverse(y)
    BY <2>2, <2>3, <2>4
  <2> QED
    BY <2>5
<1> QED
  BY <1>5, <1>6, <1>7

\* Changing the packing and changing it back.
LEMMA PackedAndBack ==
  ASSUME NEW B, NEW ws \in Seq(Seq(B)), NEW was, NEW target
  PROVE  applyEndianess(applyEndianess(ws, was, target), target, was) = ws
<1>1. ASSUME NEW x, NEW from, NEW to
      PROVE  applyEndianess(x, from, to)
               = IF from.words # to.words
                 THEN Reverse(IF from.bytes # to.bytes THEN Flipped(x) ELSE x)
                 ELSE IF from.bytes # to.bytes THEN Flipped(x) ELSE x
  BY Zenon DEF applyEndianess, Flipped
<1> PICK f : f = Flipped(ws)
  OBVIOUS
<1>2. /\ f \in Seq(Seq(B)) /\ Flipped(f) = ws
      /\ Flipped(Reverse(f)) = Reverse(Flipped(f)) /\ Reverse(Reverse(f)) = f
      /\ Reverse(Reverse(ws)) = ws
  BY FlipTwice, ReverseTwice
<1>3. CASE was.words # target.words /\ was.bytes # target.bytes
  <2>1. applyEndianess(ws, was, target) = Reverse(f)
    BY <1>1, <1>3
  <2>2. applyEndianess(Reverse(f), target, was) = Reverse(Flipped(Reverse(f)))
    BY <1>1, <1>3
  <2> QED
    BY <1>2, <2>1, <2>2
<1>4. CASE was.words # target.words /\ was.bytes = target.bytes
  <2>1. applyEndianess(ws, was, target) = Reverse(ws)
    BY <1>1, <1>4
  <2>2. applyEndianess(Reverse(ws), target, was) = Reverse(Reverse(ws))
    BY <1>1, <1>4
  <2> QED
    BY <1>2, <2>1, <2>2
<1>5. CASE was.words = target.words /\ was.bytes # target.bytes
  <2>1. applyEndianess(ws, was, target) = f
    BY <1>1, <1>5
  <2>2. applyEndianess(f, target, was) = Flipped(f)
    BY <1>1, <1>5
  <2> QED
    BY <1>2, <2>1, <2>2
<1>6. CASE was.words = target.words /\ was.bytes = target.bytes
  BY <1>1, <1>6
<1> QED
  BY <1>3, <1>4, <1>5, <1>6

\* The words of a value, the highest first.
Pairs(v, n) == [i \in 1..n |-> SubSeq(v, 2 * i - 1, 2 * i)]

LEMMA WordsOfValue ==
  ASSUME NEW B, NEW v \in Seq(B), NEW n \in Nat, Len(v) = 2 * n
  PROVE  toWords(v) \in Seq(Seq(B)) /\ Reverse(toWords(v)) = Pairs(v, n)
<1> PICK w : w = toWords(v)
  OBVIOUS
<1>1. (2 * n) \div 2 = n
  OBVIOUS
<1>2. w = [i \in 1..n |-> SubSeq(v, 2 * n - 2 * i + 1, 2 * n - 2 * i + 2)]
  BY <1>1 DEF toWords
<1>3. ASSUME NEW i \in 1..n PROVE w[i] \in Seq(B)
  <2>1. 2 * n - 2 * i + 1 \in 1..(Len(v) + 1) /\ 2 * n - 2 * i + 2 \in 0..Len(v)
    OBVIOUS
  <2>2. \A a \in 1..(Len(v) + 1), b \in 0..Len(v) : SubSeq(v, a, b) \in Seq(B)
    BY SubSeqProperties
  <2> QED
    BY <1>2, <2>1, <2>2
<1>4. w \in Seq(Seq(B)) /\ Len(w) = n
  BY <1>2, <1>3
<1>5. \A i \in 1..n : /\ n - i + 1 \in 1..n
                      /\ 2 * n - 2 * (n - i + 1) + 1 = 2 * i - 1
                      /\ 2 * n - 2 * (n - i + 1) + 2 = 2 * i
  OBVIOUS
<1>6. Reverse(w) = [i \in 1..n |-> w[n - i + 1]]
  BY <1>4 DEF Reverse
<1>7. ASSUME NEW i \in 1..n PROVE w[n - i + 1] = SubSeq(v, 2 * i - 1, 2 * i)
  <2>1. \A j \in 1..n : w[j] = SubSeq(v, 2 * n - 2 * j + 1, 2 * n - 2 * j + 2)
    BY <1>2
  <2>2. w[n - i + 1] = SubSeq(v, 2 * n - 2 * (n - i + 1) + 1, 2 * n - 2 * (n - i + 1) + 2)
    BY <1>5, <2>1
  <2> QED
    BY <1>5, <2>2
<1> QED
  BY <1>4, <1>6, <1>7 DEF Pairs

\* The bytes of these words, one word after the other, are the value.
LEMMA BytesOfPairs ==
  ASSUME NEW B, NEW v \in Seq(B), NEW n \in Nat, Len(v) = 2 * n
  PROVE  FlattenSeq(Pairs(v, n)) = v
<1> PICK ws : ws = Pairs(v, n)
  OBVIOUS
<1>1. Len(ws) = n /\ \A i \in 1..n : ws[i] = SubSeq(v, 2 * i - 1, 2 * i)
  BY DEF Pairs
<1> DEFINE Own(f) == f = [i \in 1..Len(ws) |-> IF i = 1 THEN ws[i] ELSE f[i - 1] \o ws[i]]
<1>2. FlattenSeq(ws) = IF Len(ws) = 0 THEN ws ELSE (CHOOSE f : Own(f))[Len(ws)]
  BY Zenon DEF FlattenSeq
<1>3. CASE n = 0
  <2>1. 1..0 = {}
    OBVIOUS
  <2>2. ws = <<>>
    BY <1>3, <2>1 DEF Pairs
  <2>3. v = <<>>
    BY <1>3
  <2> QED
    BY <1>1, <1>2, <1>3, <2>2, <2>3
<1>4. CASE n # 0
  <2> DEFINE upTo == [i \in 1..n |-> SubSeq(v, 1, 2 * i)]
             next(f, i) == IF i = 1 THEN ws[i] ELSE f[i - 1] \o ws[i]
  <2>1. ASSUME NEW i \in 1..n, i # 1
        PROVE  SubSeq(v, 1, 2 * (i - 1)) \o SubSeq(v, 2 * i - 1, 2 * i) = SubSeq(v, 1, 2 * i)
    <3>1. /\ 2 * (i - 1) \in 0..Len(v) /\ 2 * i \in 0..Len(v)
          /\ 2 * (i - 1) \in 1..(2 * i) /\ 2 * (i - 1) + 1 = 2 * i - 1
      BY <2>1
    <3>2. ASSUME NEW b \in 1..Len(v), NEW k \in 1..b
          PROVE  SubSeq(v, 1, k) \o SubSeq(v, k + 1, b) = SubSeq(v, 1, b)
      <4>1. Len(v) \in Nat /\ 1 \in 1..(Len(v) + 1) /\ b \in 1..Len(v) /\ k \in (1 - 1)..b
        OBVIOUS
      <4> QED
        BY <4>1, ConcatAdjacentSubSeq
    <3>3. 2 * i \in 1..Len(v)
      OBVIOUS
    <3>4. SubSeq(v, 1, 2 * (i - 1)) \o SubSeq(v, 2 * (i - 1) + 1, 2 * i) = SubSeq(v, 1, 2 * i)
      BY <3>1, <3>2, <3>3
    <3> QED
      BY <3>1, <3>4
  <2>2. \A i \in 1..n : upTo[i] = next(upTo, i)
    <3> SUFFICES ASSUME NEW i \in 1..n PROVE upTo[i] = next(upTo, i)
      OBVIOUS
    <3>1. CASE i = 1
      <4>1. 2 * 1 - 1 = 1
        OBVIOUS
      <4> QED
        BY <1>1, <3>1, <4>1
    <3>2. CASE i # 1
      <4>1. i - 1 \in 1..n
        BY <3>2
      <4> QED
        BY <1>1, <2>1, <3>2, <4>1
    <3> QED
      BY <3>1, <3>2
  <2>3. \A f : Own(f) <=> f = [i \in 1..n |-> next(f, i)]
    BY <1>1, Zenon
  <2>4. Own(upTo)
    <3>1. upTo = [i \in 1..n |-> upTo[i]]
      OBVIOUS
    <3> HIDE DEF upTo, next, Own
    <3> QED
      BY <2>2, <2>3, <3>1
  <2> DEFINE f == CHOOSE h : Own(h)
  <2>5. Own(f)
    <3> HIDE DEF Own, upTo
    <3> QED
      BY <2>4
  <2> HIDE DEF Own, f, upTo
  <2>6. \A i \in 1..n : f[i] = IF i = 1 THEN ws[i] ELSE f[i - 1] \o ws[i]
    <3>1. f = [i \in 1..n |-> next(f, i)]
      BY <2>3, <2>5
    <3>2. \A i \in 1..n : f[i] = next(f, i)
      <4> HIDE DEF next
      <4> QED
        BY <3>1
    <3> QED
      BY <3>2
  <2> DEFINE P == {i \in Nat : i + 1 <= n => f[i + 1] = upTo[i + 1]}
  <2>7. \A i \in Nat : i \in P
    <3>1. 0 \in P
      <4>1. 1 \in 1..n
        BY <1>4
      <4> QED
        BY <2>2, <2>6, <4>1
    <3>2. ASSUME NEW i \in Nat, i \in P PROVE i + 1 \in P
      <4> SUFFICES ASSUME (i + 1) + 1 <= n PROVE f[(i + 1) + 1] = upTo[(i + 1) + 1]
        OBVIOUS
      <4>1. (i + 1) + 1 \in 1..n /\ (i + 1) + 1 # 1 /\ ((i + 1) + 1) - 1 = i + 1
        OBVIOUS
      <4>2. f[i + 1] = upTo[i + 1]
        BY <3>2
      <4> QED
        BY <2>2, <2>6, <4>1, <4>2
    <3> HIDE DEF P
    <3> QED
      BY <3>1, <3>2, NaturalsInduct
  <2>8. f[n] = upTo[n]
    <3>1. n - 1 \in Nat /\ (n - 1) + 1 = n
      BY <1>4
    <3>2. n - 1 \in P
      BY <2>7, <3>1
    <3> QED
      BY <3>1, <3>2
  <2>9. upTo[n] = v
    <3>1. n \in 1..n /\ SubSeq(v, 1, Len(v)) = v
      BY <1>4, SubSeqFull
    <3> QED
      BY <3>1 DEF upTo
  <2>10. FlattenSeq(ws) = f[n]
    BY <1>1, <1>2, <1>4 DEF f
  <2> QED
    BY <2>8, <2>9, <2>10
<1> QED
  BY <1>3, <1>4

\* A value of any number of words that is written with the packing of a register
\* is the value that is read back with it.
THEOREM RoundTrip ==
  ASSUME NEW B, NEW v \in Seq(B), NEW n \in Nat, Len(v) = 2 * n, NEW reg
  PROVE  parseModbusType(parseValueToDataUnit(v, reg).values, reg) = v
<1> DEFINE p == Packing(reg.packing)
<1>1. parseValueToDataUnit(v, reg).values = applyEndianess(toWords(v), thisPack, p)
  BY DEF parseValueToDataUnit, Unit
<1>2. toWords(v) \in Seq(Seq(B)) /\ Reverse(toWords(v)) = Pairs(v, n)
  BY WordsOfValue
<1> HIDE DEF p
<1>3. applyEndianess(applyEndianess(toWords(v), thisPack, p), p, thisPack) = toWords(v)
  BY <1>2, PackedAndBack, Zenon
<1>4. FlattenSeq(Pairs(v, n)) = v
  BY BytesOfPairs
<1>5. \A ws : parseModbusType(ws, reg) = FlattenSeq(Reverse(applyEndianess(ws, p, thisPack)))
  BY Zenon DEF parseModbusType, p
<1> QED
  BY <1>1, <1>2, <1>3, <1>4, <1>5
----------------------------------------------------------------------------
(* The units of a message, and what is read from them. *)

\* Packing keeps the number of words.
LEMMA PackedWords ==
  ASSUME NEW B, NEW ws \in Seq(Seq(B)), NEW was, NEW target
  PROVE  /\ applyEndianess(ws, was, target) \in Seq(Seq(B))
         /\ Len(applyEndianess(ws, was, target)) = Len(ws)
<1>1. applyEndianess(ws, was, target)
        = IF was.words # target.words
          THEN Reverse(IF was.bytes # target.bytes THEN Flipped(ws) ELSE ws)
          ELSE IF was.bytes # target.bytes THEN Flipped(ws) ELSE ws
  BY Zenon DEF applyEndianess, Flipped
<1>2. Flipped(ws) \in Seq(Seq(B)) /\ Len(Flipped(ws)) = Len(ws)
  <2>1. Len(ws) \in Nat /\ DOMAIN ws = 1..Len(ws)
    OBVIOUS
  <2>2. Flipped(ws) \in Seq(Seq(B))
    BY FlipTwice
  <2>3. DOMAIN Flipped(ws) = 1..Len(ws)
    BY <2>1 DEF Flipped
  <2>4. ASSUME NEW s \in Seq(Seq(B)), NEW n \in Nat, DOMAIN s = 1..n PROVE Len(s) = n
    BY <2>4
  <2> QED
    BY <2>1, <2>2, <2>3, <2>4, Zenon
<1>3. \A s \in Seq(Seq(B)) : Reverse(s) \in Seq(Seq(B)) /\ Len(Reverse(s)) = Len(s)
  BY ReverseTwice
<1> QED
  BY <1>1, <1>2, <1>3

\* The unit of a value is where its register is, and as long.
LEMMA UnitOfRegister ==
  ASSUME NEW B, NEW reg \in Register, NEW v \in Seq(B), Len(v) = 2 * reg.words
  PROVE  LET u == parseValueToDataUnit(v, reg) IN
           /\ u \in Units(Seq(B))
           /\ u.table = reg.table /\ u.start = reg.index /\ Len(u.values) = reg.words
<1> DEFINE ws == toWords(v)
           vs == applyEndianess(ws, thisPack, Packing(reg.packing))
<1>1. reg.words \in Nat /\ reg.words > 0 /\ reg.table \in Tables /\ reg.index \in Nat
  BY DEF Register, Tables
<1>2. ws \in Seq(Seq(B)) /\ Len(ws) = reg.words
  <2>1. ws \in Seq(Seq(B))
    BY <1>1, WordsOfValue
  <2>2. (2 * reg.words) \div 2 = reg.words
    BY <1>1
  <2>3. ws = [i \in 1..reg.words |-> SubSeq(v, Len(v) - 2 * i + 1, Len(v) - 2 * i + 2)]
    BY <2>2 DEF toWords
  <2> QED
    BY <1>1, <2>1, <2>3
<1> HIDE DEF ws
<1>3. vs \in Seq(Seq(B)) /\ Len(vs) = reg.words
  BY <1>2, PackedWords
<1> HIDE DEF vs
<1>4. vs # <<>>
  BY <1>1, <1>3
<1>5. parseValueToDataUnit(v, reg) = [table |-> reg.table, start |-> reg.index, values |-> vs]
  BY DEF parseValueToDataUnit, Unit, vs, ws
<1> QED
  BY <1>1, <1>3, <1>4, <1>5 DEF Units

\* No two registers of a device have a word in common.
NoSharedWord(regs) ==
  \A p, q \in DOMAIN regs :
    p # q => \/ regs[p].table # regs[q].table
             \/ regs[p].index + regs[p].words <= regs[q].index
             \/ regs[q].index + regs[q].words <= regs[p].index

\* A message gives some registers, each once, values of their lengths.
IsMessage(names, bytes, regs, B) ==
  /\ \A p \in DOMAIN regs : regs[p] \in Register
  /\ names \in Seq(DOMAIN regs)
  /\ \A i, j \in 1..Len(names) : names[i] = names[j] => i = j
  /\ bytes \in [1..Len(names) -> Seq(B)]
  /\ \A i \in 1..Len(names) : Len(bytes[i]) = 2 * regs[names[i]].words

UnitsOfMessage(names, bytes, regs) ==
  [i \in 1..Len(names) |-> parseValueToDataUnit(bytes[i], regs[names[i]])]

\* Its units are where its registers are.
LEMMA MessageUnits ==
  ASSUME NEW B, NEW regs, NoSharedWord(regs), NEW names, NEW bytes,
         IsMessage(names, bytes, regs, B)
  PROVE  LET src == UnitsOfMessage(names, bytes, regs) IN
           /\ src \in Seq(Units(Seq(B))) /\ Len(src) = Len(names)
           /\ \A i \in 1..Len(names) :
                LET reg == regs[names[i]] IN
                  /\ src[i] = parseValueToDataUnit(bytes[i], reg)
                  /\ src[i].table = reg.table /\ src[i].start = reg.index
                  /\ Len(src[i].values) = reg.words
                  /\ End(src[i]) = reg.index + reg.words
           /\ StartApart(src) /\ NoneOverlap(src)
<1> PICK src : src = UnitsOfMessage(names, bytes, regs)
  OBVIOUS
<1> DEFINE n == Len(names)
           reg(i) == regs[names[i]]
<1>1. n \in Nat /\ \A i \in 1..n : names[i] \in DOMAIN regs /\ reg(i) \in Register /\ bytes[i] \in Seq(B)
  BY DEF IsMessage
<1>2. src = [i \in 1..n |-> parseValueToDataUnit(bytes[i], reg(i))]
  BY DEF UnitsOfMessage
<1> HIDE DEF n, reg
<1>3. ASSUME NEW i \in 1..n
      PROVE  /\ src[i] = parseValueToDataUnit(bytes[i], reg(i)) /\ src[i] \in Units(Seq(B))
             /\ src[i].table = reg(i).table /\ src[i].start = reg(i).index
             /\ Len(src[i].values) = reg(i).words
             /\ End(src[i]) = reg(i).index + reg(i).words
  <2>1. Len(bytes[i]) = 2 * reg(i).words
    BY DEF IsMessage, n, reg
  <2>2. /\ parseValueToDataUnit(bytes[i], reg(i)) \in Units(Seq(B))
        /\ parseValueToDataUnit(bytes[i], reg(i)).table = reg(i).table
        /\ parseValueToDataUnit(bytes[i], reg(i)).start = reg(i).index
        /\ Len(parseValueToDataUnit(bytes[i], reg(i)).values) = reg(i).words
    BY <1>1, <2>1, UnitOfRegister
  <2>3. src[i] = parseValueToDataUnit(bytes[i], reg(i))
    BY <1>2
  <2> QED
    BY <2>2, <2>3 DEF End
<1>4. src \in Seq(Units(Seq(B))) /\ Len(src) = n /\ DOMAIN src = 1..n
  <2>1. src \in [1..n -> Units(Seq(B))]
    BY <1>2, <1>3
  <2>2. ASSUME NEW S, NEW k \in Nat, NEW d \in [1..k -> S]
        PROVE  d \in Seq(S) /\ Len(d) = k /\ DOMAIN d = 1..k
    OBVIOUS
  <2> QED
    BY <1>1, <2>1, <2>2, Zenon
<1>5. ASSUME NEW i \in 1..n, NEW j \in 1..n, i # j
      PROVE  /\ Apart(src[i], src[j])
             /\ src[i].table # src[j].table \/ src[i].start # src[j].start
  <2>1. names[i] # names[j] /\ names[i] \in DOMAIN regs /\ names[j] \in DOMAIN regs
    BY <1>1, <1>5 DEF IsMessage, n
  <2>2. \/ reg(i).table # reg(j).table
        \/ reg(i).index + reg(i).words <= reg(j).index
        \/ reg(j).index + reg(j).words <= reg(i).index
    BY <2>1 DEF NoSharedWord, reg
  <2>3. /\ reg(i).index \in Nat /\ reg(i).words \in Nat /\ reg(i).words > 0
        /\ reg(j).index \in Nat /\ reg(j).words \in Nat /\ reg(j).words > 0
    <3>1. reg(i) \in Register /\ reg(j) \in Register
      BY <1>1
    <3> QED
      BY <3>1 DEF Register
  <2> QED
    BY <1>3, <2>2, <2>3 DEF Apart
<1> QED
  BY <1>3, <1>4, <1>5, Zenon DEF StartApart, NoneOverlap, n, reg

\* What is at an address of a unit.
LEMMA CellAt ==
  ASSUME NEW W, NEW u \in Units(W), NEW t, NEW a \in Int
  PROVE  /\ \A w : <<t, a, w>> \in Cells(u) =>
                     /\ t = u.table /\ u.start <= a /\ a < End(u)
                     /\ a - u.start + 1 \in 1..Len(u.values) /\ w = u.values[a - u.start + 1]
         /\ t = u.table /\ u.start <= a /\ a < End(u) =>
              <<t, a, u.values[a - u.start + 1]>> \in Cells(u)
<1>1. u.start \in Nat /\ Len(u.values) \in Nat /\ End(u) = u.start + Len(u.values)
  BY UnitFacts DEF End
<1>2. ASSUME NEW w, <<t, a, w>> \in Cells(u)
      PROVE  /\ t = u.table /\ u.start <= a /\ a < End(u)
             /\ a - u.start + 1 \in 1..Len(u.values) /\ w = u.values[a - u.start + 1]
  <2>1. PICK i \in 1..Len(u.values) : <<t, a, w>> = <<u.table, u.start + i - 1, u.values[i]>>
    BY <1>2 DEF Cells
  <2>2. t = u.table /\ a = u.start + i - 1 /\ w = u.values[i]
    BY <2>1
  <2>3. i \in Nat /\ i >= 1 /\ i <= Len(u.values)
    BY <1>1
  <2>4. /\ i = a - u.start + 1
        /\ u.start <= a /\ a < u.start + Len(u.values)
    BY <1>1, <2>2, <2>3
  <2>5. u.start <= a /\ a < End(u)
    BY <1>1, <2>4
  <2> QED
    BY <2>2, <2>4, <2>5, Zenon
<1>3. ASSUME t = u.table, u.start <= a, a < End(u)
      PROVE  <<t, a, u.values[a - u.start + 1]>> \in Cells(u)
  <2>0. PICK n \in Nat : n = Len(u.values)
    BY <1>1
  <2>1. PICK i : i = a - u.start + 1
    OBVIOUS
  <2>2. i \in 1..Len(u.values) /\ u.start + i - 1 = a
    <3>1. a < u.start + n
      BY <1>1, <1>3, <2>0
    <3>2. ASSUME NEW from \in Nat, from <= a, a < from + n
          PROVE  a - from + 1 \in 1..n /\ from + (a - from + 1) - 1 = a
      BY <3>2
    <3>3. i \in 1..n /\ u.start + i - 1 = a
      BY <1>1, <1>3, <2>1, <3>1, <3>2, Zenon
    <3> QED
      BY <2>0, <3>3
  <2>3. <<u.table, u.start + i - 1, u.values[i]>> \in Cells(u)
    BY <2>2 DEF Cells
  <2> QED
    BY <1>3, <2>1, <2>2, <2>3
<1> QED
  BY <1>2, <1>3

\* us has the cells of src, in units of which none could be merged.
MergedFrom(us, src, W) ==
  /\ us \in Seq(Units(W)) /\ src \in Seq(Units(W))
  /\ CellsOf(us, DOMAIN us) = CellsOf(src, DOMAIN src)
  /\ NoneMergeable(us) /\ NoneOverlap(us)

\* No unit that is merged begins or ends within one that was given.
LEMMA NoneIsCut ==
  ASSUME NEW W, NEW us, NEW src, MergedFrom(us, src, W),
         NEW k \in DOMAIN us, NEW j \in DOMAIN src, src[j].table = us[k].table
  PROVE  /\ us[k].start <= src[j].start /\ src[j].start < End(us[k]) => End(src[j]) <= End(us[k])
         /\ src[j].start < us[k].start => End(src[j]) <= us[k].start
<1> DEFINE u == us[k]
           s == src[j]
<1>1. /\ u \in Units(W) /\ s \in Units(W) /\ s.table = u.table
      /\ u.start \in Nat /\ End(u) \in Nat /\ u.start < End(u)
      /\ s.start \in Nat /\ End(s) \in Nat /\ s.start < End(s)
  <2>1. u \in Units(W) /\ s \in Units(W)
    BY DEF MergedFrom
  <2> QED
    BY <2>1, UnitFacts
<1>2. ASSUME NEW a \in Int, s.start <= a, a < End(s)
      PROVE  \E l \in DOMAIN us : /\ us[l].table = u.table /\ us[l].start <= a /\ a < End(us[l])
                                  /\ us[l].start \in Nat /\ End(us[l]) \in Nat
  <2>1. <<s.table, a, s.values[a - s.start + 1]>> \in Cells(s)
    BY <1>1, <1>2, CellAt
  <2>2. <<s.table, a, s.values[a - s.start + 1]>> \in CellsOf(us, DOMAIN us)
    BY <2>1 DEF MergedFrom, CellsOf
  <2>3. PICK l \in DOMAIN us : <<s.table, a, s.values[a - s.start + 1]>> \in Cells(us[l])
    BY <2>2 DEF CellsOf
  <2>4. us[l] \in Units(W)
    BY DEF MergedFrom
  <2> QED
    BY <1>1, <2>3, <2>4, CellAt, UnitFacts
<1>3. ASSUME NEW l \in DOMAIN us, l # k, us[l].table = u.table
      PROVE  /\ End(u) <= us[l].start \/ End(us[l]) <= u.start
             /\ End(u) # us[l].start /\ End(us[l]) # u.start
  <2>1. Apart(u, us[l]) /\ ~Precedes(u, us[l]) /\ ~Precedes(us[l], u)
    BY <1>3 DEF MergedFrom, NoneOverlap, NoneMergeable
  <2> QED
    BY <1>3, <2>1 DEF Apart, Precedes, End
<1>4. ASSUME u.start <= s.start, s.start < End(u), End(u) < End(s) PROVE FALSE
  <2>1. PICK l \in DOMAIN us : /\ us[l].table = u.table /\ us[l].start <= End(u) /\ End(u) < End(us[l])
                               /\ us[l].start \in Nat /\ End(us[l]) \in Nat
    BY <1>1, <1>2, <1>4
  <2>2. l # k
    BY <1>1, <2>1
  <2> QED
    BY <1>1, <1>3, <2>1, <2>2
<1>5. ASSUME s.start < u.start, u.start < End(s) PROVE FALSE
  <2>1. PICK l \in DOMAIN us : /\ us[l].table = u.table /\ us[l].start <= u.start - 1 /\ u.start - 1 < End(us[l])
                               /\ us[l].start \in Nat /\ End(us[l]) \in Nat
    BY <1>1, <1>2, <1>5
  <2>2. l # k
    BY <1>1, <2>1
  <2> QED
    BY <1>1, <1>3, <2>1, <2>2
<1> QED
  BY <1>1, <1>4, <1>5

\* A unit that was given begins at the i-th word of a merged one, and is in it.
Begins(l, u, src, i) ==
  LET m == Len(src[l].values) IN
    /\ l \in DOMAIN src /\ src[l].table = u.table /\ src[l].start = u.start + i
    /\ i + m <= Len(u.values) /\ SubSeq(u.values, i + 1, i + m) = src[l].values

\* Those given that begin in the first i words of a merged unit end in them.
WholeUpTo(u, src, i) ==
  \A j \in DOMAIN src :
    src[j].table = u.table /\ u.start <= src[j].start /\ src[j].start < u.start + i
      => End(src[j]) <= u.start + i

\* The address b is that of the q-th of m words that come after i of n from an
\* address on.
IsWithin(from, i, m, n, q, b) ==
  /\ b \in Int /\ from + i <= b /\ b < from + i + m /\ b - (from + i) + 1 = q
  /\ from <= b /\ b < from + n /\ b - from + 1 = i + q

\* Where that address is.
LEMMA Within ==
  ASSUME NEW from \in Nat, NEW i \in Nat, NEW m \in Nat, NEW n \in Nat, i + m <= n, NEW q \in 1..m
  PROVE  IsWithin(from, i, m, n, q, from + i + q - 1)
BY DEF IsWithin

\* After some that were given, whole, there is the next.
LEMMA NextBegins ==
  ASSUME NEW W, NEW us, NEW src, MergedFrom(us, src, W), NEW k \in DOMAIN us,
         NEW i \in Nat, i < Len(us[k].values), WholeUpTo(us[k], src, i)
  PROVE  \E l : Begins(l, us[k], src, i)
<1> PICK u : u = us[k]
  OBVIOUS
<1> PICK a : a = u.start + i
  OBVIOUS
<1>1. /\ u \in Units(W) /\ u.start \in Nat /\ Len(u.values) \in Nat /\ u.values \in Seq(W)
      /\ End(u) = u.start + Len(u.values) /\ a \in Nat /\ u.start <= a /\ a < End(u)
  <2>1. u \in Units(W)
    BY DEF MergedFrom
  <2> QED
    BY <2>1, UnitFacts DEF End
<1>2. PICK l \in DOMAIN src : src[l].table = u.table /\ src[l].start <= a /\ a < End(src[l])
  <2>1. <<u.table, a, u.values[a - u.start + 1]>> \in Cells(u)
    BY <1>1, CellAt
  <2>2. <<u.table, a, u.values[a - u.start + 1]>> \in CellsOf(src, DOMAIN src)
    BY <2>1 DEF MergedFrom, CellsOf
  <2>3. PICK l \in DOMAIN src : <<u.table, a, u.values[a - u.start + 1]>> \in Cells(src[l])
    BY <2>2 DEF CellsOf
  <2>4. src[l] \in Units(W)
    BY DEF MergedFrom
  <2>5. src[l].table = u.table /\ src[l].start <= a /\ a < End(src[l])
    <3>1. a \in Int
      BY <1>1
    <3>2. PICK w : <<u.table, a, w>> \in Cells(src[l])
      BY <2>3
    <3>3. u.table = src[l].table /\ src[l].start <= a /\ a < End(src[l])
      BY <2>4, <3>1, <3>2, CellAt, Zenon
    <3> QED
      BY <3>3
  <2> QED
    BY <2>5, Zenon
<1> PICK s : s = src[l]
  OBVIOUS
<1> PICK m : m = Len(s.values)
  OBVIOUS
<1>3. /\ s \in Units(W) /\ s.start \in Nat /\ s.values \in Seq(W) /\ m \in Nat /\ m > 0
      /\ End(s) = s.start + m
  <2>1. s \in Units(W)
    BY DEF MergedFrom
  <2> QED
    BY <2>1, UnitFacts DEF End
<1>4. /\ u.start <= s.start /\ s.start < End(u) => End(s) <= End(u)
      /\ s.start < u.start => End(s) <= u.start
  BY <1>2, NoneIsCut
<1>5. s.start = a
  <2>1. ~(s.start < u.start)
    BY <1>1, <1>2, <1>3, <1>4
  <2>2. ~(s.start < a)
    <3>1. WholeUpTo(u, src, i)
      OBVIOUS
    <3>2. u.start <= s.start /\ s.start < u.start + i => End(s) <= u.start + i
      BY <1>2, <3>1 DEF WholeUpTo
    <3> QED
      BY <1>1, <1>2, <1>3, <2>1, <3>2
  <2> QED
    BY <1>1, <1>2, <1>3, <2>2
<1>6. i + m <= Len(u.values)
  BY <1>1, <1>3, <1>4, <1>5
<1>7. ASSUME NEW q \in 1..m PROVE s.values[q] = u.values[i + q]
  <2> PICK b : b = a + q - 1
    OBVIOUS
  <2>1. /\ b \in Int /\ s.start <= b /\ b < End(s) /\ b - s.start + 1 = q
        /\ u.start <= b /\ b < End(u) /\ b - u.start + 1 = i + q
    <3> PICK from \in Nat : from = u.start
      BY <1>1
    <3> PICK n \in Nat : n = Len(u.values)
      BY <1>1
    <3>1. m \in Nat /\ i + m <= n
      BY <1>3, <1>6
    <3>2. IsWithin(from, i, m, n, q, from + i + q - 1)
      BY <3>1, Within, Zenon
    <3>3. IsWithin(from, i, m, n, q, b)
      BY <3>2, Zenon
    <3>4. s.start = from + i /\ End(s) = from + i + m /\ End(u) = from + n
      BY <1>1, <1>3, <1>5
    <3> QED
      BY <3>3, <3>4 DEF IsWithin
  <2>2. <<s.table, b, s.values[q]>> \in Cells(s)
    BY <1>3, <2>1, CellAt
  <2>3. <<s.table, b, s.values[q]>> \in CellsOf(us, DOMAIN us)
    BY <2>2 DEF MergedFrom, CellsOf
  <2>4. PICK o \in DOMAIN us : <<s.table, b, s.values[q]>> \in Cells(us[o])
    BY <2>3 DEF CellsOf
  <2>5. /\ us[o] \in Units(W) /\ us[o].start \in Nat /\ End(us[o]) \in Nat
        /\ us[o].table = s.table /\ us[o].start <= b /\ b < End(us[o])
        /\ s.values[q] = us[o].values[b - us[o].start + 1]
    <3>1. us[o] \in Units(W)
      BY DEF MergedFrom
    <3> QED
      BY <2>1, <2>4, <3>1, CellAt, UnitFacts
  <2>6. o = k
    <3>1. us[o].table = u.table
      BY <1>2, <2>5
    <3>2. ~(End(us[o]) <= u.start) /\ ~(End(u) <= us[o].start)
      <4>1. End(u) \in Nat
        BY <1>1, UnitFacts
      <4>2. ASSUME NEW x \in Nat, NEW y \in Nat, NEW z \in Int, x <= z, z < y PROVE ~(y <= x)
        BY <4>2
      <4> QED
        BY <1>1, <2>1, <2>5, <4>1, <4>2, Zenon
    <3>3. ~Apart(us[o], u)
      BY <3>1, <3>2 DEF Apart
    <3> QED
      BY <3>3 DEF MergedFrom, NoneOverlap
  <2> QED
    BY <2>1, <2>5, <2>6
<1>8. SubSeq(u.values, i + 1, i + m) = s.values
  <2>1. ASSUME NEW v \in Seq(W), NEW z \in Nat, z > 0, i + z <= Len(v)
        PROVE  LET x == SubSeq(v, i + 1, i + z) IN
                 x \in Seq(W) /\ Len(x) = z /\ \A q \in 1..z : x[q] = v[i + q]
    BY <2>1
  <2>2. PICK x : x = SubSeq(u.values, i + 1, i + m)
    OBVIOUS
  <2>3. x \in Seq(W) /\ Len(x) = m /\ \A q \in 1..m : x[q] = u.values[i + q]
    BY <1>1, <1>3, <1>6, <2>1, <2>2, Zenon
  <2>4. ASSUME NEW v \in Seq(W), NEW w \in Seq(W), NEW z \in Nat, Len(v) = z, Len(w) = z,
               \A q \in 1..z : v[q] = w[q]
        PROVE  v = w
    BY <2>4
  <2>5. \A q \in 1..m : SubSeq(u.values, i + 1, i + m)[q] = s.values[q]
    BY <1>7, <2>2, <2>3, Zenon
  <2> QED
    BY <1>3, <2>2, <2>3, <2>4, <2>5, Zenon
<1> QED
  BY <1>2, <1>5, <1>6, <1>8 DEF Begins

\* One more word of a unit, the i-th, is looked at.
Looked(r, regs, u, i) ==
  LET here == RegisterAt(regs, u.table, u.start + i)
      p == CHOOSE p \in here : TRUE
      n == regs[p].words
  IN IF r.cut \/ i < r.next \/ here = {} THEN r
     ELSE IF i + n > Len(u.values) THEN [r EXCEPT !.cut = TRUE]
     ELSE [r EXCEPT !.next = i + n,
                    !.read = Append(@, <<p, parseModbusType(SubSeq(u.values, i + 1, i + n),
                                                            regs[p])>>)]

NothingRead == [read |-> <<>>, next |-> 0, cut |-> FALSE]

\* A device's registers, as its constructor takes them.
IsDevice(regs) == \A p \in DOMAIN regs : regs[p] \in Register

\* What is read of the words of a unit, word by word.
LEMMA ReadingSteps ==
  ASSUME NEW W, NEW u \in Units(W), NEW regs, IsDevice(regs)
  PROVE  \E r : /\ r[0] = NothingRead
                /\ \A i \in 1..Len(u.values) : r[i] = Looked(r[i - 1], regs, u, i - 1)
                /\ readRegisters(regs, u) = r[Len(u.values)]
<1> DEFINE n == Len(u.values)
           word == [p \in DOMAIN regs |-> [i \in Int |->
                      parseModbusType(SubSeq(u.values, i + 1, i + regs[p].words), regs[p])]]
           Value == UNION {{word[p][i] : i \in Int} : p \in DOMAIN regs}
           State == [read : Seq((DOMAIN regs) \X Value), next : Int, cut : BOOLEAN]
           ids == [i \in DOMAIN u.values |-> i - 1]
           step == [xw \in (1..n) \X State |-> Looked(xw[2], regs, u, xw[1] - 1)]
           Own(g) == g = [T \in SUBSET (DOMAIN ids) |->
                            IF T = {} THEN NothingRead
                            ELSE Looked(g[T \ {Max(T)}], regs, u, ids[Max(T)])]
<1>1. n \in Nat /\ DOMAIN u.values = 1..n
  BY UnitFacts
<1>2. NothingRead \in State
  BY DEF NothingRead
<1>3. ASSUME NEW x \in 1..n, NEW w \in State PROVE Looked(w, regs, u, x - 1) \in State
  <2>0. PICK p : p = CHOOSE q \in RegisterAt(regs, u.table, u.start + (x - 1)) : TRUE
    OBVIOUS
  <2>1. CASE \/ w.cut \/ x - 1 < w.next
             \/ RegisterAt(regs, u.table, u.start + (x - 1)) = {}
    BY <2>1 DEF Looked
  <2>2. CASE /\ ~w.cut /\ ~(x - 1 < w.next)
             /\ RegisterAt(regs, u.table, u.start + (x - 1)) # {}
    <3>1. p \in DOMAIN regs
      BY <2>0, <2>2 DEF RegisterAt
    <3>2. regs[p].words \in Int
      BY <3>1 DEF IsDevice, Register
    <3>3. x - 1 \in Int /\ x - 1 + regs[p].words \in Int
      BY <1>1, <3>2
    <3>0. PICK v : v = parseModbusType(SubSeq(u.values, x - 1 + 1, x - 1 + regs[p].words), regs[p])
      OBVIOUS
    <3>4. v \in Value
      <4>1. word[p][x - 1] = v
        BY <3>0, <3>1, <3>3
      <4> HIDE DEF word
      <4> QED
        BY <3>1, <3>3, <4>1
    <3>5. w.read \in Seq((DOMAIN regs) \X Value)
      OBVIOUS
    <3> HIDE DEF Value
    <3>6. <<p, v>> \in (DOMAIN regs) \X Value
      <4>1. ASSUME NEW S, NEW T, NEW y \in S, NEW z \in T PROVE <<y, z>> \in S \X T
        OBVIOUS
      <4> QED
        BY <3>1, <3>4, <4>1, Zenon
    <3>7. Append(w.read, <<p, v>>) \in Seq((DOMAIN regs) \X Value)
      BY <3>5, <3>6, AppendProperties, Zenon
    <3>8. Looked(w, regs, u, x - 1)
            = IF x - 1 + regs[p].words > n THEN [w EXCEPT !.cut = TRUE]
              ELSE [w EXCEPT !.next = x - 1 + regs[p].words,
                             !.read = Append(@, <<p, v>>)]
      BY <2>0, <2>2, <3>0, Zenon DEF Looked
    <3> QED
      BY <3>3, <3>7, <3>8
  <2> QED
    BY <2>1, <2>2
<1>4. DOMAIN ids = 1..n /\ \A i \in 1..n : ids[i] = i - 1
  BY <1>1
<1>5. readRegisters(regs, u) = (CHOOSE g : Own(g))[DOMAIN ids]
  BY Zenon DEF readRegisters, Looked, NothingRead, FoldLeft, MapThenFoldSet
<1>6. \E g : Own(g)
  <2>1. \A x \in 1..n, w \in State : step[<<x, w>>] = Looked(w, regs, u, x - 1)
    OBVIOUS
  <2>2. StaysIn(step, 1..n, State)
    <3> HIDE DEF step, State
    <3> QED
      BY <1>3, <2>1, Zenon DEF StaysIn
  <2> HIDE DEF step, State, n
  <2>3. PICK f \in [SUBSET (1..n) -> State] : FoldsRange(f, n, NothingRead, step)
    BY <1>1, <1>2, <2>2, FoldOverRange, Zenon
  <2>4. ASSUME NEW T \in SUBSET (1..n)
        PROVE  f[T] = IF T = {} THEN NothingRead
                      ELSE Looked(f[T \ {Max(T)}], regs, u, ids[Max(T)])
    <3>1. CASE T = {}
      BY <2>3, <3>1 DEF FoldsRange
    <3>2. CASE T # {}
      <4>1. Max(T) \in 1..n /\ ids[Max(T)] = Max(T) - 1 /\ f[T \ {Max(T)}] \in State
        BY <1>1, <1>4, <3>2, MaxFacts
      <4>2. f[T] = step[<<Max(T), f[T \ {Max(T)}]>>]
        BY <2>3, <3>2 DEF FoldsRange
      <4> QED
        BY <2>1, <3>2, <4>1, <4>2
    <3> QED
      BY <3>1, <3>2
  <2>5. Own(f)
    <3> HIDE DEF ids
    <3> QED
      BY <1>4, <2>4
  <2> HIDE DEF Own
  <2> QED
    BY <2>5
<1> DEFINE g == CHOOSE h : Own(h)
<1>7. Own(g)
  <2> HIDE DEF Own
  <2> QED
    BY <1>6
<1>8. g[{}] = NothingRead
  <2> HIDE DEF g, ids
  <2> QED
    BY <1>7
<1>9. ASSUME NEW i \in 1..n PROVE g[1..i] = Looked(g[1..(i - 1)], regs, u, i - 1)
  <2>1. /\ 1..i \in SUBSET (1..n) /\ 1..i # {}
        /\ Max(1..i) = i /\ (1..i) \ {i} = 1..(i - 1)
    BY <1>1, RangeFacts
  <2>2. ids[i] = i - 1
    BY <1>4
  <2> HIDE DEF g, ids, n
  <2>3. \A T \in SUBSET (1..n) :
          T # {} => g[T] = Looked(g[T \ {Max(T)}], regs, u, ids[Max(T)])
    BY <1>4, <1>7
  <2>4. g[1..i] = Looked(g[(1..i) \ {Max(1..i)}], regs, u, ids[Max(1..i)])
    BY <2>1, <2>3, Zenon
  <2> QED
    BY <2>1, <2>2, <2>4, Zenon
<1> DEFINE r == [i \in 0..n |-> g[1..i]]
<1>10. r[0] = NothingRead /\ r[n] = g[1..n]
  <2>1. 1..0 = {}
    OBVIOUS
  <2> HIDE DEF g
  <2> QED
    BY <1>1, <1>8, <2>1
<1>11. ASSUME NEW i \in 1..n PROVE r[i] = Looked(r[i - 1], regs, u, i - 1)
  <2>1. i \in 0..n /\ i - 1 \in 0..n
    BY <1>1
  <2> HIDE DEF g
  <2> QED
    BY <1>9, <2>1
<1>12. readRegisters(regs, u) = r[n]
  <2> HIDE DEF Own, ids, r
  <2> QED
    BY <1>4, <1>5, <1>10
<1> HIDE DEF r
<1> QED
  BY <1>10, <1>11, <1>12

\* What there is in a sequence after one more, of a set.
Grown(s, x, S) == Append(s, x) \in Seq(S) /\ Range(Append(s, x)) = Range(s) \cup {x}

\* Appending adds what is appended.
LEMMA OneMoreInSequence ==
  ASSUME NEW S, NEW s \in Seq(S), NEW x \in S
  PROVE  Grown(s, x, S)
<1> PICK t : t = Append(s, x)
  OBVIOUS
<1>1. /\ t \in Seq(S) /\ Len(s) \in Nat /\ DOMAIN s = 1..Len(s) /\ DOMAIN t = 1..(Len(s) + 1)
      /\ t[Len(s) + 1] = x /\ \A i \in 1..Len(s) : t[i] = s[i]
  BY AppendProperties
<1>2. 1..(Len(s) + 1) = (1..Len(s)) \cup {Len(s) + 1}
  BY <1>1, OneMoreInRange
<1>3. \A y : y \in Range(t) <=> y \in Range(s) \/ y = x
  BY <1>1, <1>2, Zenon DEF Range
<1> QED
  BY <1>1, <1>3 DEF Grown

\* A message of a device, and its units.
Given(src, names, bytes, regs, B) ==
  /\ NoSharedWord(regs) /\ IsDevice(regs) /\ IsMessage(names, bytes, regs, B)
  /\ src = UnitsOfMessage(names, bytes, regs)

\* A register is at the address where its unit begins, and its words are its value.
IsRead(p, value, unit, regs) ==
  /\ RegisterAt(regs, unit.table, unit.start) = {p}
  /\ regs[p].words = Len(unit.values)
  /\ parseModbusType(unit.values, regs[p]) = value

\* So it is for those of a message.
LEMMA RegisterBegins ==
  ASSUME NEW B, NEW src, NEW names, NEW bytes, NEW regs, Given(src, names, bytes, regs, B),
         NEW l \in DOMAIN src
  PROVE  IsRead(names[l], bytes[l], src[l], regs)
<1> PICK p : p = names[l]
  OBVIOUS
<1> PICK reg : reg = regs[p]
  OBVIOUS
<1>1. DOMAIN src = 1..Len(names) /\ Len(names) \in Nat
  BY DEF Given, UnitsOfMessage, IsMessage
<1>2. p \in DOMAIN regs /\ reg \in Register
  BY <1>1 DEF Given, IsMessage
<1>3. bytes[l] \in Seq(B) /\ Len(bytes[l]) = 2 * reg.words
  BY <1>1 DEF Given, IsMessage
<1>4. src[l] = parseValueToDataUnit(bytes[l], reg)
  BY <1>1 DEF Given, UnitsOfMessage
<1>5. /\ src[l].table = reg.table /\ src[l].start = reg.index
      /\ Len(src[l].values) = reg.words
  BY <1>2, <1>3, <1>4, UnitOfRegister
<1>6. parseModbusType(src[l].values, reg) = bytes[l]
  <2>1. reg.words \in Nat
    BY <1>2 DEF Register
  <2> QED
    BY <1>3, <1>4, <2>1, RoundTrip
<1>7. ASSUME NEW q \in DOMAIN regs, regs[q].table = reg.table, regs[q].index = reg.index
      PROVE  q = p
  <2>1. regs[q] \in Register
    BY DEF Given, IsDevice
  <2>2. /\ reg.index \in Nat /\ reg.words \in Nat /\ reg.words > 0
        /\ regs[q].words \in Nat /\ regs[q].words > 0
    BY <1>2, <2>1 DEF Register
  <2>3. ~(reg.index + reg.words <= regs[q].index) /\ ~(regs[q].index + regs[q].words <= reg.index)
    BY <1>7, <2>2
  <2> QED
    BY <1>2, <1>7, <2>3 DEF Given, NoSharedWord
<1>8. RegisterAt(regs, src[l].table, src[l].start) = {p}
  BY <1>2, <1>5, <1>7 DEF RegisterAt
<1> QED
  BY <1>5, <1>6, <1>8 DEF IsRead

\* What of a message begins in the first i words of a unit.
Entries(src, names, bytes) == {<<names[j], bytes[j]>> : j \in DOMAIN src}
Beginning(src, u, i) ==
  {j \in DOMAIN src : /\ src[j].table = u.table
                      /\ u.start <= src[j].start /\ src[j].start < u.start + i}
EntriesUpTo(src, u, names, bytes, i) ==
  {<<names[j], bytes[j]>> : j \in Beginning(src, u, i)}

\* So far whole registers were read: those of the message.
ReadUpTo(r, u, src, names, bytes, i) ==
  /\ r.next \in Nat /\ r.cut = FALSE /\ r.read \in Seq(Entries(src, names, bytes))
  /\ i <= r.next /\ r.next <= Len(u.values)
  /\ WholeUpTo(u, src, r.next)
  /\ Range(r.read) = EntriesUpTo(src, u, names, bytes, r.next)

\* Up to the end of the one that begins next, there is that one more.
OneMoreBeginning(l, src, u, i) ==
  LET m == Len(src[l].values) IN
    /\ WholeUpTo(u, src, i + m)
    /\ Beginning(src, u, i + m) = Beginning(src, u, i) \cup {l}

\* That is so of units that do not overlap.
LEMMA OneMoreBegins ==
  ASSUME NEW W, NEW src \in Seq(Units(W)), NoneOverlap(src), NEW u \in Units(W),
         NEW i \in Nat, NEW l, Begins(l, u, src, i), WholeUpTo(u, src, i)
  PROVE  OneMoreBeginning(l, src, u, i)
<1>0. PICK m \in Nat : m = Len(src[l].values) /\ m > 0
  BY UnitFacts DEF Begins
<1>1. /\ l \in DOMAIN src /\ src[l].table = u.table /\ src[l].start = u.start + i
      /\ u.start \in Nat /\ src[l].start \in Nat
      /\ End(src[l]) = u.start + (i + m) /\ u.start + (i + m) \in Nat
  <2>1. l \in DOMAIN src /\ src[l].table = u.table /\ src[l].start = u.start + i
    BY DEF Begins
  <2>2. u.start \in Nat
    BY UnitFacts
  <2>3. src[l].start \in Nat /\ End(src[l]) = src[l].start + m
    BY <1>0, <2>1, UnitFacts DEF End
  <2>4. u.start + i + m = u.start + (i + m) /\ u.start + (i + m) \in Nat
    BY <2>2
  <2> QED
    BY <2>1, <2>2, <2>3, <2>4
<1>2. ASSUME NEW j \in DOMAIN src, src[j].table = u.table,
             u.start <= src[j].start, src[j].start < u.start + (i + m)
      PROVE  j = l \/ (src[j].start < u.start + i /\ End(src[j]) <= u.start + i)
  <2>1. src[j].start \in Nat /\ End(src[j]) \in Nat /\ src[j].start < End(src[j])
    BY UnitFacts
  <2>2. CASE src[j].start < u.start + i
    BY <1>2, <2>2 DEF WholeUpTo
  <2>3. CASE ~(src[j].start < u.start + i) /\ j # l
    <3>1. Apart(src[j], src[l])
      BY <1>1, <2>3 DEF NoneOverlap
    <3>2. End(src[j]) <= src[l].start \/ End(src[l]) <= src[j].start
      BY <1>1, <1>2, <3>1 DEF Apart
    <3> QED
      BY <1>0, <1>1, <1>2, <2>1, <2>3, <3>2
  <2> QED
    BY <2>2, <2>3
<1>3. WholeUpTo(u, src, i + m)
  <2> SUFFICES ASSUME NEW j \in DOMAIN src, src[j].table = u.table,
                      u.start <= src[j].start, src[j].start < u.start + (i + m)
               PROVE  End(src[j]) <= u.start + (i + m)
    BY DEF WholeUpTo
  <2>1. j = l \/ End(src[j]) <= u.start + i
    BY <1>2
  <2>2. End(src[j]) \in Nat
    BY UnitFacts
  <2> QED
    BY <1>0, <1>1, <2>1, <2>2
<1>4. Beginning(src, u, i + m) = Beginning(src, u, i) \cup {l}
  <2>1. \A j \in Beginning(src, u, i + m) : j = l \/ j \in Beginning(src, u, i)
    BY <1>2 DEF Beginning
  <2>2. l \in Beginning(src, u, i + m)
    BY <1>0, <1>1 DEF Beginning
  <2>3. \A j \in Beginning(src, u, i) : j \in Beginning(src, u, i + m)
    <3> SUFFICES ASSUME NEW j \in Beginning(src, u, i) PROVE j \in Beginning(src, u, i + m)
      OBVIOUS
    <3>1. j \in DOMAIN src /\ src[j].start < u.start + i
      BY DEF Beginning
    <3>2. src[j].start \in Nat
      BY <3>1, UnitFacts
    <3>3. src[j].start < u.start + (i + m)
      BY <1>0, <1>1, <3>1, <3>2
    <3> QED
      BY <3>3 DEF Beginning
  <2> QED
    BY <2>1, <2>2, <2>3
<1> QED
  BY <1>0, <1>3, <1>4, Zenon DEF OneMoreBeginning

\* Looking at one more word reads the next register of the message, if it begins
\* there.
LEMMA OneMoreLooked ==
  ASSUME NEW B, NEW src, NEW names, NEW bytes, NEW regs, Given(src, names, bytes, regs, B),
         NEW us, MergedFrom(us, src, Seq(B)), NoneOverlap(src), NEW k \in DOMAIN us,
         NEW i \in Nat, i < Len(us[k].values),
         NEW r, ReadUpTo(r, us[k], src, names, bytes, i)
  PROVE  ReadUpTo(Looked(r, regs, us[k], i), us[k], src, names, bytes, i + 1)
<1>0. PICK u : u = us[k]
  OBVIOUS
<1>1. u \in Units(Seq(B)) /\ src \in Seq(Units(Seq(B))) /\ Len(u.values) \in Nat
  <2>1. u \in Units(Seq(B)) /\ src \in Seq(Units(Seq(B)))
    BY <1>0 DEF MergedFrom
  <2> QED
    BY <2>1, UnitFacts
<1>2. ReadUpTo(r, u, src, names, bytes, i) /\ i < Len(u.values)
  BY <1>0
<1>3. CASE i < r.next
  <2>1. Looked(r, regs, u, i) = r
    BY <1>3, Zenon DEF Looked
  <2>2. r.next \in Nat
    BY <1>2 DEF ReadUpTo
  <2>3. i + 1 <= r.next
    BY <1>3, <2>2
  <2> QED
    BY <1>0, <1>2, <2>1, <2>3 DEF ReadUpTo
<1>4. CASE ~(i < r.next)
  <2>1. r.next = i
    BY <1>2, <1>4 DEF ReadUpTo
  <2>2. WholeUpTo(u, src, i)
    BY <1>2, <2>1 DEF ReadUpTo
  <2>3. PICK l : Begins(l, u, src, i)
    BY <1>0, <1>2, <2>2, NextBegins, Zenon
  <2>4. PICK p : p = names[l]
    OBVIOUS
  <2>5. PICK m \in Nat : m = Len(src[l].values) /\ m > 0
    BY <1>1, <2>3, UnitFacts DEF Begins
  <2>6. /\ l \in DOMAIN src /\ src[l].table = u.table /\ src[l].start = u.start + i
        /\ i + m <= Len(u.values) /\ SubSeq(u.values, i + 1, i + m) = src[l].values
    BY <2>3, <2>5, Zenon DEF Begins
  <2>7. /\ RegisterAt(regs, u.table, u.start + i) = {p}
        /\ regs[p].words = m
        /\ parseModbusType(SubSeq(u.values, i + 1, i + m), regs[p]) = bytes[l]
    <3>1. IsRead(names[l], bytes[l], src[l], regs)
      BY <2>6, RegisterBegins, Zenon
    <3>2. /\ RegisterAt(regs, src[l].table, src[l].start) = {p}
          /\ regs[p].words = Len(src[l].values)
          /\ parseModbusType(src[l].values, regs[p]) = bytes[l]
      BY <2>4, <3>1, Zenon DEF IsRead
    <3> QED
      BY <2>5, <2>6, <3>2, Zenon
  <2>8. Looked(r, regs, u, i)
          = [r EXCEPT !.next = i + m, !.read = Append(@, <<p, bytes[l]>>)]
    <3>1. (CHOOSE q \in {p} : TRUE) = p
      OBVIOUS
    <3>2. {p} # {} /\ r.cut = FALSE /\ ~(i + m > Len(u.values))
      <4>1. r.cut = FALSE
        BY <1>2 DEF ReadUpTo
      <4>2. ~(i + m > Len(u.values))
        BY <1>1, <2>5, <2>6
      <4> QED
        BY <4>1, <4>2
    <3> QED
      BY <1>4, <2>7, <3>1, <3>2, Zenon DEF Looked
  <2>9. PICK after : after = Looked(r, regs, u, i)
    OBVIOUS
  <2>10. /\ after.next = i + m /\ after.cut = FALSE /\ after.read = Append(r.read, <<p, bytes[l]>>)
    BY <1>2, <2>8, <2>9 DEF ReadUpTo
  <2>11. /\ after.read \in Seq(Entries(src, names, bytes))
         /\ Range(after.read) = Range(r.read) \cup {<<p, bytes[l]>>}
    <3>1. <<p, bytes[l]>> \in Entries(src, names, bytes)
      BY <2>4, <2>6 DEF Entries
    <3>2. r.read \in Seq(Entries(src, names, bytes))
      BY <1>2 DEF ReadUpTo
    <3>3. PICK x \in Entries(src, names, bytes) : x = <<p, bytes[l]>>
      BY <3>1
    <3>4. Grown(r.read, x, Entries(src, names, bytes))
      BY <3>2, OneMoreInSequence, Zenon
    <3> QED
      BY <2>10, <3>3, <3>4, Zenon DEF Grown
  <2>12. /\ WholeUpTo(u, src, i + m)
         /\ Beginning(src, u, i + m) = Beginning(src, u, i) \cup {l}
    <3>1. OneMoreBeginning(l, src, u, i)
      BY <1>1, <2>2, <2>3, OneMoreBegins, Zenon
    <3> QED
      BY <2>5, <3>1, Zenon DEF OneMoreBeginning
  <2>13. Range(after.read) = EntriesUpTo(src, u, names, bytes, after.next)
    <3>1. Range(r.read) = EntriesUpTo(src, u, names, bytes, i)
      BY <1>2, <2>1 DEF ReadUpTo
    <3>2. EntriesUpTo(src, u, names, bytes, i + m)
            = EntriesUpTo(src, u, names, bytes, i) \cup {<<names[l], bytes[l]>>}
      BY <2>12, Zenon DEF EntriesUpTo
    <3> QED
      BY <2>4, <2>10, <2>11, <3>1, <3>2
  <2>14. after.next \in Nat /\ i + 1 <= after.next /\ after.next <= Len(u.values)
    BY <2>5, <2>6, <2>10
  <2> QED
    BY <1>0, <2>9, <2>10, <2>11, <2>12, <2>13, <2>14, Zenon DEF ReadUpTo
<1> QED
  BY <1>3, <1>4

\* All of a merged unit is read, register by register.
LEMMA MergedAsRead ==
  ASSUME NEW B, NEW src, NEW names, NEW bytes, NEW regs, Given(src, names, bytes, regs, B),
         NEW us, MergedFrom(us, src, Seq(B)), NoneOverlap(src), NEW k \in DOMAIN us
  PROVE  ReadUpTo(readRegisters(regs, us[k]), us[k], src, names, bytes, Len(us[k].values))
<1>0. PICK u : u = us[k]
  OBVIOUS
<1>1. /\ u \in Units(Seq(B)) /\ src \in Seq(Units(Seq(B))) /\ IsDevice(regs)
      /\ \A j \in DOMAIN src : src[j] \in Units(Seq(B))
  BY <1>0 DEF MergedFrom, Given
<1>2. PICK n \in Nat : n = Len(u.values)
  BY <1>1, UnitFacts
<1>3. PICK r : /\ r[0] = NothingRead
               /\ \A i \in 1..n : r[i] = Looked(r[i - 1], regs, u, i - 1)
               /\ readRegisters(regs, u) = r[n]
  BY <1>1, <1>2, ReadingSteps
<1> DEFINE P == {i \in Nat : i <= n => ReadUpTo(r[i], u, src, names, bytes, i)}
<1>4. ReadUpTo(r[0], u, src, names, bytes, 0)
  <2>1. u.start \in Nat /\ \A j \in DOMAIN src : src[j].start \in Nat
    BY <1>1, UnitFacts
  <2>2. \A j \in DOMAIN src : ~(u.start <= src[j].start /\ src[j].start < u.start + 0)
    BY <2>1
  <2>3. WholeUpTo(u, src, 0) /\ Beginning(src, u, 0) = {}
    BY <2>2, Zenon DEF WholeUpTo, Beginning
  <2>4. EntriesUpTo(src, u, names, bytes, 0) = {}
    BY <2>3 DEF EntriesUpTo
  <2>5. PICK s : s = NothingRead
    OBVIOUS
  <2>6. s.next = 0 /\ s.cut = FALSE /\ s.read = <<>>
    BY <2>5 DEF NothingRead
  <2>7. <<>> \in Seq(Entries(src, names, bytes)) /\ Range(<<>>) = {}
    BY DEF Range
  <2>8. s.next \in Nat /\ 0 <= s.next /\ s.next <= n
    BY <2>6
  <2>9. ReadUpTo(s, u, src, names, bytes, 0)
    BY <1>2, <2>3, <2>4, <2>6, <2>7, <2>8, Zenon DEF ReadUpTo
  <2> QED
    BY <1>3, <2>5, <2>9, Zenon
<1>5. ASSUME NEW i \in Nat, i + 1 <= n, ReadUpTo(r[i], u, src, names, bytes, i)
      PROVE  ReadUpTo(r[i + 1], u, src, names, bytes, i + 1)
  <2>1. i + 1 \in 1..n /\ (i + 1) - 1 = i /\ i < n
    BY <1>5
  <2>2. r[i + 1] = Looked(r[i], regs, u, i)
    BY <1>3, <2>1
  <2>3. i < Len(us[k].values) /\ ReadUpTo(r[i], us[k], src, names, bytes, i)
    BY <1>0, <1>2, <1>5, <2>1
  <2>4. ReadUpTo(Looked(r[i], regs, us[k], i), us[k], src, names, bytes, i + 1)
    BY <2>3, OneMoreLooked, Zenon
  <2> QED
    BY <1>0, <2>2, <2>4, Zenon
<1>6. \A i \in Nat : i \in P
  <2>1. 0 \in P
    BY <1>4
  <2>2. ASSUME NEW i \in Nat, i \in P PROVE i + 1 \in P
    BY <1>5, <2>2
  <2> HIDE DEF P
  <2> QED
    BY <2>1, <2>2, NaturalsInduct
<1>7. ReadUpTo(r[n], u, src, names, bytes, n)
  BY <1>6
<1> QED
  BY <1>0, <1>2, <1>3, <1>7, Zenon

\* A message that is written is read whole: of the units made of it none ends
\* within a register, and the registers that are read of them, each with the
\* value that was given, are those of the message. So a slave that is written by
\* this program's master takes all of the message, and its loop over the words
\* never stands still.
THEOREM WrittenWhole ==
  ASSUME NEW B, NEW regs, NoSharedWord(regs), NEW names, NEW bytes,
         IsMessage(names, bytes, regs, B)
  PROVE  LET us == mergeDataUnits(UnitsOfMessage(names, bytes, regs)) IN
           /\ \A k \in DOMAIN us : readRegisters(regs, us[k]).cut = FALSE
           /\ UNION {Range(readRegisters(regs, us[k]).read) : k \in DOMAIN us}
                = {<<names[i], bytes[i]>> : i \in 1..Len(names)}
<1>0. PICK src : src = UnitsOfMessage(names, bytes, regs)
  OBVIOUS
<1>1. PICK us : us = mergeDataUnits(src)
  OBVIOUS
<1>2. /\ src \in Seq(Units(Seq(B))) /\ StartApart(src) /\ NoneOverlap(src)
      /\ DOMAIN src = 1..Len(names)
  BY <1>0, MessageUnits
<1>3. MergedFrom(us, src, Seq(B))
  BY <1>1, <1>2, MergingKeepsCells DEF MergedFrom
<1>4. Given(src, names, bytes, regs, B)
  BY <1>0 DEF Given, IsDevice, IsMessage
<1> DEFINE found(k) == readRegisters(regs, us[k])
<1>5. ASSUME NEW k \in DOMAIN us
      PROVE  /\ found(k).cut = FALSE
             /\ Range(found(k).read) = EntriesUpTo(src, us[k], names, bytes, Len(us[k].values))
  <2>1. ReadUpTo(found(k), us[k], src, names, bytes, Len(us[k].values))
    BY <1>2, <1>3, <1>4, MergedAsRead, Zenon
  <2>2. Len(us[k].values) \in Nat
    BY <1>3, UnitFacts DEF MergedFrom
  <2>3. PICK r : r = found(k)
    OBVIOUS
  <2>4. ReadUpTo(r, us[k], src, names, bytes, Len(us[k].values))
    BY <2>1, <2>3, Zenon
  <2>5. r.next = Len(us[k].values)
    BY <2>2, <2>4 DEF ReadUpTo
  <2> QED
    BY <2>3, <2>4, <2>5 DEF ReadUpTo
<1>6. ASSUME NEW j \in DOMAIN src
      PROVE  \E k \in DOMAIN us : j \in Beginning(src, us[k], Len(us[k].values))
  <2>1. PICK s \in Units(Seq(B)) : s = src[j]
    BY <1>2
  <2>2. s.start \in Int /\ s.start <= s.start /\ s.start < End(s)
    BY UnitFacts
  <2>3. PICK w : <<s.table, s.start, w>> \in Cells(s)
    BY <2>2, CellAt
  <2>4. <<s.table, s.start, w>> \in CellsOf(us, DOMAIN us)
    BY <1>3, <2>1, <2>3 DEF MergedFrom, CellsOf
  <2>5. PICK k \in DOMAIN us : <<s.table, s.start, w>> \in Cells(us[k])
    BY <2>4 DEF CellsOf
  <2>6. us[k] \in Units(Seq(B))
    BY <1>3 DEF MergedFrom
  <2>7. s.table = us[k].table /\ us[k].start <= s.start /\ s.start < End(us[k])
    BY <2>2, <2>5, <2>6, CellAt, Zenon
  <2> QED
    BY <2>1, <2>7 DEF Beginning, End
<1>7. UNION {Range(found(k).read) : k \in DOMAIN us} = {<<names[i], bytes[i]>> : i \in 1..Len(names)}
  <2>1. UNION {Range(found(k).read) : k \in DOMAIN us}
          = UNION {EntriesUpTo(src, us[k], names, bytes, Len(us[k].values)) : k \in DOMAIN us}
    BY <1>5, Zenon
  <2>2. \A e : (\E k \in DOMAIN us : e \in EntriesUpTo(src, us[k], names, bytes, Len(us[k].values)))
                 <=> \E j \in DOMAIN src : e = <<names[j], bytes[j]>>
    <3>1. \A k : \A j \in Beginning(src, us[k], Len(us[k].values)) : j \in DOMAIN src
      BY DEF Beginning
    <3>2. \A e, k : e \in EntriesUpTo(src, us[k], names, bytes, Len(us[k].values))
                      <=> \E j \in Beginning(src, us[k], Len(us[k].values)) : e = <<names[j], bytes[j]>>
      BY Zenon DEF EntriesUpTo
    <3> QED
      BY <1>6, <3>1, <3>2, Zenon
  <2>3. {<<names[i], bytes[i]>> : i \in 1..Len(names)} = {<<names[j], bytes[j]>> : j \in DOMAIN src}
    BY <1>2
  <2> QED
    BY <2>1, <2>2, <2>3
<1> QED
  BY <1>0, <1>1, <1>5, <1>7, Zenon
----------------------------------------------------------------------------
(* What a device holds after a message. *)

\* A unit has a word at an address exactly if it has a cell there.
LEMMA WordsAreCells ==
  ASSUME NEW W, NEW u \in Units(W), NEW t, NEW x \in Int
  PROVE  /\ <<t, x>> \in DOMAIN WordsOf(u) <=> \E w : <<t, x, w>> \in Cells(u)
         /\ \A w : <<t, x, w>> \in Cells(u) => WordsOf(u)[<<t, x>>] = w /\ w \in W
<1>0. PICK n \in Nat : n = Len(u.values)
  BY UnitFacts
<1>1. /\ u.start \in Nat /\ End(u) = u.start + n /\ u.values \in Seq(W)
      /\ DOMAIN u.values = 1..n
  BY <1>0, UnitFacts DEF End
<1>2. DOMAIN WordsOf(u) = {<<u.table, u.start + i>> : i \in 0..(n - 1)}
  BY <1>0, Zenon DEF WordsOf
<1>3. <<t, x>> \in DOMAIN WordsOf(u) <=> t = u.table /\ u.start <= x /\ x < End(u)
  <2>1. <<t, x>> \in DOMAIN WordsOf(u) <=> t = u.table /\ \E i \in 0..(n - 1) : x = u.start + i
    BY <1>2
  <2>2. (\E i \in 0..(n - 1) : x = u.start + i) <=> u.start <= x /\ x < u.start + n
    <3>1. ASSUME u.start <= x, x < u.start + n PROVE x - u.start \in 0..(n - 1) /\ x = u.start + (x - u.start)
      BY <1>1, <3>1
    <3>2. ASSUME NEW i \in 0..(n - 1), x = u.start + i PROVE u.start <= x /\ x < u.start + n
      BY <1>1, <3>2
    <3> QED
      BY <3>1, <3>2
  <2> QED
    BY <1>1, <2>1, <2>2
<1>4. ASSUME NEW w, <<t, x, w>> \in Cells(u)
      PROVE  /\ t = u.table /\ u.start <= x /\ x < End(u)
             /\ x - u.start + 1 \in 1..n /\ w = u.values[x - u.start + 1]
  BY <1>0, <1>4, CellAt
<1>5. t = u.table /\ u.start <= x /\ x < End(u) => <<t, x, u.values[x - u.start + 1]>> \in Cells(u)
  BY CellAt
<1>6. ASSUME NEW w, <<t, x, w>> \in Cells(u) PROVE WordsOf(u)[<<t, x>>] = w /\ w \in W
  <2>1. <<t, x>> \in DOMAIN WordsOf(u)
    BY <1>3, <1>4, <1>6
  <2>2. WordsOf(u)[<<t, x>>] = u.values[x - u.start + 1]
    <3>1. PICK a : a = <<t, x>>
      OBVIOUS
    <3>2. a[2] = x
      BY <3>1
    <3>3. WordsOf(u)[a] = u.values[a[2] - u.start + 1]
      BY <2>1, <3>1, Zenon DEF WordsOf
    <3> QED
      BY <3>1, <3>2, <3>3
  <2> QED
    BY <1>1, <1>4, <1>6, <2>2
<1> QED
  BY <1>3, <1>4, <1>5, <1>6, Zenon

\* What one unit sets.
LEMMA OneSet ==
  ASSUME NEW m, NEW u, NEW a \in DOMAIN m
  PROVE  /\ DOMAIN setWords(m, u) = DOMAIN m
         /\ setWords(m, u)[a] = IF a \in DOMAIN WordsOf(u) THEN WordsOf(u)[a] ELSE m[a]
BY Zenon DEF setWords

\* What a memory holds after each unit that is set in it.
SetOneByOne(mem, us) ==
  \E r : /\ r[0] = mem
         /\ \A i \in 1..Len(us) : r[i] = setWords(r[i - 1], us[i])
         /\ FoldLeft(setWords, mem, us) = r[Len(us)]

\* Units are set one after the other.
LEMMA SettingSteps ==
  ASSUME NEW W, NEW us \in Seq(Units(W)), NEW S, NEW V, NEW mem \in [S -> V], W \subseteq V
  PROVE  SetOneByOne(mem, us)
<1> DEFINE n == Len(us)
           State == [S -> V]
           step == [xw \in (1..n) \X State |-> setWords(xw[2], us[xw[1]])]
           Own(g) == g = [T \in SUBSET (DOMAIN us) |->
                            IF T = {} THEN mem
                            ELSE setWords(g[T \ {Max(T)}], us[Max(T)])]
<1>1. n \in Nat /\ DOMAIN us = 1..n /\ mem \in State
  OBVIOUS
<1>2. ASSUME NEW x \in 1..n, NEW w \in State PROVE setWords(w, us[x]) \in State
  <2>0. PICK u \in Units(W) : u = us[x]
    OBVIOUS
  <2>1. ASSUME NEW a \in DOMAIN WordsOf(u) PROVE WordsOf(u)[a] \in V
    <3>1. u.start \in Nat
      BY UnitFacts
    <3>2. PICK i \in 0..(Len(u.values) - 1) : a = <<u.table, u.start + i>>
      BY Zenon DEF WordsOf
    <3>3. u.start + i \in Int
      BY <3>1, UnitFacts
    <3>4. PICK z : <<u.table, u.start + i, z>> \in Cells(u)
      BY <3>2, <3>3, WordsAreCells
    <3> QED
      BY <3>2, <3>3, <3>4, WordsAreCells
  <2>2. DOMAIN w = S /\ \A a \in S : w[a] \in V
    OBVIOUS
  <2>3. setWords(w, u) = [a \in S |-> IF a \in DOMAIN WordsOf(u) THEN WordsOf(u)[a] ELSE w[a]]
    BY <2>2, Zenon DEF setWords
  <2> QED
    BY <2>0, <2>1, <2>2, <2>3
<1>3. FoldLeft(setWords, mem, us) = (CHOOSE g : Own(g))[DOMAIN us]
  BY Zenon DEF FoldLeft, MapThenFoldSet
<1>4. \E g : Own(g)
  <2>1. \A x \in 1..n, w \in State : step[<<x, w>>] = setWords(w, us[x])
    OBVIOUS
  <2>2. StaysIn(step, 1..n, State)
    <3> HIDE DEF step, State
    <3> QED
      BY <1>2, <2>1, Zenon DEF StaysIn
  <2> HIDE DEF step, State, n
  <2>3. PICK f \in [SUBSET (1..n) -> State] : FoldsRange(f, n, mem, step)
    BY <1>1, <2>2, FoldOverRange, Zenon
  <2>4. ASSUME NEW T \in SUBSET (1..n)
        PROVE  f[T] = IF T = {} THEN mem
                      ELSE setWords(f[T \ {Max(T)}], us[Max(T)])
    <3>1. CASE T = {}
      BY <2>3, <3>1 DEF FoldsRange
    <3>2. CASE T # {}
      <4>1. Max(T) \in 1..n /\ f[T \ {Max(T)}] \in State
        BY <1>1, <3>2, MaxFacts
      <4>2. f[T] = step[<<Max(T), f[T \ {Max(T)}]>>]
        BY <2>3, <3>2 DEF FoldsRange
      <4> QED
        BY <2>1, <3>2, <4>1, <4>2
    <3> QED
      BY <3>1, <3>2
  <2>5. Own(f)
    BY <1>1, <2>4
  <2> HIDE DEF Own
  <2> QED
    BY <2>5
<1> DEFINE g == CHOOSE h : Own(h)
<1>5. Own(g)
  <2> HIDE DEF Own
  <2> QED
    BY <1>4
<1>6. g[{}] = mem
  <2> HIDE DEF g
  <2> QED
    BY <1>5
<1>7. ASSUME NEW i \in 1..n PROVE g[1..i] = setWords(g[1..(i - 1)], us[i])
  <2>1. /\ 1..i \in SUBSET (1..n) /\ 1..i # {}
        /\ Max(1..i) = i /\ (1..i) \ {i} = 1..(i - 1)
    BY <1>1, RangeFacts
  <2> HIDE DEF g, n
  <2>2. \A T \in SUBSET (1..n) :
          T # {} => g[T] = setWords(g[T \ {Max(T)}], us[Max(T)])
    BY <1>1, <1>5
  <2>3. g[1..i] = setWords(g[(1..i) \ {Max(1..i)}], us[Max(1..i)])
    BY <2>1, <2>2, Zenon
  <2> QED
    BY <2>1, <2>3, Zenon
<1> DEFINE r == [i \in 0..n |-> g[1..i]]
<1>8. r[0] = mem /\ r[n] = g[1..n]
  <2>1. 1..0 = {}
    OBVIOUS
  <2> HIDE DEF g
  <2> QED
    BY <1>1, <1>6, <2>1
<1>9. ASSUME NEW i \in 1..n PROVE r[i] = setWords(r[i - 1], us[i])
  <2>1. i \in 0..n /\ i - 1 \in 0..n
    BY <1>1
  <2> HIDE DEF g
  <2> QED
    BY <1>7, <2>1
<1>10. FoldLeft(setWords, mem, us) = r[n]
  <2> HIDE DEF Own, r
  <2> QED
    BY <1>1, <1>3, <1>8
<1> HIDE DEF r
<1> QED
  BY <1>8, <1>9, <1>10, Zenon DEF SetOneByOne

\* The first i units have set their words, and no others.
SetUpTo(now, mem, us, i) ==
  /\ DOMAIN now = DOMAIN mem
  /\ \A t : \A x \in Int : <<t, x>> \in DOMAIN mem =>
       /\ \A w : <<t, x, w>> \in CellsOf(us, 1..i) => now[<<t, x>>] = w
       /\ (\A w : <<t, x, w>> \notin CellsOf(us, 1..i)) => now[<<t, x>>] = mem[<<t, x>>]

\* One more unit sets its own.
LEMMA OneMoreSet ==
  ASSUME NEW W, NEW us \in Seq(Units(W)), NoneOverlap(us), NEW i \in Nat, i + 1 <= Len(us),
         NEW mem, NEW now, SetUpTo(now, mem, us, i)
  PROVE  SetUpTo(setWords(now, us[i + 1]), mem, us, i + 1)
<1>0. PICK u : u = us[i + 1]
  OBVIOUS
<1>1. PICK n \in Nat : n = Len(us)
  OBVIOUS
<1>2. i + 1 \in 1..n /\ DOMAIN us = 1..n /\ 1..(i + 1) = (1..i) \cup {i + 1}
  BY <1>1, OneMoreInRange
<1>3. u \in Units(W) /\ \A k \in 1..i : us[k] \in Units(W) /\ Apart(us[k], u)
  <2>1. \A k \in 1..i : k \in 1..n /\ k # i + 1
    BY <1>2
  <2>2. us[i + 1] \in Units(W) /\ \A k \in 1..i : us[k] \in Units(W)
    BY <1>2, <2>1
  <2> QED
    BY <1>0, <1>2, <2>1, <2>2 DEF NoneOverlap
<1>4. \A c : c \in CellsOf(us, 1..(i + 1)) <=> c \in CellsOf(us, 1..i) \/ c \in Cells(u)
  <2>1. \A c, K : c \in CellsOf(us, K) <=> \E k \in K : c \in Cells(us[k])
    BY Zenon DEF CellsOf
  <2> QED
    BY <1>0, <1>2, <2>1, Zenon
<1>5. PICK after : after = setWords(now, u)
  OBVIOUS
<1>6. DOMAIN now = DOMAIN mem /\ DOMAIN after = DOMAIN mem
  <2>1. DOMAIN now = DOMAIN mem
    BY DEF SetUpTo
  <2>2. DOMAIN after = DOMAIN now
    BY <1>5, Zenon DEF setWords
  <2> QED
    BY <2>1, <2>2
<1>7. ASSUME NEW t, NEW x \in Int, <<t, x>> \in DOMAIN mem
      PROVE  /\ \A w : <<t, x, w>> \in CellsOf(us, 1..(i + 1)) => after[<<t, x>>] = w
             /\ (\A w : <<t, x, w>> \notin CellsOf(us, 1..(i + 1)))
                  => after[<<t, x>>] = mem[<<t, x>>]
  <2>1. after[<<t, x>>] = IF <<t, x>> \in DOMAIN WordsOf(u) THEN WordsOf(u)[<<t, x>>]
                          ELSE now[<<t, x>>]
    <3>1. <<t, x>> \in DOMAIN now
      BY <1>6, <1>7
    <3> QED
      BY <1>5, <3>1, OneSet, Zenon
  <2>2. /\ <<t, x>> \in DOMAIN WordsOf(u) <=> \E w : <<t, x, w>> \in Cells(u)
        /\ \A w : <<t, x, w>> \in Cells(u) => WordsOf(u)[<<t, x>>] = w
    BY <1>3, WordsAreCells
  <2>3. /\ \A w : <<t, x, w>> \in CellsOf(us, 1..i) => now[<<t, x>>] = w
        /\ (\A w : <<t, x, w>> \notin CellsOf(us, 1..i)) => now[<<t, x>>] = mem[<<t, x>>]
    BY <1>7, Zenon DEF SetUpTo
  <2>4. ASSUME NEW w, NEW z, <<t, x, w>> \in CellsOf(us, 1..i), <<t, x, z>> \in Cells(u)
        PROVE  FALSE
    <3>1. PICK k \in 1..i : <<t, x, w>> \in Cells(us[k])
      BY <2>4 DEF CellsOf
    <3>2. PICK v \in Units(W) : v = us[k] /\ Apart(v, u)
      BY <1>3
    <3>3. t = v.table /\ v.start <= x /\ x < End(v)
      BY <3>1, <3>2, CellAt, Zenon
    <3>4. t = u.table /\ u.start <= x /\ x < End(u)
      BY <1>3, <2>4, CellAt, Zenon
    <3>5. v.start \in Nat /\ u.start \in Nat /\ End(v) \in Nat /\ End(u) \in Nat
      BY <1>3, UnitFacts
    <3>6. End(v) <= u.start \/ End(u) <= v.start
      BY <3>2, <3>3, <3>4 DEF Apart
    <3> QED
      BY <3>3, <3>4, <3>5, <3>6
  <2>5. CASE \E z : <<t, x, z>> \in Cells(u)
    <3>1. after[<<t, x>>] = WordsOf(u)[<<t, x>>]
      BY <2>1, <2>2, <2>5, Zenon
    <3> QED
      BY <1>4, <2>2, <2>4, <2>5, <3>1, Zenon
  <2>6. CASE \A z : <<t, x, z>> \notin Cells(u)
    <3>1. after[<<t, x>>] = now[<<t, x>>]
      BY <2>1, <2>2, <2>6, Zenon
    <3> QED
      BY <1>4, <2>3, <2>6, <3>1, Zenon
  <2> QED
    BY <2>5, <2>6, Zenon
<1>8. SetUpTo(after, mem, us, i + 1)
  BY <1>6, <1>7, Zenon DEF SetUpTo
<1> QED
  BY <1>0, <1>5, <1>8, Zenon

\* Units that do not overlap set their words, and no others.
LEMMA AllSet ==
  ASSUME NEW W, NEW us \in Seq(Units(W)), NoneOverlap(us),
         NEW S, NEW V, NEW mem \in [S -> V], W \subseteq V
  PROVE  SetUpTo(FoldLeft(setWords, mem, us), mem, us, Len(us))
<1>0. PICK n \in Nat : n = Len(us)
  OBVIOUS
<1>1. PICK r : /\ r[0] = mem
               /\ \A i \in 1..n : r[i] = setWords(r[i - 1], us[i])
               /\ FoldLeft(setWords, mem, us) = r[n]
  <2>1. SetOneByOne(mem, us)
    BY SettingSteps
  <2> QED
    BY <1>0, <2>1, Zenon DEF SetOneByOne
<1> DEFINE P == {i \in Nat : i <= n => SetUpTo(r[i], mem, us, i)}
<1>2. SetUpTo(r[0], mem, us, 0)
  <2>1. 1..0 = {}
    OBVIOUS
  <2>2. CellsOf(us, 1..0) = {}
    BY <2>1 DEF CellsOf
  <2> QED
    BY <1>1, <2>2, Zenon DEF SetUpTo
<1>3. ASSUME NEW i \in Nat, i + 1 <= n, SetUpTo(r[i], mem, us, i)
      PROVE  SetUpTo(r[i + 1], mem, us, i + 1)
  <2>1. i + 1 \in 1..n /\ (i + 1) - 1 = i
    BY <1>3
  <2>2. r[i + 1] = setWords(r[i], us[i + 1])
    BY <1>1, <2>1
  <2>3. i + 1 <= Len(us)
    BY <1>0, <1>3
  <2>4. SetUpTo(setWords(r[i], us[i + 1]), mem, us, i + 1)
    BY <1>3, <2>3, OneMoreSet, Zenon
  <2> QED
    BY <2>2, <2>4, Zenon
<1>4. \A i \in Nat : i \in P
  <2>1. 0 \in P
    BY <1>2
  <2>2. ASSUME NEW i \in Nat, i \in P PROVE i + 1 \in P
    BY <1>3, <2>2
  <2> HIDE DEF P
  <2> QED
    BY <2>1, <2>2, NaturalsInduct
<1>5. SetUpTo(r[n], mem, us, n)
  BY <1>4
<1> QED
  BY <1>0, <1>1, <1>5, Zenon

\* After a message a device holds, for each of its registers, the words of the
\* value that was given, and everywhere else what it held before.
THEOREM WordsKept ==
  ASSUME NEW B, NEW regs, NoSharedWord(regs), NEW names, NEW bytes,
         IsMessage(names, bytes, regs, B),
         NEW S, S \subseteq Tables \X Nat, NEW mem \in [S -> Seq(B)]
  PROVE  LET src == UnitsOfMessage(names, bytes, regs)
             after == FoldLeft(setWords, mem, mergeDataUnits(src))
         IN  /\ \A i \in 1..Len(names) : \A a \in S \cap DOMAIN WordsOf(src[i]) :
                  after[a] = WordsOf(src[i])[a]
             /\ \A a \in S : (\A i \in 1..Len(names) : a \notin DOMAIN WordsOf(src[i]))
                               => after[a] = mem[a]
<1>0. PICK src : src = UnitsOfMessage(names, bytes, regs)
  OBVIOUS
<1>1. PICK us : us = mergeDataUnits(src)
  OBVIOUS
<1>2. PICK after : after = FoldLeft(setWords, mem, us)
  OBVIOUS
<1>3. /\ src \in Seq(Units(Seq(B))) /\ StartApart(src) /\ NoneOverlap(src)
      /\ DOMAIN src = 1..Len(names) /\ \A i \in 1..Len(names) : src[i] \in Units(Seq(B))
  <2>1. /\ src \in Seq(Units(Seq(B))) /\ Len(src) = Len(names)
        /\ StartApart(src) /\ NoneOverlap(src)
    BY <1>0, MessageUnits
  <2> QED
    BY <2>1
<1>4. MergedFrom(us, src, Seq(B))
  BY <1>1, <1>3, MergingKeepsCells DEF MergedFrom
<1>5. us \in Seq(Units(Seq(B))) /\ NoneOverlap(us) /\ 1..Len(us) = DOMAIN us
  BY <1>4 DEF MergedFrom
<1>6. SetUpTo(after, mem, us, Len(us))
  BY <1>2, <1>5, AllSet, Zenon
<1>7. \A c : c \in CellsOf(us, 1..Len(us)) <=> \E i \in 1..Len(names) : c \in Cells(src[i])
  <2>1. CellsOf(us, 1..Len(us)) = CellsOf(src, DOMAIN src)
    BY <1>4, <1>5 DEF MergedFrom
  <2> QED
    BY <1>3, <2>1, Zenon DEF CellsOf
<1>8. ASSUME NEW a \in S
      PROVE  /\ \A i \in 1..Len(names) : a \in DOMAIN WordsOf(src[i]) => after[a] = WordsOf(src[i])[a]
             /\ (\A i \in 1..Len(names) : a \notin DOMAIN WordsOf(src[i])) => after[a] = mem[a]
  <2>1. PICK t \in Tables, x \in Int : a = <<t, x>>
    OBVIOUS
  <2>2. \A i \in 1..Len(names) :
          /\ a \in DOMAIN WordsOf(src[i]) <=> \E w : <<t, x, w>> \in Cells(src[i])
          /\ \A w : <<t, x, w>> \in Cells(src[i]) => WordsOf(src[i])[a] = w
    <3> SUFFICES ASSUME NEW i \in 1..Len(names)
                 PROVE  /\ a \in DOMAIN WordsOf(src[i]) <=> \E w : <<t, x, w>> \in Cells(src[i])
                        /\ \A w : <<t, x, w>> \in Cells(src[i]) => WordsOf(src[i])[a] = w
      OBVIOUS
    <3>1. PICK u \in Units(Seq(B)) : u = src[i]
      BY <1>3
    <3>2. /\ <<t, x>> \in DOMAIN WordsOf(u) <=> \E w : <<t, x, w>> \in Cells(u)
          /\ \A w : <<t, x, w>> \in Cells(u) => WordsOf(u)[<<t, x>>] = w
      BY WordsAreCells
    <3> QED
      BY <2>1, <3>1, <3>2, Zenon
  <2>3. /\ \A w : <<t, x, w>> \in CellsOf(us, 1..Len(us)) => after[a] = w
        /\ (\A w : <<t, x, w>> \notin CellsOf(us, 1..Len(us))) => after[a] = mem[a]
    <3>1. DOMAIN mem = S
      OBVIOUS
    <3> QED
      BY <1>6, <2>1, <3>1, Zenon DEF SetUpTo
  <2>4. ASSUME NEW i \in 1..Len(names), a \in DOMAIN WordsOf(src[i])
        PROVE  after[a] = WordsOf(src[i])[a]
    BY <1>7, <2>1, <2>2, <2>3, <2>4, Zenon
  <2>5. ASSUME \A i \in 1..Len(names) : a \notin DOMAIN WordsOf(src[i])
        PROVE  after[a] = mem[a]
    <3>1. \A w : <<t, x, w>> \notin CellsOf(us, 1..Len(us))
      BY <1>7, <2>2, <2>5, Zenon
    <3> QED
      BY <2>1, <2>3, <3>1, Zenon
  <2> QED
    BY <2>4, <2>5, Zenon
<1>9. /\ \A i \in 1..Len(names) : \A a \in S \cap DOMAIN WordsOf(src[i]) :
           after[a] = WordsOf(src[i])[a]
      /\ \A a \in S : (\A i \in 1..Len(names) : a \notin DOMAIN WordsOf(src[i]))
                        => after[a] = mem[a]
  BY <1>8
<1> QED
  BY <1>0, <1>1, <1>2, <1>9, Zenon
====
