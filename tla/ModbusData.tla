---- MODULE ModbusData ----
(***************************************************************************)
(* The data of Modbus: how values become words and words values, and how   *)
(* the units of one message are merged into few queries.                   *)
(*                                                                         *)
(* A word is a pair of bytes and a value the sequence of its bytes, both   *)
(* most significant first; the program runs on a little-endian host.       *)
(***************************************************************************)
EXTENDS Integers, SequencesExt

\* A register: where it is, how many words its type has, its packing, what may
\* be done with it, and the values its validator lets pass.
Register == [table : {"holding", "input", "coils", "di"},
             index : Nat,
             words : {1, 2},
             packing : {"abcd", "badc", "cdab", "dcba"},
             readable : BOOLEAN,
             writable : BOOLEAN]

Unit(table, start, words) == [table |-> table, start |-> start, values |-> words]
----------------------------------------------------------------------------
(* Packing. *)

\* ByteWordOrder: which orders the four names set.
Packing(name) == [words |-> IF name \in {"abcd", "cdab"} THEN "big" ELSE "little",
                  bytes |-> IF name \in {"abcd", "badc"} THEN "big" ELSE "little"]

thisPack == [words |-> "big", bytes |-> "little"]

applyEndianess(words, was, target) ==
  LET flipped == IF was.bytes # target.bytes THEN [i \in DOMAIN words |-> Reverse(words[i])]
                 ELSE words
  IN IF was.words # target.words THEN Reverse(flipped) ELSE flipped

\* toWords: the words of a value in the memory of the host, the lowest first.
toWords(v) == [i \in 1..(Len(v) \div 2) |->
                 SubSeq(v, Len(v) - 2 * i + 1, Len(v) - 2 * i + 2)]

parseValueToDataUnit(v, reg) ==
  Unit(reg.table, reg.index, applyEndianess(toWords(v), thisPack, Packing(reg.packing)))

parseModbusType(words, reg) ==
  FlattenSeq(Reverse(applyEndianess(words, Packing(reg.packing), thisPack)))
----------------------------------------------------------------------------
(* Merging. *)

Precedes(u, unit) == u.table = unit.table /\ u.start + Len(u.values) = unit.start

\* The first unit that ends where this one starts, 0 if there is none.
Predecessor(units, unit) == SelectInSeq(units, LAMBDA u : Precedes(u, unit))

\* mergeDataUnit: its values are appended to that unit's.
mergeDataUnit(units, unit) ==
  [units EXCEPT ![Predecessor(units, unit)].values = @ \o unit.values]

\* Radapter::sort by startAddress; units at one address stay as they were.
Earlier(units, i, j) ==
  \/ units[i].start < units[j].start
  \/ units[i].start = units[j].start /\ i < j
byAddress(units) ==
  [k \in DOMAIN units |->
     units[CHOOSE j \in DOMAIN units :
             Cardinality({i \in DOMAIN units : Earlier(units, i, j)}) = k - 1]]

\* Each unit is appended to one before it, if there is one that ends where it
\* starts: the units then, and the indices of those that were appended.
appendedInOrder(sorted) ==
  FoldLeft(LAMBDA r, i : IF Predecessor(r.units, sorted[i]) = 0 THEN r
                         ELSE [units |-> mergeDataUnit(r.units, sorted[i]),
                               removed |-> r.removed \cup {i}],
           [units |-> sorted, removed |-> {}], [i \in DOMAIN sorted |-> i])

\* Those appended are removed in the end.
sortAndMergeDataUnits(units) ==
  LET merged == appendedInOrder(byAddress(units))
  IN FoldLeft(LAMBDA us, i : IF i \in merged.removed THEN us ELSE Append(us, merged.units[i]),
              <<>>, [i \in DOMAIN units |-> i])

\* The units of one table, each appended as it comes if it can be.
collected(src, table) ==
  FoldLeft(LAMBDA us, u : IF u.table # table THEN us
                          ELSE IF Predecessor(us, u) = 0 THEN Append(us, u)
                          ELSE mergeDataUnit(us, u),
           <<>>, src)

\* Unit by unit, as they come, and then sorted, for each table.
mergeDataUnits(src) ==
  LET merged(table) == sortAndMergeDataUnits(collected(src, table))
  IN merged("holding") \o merged("di") \o merged("input") \o merged("coils")
----------------------------------------------------------------------------
(* Words in a device, and the registers read from them. *)

WordsOf(unit) ==
  [a \in {<<unit.table, unit.start + i>> : i \in 0..(Len(unit.values) - 1)} |->
     unit.values[a[2] - unit.start + 1]]

setWords(mem, unit) ==
  LET words == WordsOf(unit)
  IN [a \in DOMAIN mem |-> IF a \in DOMAIN words THEN words[a] ELSE mem[a]]

\* reverseRegisters: the register that begins at an address.
RegisterAt(regs, table, address) ==
  {p \in DOMAIN regs : regs[p].table = table /\ regs[p].index = address}

\* The loops of onReadReady and handleNewWords, which go on after the words of a
\* register: the registers read, the word to look at next, and whether the words
\* end within a register.
readRegisters(regs, unit) ==
  LET look(r, i) ==
        LET here == RegisterAt(regs, unit.table, unit.start + i)
            p == CHOOSE p \in here : TRUE
            n == regs[p].words
        IN IF r.cut \/ i < r.next \/ here = {} THEN r
           ELSE IF i + n > Len(unit.values) THEN [r EXCEPT !.cut = TRUE]
           ELSE [r EXCEPT !.next = i + n,
                          !.read = Append(@, <<p, parseModbusType(SubSeq(unit.values, i + 1, i + n),
                                                                  regs[p])>>)]
  IN FoldLeft(look, [read |-> <<>>, next |-> 0, cut |-> FALSE],
              [i \in DOMAIN unit.values |-> i - 1])
====
