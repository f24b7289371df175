---- MODULE MCModbusValues ----
(* Small instances of ModbusValues for TLC. *)
EXTENDS ModbusValues

KeyOrder == <<"[0]", "[1]", "[2]", "a", "b", "c", "l", "r", "x">>
NoSplit == [k \in ToSet(KeyOrder) |-> <<k>>]

Reg(table, index, words, packing, writable) ==
  [table |-> table, index |-> index, words |-> words, packing |-> packing,
   readable |-> TRUE, writable |-> writable]

\* Two adjacent registers, one that is read only, and a wide one.
FourRegs ==
  (<<"a">> :> Reg("holding", 1, 1, "dcba", TRUE)) @@
  (<<"b", "c">> :> Reg("holding", 0, 1, "abcd", TRUE)) @@
  (<<"l", "[1]">> :> Reg("holding", 3, 2, "badc", TRUE)) @@
  (<<"r">> :> Reg("holding", 2, 1, "cdab", FALSE))

One == <<0, 1>>
Two == <<2, 1>>
Bad == <<9, 9>>
Wide == <<0, 1, 2, 3>>
\* Null passes: most registers have no validator.
AllAccepted == {One, Two, Wide, <<>>}

Dict(entries) == InsertAll(Empty, entries).dict
MasterMessages == {
  Dict(<<<<<<"a">>, Number(One)>>, <<<<"b", "c">>, Number(One)>>,
         <<<<"l", "[1]">>, Number(Wide)>>>>),
  Dict(<<<<<<"a">>, Number(Two)>>, <<<<"b", "c">>, Number(Bad)>>, <<<<"r">>, Number(One)>>,
         <<<<"l", "[1]">>, Null>>, <<<<"x">>, Number(One)>>>>)}
\* Numbers; a text that reads as none, one that reads as a number, and null.
DeviceMessages == {
  Dict(<<<<<<"a">>, Number(Two)>>, <<<<"r">>, Number(One)>>>>),
  Dict(<<<<<<"a">>, Text(<<>>)>>, <<<<"b", "c">>, Null>>, <<<<"l", "[1]">>, Text(Wide)>>>>)}
OtherWrites == {
  Unit("holding", 1, <<One, One>>), Unit("holding", 3, <<Two>>), Unit("holding", 4, <<Two>>)}
====
