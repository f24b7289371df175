---- MODULE Registers ----
(***************************************************************************)
(* The registers of a Modbus configuration: Registers::init, which finds   *)
(* them in dictionaries nested as the user likes.  A register is known by  *)
(* the path of the dictionary it is in.                                    *)
(***************************************************************************)
EXTENDS Serializable

\* The fields of Registers in the order they are read, each with its table.
RegisterTables ==
  <<<<"holding", "holding">>, <<"holding_registers", "holding">>, <<"input", "input">>,
    <<"input_registers", "input">>, <<"coils", "coils">>, <<"di", "discrete_inputs">>,
    <<"discrete_inputs", "discrete_inputs">>>>

\* A register that says nothing of its mode takes that of its device.
tryReplaceMode(regs, raw) ==
  LET byDefault == {m \in {"readable", "writable"} :
                      ~isTrue(regs.values[IF m = "readable" THEN "allow_read_by_default"
                                          ELSE "allow_write_by_default"])}
  IN IF {"mode", "readable", "writable"} \cap DOMAIN raw.map # {} THEN raw
     ELSE Map([m \in byDefault |-> Leaf("false")] @@ raw.map)

\* Each place with an index is a register.  An index beside the registers of a
\* table has no dictionary around it: the code reads through a null pointer.
misplaced(path) ==
  \/ field(path) \in {"allow_read_by_default", "allow_write_by_default"}
  \/ field(path) = "index" /\ Len(path) = 1

parseRegisters(regs, dict, table) ==
  LET places == SelectSeq(leaves(dict), LAMBDA e : field(e[1]) = "index")
      info(path) == With(tryReplaceMode(regs, domainMap(dict, path)), "table", Leaf(table))
  IN IF \E e \in ToSet(leaves(dict)) : misplaced(e[1])
       THEN <<[name |-> <<>>, info |-> Refused]>>
       ELSE [i \in DOMAIN places |-> [name |-> domainKey(places[i][1]),
                                      info |-> parseObject("RegisterInfo", info(places[i][1]))]]

\* The order of names in a QMap, where a dictionary comes before what is in it.
Position(key) == CHOOSE i \in DOMAIN Keys : Keys[i] = key
Before(m, n) ==
  \/ IsStrictPrefix(m, n)
  \/ \E i \in DOMAIN m \cap DOMAIN n :
       /\ SubSeq(m, 1, i - 1) = SubSeq(n, 1, i - 1)
       /\ Position(m[i]) < Position(n[i])

\* A later register of the same name replaces an earlier one.
lastOfEach(found) ==
  LET names == SetToSortSeq({found[i].name : i \in DOMAIN found}, Before)
      infoOf(n) == found[CHOOSE i \in DOMAIN found :
                           /\ found[i].name = n
                           /\ \A j \in DOMAIN found : found[j].name = n => j <= i].info
  IN IF \E i \in DOMAIN found : isRefused(found[i].info) THEN Refused
     ELSE [registers |-> [i \in DOMAIN names |-> infoOf(names[i])]]
registersInit(regs) ==
  lastOfEach(FlattenSeq([i \in DOMAIN RegisterTables |->
    parseRegisters(regs, nested(toMap(regs.values[RegisterTables[i][1]])), RegisterTables[i][2])]))
====
