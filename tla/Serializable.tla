---- MODULE Serializable ----
(***************************************************************************)
(* How a dictionary of texts is read into typed objects:                   *)
(* Serializable::Object and its fields, and Settings::Serializable.        *)
(***************************************************************************)
EXTENDS Settings, JsonDict

\* What the classes that check themselves, and need no other for it, make of an
\* object just read: postUpdate.
deviceUpdated(o) ==
  IF {"tcp", "rtu"} \subseteq o.updated \/ {"tcp", "rtu"} \cap o.updated = {} THEN Refused ELSE o
serverUpdated(o) ==
  IF Number(o.values.heartbeat_ms) >= Number(o.values.keepalive_time) THEN Refused ELSE o
registerUpdated(o) ==
  LET as(w, r) == [o EXCEPT !.values.writable = Leaf(w), !.values.readable = Leaf(r)]
      mode == o.values.mode.leaf
  IN CASE "mode" \in o.updated ->
            (CASE mode \in {"r", "readonly"} -> as("false", "true")
               [] mode \in {"w", "writeonly"} -> as("true", "false")
               [] mode \in {"rw", "readwrite"} -> as("true", "true")
               [] OTHER -> Refused)
       [] "mode" \notin o.updated /\ o.values.table.leaf \in {"InputRegisters", "DiscreteInputs"} ->
            [o EXCEPT !.values.writable = Leaf("false")]
       [] OTHER -> o

postUpdate(o) ==
  CASE o.class = "ModbusDevice" -> deviceUpdated(o)
    [] o.class = "WebsocketServer" -> serverUpdated(o)
    [] o.class = "RegisterInfo" -> registerUpdated(o)
    [] OTHER -> o

RECURSIVE updateObject(_, _, _)

\* One value or entry.  PlainField, NestedField.
updateOne(of, held, v) ==
  LET source == IF of = "PackingMode" THEN ByteWordOrder(v) ELSE v
  IN IF isPlain(of) THEN convert(of, v)
     ELSE IF isRefused(source) THEN Refused
     ELSE updateObject(held, toMap(source), FALSE)

entryOf(of, v) == updateOne(of, IF isPlain(of) THEN Invalid ELSE fresh(of), v)

\* What is left of the entries read: one that throws refuses them all, those
\* that do not convert are passed over, and nothing left is a mismatch.
asList(read) ==
  LET kept == SelectSeq(read, isValid)
  IN IF \E i \in DOMAIN read : isRefused(read[i]) THEN Refused
     ELSE IF kept = <<>> THEN Invalid ELSE List(kept)
asMap(read) ==
  LET kept == {k \in DOMAIN read : isValid(read[k])}
  IN IF \E k \in DOMAIN read : isRefused(read[k]) THEN Refused
     ELSE IF kept = {} THEN Invalid ELSE Map([k \in kept |-> read[k]])

\* PlainSequence, NestedSequence, which passes over what is no map, too.
updateList(of, list) ==
  asList([i \in DOMAIN list |-> IF ~isPlain(of) /\ ~IsMap(list[i]) THEN Invalid
                                ELSE entryOf(of, list[i])])

\* PlainMapping, NestedMapping.
updateMap(of, map) == asMap([k \in DOMAIN map |-> entryOf(of, map[k])])

updateWithVariant(f, held, v) ==
  CASE f.shape = "list" -> updateList(f.of, toList(v))
    [] f.shape = "map" -> updateMap(f.of, toMap(v).map)
    [] OTHER -> updateOne(f.of, held, v)

\* A field no class has.
checkForExtra(fields, src) == ~(DOMAIN src.map \subseteq DOMAIN fields)

\* processField: what a field holds after the update; nothing given is refused
\* where it is required, and what is given where it does not fit.
fitting(updated) == IF updated = Invalid THEN Refused ELSE updated
processField(f, held, newValue) ==
  IF isValid(newValue) THEN fitting(updateWithVariant(f, held, newValue))
  ELSE IF f.attribute = "required" THEN Refused ELSE held

\* update: every field from what the map has of it, a field the class has not
\* refused unless extra ones are allowed.
updated(o, given, read) ==
  IF \E f \in DOMAIN read : isRefused(read[f]) THEN Refused
  ELSE postUpdate([o EXCEPT !.values = read, !.updated = @ \cup given])
updateFields(o, fields, src, allowExtra) ==
  LET extra == allowExtra \/ isTrue(convert("flag", find(src, "__allow_extra__")))
  IN IF ~extra /\ checkForExtra(fields, src) THEN Refused
     ELSE updated(o, {f \in DOMAIN fields : isValid(find(src, f))},
                  [f \in DOMAIN fields |-> processField(fields[f], o.values[f], find(src, f))])
updateObject(o, src, allowExtra) == updateFields(o, Classes[o.class], src, allowExtra)

parseObject(class, src) == updateObject(fresh(class), src, FALSE)
====
