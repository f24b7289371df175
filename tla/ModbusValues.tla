---- MODULE ModbusValues ----
(***************************************************************************)
(* The values of a Modbus master: what it knows of its device, what it was *)
(* asked to write and has not seen there yet, and what it tells others.    *)
(* The device is the program's other Modbus worker, a slave in a program   *)
(* of its own, which other masters may write to as well.                   *)
(*                                                                         *)
(* ModbusMaster models when queries run; here each runs when its turn has  *)
(* come, or fails.                                                         *)
(***************************************************************************)
EXTENDS JsonDict, ModbusData, FiniteSetsExt

CONSTANTS
  Regs,         \* m_registers of both workers: paths to registers
  Accepted,     \* the bytes the registers' validators let pass
  Messages,     \* dictionaries the master may be asked to write
  SlaveMessages,\* dictionaries the slave may be given
  ClientWrites, \* units other masters may write to the slave
  Retries,      \* ModbusMaster::retries
  Cached,       \* has the master state_writer and state_reader?
  MaxEvents     \* bound on messages, writes of other masters and crashes

\* Names of registers do not lead through each other.
ASSUME ValuesAssumption ==
  /\ \A p, q \in DOMAIN Regs : p # q => ~IsPrefix(p, q)
  /\ \A p \in DOMAIN Regs : Regs[p] \in Register
  /\ Retries \in Nat /\ Cached \in BOOLEAN

VARIABLES
  current, target, \* Sync::Json of the master
  attempts,        \* RegisterMetaInfo::rewriteAttempts of each register
  writeQueue,      \* units to write
  reply,           \* the read in flight: <<>>, or its unit with the words answered
  fetching,        \* fetchState waits for its reply
  saved,           \* the object in the cache
  memory,          \* the slave's words, by table and address
  state,           \* Slave::Private::state
  heard,           \* history: what the slave was given and has told its consumers
  hung,            \* the slave's thread has entered an endless loop
  server,          \* the slave's server: "new", "open" or "closed"
  reconnectTimer,  \* the slave's timer runs
  known,           \* history: what the master's consumers, or the cache, have told
  restored,        \* history: a state was fetched from the cache
  torn,            \* history: registers other masters have written in part
  events           \* history: messages, writes of other masters and crashes

master  == <<current, target, attempts, writeQueue, reply, fetching, saved, known, restored>>
link    == <<server, reconnectTimer>>
slave   == <<memory, state, heard, hung, torn>>
vars    == <<master, slave, link, events>>

Number(bytes) == Leaf([type |-> "number", bytes |-> bytes])
\* Text compares equal to no number.  It has the bytes of the number it reads as,
\* and none if it reads as none.
Text(bytes) == Leaf([type |-> "text", bytes |-> bytes])
Null == Leaf([type |-> "null", bytes |-> <<>>])

\* canConvert, and convert, to the type of a register: a number keeps its low
\* bytes, and a text that reads as no number of that width becomes zero.
canConvert(v) == v.leaf.type # "null"
converted(v, reg) ==
  LET given == v.leaf.bytes
      kept == IF v.leaf.type = "text" /\ Len(given) > 2 * reg.words THEN <<>> ELSE given
  IN [i \in 1..(2 * reg.words) |->
        LET j == i + Len(kept) - 2 * reg.words IN IF j > 0 THEN kept[j] ELSE 0]

Addresses == UNION {{<<Regs[p].table, Regs[p].index + i>> : i \in 0..(Regs[p].words - 1)} :
                    p \in DOMAIN Regs}

Init ==
  /\ current = Empty /\ target = Empty
  /\ attempts = [p \in DOMAIN Regs |-> 0]
  /\ writeQueue = <<>> /\ reply = <<>> /\ fetching = FALSE
  /\ saved = Empty /\ known = Empty /\ restored = FALSE
  /\ memory = [a \in Addresses |-> <<0, 0>>]
  /\ state = Empty /\ heard = Empty /\ hung = FALSE /\ torn = {}
  /\ server = "new" /\ reconnectTimer = FALSE
  /\ events = 0

Event == events < MaxEvents /\ events' = events + 1

\* queries: units of one word for each readable register, merged.
Queries ==
  LET readable == SetToSeq({p \in DOMAIN Regs : Regs[p].readable})
  IN mergeDataUnits([i \in DOMAIN readable |->
       Unit(Regs[readable[i]].table, Regs[readable[i]].index, <<<<0, 0>>>>)])

\* The registers read from a unit, with their values, and whether its words end
\* within one.
Registers(unit) ==
  LET found == readRegisters(Regs, unit)
  IN [found EXCEPT !.read = [i \in DOMAIN @ |-> <<@[i][1], Number(@[i][2])>>]]
----------------------------------------------------------------------------
(* The master. *)

\* JsonDict's operator[] leaves an invalid value where it found none.
Touched(d, p) == IF containsKey(d, p) THEN d ELSE insert(d, p, Invalid)

\* Sync::Json::updateTarget with one key: an invalid value changes nothing.
updateTarget(t, p, v) == update(t, insert(Empty, p, v)).result.dict

MayWrite(p, v) == /\ p \in DOMAIN Regs
                  /\ Regs[p].writable
                  /\ v.leaf.bytes \in Accepted
                  /\ canConvert(v)

\* write, on states [current, target, queue]: values compared with the target,
\* or, when there is none, with what is known.
write(s, data) ==
  LET one(r, e) ==
        LET p == e[1]
            same == IF isEmpty(r.s.target) THEN value(r.s.current, p) = e[2]
                    ELSE value(r.s.target, p) = e[2]
            seen == IF isEmpty(r.s.target) THEN [r.s EXCEPT !.current = Touched(@, p)]
                    ELSE [r.s EXCEPT !.target = Touched(@, p)]
        IN IF ~MayWrite(join(p), e[2]) THEN r
           ELSE IF same THEN [r EXCEPT !.s = seen]
           ELSE [s |-> [seen EXCEPT !.target = updateTarget(@, p, e[2])],
                 units |-> Append(r.units, parseValueToDataUnit(converted(e[2], Regs[p]), Regs[p]))]
      done == FoldLeft(one, [s |-> s, units |-> <<>>], leaves(data))
  IN [done.s EXCEPT !.queue = @ \o mergeDataUnits(done.units)]

\* rewriteAttempts is a quint8.
AttemptsSize == 256

\* Variant for mutation: once the attempts are used up nothing more is done.
retriedInVain(s, e) ==
  IF Regs[e[1]].readable /\ s.attempts[e[1]] < Retries
  THEN [s EXCEPT !.attempts[e[1]] = (@ + 1) % AttemptsSize] ELSE s

\* One key that is missing: a key that cannot be read stays; one that may be
\* tried again only counts; the last time the target is given up, for as long
\* as it takes write to find it changed.
retried(s, e) ==
  LET p == e[1] IN
  IF ~Regs[p].readable THEN s
  ELSE IF s.attempts[p] < Retries THEN [s EXCEPT !.attempts[p] = (@ + 1) % AttemptsSize]
  ELSE [s EXCEPT !.target = updateTarget(@, p, value(s.current, p)),
                 !.current = Touched(@, p),
                 !.attempts[p] = 0]

\* Variant for mutation: the delta is what was known before.
deltaOfWhatWas(was, now) == diff(was, now)

\* Sync::Json::updateCurrent returns what was added or changed.
delta(was, now) == diff(now, was)

\* What a read changes: what is known, what is still to be written, what is
\* told and what is kept in the cache.
rewritten(json) ==
  LET now == merge(current, json).dict
      toRewrite == diff(target, now)
      s == FoldLeft(retried,
             [current |-> now, target |-> target, queue |-> writeQueue, attempts |-> attempts],
             leaves(toRewrite))
      after == IF isEmpty(toRewrite) THEN [s EXCEPT !.target = Empty] ELSE write(s, toRewrite)
  IN after @@ [delta |-> delta(current, now), toSave |-> s.current]

updateCurrent(json) ==
  \E after \in {rewritten(json)} :
    /\ current' = after.current
    /\ target' = after.target
    /\ writeQueue' = after.queue
    /\ attempts' = after.attempts
    /\ known' = merge(known, after.delta).dict
    /\ saved' = IF Cached THEN merge(saved, after.toSave).dict ELSE saved

onMsg(m) ==
  LET s == write([current |-> current, target |-> target, queue |-> writeQueue], m) IN
  /\ Event
  /\ current' = s.current /\ target' = s.target /\ writeQueue' = s.queue
  /\ UNCHANGED <<attempts, reply, fetching, saved, known, restored, slave, link>>

onReadReady ==
  /\ reply # <<>>
  /\ LET read == Registers(reply[1]).read
     IN updateCurrent(InsertAll(Empty, read).dict)
  /\ reply' = <<>>
  /\ UNCHANGED <<fetching, restored, slave, link, events>>

\* fetchState's callback: the cached object becomes both current and target.
onFetched ==
  LET kept == leaves(saved)
      text == InsertAll(Empty, [i \in DOMAIN kept |-> <<kept[i][1], Text(kept[i][2].leaf.bytes)>>]).dict IN
  /\ fetching
  /\ fetching' = FALSE
  /\ target' = update(target, text).result.dict
  /\ current' = merge(current, text).dict
  /\ known' = merge(known, text).dict
  /\ restored' = TRUE
  /\ UNCHANGED <<attempts, writeQueue, reply, saved, slave, link, events>>

\* The master's program ends and starts again.  An empty object is no answer.
crash ==
  /\ Event
  /\ current' = Empty /\ target' = Empty /\ known' = Empty
  /\ attempts' = [p \in DOMAIN Regs |-> 0]
  /\ writeQueue' = <<>> /\ reply' = <<>>
  /\ fetching' = (Cached /\ ~isEmpty(saved))
  /\ UNCHANGED <<saved, restored, slave, link>>
----------------------------------------------------------------------------
(* The slave.  Its server holds the words and reports a write that changes *)
(* any, also one of the worker's own.                                      *)

\* onDataWritten and handleNewWords: the registers written whole are kept, and
\* told to the consumers where they differ; a register cut short is looked at
\* for ever, and nothing is told.
handleNewWords(s, unit) ==
  LET found == Registers(unit)
      now == InsertAll(s.state, found.read).dict
  IN [s EXCEPT !.memory = setWords(@, unit),
               !.state = now,
               !.hung = found.cut,
               !.heard = IF found.cut THEN @ ELSE merge(@, diff(now, s.state)).dict]

\* Variant for mutation: a unit that changes one word is not reported.
dataWrittenLazily(s, unit) ==
  IF setWords(s.memory, unit) = s.memory \/ Len(unit.values) = 1
  THEN [s EXCEPT !.memory = setWords(@, unit)] ELSE handleNewWords(s, unit)

dataWritten(s, unit) ==
  IF setWords(s.memory, unit) = s.memory THEN s ELSE handleNewWords(s, unit)

Slave == [memory |-> memory, state |-> state, heard |-> heard, hung |-> hung]
SetSlave(s) ==
  memory' = s.memory /\ state' = s.state /\ heard' = s.heard /\ hung' = s.hung

\* A register of which a unit has some words only.
TornBy(unit) ==
  {p \in DOMAIN Regs :
     LET words == {<<Regs[p].table, Regs[p].index + i>> : i \in 0..(Regs[p].words - 1)}
     IN words \cap DOMAIN WordsOf(unit) \notin {{}, words}}

\* Every value becomes the state's, as it was given; those that can be converted
\* are then written, as what they convert to.
slaveOnMsg(m) ==
  LET mine == SelectSeq(leaves(m), LAMBDA e : join(e[1]) \in DOMAIN Regs)
      writable == SelectSeq(mine, LAMBDA e : canConvert(e[2]))
      unit(p, v) == parseValueToDataUnit(converted(v, Regs[p]), Regs[p])
      units == [i \in DOMAIN writable |-> unit(writable[i][1], writable[i][2])]
  IN /\ server # "new" /\ ~hung
     /\ Event
     /\ SetSlave(FoldLeft(dataWritten,
                          [Slave EXCEPT !.state = InsertAll(@, mine).dict,
                                        !.heard = InsertAll(@, mine).dict],
                          mergeDataUnits(units)))
     /\ UNCHANGED <<master, torn, link>>

clientWrites(unit) ==
  /\ server = "open" /\ ~hung
  /\ Event
  /\ SetSlave(dataWritten(Slave, unit))
  /\ torn' = torn \cup TornBy(unit)
  /\ UNCHANGED <<master, link>>

\* connectDevice, when the thread has started and by the timer.
connectDevice(opens) ==
  /\ ~hung /\ (server = "new" \/ reconnectTimer)
  /\ server' = IF opens THEN "open" ELSE "closed"
  /\ reconnectTimer' = ~opens
  /\ UNCHANGED <<master, slave, events>>

\* onErrorOccurred: any error closes the server, which keeps its words.
onErrorOccurred ==
  /\ server = "open" /\ ~hung
  /\ server' = "closed"
  /\ reconnectTimer' = TRUE
  /\ UNCHANGED <<master, slave, events>>
----------------------------------------------------------------------------
(* Queries.  Writes go first; one that fails is not tried again. *)

executeWrite ==
  /\ reply = <<>> /\ writeQueue # <<>> /\ server = "open" /\ ~hung
  /\ writeQueue' = Tail(writeQueue)
  /\ SetSlave(dataWritten(Slave, Head(writeQueue)))
  /\ UNCHANGED <<current, target, attempts, reply, fetching, saved, known, restored, torn, link, events>>

writeFails ==
  /\ reply = <<>> /\ writeQueue # <<>>
  /\ writeQueue' = Tail(writeQueue)
  /\ UNCHANGED <<current, target, attempts, reply, fetching, saved, known, restored, slave, link, events>>

executeRead(q) ==
  /\ reply = <<>> /\ writeQueue = <<>> /\ server = "open" /\ ~hung
  /\ reply' = <<[q EXCEPT !.values =
                   [i \in DOMAIN @ |-> memory[<<q.table, q.start + i - 1>>]]]>>
  /\ UNCHANGED <<current, target, attempts, writeQueue, fetching, saved, known, restored, slave, link, events>>

Next ==
  \/ \E m \in Messages : onMsg(m)
  \/ onReadReady
  \/ onFetched
  \/ crash
  \/ \E m \in SlaveMessages : slaveOnMsg(m)
  \/ \E unit \in ClientWrites : clientWrites(unit)
  \/ \E opens \in BOOLEAN : connectDevice(opens)
  \/ onErrorOccurred
  \/ executeWrite
  \/ writeFails
  \/ \E i \in DOMAIN Queries : executeRead(Queries[i])

Spec == Init /\ [][Next]_vars

\* Queries go on: each is asked for by the poll timer again and again; not every
\* write fails, nor every attempt to open the server; and the server, which might
\* fail at each write, fails no more in the end.  The actions below change the
\* variables whenever their guards hold: these are SF_vars(executeWrite) and so on.
FairSpec ==
  /\ Spec
  /\ <>[][~onErrorOccurred]_vars
  /\ []<>((server = "new" \/ reconnectTimer) /\ ~hung) => []<><<connectDevice(TRUE)>>_vars
  /\ []<>(reply # <<>>) => []<><<onReadReady>>_vars
  /\ []<>(reply = <<>> /\ writeQueue # <<>> /\ server = "open" /\ ~hung) =>
       []<><<executeWrite>>_vars
  /\ \A i \in DOMAIN Queries :
       []<>(reply = <<>> /\ writeQueue = <<>> /\ server = "open" /\ ~hung) =>
         []<><<executeRead(Queries[i])>>_vars
----------------------------------------------------------------------------
(* Properties. *)

\* Followers need no more than the deltas.  What the master believes of its
\* device it was told by the cache or has told its consumers, and what the slave
\* believes of its memory it was given or has told its own.
DeltasSuffice == containsDict(known, current) /\ (~hung => containsDict(heard, state))

\* The words of a register, whether a client wrote it whole or the worker was
\* given its value, hold what the value in the slave's state converts to, however
\* the units were merged.  Of a value that cannot be converted, which becomes the
\* state's and is not written, nothing is said.
StateMatchesMemory ==
  \A p \in DOMAIN Regs \ torn :
    ~hung /\ containsKey(state, p) /\ canConvert(value(state, p)) =>
      LET bytes == converted(value(state, p), Regs[p])
          unit == parseValueToDataUnit(bytes, Regs[p])
          words == WordsOf(unit)
      IN /\ \A a \in DOMAIN words : memory[a] = words[a]
         /\ parseModbusType(unit.values, Regs[p]) = bytes

\* The laws of the dictionary the master relies on: its iterator visits every
\* value once and in the order of the keys, nothing is missing once what is
\* missing was merged, and splitting the keys undoes joining them.
RECURSIVE Inside(_)
Inside(v) ==
  IF IsMap(v) \/ IsList(v)
  THEN LET entries == Entries(v)
           under(e) == LET below == Inside(e[2])
                       IN [j \in DOMAIN below |-> <<<<e[1]>> \o below[j][1], below[j][2]>>]
       IN FlattenSeq([i \in DOMAIN entries |-> under(entries[i])])
  ELSE IF isValid(v) THEN <<<<<<>>, v>>>> ELSE <<>>

DictionaryLaws ==
  LET missing == diff(target, current)
  IN /\ \A d \in {current, target, state} :
          leaves(d) = Inside(d) /\ InsertAll(Empty, flatten(d)).dict = sanitized(d)
     /\ isEmpty(diff(target, merge(current, missing).dict))
     /\ containsDict(target, missing)

\* Every readable register of one word is read again and again: what is missing
\* of the target at such registers is missing no more in the end, though a write
\* that fails is not repeated until the attempts are used up, and though the
\* slave's server fails and is opened again, unless the slave hangs or the target
\* was restored from the cache as text.
Missing == {p \in DOMAIN Regs : /\ Regs[p].readable /\ Regs[p].words = 1
                                /\ containsKey(target, p)
                                /\ value(target, p) # value(current, p)}
Settles == []<>(Missing = {} \/ hung \/ restored)
====
