---- MODULE Launcher ----
(***************************************************************************)
(* The launcher: it takes the options of the command line, reads the       *)
(* configuration, creates and registers the workers and interceptors it    *)
(* names, connects them by its pipelines and those of the command line, and*)
(* starts them all.  Whatever throws on the way ends the program.          *)
(***************************************************************************)
EXTENDS Connections, ModbusSettings

CONSTANTS
  Raws,          \* what the file of the configuration may hold
  CommandLines,  \* the options the command line may give
  Texts,         \* the pipelines, by their texts
  Path,          \* the directories of the environment's PATH
  Installed,     \* Installed[d]: the programs in directory d
  readSettings(_, _)  \* of what a file holds, with options: the dictionary read,
                      \* and the AppConfig it gives

VARIABLES
  phase,      \* how far the launcher is, or where it ended
  options,    \* the options of the command line
  config,     \* the AppConfig
  given,      \* the dictionary it was read from
  broker,     \* what the broker has registered and connected
  todo,       \* workers, interceptors and the API still to be added
  lines,      \* the pipelines, in the order of their creation
  ops,        \* the operations of each
  at,         \* the line and the operation that is next
  registered  \* what the broker had before the first (of no effect)

vars == <<phase, options, config, given, broker, todo, lines, ops, at, registered>>

NewBroker == [workers |-> {}, files |-> NoKeys, interceptors |-> NoKeys, connections |-> {},
              allow_self_connect |-> FALSE]

\* The options, where the command line gives none.
Defaults == [parser |-> "yaml", key |-> "", reads |-> TRUE, overrides |-> <<>>, pipes |-> <<>>]

Nothing == [workers |-> <<>>, interceptors |-> <<>>, api |-> <<>>]

Init ==
  /\ phase = "starting" /\ options = Defaults /\ config = fresh("AppConfig") /\ given = Empty
  /\ broker = NewBroker /\ registered = NewBroker
  /\ todo = Nothing /\ lines = <<>> /\ ops = <<>> /\ at = <<1, 1>>

----------------------------------------------------------------------------
(* What the launcher adds. *)

\* Variant for mutation: the masters are forgotten.
WorkerSectionsButMasters ==
  <<<<"redis", "cache", "consumers">>, <<"redis", "stream", "consumers">>,
    <<"sockets", "udp", "consumers">>, <<"redis", "cache", "producers">>,
    <<"redis", "key_events", "subscribers">>, <<"redis", "stream", "producers">>,
    <<"sockets", "udp", "producers">>, <<"sockets", "udp", "consumers">>,
    <<"mocks">>, <<"files">>, <<"modbus", "slaves">>,
    <<"websocket", "servers">>, <<"websocket", "clients">>,
    <<"repeaters">>, <<"processes">>, <<"python">>>>

\* The sections of workers in the order of initConfig, which adds the UDP
\* consumers twice.
WorkerSections ==
  <<<<"redis", "cache", "consumers">>, <<"redis", "stream", "consumers">>,
    <<"sockets", "udp", "consumers">>, <<"redis", "cache", "producers">>,
    <<"redis", "key_events", "subscribers">>, <<"redis", "stream", "producers">>,
    <<"sockets", "udp", "producers">>, <<"sockets", "udp", "consumers">>,
    <<"mocks">>, <<"files">>, <<"modbus", "slaves">>, <<"modbus", "masters">>,
    <<"websocket", "servers">>, <<"websocket", "clients">>,
    <<"repeaters">>, <<"processes">>, <<"python">>>>

workersOf(c) ==
  LET all == FlattenSeq([i \in DOMAIN WorkerSections |-> section(c, WorkerSections[i]).list])
      named(w) == IF "worker" \in DOMAIN w.values THEN w.values.worker.values.name
                  ELSE w.values.name
  IN [i \in DOMAIN all |-> [name |-> Name(named(all[i]).leaf), made |-> all[i]]]

\* The pipelines of the configuration, after those of the command line.
linesOf(c) ==
  LET texts == section(c, <<"pipelines">>).list IN [i \in DOMAIN texts |-> texts[i].leaf]

\* Interceptors by their sections, each with what it does.
interceptorsOf(c) ==
  LET added(path, make(_)) == LET all == section(c, path).map
                                  names == SetToSeq(DOMAIN all)
                              IN [i \in DOMAIN names |-> [name |-> Name(names[i]),
                                                          made |-> make(all[names[i]].values)]]
      validatingOf(v) ==
        LET pairs == {[validator |-> v.by_field.map[f].leaf, field |-> f] :
                        f \in DOMAIN v.by_field.map} \cup
                     UNION {{[validator |-> n, field |-> e.leaf] : e \in ToSet(v.by_validator.map[n].list)} :
                              n \in DOMAIN v.by_validator.map}
        IN IF \E p \in pairs : p.validator \notin Validators THEN Refused
           ELSE validating(pairs, isTrue(v.inverse))
      unwrapperOf(v) == [kind |-> "unwrap", key |-> v.unwrap_from.leaf]
      wrapperOf(v) == [kind |-> "wrap", key |-> v.wrap_into.leaf]
      remapperOf(v) == [kind |-> "remap"]
      renamerOf(v) == [kind |-> "rename"]
  IN added(<<"interceptors", "validating">>, validatingOf) \o
     added(<<"interceptors", "namespaces", "unwrappers">>, unwrapperOf) \o
     added(<<"interceptors", "namespaces", "wrappers">>, wrapperOf) \o
     added(<<"interceptors", "remapping">>, remapperOf) \o
     added(<<"interceptors", "renaming">>, renamerOf)

\* The API, under a name of its own and after everything else.
apiOf(c) ==
  IF isTrue(section(c, <<"api">>).values.enabled)
    THEN <<[name |-> Name("internal.radapter.api"), made |-> section(c, <<"api">>)]>> ELSE <<>>

\* What the constructors refuse: a file that does not open, a program not found.
\* ProcessWorker::addPaths: the last of the extra paths and the first of PATH become one, which
\* is neither.
addPaths(extra) == IF extra = <<>> THEN Path ELSE Front(extra) \o Tail(Path)
exists(w) ==
  LET paths == addPaths([i \in DOMAIN w.values.extra_paths.list |-> w.values.extra_paths.list[i].leaf])
  IN \E i \in DOMAIN paths : w.values.process.leaf \in Installed[paths[i]]

\* The process worker a Python module runs in, under a name the broker does not
\* hear of.
processOf(w) ==
  [fresh("ProcessWorker") EXCEPT !.values.worker = w.values.worker,
                                 !.values.process = Leaf("python3"),
                                 !.values.extra_paths = w.values.extra_paths]

constructorThrows(c, w) ==
  CASE w.class \in {"ModbusSlave", "ModbusMaster"} ->
      collides(workerInit(section(c, <<"modbus">>), w).registers)
    [] w.class = "FileWorker" -> ~opens(w.values.filepath.leaf)
    [] w.class = "MockWorker" -> w.values.json_file_path.leaf \notin Present \cup {""}
    [] w.class = "ProcessWorker" -> ~exists(w)
    [] w.class = "PythonModuleWorker" -> ~exists(processOf(w))
    [] OTHER -> FALSE

\* registerWorker, once the constructor has let it pass.
addWorker(b, c, w) ==
  IF constructorThrows(c, w.made) \/ w.name = Name("") \/ w.name \in b.workers THEN Refused
  ELSE [b EXCEPT !.workers = @ \cup {w.name},
                 !.files = IF w.made.class = "FileWorker"
                             THEN Over([x \in {w.name} |-> w.made.values.filepath.leaf], @) ELSE @]

\* registerInterceptor: the later of one name.
addInterceptor(b, i) ==
  IF isRefused(i.made) THEN Refused
  ELSE [b EXCEPT !.interceptors = Over([x \in {i.name} |-> i.made], @)]

----------------------------------------------------------------------------
(* What the settings and the texts are, by their types. *)

IsSequence(s) == s \in Seq(ToSet(s))

\* What registersOf gives: registers each in a table, at an index.
AreRegisters(regs) ==
  /\ IsSequence(regs.registers)
  /\ \A n \in DOMAIN regs.registers :
       TableOf(regs.registers[n]) \in DOMAIN NoCounts /\ IndexOf(regs.registers[n]) \in Int

IsModbus(modbus) ==
  /\ \A w \in ToSet(modbus.values.slaves.list) : w.class = "ModbusSlave"
  /\ \A d \in DOMAIN modbus.values.registers.map :
       LET regs == registersOf(modbus.values.registers.map[d])
       IN isRefused(regs) \/ AreRegisters(regs)

IsConfig(c) ==
  /\ \A i \in DOMAIN WorkerSections : IsSequence(section(c, WorkerSections[i]).list)
  /\ IsModbus(section(c, <<"modbus">>))
  /\ linesOf(c) \in Seq(DOMAIN Texts)

ASSUME SettingsAssumption ==
  \A raw \in Raws, o \in CommandLines :
    LET c == readSettings(raw, o).config IN isRefused(c) \/ IsConfig(c)

ASSUME CommandLinesAssumption == \A o \in CommandLines : o.pipes \in Seq(DOMAIN Texts)

\* A text has one splitter between any two items.
IsText(p) ==
  /\ IsSequence(p.items) /\ IsSequence(p.splitters) /\ Len(p.items) = Len(p.splitters) + 1
  /\ \A i \in DOMAIN p.items : p.items[i].star \in BOOLEAN
  /\ \A i \in DOMAIN p.splitters :
       p.splitters[i] = [dir |-> p.splitters[i].dir, between |-> p.splitters[i].between]
       /\ p.splitters[i].dir \in {"normal", "inverted", "bidirectional"}

ASSUME TextsAssumption == \A t \in DOMAIN Texts : IsText(Texts[t])

----------------------------------------------------------------------------
(* The launcher's steps. *)

\* parseCommandlineArgs: there is one parser only.
parseCommandlineArgs ==
  /\ phase = "starting"
  /\ options' \in CommandLines
  /\ phase' = IF options'.parser = "yaml" THEN "reading" ELSE "refused"
  /\ UNCHANGED <<config, given, broker, todo, lines, ops, at, registered>>

\* initConfig, up to the first worker.
initConfig ==
  /\ phase = "reading"
  /\ \E raw \in Raws : \E read \in {readSettings(raw, options)} :
       /\ given' = read.given
       /\ IF isRefused(read.config) THEN phase' = "refused" /\ UNCHANGED <<config, broker, todo, lines>>
          ELSE IF modbusRefused(section(read.config, <<"modbus">>)) THEN
            phase' = "refused" /\ UNCHANGED <<config, broker, todo, lines>>
          ELSE
            /\ phase' = "adding" /\ config' = read.config
            /\ broker' = [broker EXCEPT !.allow_self_connect =
                            isTrue(section(read.config, <<"broker", "allow_self_connect">>))]
            /\ todo' = [workers |-> workersOf(read.config),
                        interceptors |-> interceptorsOf(read.config), api |-> apiOf(read.config)]
            /\ lines' = options.pipes \o linesOf(read.config)
  /\ UNCHANGED <<options, ops, at, registered>>

\* What is to be added next is, or the program ends.
Added(added, left) ==
  /\ IF isRefused(added) THEN phase' = "unregistered" /\ UNCHANGED <<broker, todo>>
     ELSE broker' = added /\ todo' = left /\ UNCHANGED phase
  /\ UNCHANGED <<options, config, given, lines, ops, at, registered>>

\* Workers one by one, then interceptors, then the API.
addNextWorker ==
  /\ phase = "adding" /\ todo.workers # <<>>
  /\ Added(addWorker(broker, config, Head(todo.workers)), [todo EXCEPT !.workers = Tail(@)])

addNextInterceptor ==
  /\ phase = "adding" /\ todo.workers = <<>> /\ todo.interceptors # <<>>
  /\ Added(addInterceptor(broker, Head(todo.interceptors)), [todo EXCEPT !.interceptors = Tail(@)])

addApi ==
  /\ phase = "adding" /\ todo.workers = <<>> /\ todo.interceptors = <<>> /\ todo.api # <<>>
  /\ Added(addWorker(broker, config, Head(todo.api)), [todo EXCEPT !.api = Tail(@)])

\* run: the operations of one pipeline after another.
beginPipelines ==
  /\ phase = "adding" /\ todo = Nothing
  /\ phase' = "connecting"
  /\ ops' = [i \in DOMAIN lines |-> parsePipeline(Texts[lines[i]])]
  /\ registered' = broker
  /\ UNCHANGED <<options, config, given, broker, todo, lines, at>>

connectOp(b, op) == IF isRefused(b) \/ isRefused(op) THEN Refused ELSE initOp(b, op)

connectNext ==
  /\ phase = "connecting" /\ at[1] <= Len(ops)
  /\ IF at[2] > Len(ops[at[1]])
       THEN at' = <<at[1] + 1, 1>> /\ UNCHANGED <<phase, broker>>
     ELSE \E connected \in {connectOp(broker, ops[at[1]][at[2]])} :
       IF isRefused(connected) THEN phase' = "unconnected" /\ UNCHANGED <<broker, at>>
       ELSE broker' = connected /\ at' = <<at[1], at[2] + 1>> /\ UNCHANGED phase
  /\ UNCHANGED <<options, config, given, todo, lines, ops, registered>>

\* runAll.
runAll ==
  /\ phase = "connecting" /\ at[1] > Len(ops)
  /\ phase' = "running"
  /\ UNCHANGED <<options, config, given, broker, todo, lines, ops, at, registered>>

Next ==
  \/ parseCommandlineArgs \/ initConfig
  \/ addNextWorker \/ addNextInterceptor \/ addApi
  \/ beginPipelines \/ connectNext \/ runAll

Spec == Init /\ [][Next]_vars

----------------------------------------------------------------------------
(* Properties. *)

\* The words of a table in all.
wordsIn(regs, table) ==
  Cardinality({x \in (DOMAIN regs) \X {0, 1} :
                 TableOf(regs[x[1]]) = table /\ x[2] < WordsOf(regs[x[1]])})

fits(regs, counts) ==
  \A n \in DOMAIN regs :
    /\ IndexOf(regs[n]) >= 0 /\ wordsIn(regs, TableOf(regs[n])) < CountSize =>
         IndexOf(regs[n]) + WordsOf(regs[n]) <= counts[TableOf(regs[n])]
    /\ \A m \in DOMAIN regs \ {n} :
         <<TableOf(regs[m]), IndexOf(regs[m])>> # <<TableOf(regs[n]), IndexOf(regs[n])>>

\* Every register of a slave that came as far as being registered lies, with all
\* of its words, within the table the slave makes for it, and no two begin at one
\* place.  Two kinds of registers are let pass without: those of a negative index,
\* which nothing refuses, and those of a table of so many words that their count
\* has begun anew.
RegistersFit ==
  phase \in {"connecting", "running"} =>
    LET modbus == section(config, <<"modbus">>)
    IN \A w \in ToSet(modbus.values.slaves.list) :
         fits(workerInit(modbus, w).registers, slaveInit(modbus, w))

\* The pipelines in the opposite order, those of one direction each written from
\* right to left, make the same connections, or fail as they do.
OneDirection(p) == \A i \in DOMAIN p.splitters : p.splitters[i].dir # "bidirectional"

WrittenBackwards(p) ==
  LET turned == [normal |-> "inverted", inverted |-> "normal"]
      back == Reverse(p.splitters)
  IN IF ~OneDirection(p) THEN p
     ELSE [items |-> Reverse(p.items),
           splitters |-> [i \in DOMAIN back |-> [back[i] EXCEPT !.dir = turned[@]]]]

connectLine(b, line) ==
  LET after[j \in 0..Len(line)] == IF j = 0 THEN b ELSE connectOp(after[j - 1], line[j])
  IN after[Len(line)]
connectLines(b, all) ==
  LET after[i \in 0..Len(all)] == IF i = 0 THEN b ELSE connectLine(after[i - 1], all[i])
  IN after[Len(all)]

OrderIsFree ==
  phase \in {"running", "unconnected"} =>
    LET backwards == Reverse([i \in DOMAIN lines |->
                                parsePipeline(WrittenBackwards(Texts[lines[i]]))])
        outcome == connectLines(registered, backwards)
    IN IF phase = "unconnected" THEN isRefused(outcome)
       ELSE ~isRefused(outcome) /\ outcome.connections = broker.connections
====
