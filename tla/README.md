# Verification of redis-adapter

TLA+ specifications of the adapter in `src/src`, model-checked with TLC on small
instances and, where a theorem is listed, proved with TLAPS for every instance.
Paths below are relative to `src/src` of the repository.

1. [The system](#the-system)
2. [Modules](#modules)
3. [Runs](#runs)
4. [Fairness](#fairness)
5. [Proofs](#proofs)
6. [Disagreements](#disagreements-between-the-code-and-its-own-statements)
7. [What is abstracted or left out](#what-is-abstracted-or-left-out)
8. [Plan](#plan)

## The system

The adapter moves JSON messages between *workers*: Modbus masters and slaves,
Redis streams and caches, sockets, processes, files. A launcher reads the
configuration, creates the workers, registers them with one broker and builds
*pipes* between them out of the pipelines of the configuration. Each worker
lives in a `QThread` of its own; the broker lives in the main thread; masters on
one serial line or gateway share a *channel* that has a thread too. All signals
that cross threads are queued, so a thread is a FIFO queue of events and each
event is handled to its end before the next. That is the grain of atomicity of
every module here: one action is one event and everything the code does in the
same call stack.

### Inventory

| Component | State | Operations | Hard behaviour | Correct when |
|---|---|---|---|---|
| Broker (`broker/broker.cpp`) | registered workers, list of connections | register, connect, disconnect, run all, broadcast | two routes for every message, broadcasts queued while threads start | every receiver gets each message once and in the order of its sender; nothing is lost unexplained |
| Worker (`broker/workers/worker.cpp`, `private/*`) | role, consumers, producers, thread, `wasRun` | run, send, reply, command, dispatch of what arrives | thread runs before its flag is set; callbacks kept in messages | replies reach the callback of their command |
| Interceptors (`interceptors/*`) | mostly none | transform, drop or duplicate the messages of a pipe | dropped messages meet the broker's subtraction | what they drop is dropped, nothing else |
| Commands and replies (`broker/commands`, `broker/replies`, `commands`, `replies`) | packs of commands and replies | construction, `replyOk` | packs that fail in the middle | a reply pack is as long as its command pack |
| Launcher and pipelines (`launcher.cpp`, `initialization.cpp`) | options, configuration, what is registered | read, create, register, connect, exec; pipelines | order of start-up, errors half-way, workers created by the pipelines themselves | what was configured runs, or the program ends; the order of pipelines does not matter |
| Settings (`settings-parsing/*`, `serializable/*`, `settings/*`, `radapterconfig.h`) | one structure per section | read with includes, update, check, derive (`postUpdate`) | defaults, required fields, inheritance, order of checks | what is accepted fits together |
| Shared channel (`sync/channel.cpp`) | users with priority and waiting flag, busy and last user, frame timer | register, ask, report, choose, destruction of users | users in many threads, stale signals of destroyed users | one turn at a time, never stuck busy, no starvation of one by one other |
| Modbus master (`modbus/modbusmaster.cpp`) | device, timers, read and write queues, reply in flight, values in Redis | connect, poll, write, execute, reply, reconnect | losses of the connection at any point of a query | one query on the line; polling never stops while connected |
| Values of the master (`modbusmaster.cpp`, `sync/syncjson.cpp`) | current and target trees, attempts, object in the cache | write, read, write again, restore | writes that fail, other masters, restarts | followers need only the deltas; what is missing is written in the end |
| Modbus slave (`modbus/modbusslave.cpp`) | words, state, server | open, words written, message | units across registers, its own writes coming back | words and state agree |
| Modbus parsing (`modbusparsing.cpp`, `wordoperations.cpp`, `modbussettings.cpp`) | none | merge units, word and byte order, registers by tables | order of names and of indices | registers fit their table |
| Redis connector (`connectors/redisconnector.cpp`) | hiredis context, three timers, count of time-outs, pending commands | connect, run command, callbacks, ping, time-out, reconnect | callbacks nested in callbacks, null replies while a context is freed, late answers | connected means connected; retried until it is; a dead connection is noticed |
| Redis streams, key events (`consumers/redisstreamconsumer.cpp`, `producers/redisstreamproducer.cpp`, `consumers/rediskeyeventsconsumer.cpp`) | last id read, count of additions | read, add, trim, subscribe | crash between sending and storing the id | one read at a time; no entry lost that could be read |
| Redis cache workers (`consumers/rediscacheconsumer.cpp`, `producers/rediscacheproducer.cpp`, `async_context/*`) | contexts by handle | command, pack, periodic read, write, reply | callback for a context that is gone, packs run over many callbacks | each request is answered once and completely |
| Local storage (`localstorage.cpp`) | a settings file and its cache | get, set, by the name of a stream | shared by threads without a lock | the id kept is one that was sent on |
| JSON dictionary, synchronised JSON (`jsondict/jsondict.cpp`, `sync/syncjson.cpp`, `state/jsonstate.cpp`) | a tree; current and target trees | access, iteration, update, merge, diff, contains | key paths through maps and lists, iterators moved by hand | the laws its users rely on |
| Process worker (`broker/workers/processworker.cpp`) | child process, buffer of messages, pipe of lines | start, restart, write, rewrite, read | child ends while data is written, lines in halves | each message kept or written, each line sent once |
| WebSocket server (`websocket/websocketserver.cpp`) | clients, time left for each | connect, ping, pong, close | clients erased while they are walked over, addresses used again | who answers stays, who is silent goes |
| Other workers (file, mock, repeater, Python module), UDP, HTTP API, filters, validators | little | creation, direction, single values | what their constructors throw | created or refused as configured |
| WebSocket client, MySQL, utilities | - | never initialised, never created, or helpers | - | - |

`PROJECT.json` lists them all with what is modelled and what is not, and the
hazards of the code, each at its line, with the properties that watch it.

### How they interact

- *Pipes*: a worker's `sendMsg` is connected directly to its pipes; a pipe is a
  chain of interceptors ending in a queued connection to `onMsgFromBroker` of the
  consumer.
- *Broadcast*: `sendMsg` is also queued to the broker, which takes the sender's
  consumers off the receivers of its copy and sends it to all workers; a worker
  ignores what is not addressed to it.
- *Commands*: a message with a command may carry callbacks; its receiver answers
  with a reply, sent back to the asker, whose `onMsgFromBroker` runs the callback.
- *Channel*: a master's `askTrigger` and `queryDone`, `allQueriesDone` are queued to the channel's
  thread, the channel's trigger to the master's thread.
- *Configuration*: the launcher reads it once, before anything runs, and the workers
  keep parts of it. Pipelines are read after the workers are registered and may
  register more (files, repeaters, programs found in `PATH`).
- *Values*: `ModbusValues` is a master and a slave on one line, with another master
  that writes to the slave and the cache in which the master keeps its state.
- *hiredis*: calls back in the worker's thread, one event of the socket at a time,
  but a callback may send commands, and freeing a context calls all callbacks.

## Modules

| Module | Models | Code |
|---|---|---|
| `Channels` | abstract: one reliable FIFO channel per ordered pair of workers | the promise of the broker |
| `Broker`, `MCBroker`, `BrokerProofs` | start-up, pipes, sending, the two routes, dispatch | `broker.cpp`, `worker.cpp`, `workermsg.h`, `launcher.cpp` |
| `SyncChannel`, `MCSyncChannel` | the shared channel and the contract of its users | `sync/channel.cpp`, `sync/channel.h` |
| `ModbusMaster`, `MCModbusMaster`, `ModbusMasterProofs` | masters composed with the channel; the proofs are about both | `modbus/modbusmaster.cpp` |
| `RedisConnector`, `RedisConnectorProofs` | the connector, as the stream consumer and other workers use it | `connectors/redisconnector.cpp`, `consumers/redisstreamconsumer.cpp` |
| `CacheContexts`, `MCCacheContexts`, `CacheContextsProofs` | contexts of the cache workers | `consumers/rediscacheconsumer.cpp`, `producers/rediscacheproducer.cpp`, `async_context/*` |
| `Variants` | values, and maps and lists of them | `QVariant` |
| `JsonDict` | the dictionary: paths, insertion, iterators, update, merge, diff | `jsondict/jsondict.cpp`, `jsondict.h` |
| `ModbusData`, `ModbusDataProofs` | merging of units, words and bytes, registers read from words | `modbus/modbusparsing.cpp`, `utils/wordoperations.cpp`, the loops of `modbusslave.cpp` and `modbusmaster.cpp` |
| `ModbusValues`, `MCModbusValues` | master, slave, another master and the cache | `modbus/modbusmaster.cpp`, `modbus/modbusslave.cpp`, `sync/syncjson.cpp` |
| `Streams` | producer and consumers of a stream, ids kept over crashes | `redisstreamconsumer.cpp`, `redisstreamproducer.cpp`, `localstorage.cpp` |
| `ProcessWorker` | the child process, its messages and lines | `processworker.cpp`, `privfilehelper.cpp` |
| `WebsocketServer` | clients and heartbeats | `websocket/websocketserver.cpp` |
| `MCWorkers`, `WorkerProofs` | the last three, one at a time | |
| `SequenceLemmas` | no code: facts about numbers, sets, folds and sequences that the proofs cite | |
| `Settings` | the structures: fields, validators, conversions, what is there at first | `serializable/common_fields.hpp`, `settings/*`, `validators/*`, `radapterconfig.h` |
| `Serializable` | the update of structures | `serializable/*`, `settings-parsing/serializablesetting.*` |
| `Reader` | files, includes, keys | `settings-parsing/adapters/yaml/*`, `dictreader.cpp` |
| `ModbusSettings` | registers of workers, sizes of a slave's tables | `settings/modbussettings.cpp`, `radapterconfig.cpp` |
| `Registers` | the registers written in a section | `settings/modbussettings.cpp` |
| `Connections` | pipelines, their operations, what these create and connect | `initialization.cpp`, `private/pipeoperation.cpp`, `broker.cpp` |
| `Pipelines` | what interceptors do to a dictionary | `interceptors/*`, `filters/*` |
| `Launcher`, `LauncherProofs` | from the command line to the running program | `launcher.cpp`, `radapterconfig.h` and the constructors it calls |
| `Configuration`, `MCConfiguration` | the launcher composed with the reader, the update and the registers | `launcher.cpp` |

### Broker

`brokerQ` is the event queue of the main thread, `queue[w]` that of worker `w`.
`emitSendMsg` is the whole of `emit sendMsg(msg)`: the assertion of
`onSendMsgPriv`, the queued signal to the broker, and the pipes, whose
interceptors are connected directly and so run in the same call. An interceptor
is one of three kinds, by what decides whether it emits: always (`pass`), when
content is left (`content`: unwrapper, wrapper, validator), never (`mute`:
meta-info, remapping and renaming pipes). `Worker::run` is two actions, since the
thread it starts runs before `wasRun` is set. `topology` keeps the three records
of a connection apart, as the code does: the broker's list, the sets of both
workers, and the proxies still alive. The histories `sent`, `dropped` and
`handled` are read only by properties, by the numbering of messages and by the
choice of a command to reply to.

The properties are about the two routes. `InOrderOnce` says no receiver is given
two messages of a sender out of order or one of them twice; it is the fact that
`broker.cpp:58-60` exists for. `NoUnexplainedLoss` says each receiver has handled
a message, will be handed it, or had it stopped by its own pipe; `StoppedStaysStopped`
that what was stopped there does not arrive by the broadcast after all, also while pipes
are still made and disconnected around messages on their way. That the three records of
a connection agree is a part of `DeliveryInvariant`: `connectTwo` and `disconnect` are
one step of the main thread, the only one during set-up, and the calls with which
workers add each other (`addConsumer`, `addProducer`) are made in the code's order within
that step. `ImplementsChannels` is the refinement: the two
queues, filtered per pair and read in the right order (`OnTheWay`; `Numbers`, a
recursive function, takes the messages of one pair from a queue), are a FIFO
channel of `Channels`. The abstract channel decides at the moment of sending who
will get the message, which is what makes the losses explicit.

### SyncChannel and ModbusMaster

`SyncChannel` has the channel's slots as actions (`onJobDone`, `askTrigger`,
`frameTimeout`, `userDestroyed`) and a general user: it may ask at any time, in
bursts, and reports each trigger once. `chooseNext` takes the fields it reads as
parameters, because its callers assign some of them first; `onJobDone` may end one
turn and begin the next in one step, with `busy` the same before and after, which is why
`TakesTurns` speaks of triggers and not of changes of `busy`. The order in which
`max_element` visits the hash is the constant `Order`; nothing is assumed of it
but that it is one. Time is `Tick`, counted up to the frame gap. A destroyed user
whose ask was still queued becomes the entry of `nullptr`, as in the code.

`ModbusMaster` extends it: the same channel variables and slots, with the masters
in place of the general users. `execute` covers the three ways of `sendReadRequest`:
a reply in flight, one that is finished already, none at all. `KeepsChannelContract`
closes the circle: the masters' steps are steps of the general user, each in an
instance of `SyncChannel` whose bound is taken from the lengths of the queue
(`Bounded`), so that the masters are held to no bound on asks.

### RedisConnector

One event may run a long chain: answer, callback, `setConnected`, `connected()`,
its slots in the order they were connected, new commands, `commandsFinished()`.
Each function is therefore an operator from a record to a record, called as the
code calls it, and an action applies one such chain. When a context is freed
(`callPending`), hiredis calls all pending callbacks with null; every callback ends
in `setConnected(true)` on a context that refuses commands, and only the last
`setConnected(false)` puts it right. These nested calls are what the properties
are about: `TimersJustified`, `OneReadPending`, `KeptAlive`, and `ConnectorInvariant`, which
holds them together with what they rest on.

### CacheContexts

`ctxs` is the hash of contexts by handle, `pending` the commands hiredis has not
answered, in order, each with its handle. As in `RedisConnector`, the functions
are operators on a record. `fail`, `reply` and `nextOfPack` follow
`PackContext::reply`, which appends, fills up and sends, or runs the next command
from within the callback of the last. `onDisconnect` does what `forEach` does: it
advances the iterator before using it, so it passes over one context, fails the
others whether they are done or not, and dereferences the end of the hash; the
program ends there (`link = "crashed"`), with whatever replies it managed to
send. `ContextsInvariant` says, besides the types, that a callback always finds a
context that still waits for it, and that every context with a reply to give has
exactly the next command of its pack pending; `AnsweredOnce` and `PackAnswers` say
what the asker gets.

### JsonDict, ModbusData and ModbusValues

A dictionary is a tree of `Map`, `List`, `Leaf` and `Invalid`; keys are model strings in
the order of the constant `Keys`, which is that of `QMap`. The two iterators of the
code are one operator, `descend`, that moves a stack of frames as they do.
`ModbusData` packs bytes into words in the four orders and merges units of adjacent
addresses as the code does, in two passes: each unit of a table is appended to the
first that ends where it starts (`collected`), then the units are sorted, units at one
address staying as they were (`byAddress`), and each is appended once more
(`appendedInOrder`). The order of the sort is given by rank, so that no recursion is
needed. `readRegisters` is the loop both workers have over the words of a unit, as a
fold: the register read, the word to look at next, and whether the words end within a
register, where the master's loop ends and the slave's goes round for ever.

`ModbusValues` composes them. `current` and `target` are `Sync::Json`'s trees;
`updateCurrent` and `write` are the master's functions whole, with the entries that
`operator[]` creates when it is only read from (`Touched`), the attempts that are
counted at each read, and the target given up at the limit and written anew.
`Registers` is the loop of `ModbusData` with numbers for values. A read is two
steps (`executeRead` takes the slave's words, `onReadReady` gives them to the
master), so that other masters write in between. A crash of the master's program
keeps the cache, from which `onFetched` restores text that equals no number. The
slave's own writes come back to it through its server's signal, as in the code; a
write that ends inside a wide register hangs its thread (`hung`). An error closes its
server until the timer has opened it again. Values are numbers, texts or null: a message
to the slave replaces its state with each value as it was given (`slaveOnMsg`), and those
that `canConvert` are written as what they convert to (`converted`: a text that reads as
no number becomes zero). Messages to the master hold numbers and null; a text it is
given would never be seen to be written, as one restored from the cache is not.
`rewriteAttempts` is counted in eight bits (`AttemptsSize`), as in the code; with the
one attempt of the run it does not come that far.

The properties: followers need no more than the deltas (`DeltasSuffice`), the slave's
words hold what the values of its state convert to (`StateMatchesMemory`; a value that
cannot be converted is in the state all the same, and exempt), what was asked for and is missing
is missing no more in the end (`Settles`), and, in every state the workers reach, the
laws of the dictionary they rely on (`DictionaryLaws`).

### Streams, ProcessWorker, WebsocketServer

`Streams` numbers the entries. A consumer asks, is blocked on the server, is answered,
and then for each entry sends it (`send`) and keeps its id (`setLastReadId`): two steps,
between which its program may crash. Ids are kept by place: the name of the stream in
the program's storage, which two consumers of one program share, or the consumer
itself. `ReadsEachEntry` has two sides, that no entry between the first id and the
last is passed over, and that entries are repeated only after crashes; `ReadsOn` is
the end of the stream reached.

`ProcessWorker` keeps the state of the child apart from what the worker knows of it
(`exited`: gone, and not yet noticed). The buffer is written from its end, one message
when a process starts and one each second, and the pipe of lines carries halves.
`EachMessageOnce` and `EachLineOnce` say that neither way loses or repeats anything,
`BufferEmpties` that what is kept is written in the end.

`WebsocketServer` has the walk over the clients as one action: what `close()` does at
once or later, and which clients a walk over a hash visits twice or not at all when one
is erased from it, are choices. Time is counted in ticks of the heartbeat.
`AnsweringStays` and `SilentLeaves` say who is closed by the timer and who must be.

### Settings to Configuration

The structures of the configuration are data (`Settings`: fields, how each is read,
whether it is required, optional or has a default), and `updateObject`
(`Serializable`) is the one function that fills them. `Reader` is the YAML reader
with its includes; `Registers` makes a list of registers out of the tables and
subtables they are written in, and `ModbusSettings` gives each worker those of its
devices and counts the words of a slave's tables (`counted`, a fold over the
registers in the order of their names, as the code's loop is, in numbers of `CountSize`
values, 65536 in the code). `Connections` turns a pipeline that is
already split into names and arrows into operations and does them one by one, with
the workers and interceptors they create on the way; `Pipelines` has what each
interceptor does to a dictionary, since the pipe back of `<=...=>` is made of inverses.

`Launcher` is the launcher. Its phases are those of `launcher.cpp`: options, reading,
adding workers, adding interceptors, connecting, running; an exception ends it in the
phase it was thrown in. How settings are read out of a file, and registers out of a
section, are its operator constants `readSettings` and `registersOf`: these two go
through dictionaries of any depth and are recursive, and nothing the launcher does
depends on how they work, only on what they give (`SettingsAssumption`).
`Configuration` has the operators that take their places: `readConfig`, the reader with
the overrides of the command line, and `registersInit` of `Registers`. `RegistersFit`,
`NamedWorkersRun`, `ThereAndBack` and `OrderIsFree` are about what runs in the end:
registers within their tables (but for negative indices and tables whose count has begun
anew), all named workers and no others, a way back that undoes
the way there, and a result that does not depend on the order or direction in which
pipelines are written.

## Runs

States are distinct states; times are for two workers of TLC.

| Run | Question | States | Time |
|---|---|---|---|
| `broker_startup` | Does what a pipe stopped stay stopped and does start-up complete, from nothing, while started workers send? | 180,073 | 38 s |
| `broker_traffic` | Do two routes make one ordered, lossless channel? Refinement of `Channels`. | 1,131,762 | 157 s |
| `channel_turns` | One turn at a time and nobody twice in a row, with users destroyed at any moment? | 426,663 | 16 s |
| `modbus_line` | One query on the line, reconnection armed, contract kept, both masters served? | 344,792 | 67 s |
| `modbus_polling` | Does a serial master with several queries and writes in between go on polling? | 11,540 | 3 s |
| `modbus_tcp` | violation: does a master behind a socket go on polling after a reconnection? | | 1 s |
| `redis_events` | Does any sequence of failures leave the connector in a state from which it does not recover? | 457 | 1 s |
| `redis_silence` | violation: is a connection given up on which the server is silent? | | 1 s |
| `cache_contexts` | Is every request answered, once and completely? | 305,892 | 149 s |
| `modbus_values` | Do a master, its cache and its slave agree on values, with writes that fail, another master, crashes and a server that closes? | 53,161 | 72 s |
| `workers` | Streams with crashes, a process that ends, clients that fall silent: is anything lost, repeated or kept for ever? | 172,969 | 88 s |
| `configuration` | Does what starts match what was configured, for 995 configurations and 8 command lines? | 23,732 | 16 s |

### Bounds, and why they are enough

- `broker_startup`: two workers, two pipes (both directions), two messages. Two
  workers show every order of registering, connecting, disconnecting and starting;
  it takes one started and one not yet started to race, and a command and its
  reply to see a callback.
- `broker_traffic`: three workers that have been started, every set of at most two
  pipes, two messages of any kind. Three are a sender, a consumer and a receiver
  that is not a consumer; two messages are what order and duplication need. The
  initial states are those reachable when `runAll` has ended (`MCBroker!Running`),
  and `Workers` is a symmetry set (no liveness is checked in this run).
- `channel_turns`: three users of two priorities, one of which may be destroyed,
  a queue of three events when a user asks. Passing over the last user matters with
  two that wait, the priorities with a third. `modbus_line` has two masters, one of
  each kind: of two masters each is served, of three that always wait the third may
  starve, by the code's own rule; `EventuallyServed` is stated for two.
- `modbus_polling`: one master with two queries and two writes; the queue of asks
  may hold two when a handler starts, so that asks, triggers and reports overlap.
- `redis_events`: at most four pending commands bound the user's own commands and
  the answers that come after the connector has given up; three time-outs are the
  default of `max_command_errors`, one is the limit at which each time-out
  disconnects.
- `cache_contexts`: three requests out of eight (three single commands, four packs
  and a trigger) and four contexts in all, so that periodic reads or messages mix
  with requests. Three is enough for a pack between two other requests. The packs
  include one that fails in the middle for either worker, one whose last command
  always fails, and one that may not hold an object read.
- `modbus_values`: three registers of one word, one of them read only, and one of two,
  in four word orders; two messages to the master, two to the slave (numbers; a text that
  reads as none, one that reads as a number, and null), three units from
  the other master, of which one is half of the wide register; one attempt before the
  target is given up, and three events in all (messages, writes of the other master,
  crashes). Two messages are what a target that changes needs, the third event is a
  crash or somebody else's write. Failures of the slave's server are not bounded.
- `workers`: two consumers of a stream in one program, one persistent and one of each
  kind, so that they share an id or do not; three entries of which the stream keeps
  two, answers of up to two, one crash. Three messages and three lines for the process:
  one written at once, one kept, one that comes in between. Two socket addresses, used
  again at any time; a client has one tick and a half to answer, so that one missed
  answer is not a time-out and two may be.
- `configuration`: eleven tables of registers for two devices, eighteen pipelines taken
  two at a time, sections of other workers, right and wrong, taken two at a time, and
  files that include others; command lines with overrides, pipelines, another parser or
  key. `CountSize` is 4, so that the table of two wide registers begins its count anew. Each part varies while the others are fixed, since the code reads them apart.

Deadlock is not checked: each instance may stop when its bounded number of
messages, events or requests is used up, and the program itself may end.

Each property has a mutant in `PROJECT.json`: a plausible error in one mapped
definition (a subtraction forgotten, a guard dropped, a timer not started, a
reply pack not filled) that violates it in the same run. The variants stand next
to the definitions they change and no specification uses them.

## Fairness

- *Event loops* keep taking events: weak fairness of each thread's handlers
  (`onMsgFromBroker`, `Serve`, `executeNext`, ...). A Qt event loop that is not
  blocked does that.
- *Timers* that run fire: `frameTimeout`, `reconnect`, `onCommandTimeout`, `doPing`,
  `poll`; time passes (`Tick`).
- `runAll` is a loop the main thread runs to its end: `StartThread`, `SetWasRun`,
  `exec`.
- Qt finishes each Modbus reply, by its response time-out if by nothing else, and
  a finished reply is deleted: `replyFinished`, `replyDestroyed`.
- A Redis attempt to connect ends, in success or failure. `Recovers` is checked
  under `ReachableSpec`, which adds that attempts do not fail for ever: a premise
  about the server, not a promise of the code. In `CacheContexts` the server
  answers what it is sent or else the connection ends.
- `Settles`: the poll timer asks for each query again and again, and each is executed
  again and again while the slave's server is open (strong fairness of `executeRead`
  and `executeWrite`); not every write fails; attempts to open the server do not fail
  for ever, and the server, which could close whenever there is something to write,
  does so only finitely often. The last three are premises about the line, not
  promises of the code.
- `workers`: timers fire (`periodic`, `checkClients`, `startAgain`); a process that is
  started runs or fails to, and its end is noticed; a socket that was closed is
  disconnected; a server that is asked for entries again and again answers (strong
  fairness of `block` and `answer`). Nothing says how long a process runs, and no
  client is assumed to answer.
- Nobody is forced to send, ask, write or connect, and no connection is assumed to
  stay up. `SerialPollsGoOn` speaks only of connections that do.

## Proofs

The proofs hold for any number of workers, users, masters, messages and any value
of the other constants, under the assumptions the modules name. Each safety theorem
rests on an inductive invariant; where that says more than the property a run checks,
it is defined in the module of the proofs, before the lemmas about it.

- **`BrokerProofs`** (assumes `BrokerAssumption`). `Invariance` proves
  `DeliveryInvariant`. `InOrderOnce` alone is not inductive: the next message
  handled comes from a queue about which it says nothing. The strengthening is
  that the stages a message passes hold ever later messages (`StagesOrdered`:
  handled before queued before still with the broker, the last for receivers that
  are not consumers of the sender); that copies carry numbers of messages sent
  (`Numbered`); and that nothing is in flight while pipes are made (`QuietSetup`),
  so that the consumers of a sender do not change under its messages. From it follow
  `OrderedDelivery`, `TypeCorrectness` and `StoppedForGood` (`StoppedStaysStopped`: a message
  that is stopped had no copy when it was, and the broker, which subtracts all consumers of
  its sender, makes none). `NoLoss` is a second
  induction on top of it: a send creates a copy or an explanation for each receiver,
  the broker hands on each copy it does not subtract, a handler turns a copy into an
  entry of `handled`. `RefinesChannels` is the refinement of `Channels`, step by step:
  a send ends the channels of the receivers its pipe or the broadcast will reach and
  names the rest as losses (`Goes`, `Accepting`); the broker moves messages from
  `brokerQ` to the ends of queues without changing what is on the way, since those it
  subtracts were never on it; a handler takes the head of one channel. It needs
  `OnlyKnown` (senders and receivers are workers) besides the delivery invariant, and
  that `Numbers` goes through an append.
- **`ModbusMasterProofs`**, the channel (assumes `ChannelAssumption`). `ChannelSafety` proves
  `ChannelInvariant`. `OneTurn` needs that a destroyed user is quiet
  (`GoneAreQuiet`), that it leaves the waiting entries with the news of its
  destruction (`GoneWaitersLeave`: otherwise it could be chosen after that and the
  channel would wait for ever), and `BusyIsJustified`. `max_element` is a `CHOOSE`;
  the lemma `MaxElement` shows from the iteration order that it finds one.
  `TurnsTaken` (`TakesTurns`) follows step by step, for every step that triggers: `lastBusy`
  is assigned before the choice, so that while several wait (they are finitely many, which
  is kept too) whoever was served last is no candidate (`ChoiceTakesTurns`).
- **`ModbusMasterProofs`**, the masters (assumes `MasterAssumption` too). `MasterSafety` proves the channel's
  invariant for the masters, from the lemmas about the channel, with `Link`
  (a reply in flight is the job of its master) and `Armed` (the reconnect timer
  runs exactly when the device is unconnected). From it follow `OneQueryAtATime`
  and `AlwaysRearmed`. `NeverForgotten` (`PollingInvariant`) is a second induction,
  over `Polling`: a serial master with something to do always has an ask, a wait, a
  trigger or a job that leads to the next query (`NoLostWakeup`), which each of
  these passes on to the next. `ContractKept` proves `KeepsChannelContract`: the
  initial states are those of the channel, and each step of a master is one of the
  general user with the bound of that step, or leaves the channel as it is
  (`OnlyRegistered`: who is not registered has nothing in the queue).
- **`RedisConnectorProofs`** (assumes `ConnectorAssumption`). `ConnectorSafety`
  proves `ConnectorInvariant` through the chains of nested calls, one lemma per
  function. `OneReadPending` is not inductive, as it says nothing of a consumer
  that is disconnected and gets a late answer; `CommandsInOrder` lists the
  sequences of commands a stream consumer may have pending. From it follow
  `ConnectionIsReal`, `AlwaysRetried`, `TimersAreJustified` (`TimersJustified`),
  `AlwaysPinged` (`KeptAlive`) and `OneRead`.
- **`CacheContextsProofs`** (assumes `CacheAssumption`). `CacheSafety` proves
  `CacheInvariant`: how far each context is, what of its pack is answered and what
  its asker was sent (`Contexts`), and that the pending commands are, in order, those
  of contexts that wait (`Commands`). Between the answer to a command and the next
  command of its pack, which the code sends from within the callback, neither holds;
  the lemmas about the nested calls therefore carry the handle of the one context that
  is *busy*. From it follow `ContextsSafety`, `AnswersOnce` and `PackReplies`.
- **`WorkerProofs`**. Three invariants for three workers. *Websocket server* (assumes
  `ServerAssumption`): `ServerInvariant`, a client that owes no answer has all its time,
  also at an address that was used before; since a heartbeat visits it at most twice
  and `Keepalive` exceeds the heartbeat, it is not closed (`AnsweringIsSafe`).
  *Process*: `MessagesInvariant`, the messages given are those in the buffer and
  those handed over, none in both (`MessagesOnce`; not in what order, since the buffer is
  written from its end); `LinesInvariant`, what was printed
  is in the pipe in order, was read or was cut, and the second half of a line is yet
  to come only of the last one (`LinesOnce`). *Streams* (assumes
  `StreamsAssumption`): `StreamInvariant`, an id kept is that of an entry sent on
  (`KeepsWhatItSent`); everything up to where a consumer goes on reading, not only up
  to the id kept at its place, was sent on or trimmed (`CoveredSoFar`); and what may be
  sent on again is the one entry after the id kept, with a crash to answer for it
  (`RepeatsOnlyNext`). `EachEntryRead` (`ReadsEachEntry`) follows. Both are about entries
  from the first id kept on: a consumer of new entries that has kept none yet misses those
  added between its reads, and before it has read again after a crash.
- **`ModbusDataProofs`** (no assumption on constants; hypotheses are in the theorems).
  `MergingKeepsCells`: merging keeps every word at its address, leaves no two units
  that could have been one, and makes none overlap that did not, for units that start
  apart (the constructors refuse two registers at one index, `modbusmaster.cpp:70`,
  `modbusslave.cpp:54`). The second pass appends a unit to one that may itself have
  been appended and is to be removed; the invariant of that loop (`AppendedUpTo`) is
  that the *first* unit ending at an address is never a removed one, because the one it
  was appended to ends there and comes before it in the order. `RoundTrip`: a value of
  any length is the value read back, in each packing. `WrittenWhole` joins the two:
  of the units merged from a message each is read to its end, and what is read are the
  registers of the message with their values. A slave with the same registers thus
  never meets the loop at `modbusslave.cpp:111` because of this program's writes.
  `WordsKept`: a device in which the merged units are set holds the words of each
  value of the message and everywhere else what it held, whichever addresses it has
  (units that end outside them are set as far as they go). Both assume that no two
  registers share a word, which the constructors do not check (only equal indices).
  With `RoundTrip` they are the core of `StateMatchesMemory` for what the program
  writes itself; what other masters write, the conversions, and the states kept beside the
  words, are left to the run.
- **`LauncherProofs`**, for any settings, command lines, pipelines of any length, slaves
  and registers. It assumes what the texts and settings are by their types, which the
  run `configuration` evaluates on all of its files: `TextsAssumption` (one splitter between any two
  items; a splitter goes one of three ways), `CommandLinesAssumption` (the pipelines of
  a command line are texts), and `SettingsAssumption` (settings that are not refused have
  lists where the launcher walks over lists, and each register has a table and an
  integer for an index). None of them says that anything is found, fits or can be
  connected.

  `LauncherInvariant` proves `IInv`, which has four parts: what was read is of its type
  (`Readable`); each worker of the configuration is still to be added or was
  (`AllAdded`), and nothing else was (`OnlyAdded`); and while pipelines are connected,
  what the broker has is what it had before them and what the operations done so far
  ask for, each of which it could do (`Connected`). The last is about a *family* of
  operations and not about their order: a broker can connect a request by itself
  (`Fine`), or it cannot, whatever else was created before, since what another request
  creates never makes a difference to it (`FilesStay`: a worker created by a pipeline
  is the file it would have become anyway). So a family can be connected exactly
  if each of its members can and no two connect the same workers in one direction
  (`Good`), and what it leaves is a union (`Reached`, `OutcomeOfLines`). That a program
  which failed could not have succeeded in any order is what `OrderIsFree` needs and a weaker
  invariant would not give: the failure of one operation has to be one of the whole
  family.

  `WhatRunsIsWritten` reads the end of it off: the workers are those that are named or
  created, the connections those asked for. For `OrderOfPipelinesIsFree` it remains that
  a text written backwards stands for the same operations (`OperationsEmbed`): the
  operation that ends with item *k* and begins with item *a* is, backwards, the one
  that ends where it began (`MirroredOperation`), a pipe that was appended
  there comes out of `reversed()` here (`OppositeOperations`), and the two families are
  parts of each other (`LinesEmbed`). `RegistersOfSlavesFit` goes through the count of words
  (assumes `CountAssumption`): as long as the words of a table are fewer than a count has
  values, the count is how many words were counted (`WordsAdded`), never falls, and each
  register that passed began at or before it, so that its words end at or before the count
  after it (`CountingSteps`, `CountedFit`).
  Different places come from the constructors (`collides`), and that a slave was
  refused by neither from `AllAdded`.
- **`SequenceLemmas`** has what these rest on: induction over a set of numbers or of
  subsets (a set takes the place of the predicate the library's theorems have as a
  parameter), that recursive functions on numbers, sequences and subsets exist and
  satisfy their equations, so that the folds of the library can be taken step by step,
  and what appending, taking a head or a part and reversing do to sequences.

Only model-checked:

- all liveness (`EventuallyHandled`, `StartupCompletes`, `EventuallyServed`,
  `SerialPollsGoOn`, `Recovers`, `EventuallyReplied`, `Settles`, `BufferEmpties`,
  `SilentLeaves`, `ReadsOn`), since fairness and `ENABLED` are beyond the prover, and with
  it the two runs that end in a violation;
- the properties of `ModbusValues` (`DeltasSuffice`, `StateMatchesMemory`,
  `DictionaryLaws`) and two of `Configuration`: `NamedWorkersRun`, which compares what runs
  with the text of the configuration at whatever depth a name is found, and
  `ThereAndBack`, which sends messages through a pipe and back. All of them rest on trees
  of any depth (`JsonDict`'s iterators and merges, included files, objects within
  objects), which are `RECURSIVE` operators; the prover has none of them, in these
  modules or in any that extend them. What of them does not need trees is proved: the
  words of registers in `ModbusDataProofs`; and, from the settings read on, that all
  workers named and no others are registered, in `WhatRunsIsWritten`.

`SelectSeq` and `SortSeq` of the standard modules are recursive as well, and the prover
cannot expand them; the modules with proofs have `Numbers` and `byAddress` instead.

## Disagreements between the code and its own statements

Shown by a run that expects a violation:

1. `modbus_tcp`: a socket master asks the channel while it is still connecting; if
   the trigger comes before the connection, nobody asks again and it polls no more.
2. `redis_silence`: `setConnected(true)` stops the time-out that `connected()` has
   started, and the ping timer is stopped by each command and started only when all
   are answered: a silent server is not noticed.

Met while modelling, in the models as they are in the code, without a run of their own:

*Broker and channel*

- `broker.cpp:59` says "consumers already received the msg"; a consumer whose pipe
  dropped the message, or was disconnected, has not, and is subtracted all the same.
- `worker.cpp:318` asserts that no worker sends before it was run; `Worker::run` starts the
  thread at 138 and sets the flag at 139, so a worker that sends from `onRun` may meet
  the assertion (phase `aborted`).
- `settings/modbussettings.h:41` calls the gap "the minimal timeout between queries"; it
  is counted from the start of the previous one (`channel.cpp:122`).
- A failed reply to a command with a success callback alone may run an uninitialised
  pointer (`commandcallback.h:105`, outcome `crash` of `Dispatch`).

*Redis*

- `onDisconnect` of the cache workers ends the program (`contextmanager.h:91`), and
  reading an empty object answers twice (`rediscacheconsumer.cpp:74`).
- A consumer that starts from the first entry asks for what follows "0-0" each time and
  reads the first entries again and again (`redisstreamconsumer.cpp:38`).

*Modbus values*

- Each register is queried as one word (`modbusmaster.cpp:83`), so that values wider than
  a word are never read (the loop ends at 313-315), and never seen to be written.
- `retries` counts reads that find a value missing, without writing; at the limit the
  target becomes what is there and then everything missing is written (373-374). A
  value the device refuses is written again for ever.
- `rewriteAttempts` is a `quint8` and `retries` a `quint32` (30, 366): a limit above 255 is
  never reached.
- The slave takes a value into its state before it checks whether it can be converted
  (`modbusslave.cpp:192-199`), so that it believes one its registers do not hold; a text that
  reads as no number is written as zero (`modbusparsing.cpp:80`).
- The state fetched from Redis is text, which equals no number, so that after a restart
  the master goes on writing what is already there.
- `handleNewWords` does not advance at a register that is cut short
  (`modbusslave.cpp:111-114`): a write of the first half of a wide register hangs the
  slave's thread.

*Configuration*

- A UDP consumer is registered twice (`launcher.cpp:93` and `108`), which ends the program.
- A slave compares each index with the words counted so far, in the order of the
  registers' names; overlaps of wide registers and negative indices are accepted,
  though its error says "all regs must be from 0 to n without gaps"
  (`modbussettings.cpp:17-45`).
- The counts of words are `quint16` (`modbussettings.h:63-66`): a table of 65536 words is
  counted as empty and made so, while its registers were let pass.
- `extra_paths` are put before `PATH` without a separator, so that the last of them and
  the first directory of `PATH` become one that does not exist (`processworker.cpp:164`).
- A file that is included and missing is skipped, one that is no map ends the program,
  and includes inside lists are taken for text (`yamlreader.cpp:19-56`).
- The `remap` validator never accepts anything (`common_validators.cpp`), so that it clears
  the value; a stamp is put only where the field exists already.
- The Redis workers accept the name of a server that is not there
  (`redissettings.cpp:25-27`).

*Dictionary and websocket server*

- `merge` on a constant dictionary, and `+`, start from an empty result, so that `a + b`
  is `b` (`jsondict.cpp:318-321`, `347-351`); `take` and `remove` look for a list where they
  have a map (219-250). Nothing calls `remove`; `take` is called by `RenamingPipe`
  (`renamingpipe.cpp:30`), which never emits the message it has changed.
- `checkClients` creates anew the time left for a client that `close()` has just
  removed (`websocketserver.cpp:66`); `onNewConnection` overwrites it, so that it does no
  harm.

## What is abstracted or left out

- *Content*: messages have a number, a sender, receivers and whether content is left
  for an interceptor; queries, commands and requests are members of small sets; in
  `ModbusValues` and `Configuration` they are dictionaries.
- *Qt and hiredis* are external and modelled from how the code uses them: queued
  signals in order, replies of QModbus that finish once, hiredis answering in order
  and calling pending callbacks with null when a context goes.
- *Time*: the frame gap and the heartbeats of websocket clients are counted. Other
  timers may fire whenever they run. Intervals, and how the reconnect interval
  changes, are not modelled.
- *Broker*: workers are not destroyed before the program ends. The destruction of a
  proxy by `deleteLater` is one step with `disconnect`.
- *Modbus*: `disconnectDevice` of the master closes at once. `ModbusValues` takes the
  order of queries from `ModbusMaster` only in that writes go first; a register's
  validator is the set of bytes it accepts; coils, and rounding by types of
  registers, are left out. The bounds on writes hide that steady writes starve reads,
  which is the priority the code gives them.
- *Channel*: registration is one step. `registerUser` writes the hash in the thread
  of the user under a mutex that the other slots do not take; what a torn hash does
  is undefined and not modelled. Time only grows: a clock that is set back makes the
  unsigned difference of `channel.cpp:105` huge, and is not modelled.
- *Connector*: the destructor, `setDbIndex`, the blocking `waitConnected` and the parsing
  of replies; the slots other workers add to `disconnected()`.
- *Cache workers*: the connection comes up once, since `onDisconnect` ends the program;
  empty command packs (undefined in `first()`); subscriptions to key events. Contexts
  of triggered reads that could not be sent are never removed; they are kept in the
  model too, and no property bounds them.
- *Streams*: the connection is `RedisConnector`'s subject; here a consumer is
  connected or not, and a connection that is lost gives an empty answer.
- *Process worker*: the process is opened for reading and writing. With `write` off in its
  settings `tryWrite` still reports success, and what is handed over is lost.
- *Configuration*: the text of YAML and of pipelines is read already; TOML is only
  refused; system calls (`open`, `bind`, `which`) succeed as the constants `Present`
  and `Installed` say. A file that includes itself recurses for ever and is in no
  instance. Plug-ins, `DuplicatingInterceptor` and Python workers in pipelines are left
  out.

### Not modelled

- MySQL: nothing creates its classes. The WebSocket client: nothing calls its `init()`, so
  that it fails with a null pointer when it runs. `ProducerFilter`: never constructed.
  `state/jsonstate.cpp`: used by no worker.
- UDP, HTTP API, files, mock and Python workers beyond their creation: one datagram,
  request or line for one message, and pure I/O.
- Writing settings back, examples of settings, printing, logging, resource monitors and
  the templates: no behaviour depends on them.

## Plan

What the project does not have yet, in order of what the system most depends on:

1. The laws of the dictionary for flat dictionaries, which need no recursion, and
   from them the part of `DeltasSuffice` that is about one level.
2. Subscriptions to key events; the destructor and `setDbIndex` of the connector.
3. Where the code is known to go wrong without a run of its own (above), a model of
   the repaired code beside the present one.
