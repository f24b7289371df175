---- MODULE MCConfiguration ----
(* Configurations that vary in their registers, in their pipelines or in   *)
(* their other workers, and a few messages.                                *)
EXTENDS Configuration

MCKeys ==
  <<"a", "allow_self_connect", "allow_write_by_default", "api", "arguments", "b",
    "broker", "broker:allow_self_connect", "by_field", "by_validator", "c",
    "cache", "clients", "coils", "consumers", "device", "devices", "enabled",
    "endianess", "extra", "extra_paths", "filepath", "files", "format", "frame_gap", "from",
    "guard", "heartbeat_ms", "holding", "host", "index", "input", "interceptors",
    "inverse", "json_file_path", "keepalive_time", "keyEvents", "key_events",
    "log_level", "masters", "mocks", "modbus", "mode", "module_path",
    "module_settings", "name", "namespaces", "pipelines", "plc", "port",
    "port_name", "process", "processes", "producers", "python", "readable",
    "redis", "registers", "remap", "remapping", "remaps", "rename", "renames",
    "renaming", "repeaters", "rtu", "server", "server_name", "servers", "shell",
    "slave_id", "slaves", "sockets", "stamp", "start_from", "stream",
    "stream_key", "subscribers", "table", "tcp", "to", "type", "udp",
    "unwrap_from", "unwrappers", "validating", "websocket", "worker",
    "wrap_into", "wrappers", "writable", "x", "x:a">>

MCParts ==
  [k \in ToSet(MCKeys) |->
    CASE k = "x:a" -> <<"x", "a">>
      [] k = "broker:allow_self_connect" -> <<"broker", "allow_self_connect">>
      [] OTHER -> <<k>>] @@ "" :> <<>>

MCNumerals ==
  "-1" :> -1 @@ "0" :> 0 @@ "1" :> 1 @@ "2" :> 2 @@ "3" :> 3 @@ "25" :> 25 @@
  "1234" :> 1234 @@ "10000" :> 10000 @@ "20000" :> 20000

T(x) == Leaf(x)
Worker(n) == Map([name |-> T(n)])

----------------------------------------------------------------------------
\* Registers by the dictionaries of their tables.
Reg(i) == Map([index |-> T(i)])
Wide(i) == Map([index |-> T(i), type |-> T("dword"), endianess |-> T("cdab")])
Holdings ==
  {Map("a" :> Reg("0") @@ "b" :> Reg("1")),
   Map("a" :> Wide("0") @@ "b" :> Reg("1")),
   Map("a" :> Reg("1") @@ "b" :> Reg("0")),
   Map("a" :> Reg("0") @@ "b" :> Reg("0")),
   Map("a" :> Reg("0") @@ "b" :> Wide("2")),
   Map("a" :> Reg("-1")),
   Map("x:a" :> Wide("0") @@ "c" :> Map([index |-> T("0"), mode |-> T("r")])),
   Map("x" :> Map("b" :> Wide("2") @@ "a" :> Wide("0"))),
   Map([index |-> T("0")]),
   Map("a" :> Map([index |-> T("0"), extra |-> T("1")])),
   Map("a" :> Map([index |-> T("0"), type |-> T("x")]))}
RegistersOf(h) ==
  {Map([holding |-> h]),
   Map([holding |-> h, input |-> Map("c" :> Reg("0")), allow_write_by_default |-> T("false")])}

Tcp == Map([tcp |-> Map([host |-> T("host"), port |-> T("1"), name |-> T("device")])])
Rtu == Map([rtu |-> Map([port_name |-> T("tty"), name |-> T("device")])])
Both == Map(Tcp.map @@ Rtu.map)
Of(n) == Map([worker |-> Worker(n), device |-> T("device"), slave_id |-> T("1"),
              registers |-> T("plc")])
Modbus(device, regs) ==
  Map([devices |-> List(<<device>>), registers |-> Map([plc |-> regs]),
       slaves |-> List(<<Of("slave"), T("not a map")>>), masters |-> List(<<Of("master")>>)])

\* No pipelines, an empty list of them, or some.
Listed(texts) == Map([pipelines |-> List(texts)])
Line == Listed(<<T("slave > master")>>)

ByRegisters ==
  {Map([modbus |-> Modbus(d, regs)] @@ more.map) :
     d \in {Tcp, Rtu}, regs \in UNION {RegistersOf(h) : h \in Holdings}, more \in {Empty, Line}} \cup
  {Map([modbus |-> Modbus(Both, Map([holding |-> Map("a" :> Reg("0"))]))]),
   Map([extra |-> T("1")]), Listed(<<>>)}

----------------------------------------------------------------------------
\* Pipelines.
W(n) == [star |-> FALSE, word |-> Name(n)]
F(f, x) == [func |-> f, args |-> <<x>>]
V(f, x) == [star |-> FALSE, word |-> F(f, x)]
Star(w) == [star |-> TRUE, word |-> w]
To == [dir |-> "normal", between |-> <<>>]
From == [dir |-> "inverted", between |-> <<>>]
Between(ws) == [dir |-> "bidirectional", between |-> ws]
P(items, splitters) == [items |-> items, splitters |-> splitters]

MCTexts ==
  "slave > master" :> P(<<W("slave"), W("master")>>, <<To>>) @@
  "one > *wrap(a) > *block(b) > two" :>
    P(<<W("one"), Star(F("wrap", "a")), Star(F("block", "b")), W("two")>>, <<To, To, To>>) @@
  "one < *wrap(a) < *unwrap(b) < two" :>
    P(<<W("one"), Star(F("wrap", "a")), Star(F("unwrap", "b")), W("two")>>, <<From, From, From>>) @@
  "one <= branch(a) = branch(b) => two" :>
    P(<<W("one"), W("two")>>, <<Between(<<F("branch", "a"), F("branch", "b")>>)>>) @@
  "one <= block(b) = branch(a) => server" :>
    P(<<W("one"), W("server")>>, <<Between(<<F("block", "b"), F("branch", "a")>>)>>) @@
  "two <= branch(a) = allow(c) => server" :>
    P(<<W("two"), W("server")>>, <<Between(<<F("branch", "a"), F("allow", "c")>>)>>) @@
  "one > *guard > two < *shell < server" :>
    P(<<W("one"), Star(Name("guard")), W("two"), Star(Name("shell")), W("server")>>,
      <<To, To, From, From>>) @@
  "one > repeater > file(log)" :>
    P(<<W("one"), W("repeater"), V("file", "log")>>, <<To, To>>) @@
  "one > *rename(a) > two" :> P(<<W("one"), Star(F("rename", "a")), W("two")>>, <<To, To>>) @@
  "one <= rename(a) => two" :> P(<<W("one"), W("two")>>, <<Between(<<F("rename", "a")>>)>>) @@
  "one > *guard < two" :> P(<<W("one"), Star(Name("guard")), W("two")>>, <<To, From>>) @@
  "file(stdin) > one > file(stdout)" :>
    P(<<V("file", "stdin"), W("one"), V("file", "stdout")>>, <<To, To>>) @@
  "one > file(stdin)" :> P(<<W("one"), V("file", "stdin")>>, <<To>>) @@
  "out > one" :> P(<<W("out"), W("one")>>, <<To>>) @@
  "one > out < two" :> P(<<W("one"), W("out"), W("two")>>, <<To, From>>) @@
  "one > *stamp > *rename > two" :>
    P(<<W("one"), Star(Name("stamp")), Star(Name("rename")), W("two")>>, <<To, To, To>>) @@
  "one > one" :> P(<<W("one"), W("one")>>, <<To>>) @@
  "one > *guard" :> P(<<W("one"), Star(Name("guard"))>>, <<To>>)

Interceptors ==
  Map([validating |-> Map([guard |-> Map([by_field |-> Map("a" :> T("set_unix_timestamp") @@
                                                           "b" :> T("invalidate"))])]),
       namespaces |-> Map([wrappers |-> Map([shell |-> Map([wrap_into |-> T("b")])])])])

ServerOf(heartbeat) == Map([worker |-> Worker("server"), heartbeat_ms |-> T(heartbeat)])

WithPipelines(lists, first, heartbeat, more) ==
  Map([repeaters |-> List(<<Worker(first), Worker("two")>>),
       websocket |-> Map([servers |-> List(<<ServerOf(heartbeat)>>)]),
       interceptors |-> Interceptors] @@ lists.map @@ more)

NoMore == [x \in {} |-> x]
ByPipelines ==
  {WithPipelines(Listed(<<T(s), T(t)>>), "one", "2", NoMore) : s, t \in DOMAIN MCTexts} \cup
  {WithPipelines(Empty, first, heartbeat, more) :
     first \in {"one", "two"}, heartbeat \in {"2", "20000"},
     more \in {NoMore, [sockets |-> Map([udp |-> Map([consumers |->
                 List(<<Map([worker |-> Worker("udp"), port |-> T("1")])>>)])])]}}

----------------------------------------------------------------------------
\* The other workers: sections of them, right and wrong.
Connector(n, server) == [worker |-> Worker(n), server_name |-> T(server)]
Reader(start) ==
  Map(Connector("reader", "redis") @@ [stream_key |-> T("x"), start_from |-> T(start)])
Redis(servers, start) ==
  [redis |-> Map([servers |-> List(servers),
                  stream |-> Map([consumers |-> List(<<Reader(start)>>),
                                  producers |-> List(<<Map(Connector("writer", "redis") @@
                                                           [stream_key |-> T("x")])>>)]),
                  cache |-> Map([consumers |-> List(<<Map(Connector("cached", "redis"))>>),
                                 producers |-> List(<<Map(Connector("caching", "nowhere"))>>)]),
                  key_events |-> Map([subscribers |-> List(<<Map(Connector("listener", "redis") @@
                                        [keyEvents |-> List(<<T("x")>>)])>>)])])]
RedisServer == Map([name |-> T("redis"), host |-> T("host"), port |-> T("1")])

File(path, format) ==
  [files |-> List(<<Map([worker |-> Worker("out"), filepath |-> T(path), format |-> T(format)])>>)]
Program(name, paths) ==
  [processes |-> List(<<Map([worker |-> Worker("program"), process |-> T(name),
                             arguments |-> List(<<T("x"), T("1")>>)] @@ paths)>>)]
Module(settings) ==
  [python |-> List(<<Map([worker |-> Worker("module"), module_path |-> T("x"),
                          module_settings |-> settings])>>)]
Mock(path) == [mocks |-> List(<<Map([name |-> T("mock"), json_file_path |-> T(path)])>>)]
Sender(host) ==
  [sockets |-> Map([udp |-> Map([producers |-> List(<<Map([worker |-> Worker("sender"),
     server |-> Map(host @@ [port |-> T("1")])])>>)])])]
Client ==
  [websocket |-> Map([clients |-> List(<<Map([worker |-> Worker("client"), host |-> T("host")])>>)])]
Api(enabled) == [api |-> Map([enabled |-> T(enabled)])]
Shaped(validator, remap) ==
  [interceptors |-> Map(
     [validating |-> Map([stamp |-> Map([by_validator |-> Map(validator :> T("a"))])]),
      remapping |-> Map([remap |-> Map([remaps |-> Map("a" :> Map(remap))])]),
      renaming |-> Map([rename |-> Map([renames |-> Map("a" :> T("b"))])])])]

OtherSections ==
  {Redis(servers, start) : servers \in {<<RedisServer>>, <<>>}, start \in {"from_top", "x"}} \cup
  {File(path, format) : path \in {"log", "stdin", "stdout", "gone"}, format \in {"compact", "x"}} \cup
  {Program(name, paths) : name \in {"shell", "tool"},
                          paths \in {NoMore, [extra_paths |-> List(<<T("opt")>>)],
                                     [extra_paths |-> List(<<T("opt"), T("bin")>>)]}} \cup {Module(s) : s \in {Map("a" :> T("1")), T("a")}} \cup
  {Mock(path) : path \in {"log", "gone"}} \cup {Sender([host |-> T("host")]), Sender(NoMore)} \cup
  {Client} \cup {Api(e) : e \in {"true", "false"}} \cup
  {Shaped(v, r) : v \in {"set_unix_timestamp", "x"},
                  r \in {[from |-> T("1"), to |-> T("2")], [from |-> T("1")]}}

WithOthers(lists, more) == Map([repeaters |-> List(<<Worker("one"), Worker("two")>>)] @@ lists.map @@ more)

ByWorkers ==
  {WithOthers(Empty, first @@ second) : first, second \in OtherSections} \cup
  {WithOthers(Listed(<<T(t)>>), first) :
     t \in {"one > out < two", "out > one", "one > *stamp > *rename > two", "one > one"},
     first \in OtherSections}

----------------------------------------------------------------------------
\* Other files, that others include: a configuration, a part of one, what is no
\* map, one that includes what is missing, or cannot be included.
MCFiles ==
  "whole" :> WithPipelines(Listed(<<T("one > *guard > two < *shell < server")>>), "one", "2",
                           [interceptors |-> Include("guards"), log_level |-> Invalid]) @@
  "guards" :> Interceptors @@
  "list" :> List(<<T("x")>>) @@
  "other" :> WithPipelines(Empty, "one", "2", [interceptors |-> Include("missing")]) @@
  "wrong" :> Map([broker |-> Include("list")])

ByFiles ==
  {Map([x |-> Include(f)]) : f \in DOMAIN MCFiles \cup {"missing", ""}} \cup
  {Map([x |-> Map([a |-> Include(f)])]) : f \in {"whole", "other"}} \cup
  {Map([repeaters |-> List(<<Worker("one"), Include("whole"), Invalid>>),
        interceptors |-> Include(f)]) : f \in {"guards", "missing"}}

MCRaws == ByRegisters \cup ByPipelines \cup ByWorkers \cup ByFiles
MCPresent == {"log"}
MCPath == <<"bin", "usr">>
MCInstalled == [bin |-> {"shell", "python3"}, usr |-> {"python3"}, opt |-> {"shell", "tool"}]
Selfish == <<<<"broker:allow_self_connect", "true">>>>
MCCommandLines ==
  {[Defaults EXCEPT !.overrides = o, !.pipes = p] :
     o \in {<<>>, Selfish}, p \in {<<>>, <<"one > repeater > file(log)">>}} \cup
  {[Defaults EXCEPT !.key = "x"], [Defaults EXCEPT !.key = "x:a"],
   [Defaults EXCEPT !.parser = "toml"], [Defaults EXCEPT !.reads = FALSE, !.overrides = Selfish]}
MCMessages ==
  {Map("a" :> Map("b" :> T("1") @@ "a" :> T("2")) @@ "b" :> T("3")),
   Map("a" :> Map("b" :> Map("c" :> T("1") @@ "a" :> T("2")))),
   Map("a" :> Map("c" :> Map("a" :> T("1"))) @@ "c" :> T("1"))}
====
