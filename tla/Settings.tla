---- MODULE Settings ----
(***************************************************************************)
(* The classes of settings, with their fields, the validators of those and *)
(* what an object is before anything is read into it.                      *)
(*                                                                         *)
(* An object is a record of its class and the values of its fields.  A     *)
(* plain value stays the text it was read from, or what a validator makes  *)
(* of it.  Where the code throws, the reading is Refused.                  *)
(***************************************************************************)
EXTENDS Variants, Integers, SequencesExt

CONSTANT Numerals  \* the texts that are numbers, each with its number

Refused == [refused |-> TRUE]
isRefused(x) == "refused" \in DOMAIN x

----------------------------------------------------------------------------
(* Fields.  A field holds one value, a list or a map of them, and its      *)
(* attribute says what becomes of a missing one.                           *)

One(of, attribute, default) ==
  [shape |-> "one", of |-> of, attribute |-> attribute, default |-> Leaf(default)]
Required(of) == One(of, "required", IF of \in {"number", "word"} THEN "0" ELSE "")
HasDefault(of, default) == One(of, "has_default", default)
Optional(of) == One(of, "optional", "")
Sequence(f) == [f EXCEPT !.shape = "list"]
Mapping(f) == [f EXCEPT !.shape = "map"]

\* The classes of settings.  The sections of AppConfig that add nothing, and some
\* fields nothing here depends on, are left out.
WorkerFields == [name |-> Required("text"), log_level |-> HasDefault("level", "QtDebugMsg")]
RepeaterFields == WorkerFields @@ [prevent_loopback |-> HasDefault("flag", "true")]
MockWorkerFields ==
  WorkerFields @@ [mock_timer_delay |-> HasDefault("word", "3000"), json_file_path |-> Optional("text")]
FileWorkerFields ==
  [worker |-> Required("Worker"), filepath |-> Required("text"),
   format |-> HasDefault("format", "Indented")]
ProcessWorkerFields ==
  [worker |-> Required("Worker"), process |-> Required("text"),
   extra_paths |-> Sequence(Optional("text")), arguments |-> Sequence(Optional("text")),
   restart_delay_ms |-> HasDefault("word", "5000")] @@
  [f \in {"read", "write", "restart_on_fail"} |-> HasDefault("flag", "true")] @@
  [restart_on_ok |-> HasDefault("flag", "false")]
PythonModuleWorkerFields ==
  [worker |-> Required("Worker"), module_path |-> Required("text"),
   module_settings |-> Optional("map"), extra_paths |-> Sequence(Optional("text")),
   override_bootstrap_with |-> Optional("text")]
UdpConsumerFields ==
  [worker |-> Required("Worker"), port |-> Required("word"), bind_to |-> HasDefault("text", "0.0.0.0")]
UdpProducerFields == [worker |-> Required("Worker"), server |-> Required("ServerInfo")]
ServerInfoFields == [host |-> Required("text"), port |-> Required("word")]
WebsocketServerFields ==
  [worker |-> Required("Worker"), port |-> HasDefault("word", "1234"),
   heartbeat_ms |-> HasDefault("word", "10000"), keepalive_time |-> HasDefault("word", "20000")]
WebsocketClientFields == WebsocketServerFields @@ [host |-> Required("text")]
RadapterApiFields == [port |-> HasDefault("word", "8080"), enabled |-> HasDefault("flag", "false")]
TcpDeviceFields == ServerInfoFields @@ [name |-> HasDefault("text", "")]
SerialDeviceFields ==
  [port_name |-> Required("text"), name |-> HasDefault("text", ""),
   byte_order |-> HasDefault("order", "BigEndian")]
ModbusDeviceFields ==
  [tcp |-> Optional("TcpDevice"), rtu |-> Optional("SerialDevice"),
   frame_gap |-> HasDefault("number", "25")]
ModbusWorkerFields ==
  [worker |-> Required("Worker"), device |-> Required("text"), slave_id |-> Required("word"),
   registers |-> Required("text")]
ModbusMasterFields == ModbusWorkerFields @@ [retries |-> HasDefault("number", "3")]
RegistersFields ==
  [table \in {"holding", "holding_registers", "input", "input_registers", "coils", "di",
              "discrete_inputs"} |-> Optional("map")] @@
  [allow_read_by_default |-> HasDefault("flag", "true"),
   allow_write_by_default |-> HasDefault("flag", "true")]
RegisterInfoFields ==
  [table |-> Required("table"), endianess |-> HasDefault("PackingMode", ""),
   type |-> HasDefault("type", "UShort"), index |-> Required("number"),
   writable |-> HasDefault("flag", "true"), readable |-> HasDefault("flag", "true"),
   mode |-> Optional("text"), validator |-> Optional("validator")]
PackingModeFields ==
  [words |-> HasDefault("order", "LittleEndian"), bytes |-> HasDefault("order", "LittleEndian")]
ModbusFields ==
  [registers |-> Mapping(Required("Registers")), devices |-> Sequence(Required("ModbusDevice")),
   slaves |-> Sequence(Optional("ModbusSlave")), masters |-> Sequence(Optional("ModbusMaster"))]
RedisServerFields == ServerInfoFields @@ [name |-> Required("text")]
RedisConnectorFields ==
  [worker |-> Required("Worker"), server_name |-> Required("text"),
   db_index |-> HasDefault("word", "0"), ping_delay |-> HasDefault("word", "10000"),
   reconnect_delay |-> HasDefault("word", "1500"), max_command_errors |-> HasDefault("word", "3"),
   tcp_timeout |-> HasDefault("word", "1000"), command_timeout |-> HasDefault("word", "150")]
RedisStreamFields ==
  RedisConnectorFields @@
  [stream_key |-> Required("text"), stream_size |-> HasDefault("word", "1000000")]
RedisStreamConsumerFields ==
  RedisStreamFields @@ [start_from |-> HasDefault("start", "StartPersistentId")]
RedisCacheProducerFields == RedisConnectorFields @@ [object_hash_key |-> Optional("text")]
RedisCacheConsumerFields ==
  RedisCacheProducerFields @@
  [use_polling |-> HasDefault("flag", "true"), update_rate |-> HasDefault("word", "600")]
RedisKeyEventSubscriberFields == RedisConnectorFields @@ [keyEvents |-> Sequence(Required("text"))]
RedisFields ==
  [servers |-> Sequence(Required("RedisServer")), stream |-> Optional("Stream"),
   cache |-> Optional("Cache"), key_events |-> Optional("KeyEvents")]
ValidatingInterceptorFields ==
  [by_field |-> Mapping(Optional("text")), by_validator |-> Mapping(Optional("texts")),
   inverse |-> HasDefault("flag", "false")]
InterceptorsFields ==
  [validating |-> Mapping(Optional("ValidatingInterceptor")),
   namespaces |-> Optional("NamespaceInterceptors"),
   renaming |-> Mapping(Optional("RenamingPipe")), remapping |-> Mapping(Optional("RemappingPipe"))]
NamespaceInterceptorsFields ==
  [unwrappers |-> Mapping(Optional("NamespaceUnwrapper")),
   wrappers |-> Mapping(Optional("NamespaceWrapper"))]
AppConfigFields ==
  [interceptors |-> Optional("Interceptors"), repeaters |-> Sequence(Optional("Repeater")),
   broker |-> Optional("Broker"), files |-> Sequence(Optional("FileWorker")),
   mocks |-> Sequence(Optional("MockWorker")), processes |-> Sequence(Optional("ProcessWorker")),
   python |-> Sequence(Optional("PythonModuleWorker")), redis |-> Optional("Redis"),
   modbus |-> Optional("Modbus"), sockets |-> Optional("Sockets"),
   websocket |-> Optional("Websocket"), pipelines |-> Sequence(Optional("text")),
   api |-> HasDefault("RadapterApi", "")]

Classes ==
  [Worker |-> WorkerFields, Repeater |-> RepeaterFields, MockWorker |-> MockWorkerFields,
   FileWorker |-> FileWorkerFields, ProcessWorker |-> ProcessWorkerFields,
   PythonModuleWorker |-> PythonModuleWorkerFields, RadapterApi |-> RadapterApiFields,
   ServerInfo |-> ServerInfoFields, UdpConsumer |-> UdpConsumerFields,
   UdpProducer |-> UdpProducerFields,
   UdpSockets |-> [producers |-> Sequence(Optional("UdpProducer")),
                   consumers |-> Sequence(Optional("UdpConsumer"))],
   Sockets |-> [udp |-> Optional("UdpSockets")],
   WebsocketServer |-> WebsocketServerFields, WebsocketClient |-> WebsocketClientFields,
   Websocket |-> [clients |-> Sequence(Optional("WebsocketClient")),
                  servers |-> Sequence(Optional("WebsocketServer"))],
   RedisServer |-> RedisServerFields, Redis |-> RedisFields,
   RedisStreamConsumer |-> RedisStreamConsumerFields, RedisStreamProducer |-> RedisStreamFields,
   RedisCacheConsumer |-> RedisCacheConsumerFields, RedisCacheProducer |-> RedisCacheProducerFields,
   RedisKeyEventSubscriber |-> RedisKeyEventSubscriberFields,
   Stream |-> [consumers |-> Sequence(Optional("RedisStreamConsumer")),
               producers |-> Sequence(Optional("RedisStreamProducer"))],
   Cache |-> [consumers |-> Sequence(Optional("RedisCacheConsumer")),
              producers |-> Sequence(Optional("RedisCacheProducer"))],
   KeyEvents |-> [subscribers |-> Sequence(Optional("RedisKeyEventSubscriber"))],
   TcpDevice |-> TcpDeviceFields, SerialDevice |-> SerialDeviceFields,
   ModbusDevice |-> ModbusDeviceFields, ModbusSlave |-> ModbusWorkerFields,
   ModbusMaster |-> ModbusMasterFields, Registers |-> RegistersFields,
   RegisterInfo |-> RegisterInfoFields, PackingMode |-> PackingModeFields,
   Modbus |-> ModbusFields, ValidatingInterceptor |-> ValidatingInterceptorFields,
   NamespaceInterceptors |-> NamespaceInterceptorsFields,
   NamespaceUnwrapper |-> [unwrap_from |-> Required("text")],
   NamespaceWrapper |-> [wrap_into |-> Required("text")],
   RenamingPipe |-> [renames |-> Mapping(Required("text"))],
   RemappingPipe |-> [remaps |-> Mapping(Required("FieldRemap"))],
   FieldRemap |-> [f \in {"from", "to"} |-> Required("any")],
   Interceptors |-> InterceptorsFields,
   Broker |-> [allow_self_connect |-> HasDefault("flag", "false")],
   AppConfig |-> AppConfigFields]

----------------------------------------------------------------------------
(* Values. *)

ByteOrders ==
  [little |-> "LittleEndian", big |-> "BigEndian", littleendian |-> "LittleEndian",
   bigendian |-> "BigEndian"]
Types ==
  [uint16 |-> "UShort", word |-> "UShort", uint32 |-> "UInt", dword |-> "UInt",
   float |-> "Float", float32 |-> "Float"]
Tables ==
  [holding |-> "HoldingRegisters", holding_registers |-> "HoldingRegisters",
   input |-> "InputRegisters", input_registers |-> "InputRegisters",
   coils |-> "Coils", do |-> "Coils",
   discrete_inputs |-> "DiscreteInputs", di |-> "DiscreteInputs"]
LogLevels ==
  [debug |-> "QtDebugMsg", info |-> "QtInfoMsg", warning |-> "QtWarningMsg",
   critical |-> "QtCriticalMsg", fatal |-> "QtFatalMsg"]
Formats == [compact |-> "Compact", indented |-> "Indented"]
StartModes ==
  [persistent_id |-> "StartPersistentId", from_top |-> "StartFromTop",
   from_first |-> "StartFromFirst"]

\* The validators known by name that look at no number.
Validators == {"clear", "invalidate", "set_unix_timestamp"}

\* ByteWordOrder: four names for two orders.  What has no text passes as it is,
\* a text that is none of the names throws.
PackingModes ==
  LET of(words, bytes) == Map([words |-> Leaf(words), bytes |-> Leaf(bytes)])
  IN [abcd |-> of("big", "big"), badc |-> of("little", "big"), cdab |-> of("big", "little"),
      dcba |-> of("little", "little")]
ByteWordOrder(v) ==
  IF "leaf" \notin DOMAIN v THEN v
  ELSE IF v.leaf \in DOMAIN PackingModes THEN PackingModes[v.leaf]
  ELSE IF v.leaf = "" THEN v ELSE Refused

\* What a validator's table, or the conversion to a type, makes of a value;
\* invalid where it cannot.
Named(table, v) ==
  IF "leaf" \in DOMAIN v /\ v.leaf \in DOMAIN table THEN Leaf(table[v.leaf]) ELSE Invalid

convert(of, v) ==
  CASE of = "any" -> v
    [] of = "map" -> IF IsMap(v) THEN v ELSE Invalid
    [] of = "texts" /\ IsList(v) -> v
    [] of = "order" -> Named(ByteOrders, v)
    [] of = "type" -> Named(Types, v)
    [] of = "table" -> Named(Tables, v)
    [] of = "level" -> Named(LogLevels, v)
    [] of = "format" -> Named(Formats, v)
    [] of = "start" -> Named(StartModes, v)
    [] OTHER ->
         IF "leaf" \notin DOMAIN v THEN Invalid
         ELSE CASE of = "text" -> v
                [] of = "texts" -> List(<<v>>)
                [] of = "flag" -> Leaf(IF v.leaf \in {"false", "0", ""} THEN "false" ELSE "true")
                [] of = "validator" -> IF v.leaf \in Validators THEN v ELSE Invalid
                [] OTHER -> IF \/ v.leaf \notin DOMAIN Numerals
                               \/ of = "word" /\ Numerals[v.leaf] < 0
                              THEN Invalid ELSE v

toMap(v) == IF IsMap(v) THEN v ELSE Empty
toList(v) == IF IsList(v) THEN v.list ELSE <<>>

\* The number and the truth a plain value stands for.
Number(v) == Numerals[v.leaf]
isTrue(v) == v = Leaf("true")

----------------------------------------------------------------------------
(* Objects. *)

\* What is not of a class.
isPlain(of) ==
  of \in {"any", "map", "texts", "order", "type", "table", "level", "format", "start", "text",
          "flag", "validator", "number", "word"}

\* An object before anything is read: defaults, and no optional field updated.
initialValues[class \in DOMAIN Classes] ==
  LET initial(f) ==
        CASE f.shape = "list" -> List(<<>>)
          [] f.shape = "map" -> Empty
          [] OTHER -> IF isPlain(f.of) THEN f.default
                      ELSE [class |-> f.of, values |-> initialValues[f.of], updated |-> {}]
  IN [f \in DOMAIN Classes[class] |-> initial(Classes[class][f])]
fresh(class) == [class |-> class, values |-> initialValues[class], updated |-> {}]

\* A section of the configuration, all of them there though not given.
section(o, path) ==
  LET held[i \in 0..Len(path)] == IF i = 0 THEN o ELSE held[i - 1].values[path[i]]
  IN held[Len(path)]
====
