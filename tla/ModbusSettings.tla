---- MODULE ModbusSettings ----
(***************************************************************************)
(* The masters and slaves of a Modbus configuration: ModbusWorker::init    *)
(* and ModbusSlave::init, and what the constructors of masters and slaves  *)
(* check.  Device names have no dots here, which the code turns to colons. *)
(***************************************************************************)
EXTENDS Settings

CONSTANTS
  registersOf(_),  \* what Registers::init makes of an object of that class: its
                   \* registers, in the order of their names, unless it throws
  CountSize        \* how many values a quint16 has: the counts of words are such

ASSUME CountAssumption == CountSize \in Nat \ {0}

\* Where a register lies.
TableOf(reg) == reg.values.table.leaf
IndexOf(reg) == Number(reg.values.index)
WordsOf(reg) == IF reg.values.type.leaf = "UShort" THEN 1 ELSE 2

\* The names of devices: of the TCP one if it has a port.
devicesMap(modbus) ==
  {LET d == modbus.values.devices.list[i].values
   IN IF Number(d.tcp.values.port) # 0 THEN d.tcp.values.name ELSE d.rtu.values.name :
     i \in DOMAIN modbus.values.devices.list}

\* ModbusWorker::init: the registers and the device named must be there.
notEmpty(regs) ==
  IF isRefused(regs) THEN Refused ELSE IF regs.registers = <<>> THEN Refused ELSE regs
workerInit(modbus, w) ==
  LET all == modbus.values.registers.map
  IN IF w.values.registers.leaf \notin DOMAIN all \/ w.values.device \notin devicesMap(modbus)
       THEN Refused ELSE notEmpty(registersOf(all[w.values.registers.leaf]))

NoCounts == [t \in {Tables[x] : x \in DOMAIN Tables} |-> 0]

\* Variant for mutation: the words of a register are counted before its index is
\* compared.
OutOfRangeAfter(counts, reg) == IndexOf(reg) > counts[TableOf(reg)] + WordsOf(reg)

OutOfRange(counts, reg) == IndexOf(reg) > counts[TableOf(reg)]

\* The sizes of a slave's tables, by its registers in the order of their names:
\* none may begin beyond what is counted of those before it, and a count that has
\* reached the limit begins anew.
counted(counts, reg) ==
  IF isRefused(counts) THEN Refused
  ELSE IF OutOfRange(counts, reg) THEN Refused
  ELSE [counts EXCEPT ![TableOf(reg)] = (@ + WordsOf(reg)) % CountSize]

tableSizes(regs) == IF isRefused(regs) THEN Refused ELSE FoldLeft(counted, NoCounts, regs.registers)
slaveInit(modbus, w) == tableSizes(workerInit(modbus, w))

\* Modbus::postUpdate: registers first, then slaves, then masters.
modbusRefused(modbus) ==
  LET all == modbus.values.registers.map
  IN \/ \E d \in DOMAIN all : isRefused(registersOf(all[d]))
     \/ \E w \in ToSet(modbus.values.slaves.list) : isRefused(slaveInit(modbus, w))
     \/ \E w \in ToSet(modbus.values.masters.list) : isRefused(workerInit(modbus, w))

\* The constructors refuse two registers at one index of a table.
collides(regs) ==
  \E m, n \in DOMAIN regs :
    /\ m # n
    /\ TableOf(regs[m]) = TableOf(regs[n]) /\ IndexOf(regs[m]) = IndexOf(regs[n])
====
