---- MODULE Streams ----
(***************************************************************************)
(* A Redis stream: the producer that adds to it and trims it, and the      *)
(* consumers that read it, each in a thread of its own, with the place     *)
(* reached kept in their program's local storage.                          *)
(*                                                                         *)
(* Entries are numbered as they are added, and an id is such a number.     *)
(* RedisConnector models the connection; here a consumer that is not       *)
(* connected is one that does not ask.                                     *)
(***************************************************************************)
EXTENDS Integers, Sequences, FiniteSetsExt

CONSTANTS
  Consumers,
  Programs,
  Setups,       \* how each consumer starts, where it runs, and the id a program
                \* has kept from before: 0 is the entry before the first
  StreamSize,   \* stream_size
  EntriesPerRead,
  AddsToTrim,   \* ADDS_COUNT_TO_TRIM
  MaxAdded,     \* bound on the entries added
  MaxCrashes    \* bound on the crashes of programs

ASSUME StreamsAssumption ==
  /\ IsFiniteSet(Consumers)
  /\ Consumers \cap Programs = {}
  /\ Setups \subseteq [mode : [Consumers -> {"persistent", "top", "first"}],
                       program : [Consumers -> Programs],
                       kept : {-1, 0}]
  /\ {StreamSize, EntriesPerRead, AddsToTrim, MaxAdded, MaxCrashes} \subseteq Nat
  /\ EntriesPerRead > 0

\* "$" in a read, or no id stored: only what is added from now on.
Top == -1

\* Where an id is kept: by the stream's name in the program's storage, or in the
\* consumer itself.
Places == Programs \cup Consumers

VARIABLES
  setup,
  added,      \* entries added so far
  trimmed,    \* entries trimmed, always the first ones
  addCounter, \* m_addCounter
  stored,     \* the last id kept at each place
  reader,     \* what each consumer is doing
  heard,      \* history: the entries the consumers of a place have sent on
  origin,     \* history: the entry before the first that was kept at a place
  repeats,    \* history: entries sent on again by the consumers of a place,
              \* counted up to one more than there may be crashes
  crashes     \* history: crashes of each program

streamVars == <<setup, added, trimmed, addCounter, stored, reader, heard, origin, repeats, crashes>>

Idle == [phase |-> "idle"]
Unconnected == [phase |-> "unconnected"]

StreamInit ==
  /\ setup \in Setups
  /\ added = 0 /\ trimmed = 0 /\ addCounter = 0
  /\ stored = [p \in Places |-> IF p \in Programs THEN setup.kept ELSE Top]
  /\ reader = [c \in Consumers |-> Unconnected]
  /\ heard = [p \in Places |-> {}]
  /\ origin = [p \in Places |-> 0]
  /\ repeats = [p \in Places |-> 0]
  /\ crashes = [p \in Programs |-> 0]

PlaceOf(c) == IF setup.mode[c] = "persistent" THEN setup.program[c] ELSE c

Entries == (trimmed + 1)..added
----------------------------------------------------------------------------
(* The producer.  Redis trims approximately: as much as is too much, or less. *)

Trim(length) == \E upTo \in trimmed..length :
                  trimmed' = IF length - upTo >= StreamSize \/ upTo = trimmed THEN upTo ELSE trimmed

\* onMsg: a message that cannot be sent is answered with a failure, and counted.
onMsg(sent) ==
  /\ added < MaxAdded
  /\ IF sent THEN added' = added + 1 /\ Trim(added + 1) ELSE UNCHANGED <<added, trimmed>>
  /\ addCounter' = IF addCounter < AddsToTrim THEN addCounter + 1 ELSE addCounter
  /\ UNCHANGED <<setup, stored, reader, heard, origin, repeats, crashes>>

\* The timer of the producer.
tryTrim ==
  /\ addCounter >= AddsToTrim
  /\ addCounter' = 0
  /\ Trim(added)
  /\ UNCHANGED <<setup, added, stored, reader, heard, origin, repeats, crashes>>
----------------------------------------------------------------------------
(* The consumers. *)

\* Variant for mutation: what has once been stored is not read again.
lastReadIdForgotten(c) == Top

lastReadId(c) == CASE setup.mode[c] = "persistent" -> stored[setup.program[c]]
                   [] setup.mode[c] = "first" -> 0
                   [] setup.mode[c] = "top" -> stored[c]

\* The connection is made.
connected(c) ==
  /\ reader[c] = Unconnected
  /\ reader' = [reader EXCEPT ![c] = Idle]
  /\ UNCHANGED <<setup, added, trimmed, addCounter, stored, heard, origin, repeats, crashes>>

\* A read is asked for when connected, and when the last one has been answered.
doRead(c) ==
  /\ reader[c].phase = "idle"
  /\ reader' = [reader EXCEPT ![c] = [phase |-> "asked", from |-> lastReadId(c)]]
  /\ UNCHANGED <<setup, added, trimmed, addCounter, stored, heard, origin, repeats, crashes>>

\* The server begins to wait; "$" is the last entry then.
block(c) ==
  /\ reader[c].phase = "asked"
  /\ reader' = [reader EXCEPT ![c] =
                  [phase |-> "blocked", from |-> IF @.from = Top THEN added ELSE @.from]]
  /\ UNCHANGED <<setup, added, trimmed, addCounter, stored, heard, origin, repeats, crashes>>

\* The first entries after that one.
answer(c) ==
  /\ reader[c].phase = "blocked"
  /\ \E e \in Entries : e > reader[c].from
  /\ LET first == Min({e \in Entries : e > reader[c].from})
         last == Min({added, first + EntriesPerRead - 1})
     IN reader' = [reader EXCEPT ![c] =
                     [phase |-> "send", entries |-> [i \in 1..(last - first + 1) |-> first + i - 1]]]
  /\ UNCHANGED <<setup, added, trimmed, addCounter, stored, heard, origin, repeats, crashes>>

\* No entry within BLOCK_TIMEOUT_MS, or the connection is lost: an empty answer.
noAnswer(c) ==
  /\ reader[c].phase \in {"asked", "blocked"}
  /\ \E r \in {Idle, Unconnected} : reader' = [reader EXCEPT ![c] = r]
  /\ UNCHANGED <<setup, added, trimmed, addCounter, stored, heard, origin, repeats, crashes>>

\* readCallback, entry by entry: each is sent on, and then its id is kept.
send(c) ==
  /\ reader[c].phase = "send"
  /\ LET e == Head(reader[c].entries)
         p == PlaceOf(c)
     IN /\ repeats' = [repeats EXCEPT ![p] = IF e \in heard[p] /\ @ <= MaxCrashes THEN @ + 1 ELSE @]
        /\ heard' = [heard EXCEPT ![p] = @ \cup {e}]
  /\ reader' = [reader EXCEPT ![c].phase = "store"]
  /\ UNCHANGED <<setup, added, trimmed, addCounter, stored, origin, crashes>>

\* Variant for mutation: the last id of the answer is kept at once.
StoredOfAll(entries) == entries[Len(entries)]

\* The id kept for the entry just sent.
Stored(entries) == Head(entries)

setLastReadId(c) ==
  /\ reader[c].phase = "store"
  /\ LET p == PlaceOf(c)
         entries == reader[c].entries
     IN /\ stored' = [stored EXCEPT ![p] = Stored(entries)]
        /\ origin' = [origin EXCEPT ![p] = IF stored[p] = Top THEN Head(entries) - 1 ELSE @]
        /\ reader' = [reader EXCEPT ![c] =
                        IF Len(entries) = 1 THEN Idle
                        ELSE [phase |-> "send", entries |-> Tail(entries)]]
  /\ UNCHANGED <<setup, added, trimmed, addCounter, heard, repeats, crashes>>

\* A program ends at any moment and starts again; what it has stored stays.
crash(program) ==
  LET mine == {c \in Consumers : setup.program[c] = program} IN
  /\ crashes[program] < MaxCrashes
  /\ crashes' = [crashes EXCEPT ![program] = @ + 1]
  /\ reader' = [c \in Consumers |-> IF c \in mine THEN Unconnected ELSE reader[c]]
  /\ stored' = [p \in Places |-> IF p \in mine THEN Top ELSE stored[p]]
  /\ heard' = [p \in Places |-> IF p \in mine THEN {} ELSE heard[p]]
  /\ repeats' = [p \in Places |-> IF p \in mine THEN 0 ELSE repeats[p]]
  /\ UNCHANGED <<setup, added, trimmed, addCounter, origin>>

Reads(c) == connected(c) \/ doRead(c) \/ block(c) \/ answer(c) \/ noAnswer(c) \/ send(c) \/ setLastReadId(c)

StreamNext ==
  \/ \E sent \in BOOLEAN : onMsg(sent)
  \/ tryTrim
  \/ \E c \in Consumers : Reads(c)
  \/ \E p \in Programs : crash(p)

\* The consumers' threads run, and a server that is asked again and again
\* answers in the end.
StreamFairness ==
  \A c \in Consumers : /\ WF_streamVars(doRead(c))
                        /\ WF_streamVars(send(c)) /\ WF_streamVars(setLastReadId(c))
                        /\ SF_streamVars(block(c)) /\ SF_streamVars(answer(c))

StreamSpec == StreamInit /\ [][StreamNext]_streamVars /\ StreamFairness
----------------------------------------------------------------------------
(* Properties. *)

Alone(p) == Cardinality({c \in Consumers : PlaceOf(c) = p}) = 1

\* Between the first entry kept at a place and the last, none is passed over,
\* whichever of the consumers that share the place reads it, whatever crashes:
\* each was sent on unless the stream was trimmed.  Consumers that share a place
\* where no id was kept, and begin at different ends, may pass over some.
NoEntrySkipped ==
  \A p \in Places : stored[p] # Top /\ (Alone(p) \/ setup.kept # Top) =>
    \A e \in (origin[p] + 1)..stored[p] : e \in heard[p] \/ e <= trimmed

\* An entry is sent on again only after a crash, one entry for each, by a consumer
\* that has its place for itself and does not always start from the first.
RepeatsAfterCrashes ==
  \A c \in Consumers : Alone(PlaceOf(c)) /\ setup.mode[c] # "first" =>
    repeats[PlaceOf(c)] <= (IF PlaceOf(c) \in Programs THEN crashes[PlaceOf(c)] ELSE 0)

\* No entry between the first id kept and the last is passed over, and none is sent
\* again but for the crashes.
ReadsEachEntry ==
  /\ NoEntrySkipped
  /\ RepeatsAfterCrashes

\* A consumer that has a place for itself, and an id there, reads on to the end of
\* the stream, unless its connection is lost again and again.
ReadsOn ==
  []<>(\A c \in Consumers : LET p == PlaceOf(c) IN
         Alone(p) /\ p \in Programs /\ stored[p] # Top =>
           stored[p] >= added \/ reader[c] = Unconnected)
====
