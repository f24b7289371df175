---- MODULE ProcessWorker ----
(***************************************************************************)
(* The process worker: a program it starts and starts again, to which it   *)
(* writes the messages it is given and whose lines it sends on.            *)
(*                                                                         *)
(* Messages and lines are numbered.  A line may reach the worker in two    *)
(* halves.                                                                 *)
(***************************************************************************)
EXTENDS Naturals, SequencesExt

CONSTANTS
  MaxGiven,  \* bound on the messages given to the worker
  MaxLines   \* bound on the lines printed by its programs

VARIABLES
  restarts,  \* restart_on_ok and restart_on_fail, as the set of those that are set
  proc,      \* "new", "starting", "running", "exited" when the worker does not know yet,
             \* or "stopped"
  restart,   \* the timer of restart_delay_ms runs
  buffer,    \* Private::buffer
  pipe,      \* the halves of lines on their way to the worker
  half,      \* a first half was printed, and its second was not
  given,     \* history: messages given to the worker
  taken,     \* history: messages handed to the process, in this order
  printed,   \* history: lines begun
  read,      \* history: lines sent on
  cut        \* history: lines of which one half was read alone

process == <<proc, restart>>
input   == <<buffer, given, taken>>
output  == <<pipe, half, printed, read, cut>>
processVars == <<restarts, process, input, output>>

ProcessInit ==
  /\ restarts \in SUBSET {"ok", "fail"}
  /\ proc = "new" /\ restart = FALSE
  /\ buffer = <<>> /\ given = 0 /\ taken = <<>>
  /\ pipe = <<>> /\ half = FALSE /\ printed = 0 /\ read = <<>> /\ cut = {}

\* The process is Running as far as the worker knows.
isRunning == proc \in {"running", "exited"}
----------------------------------------------------------------------------
(* Writing. *)

\* tryWrite: what is written to a process that has ended is written all the same.
tryWrite(msg) == IF isRunning THEN taken' = Append(taken, msg) ELSE UNCHANGED taken

onMsgForProcess ==
  /\ given < MaxGiven
  /\ given' = given + 1
  /\ tryWrite(given')
  /\ buffer' = IF isRunning THEN buffer ELSE Append(buffer, given')
  /\ UNCHANGED <<restarts, process, output>>

\* Variant for mutation: what was written stays in the buffer.
rewriteKeeping(running) ==
  /\ taken' = IF running /\ buffer # <<>> THEN Append(taken, buffer[Len(buffer)]) ELSE taken
  /\ UNCHANGED <<given, buffer>>

\* rewrite: the last message of the buffer.
rewrite(running) ==
  /\ IF running /\ buffer # <<>>
     THEN /\ taken' = Append(taken, buffer[Len(buffer)])
          /\ buffer' = SubSeq(buffer, 1, Len(buffer) - 1)
     ELSE UNCHANGED <<buffer, taken>>
  /\ UNCHANGED given

\* Once a second.
periodic == rewrite(isRunning) /\ UNCHANGED <<restarts, process, output>>
----------------------------------------------------------------------------
(* Reading. *)

Half(line, which) == [line |-> line, half |-> which]
Lines(halves) == {halves[i].line : i \in DOMAIN halves}
Whole(halves, line) == {Half(line, "first"), Half(line, "second")} \subseteq ToSet(halves)

\* Variant for mutation: one line each time there is something to read.
mainloopOnce(s) ==
  IF s.pipe = <<>> THEN s
  ELSE LET line == s.pipe[1].line
           halves == IF Whole(s.pipe, line) THEN 2 ELSE 1
       IN [pipe |-> SubSeq(s.pipe, halves + 1, Len(s.pipe)),
           read |-> IF halves = 2 THEN Append(s.read, line) ELSE s.read,
           cut |-> IF halves = 2 THEN s.cut ELSE s.cut \cup {line}]

\* FileHelper::mainloop, line by line while there is something to read: a line of
\* which only a half is there is read as it is, and is no JSON.
mainloop(s) ==
  [pipe |-> <<>>,
   read |-> FoldLeft(LAMBDA lines, h : IF h.half = "first" /\ Whole(s.pipe, h.line)
                                       THEN Append(lines, h.line) ELSE lines,
                     s.read, s.pipe),
   cut |-> s.cut \cup {n \in Lines(s.pipe) : ~Whole(s.pipe, n)}]

ReadAll ==
  LET s == mainloop([pipe |-> pipe, read |-> read, cut |-> cut])
  IN pipe' = s.pipe /\ read' = s.read /\ cut' = s.cut

readyRead ==
  /\ isRunning /\ pipe # <<>>
  /\ ReadAll
  /\ UNCHANGED <<restarts, process, input, half, printed>>

\* The program prints a line, or what is left of one, or part of one.
print(halves) ==
  /\ proc = "running"
  /\ IF half
     THEN /\ halves = <<Half(printed, "second")>>
          /\ UNCHANGED printed
     ELSE /\ printed < MaxLines
          /\ printed' = printed + 1
          /\ halves \in {<<Half(printed', "first")>>,
                         <<Half(printed', "first"), Half(printed', "second")>>}
  /\ half' = (halves = <<Half(printed', "first")>>)
  /\ pipe' = pipe \o halves
  /\ UNCHANGED <<restarts, process, input, read, cut>>
----------------------------------------------------------------------------
(* The life of the process. *)

onRun ==
  /\ proc = "new"
  /\ proc' = "starting"
  /\ UNCHANGED <<restarts, restart, input, output>>

\* Variant for mutation: a process that has started waits for the timer.
processStartedQuietly ==
  /\ proc = "starting"
  /\ proc' = "running"
  /\ ReadAll
  /\ UNCHANGED <<restarts, restart, input, half, printed>>

\* stateChanged(Running): the helper reads what there is, and one message of the
\* buffer is written.
processStarted ==
  /\ proc = "starting"
  /\ proc' = "running"
  /\ ReadAll
  /\ rewrite(TRUE)
  /\ UNCHANGED <<restarts, restart, half, printed>>

\* A process that cannot be started does not finish.
failedToStart ==
  /\ proc = "starting"
  /\ proc' = "stopped"
  /\ UNCHANGED <<restarts, restart, input, output>>

exits ==
  /\ proc = "running"
  /\ proc' = "exited"
  /\ half' = FALSE
  /\ UNCHANGED <<restarts, restart, input, pipe, printed, read, cut>>

\* finished, once everything printed was read; how it ended decides whether it is
\* started again.
onFinished(how) ==
  /\ proc = "exited"
  /\ ReadAll
  /\ proc' = "stopped"
  /\ restart' = (how \in restarts)
  /\ UNCHANGED <<restarts, input, half, printed>>

\* startProc by the timer, with new pipes.
startAgain ==
  /\ restart
  /\ restart' = FALSE
  /\ proc' = "starting"
  /\ pipe' = <<>>
  /\ UNCHANGED <<restarts, input, half, printed, read, cut>>

ProcessNext ==
  \/ onRun
  \/ onMsgForProcess
  \/ periodic
  \/ readyRead
  \/ \E line \in 1..MaxLines :
       \E halves \in {<<Half(line, "first")>>, <<Half(line, "second")>>,
                      <<Half(line, "first"), Half(line, "second")>>} : print(halves)
  \/ processStarted
  \/ failedToStart
  \/ exits
  \/ \E how \in {"ok", "fail"} : onFinished(how)
  \/ startAgain

\* Timers fire, a process that is started runs or fails, and Qt notices its end.
\* Nothing says how long it runs.
ProcessFairness ==
  /\ WF_processVars(periodic)
  /\ WF_processVars(processStarted \/ failedToStart)
  /\ WF_processVars(\E how \in {"ok", "fail"} : onFinished(how))
  /\ WF_processVars(startAgain)

ProcessSpec == ProcessInit /\ [][ProcessNext]_processVars /\ ProcessFairness
----------------------------------------------------------------------------
(* Properties. *)

\* Each message given to the worker waits in its buffer or was handed to the
\* process, one of the two and once, whatever the process does meanwhile.
EachMessageOnce ==
  \A m \in 1..given :
    Cardinality({i \in DOMAIN buffer : buffer[i] = m})
      + Cardinality({i \in DOMAIN taken : taken[i] = m}) = 1

\* Each line that did not arrive in halves is sent on once and in order, also the
\* last ones of a process that ends.
EachLineOnce ==
  /\ \A i, j \in DOMAIN read : i < j => read[i] < read[j]
  /\ \A n \in 1..printed : \/ \E i \in DOMAIN read : read[i] = n
                           \/ \E i \in DOMAIN pipe : pipe[i].line = n
                           \/ n \in cut

\* The buffer empties in the end, also when no process lives for a second, unless
\* none is started any more.
BufferEmpties == []<>(buffer = <<>> \/ (proc \in {"new", "stopped"} /\ ~restart))
====
