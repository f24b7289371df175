---- MODULE LauncherProofs ----
(***************************************************************************)
(* Proofs about the launcher: what runs is what the configuration and the  *)
(* pipelines say, the order in which pipelines are written makes no        *)
(* difference, and the registers of slaves fit their tables.               *)
(*                                                                         *)
(* Connecting goes on one request at a time, and each may create what it   *)
(* names.  What makes it independent of the order is that a broker refuses *)
(* a request for what the request is (Fine), or because its two workers are*)
(* connected already: nothing another request creates can help it or stand *)
(* in its way.                                                             *)
(***************************************************************************)
EXTENDS Launcher, SequenceLemmas

----------------------------------------------------------------------------
(* What operations ask of a broker. *)

\* The connections an operation stands for.
Request(producer, consumer, pipe) == [producer |-> producer, consumer |-> consumer, pipe |-> pipe]

Requests(op) ==
  IF op.type = "normal" THEN {Request(op.left, op.right, op.subpipe)}
  ELSE IF op.type = "inverted" THEN {Request(op.right, op.left, Reverse(op.subpipe))}
  ELSE {Request(op.left, op.right, fakePipe("normal", op.subpipe)),
        Request(op.right, op.left, fakePipe("inverted", op.subpipe))}

\* Whether a worker is a file, or would be if it were created.
FileOf(b, w, filepath) ==
  IF w \in DOMAIN b.files THEN b.files[w] = filepath
  ELSE w \notin b.workers /\ w.func = "file" /\ w.args[1] = filepath

\* What a broker can connect by itself.
Fine(b, c) ==
  /\ \A w \in ToSet(c.pipe) \ DOMAIN b.interceptors : ~isRefused(tryCreateInterceptor(w))
  /\ \A w \in {c.producer, c.consumer} \ b.workers : canCreateWorker(w)
  /\ c.producer = c.consumer => b.allow_self_connect
  /\ ~areConnected(b, c.producer, c.consumer)
  /\ ~FileOf(b, c.producer, "stdout") /\ ~FileOf(b, c.consumer, "stdin")

\* What of an operation does not depend on others.
FineOp(b, op) ==
  /\ ~isRefused(op)
  /\ op.type \notin {"normal", "inverted"} =>
       /\ op.left # op.right
       /\ \A w \in ToSet(fakePipe("normal", op.subpipe)) : ~isRefused(w)
  /\ \A c \in Requests(op) : Fine(b, c)

\* Requests to connect the same workers in the same direction.
SamePair(c, d) == c.producer = d.producer /\ c.consumer = d.consumer

\* A family of operations that a broker can connect: each by itself, and no two of
\* them the same workers.
Good(b, f, S) ==
  /\ \A x \in S : FineOp(b, f[x])
  /\ \A x, y \in S : x # y => \A c \in Requests(f[x]), d \in Requests(f[y]) : ~SamePair(c, d)

\* What the members S of a family of operations ask for.
AllRequests(f, S) == UNION {Requests(f[x]) : x \in S}

----------------------------------------------------------------------------
(* What becomes of a broker. *)

IsBroker(b) ==
  b = [workers |-> b.workers, files |-> b.files, interceptors |-> b.interceptors,
       connections |-> b.connections, allow_self_connect |-> b.allow_self_connect]

\* The workers and the interceptors that requests name.
Ends(C) == UNION {{c.producer, c.consumer} : c \in C}
Words(C) == UNION {ToSet(c.pipe) : c \in C}

\* b is what r becomes when the connections C are made.
Reached(r, b, C) ==
  /\ IsBroker(b)
  /\ b.workers = r.workers \cup Ends(C)
  /\ DOMAIN b.interceptors = DOMAIN r.interceptors \cup Words(C)
  /\ b.connections = r.connections \cup C
  /\ b.allow_self_connect = r.allow_self_connect
  /\ DOMAIN b.files = DOMAIN r.files \cup {w \in Ends(C) \ r.workers : w.func = "file"}
  /\ \A w \in DOMAIN b.files :
       b.files[w] = IF w \in DOMAIN r.files THEN r.files[w] ELSE w.args[1]
  /\ \A c \in C : Fine(r, c)

\* What connecting a family of operations leaves: nothing if it cannot be.
Outcome(r, f, S, b) == IF Good(r, f, S) THEN Reached(r, b, AllRequests(f, S)) ELSE b = Refused

\* The operations of some lines, by their places.
Places(all) == UNION {{i} \X DOMAIN all[i] : i \in DOMAIN all}
OpAt(all) == [x \in Places(all) |-> all[x[1]][x[2]]]
Taken(all, to) == {x \in Places(all) : x[1] < to[1] \/ (x[1] = to[1] /\ x[2] < to[2])}

----------------------------------------------------------------------------
(* The invariant. *)

\* The steps of the launcher after the configuration is read, and after all is added.
Read == {"adding", "unregistered", "connecting", "unconnected", "running"}
Connecting == {"connecting", "unconnected", "running"}

\* What the settings read are.
Readable ==
  /\ phase # "starting" => options \in CommandLines
  /\ phase \in Read =>
    /\ IsConfig(config) /\ ~modbusRefused(section(config, <<"modbus">>))
    /\ lines \in Seq(DOMAIN Texts)

\* Each worker of the configuration is still to be added, or has been.
IsAdded(w) == ~constructorThrows(config, w.made) /\ w.name \in broker.workers
AllAdded ==
  /\ phase = "adding" =>
       /\ todo = [workers |-> todo.workers, interceptors |-> todo.interceptors, api |-> todo.api]
       /\ IsSequence(todo.workers) /\ IsSequence(todo.api)
       /\ ToSet(todo.workers) \subseteq ToSet(workersOf(config))
       /\ ToSet(todo.api) \subseteq ToSet(apiOf(config))
       /\ \A w \in ToSet(workersOf(config)) : w \in ToSet(todo.workers) \/ IsAdded(w)
       /\ \A w \in ToSet(apiOf(config)) : w \in ToSet(todo.api) \/ IsAdded(w)
  /\ phase \in Connecting =>
       \A w \in ToSet(workersOf(config)) \cup ToSet(apiOf(config)) : IsAdded(w)

\* The names of the workers the configuration gives.
NamesGiven == {w.name : w \in ToSet(workersOf(config)) \cup ToSet(apiOf(config))}

\* Nothing else has been, and nothing is connected before the pipelines.
OnlyAdded ==
  /\ phase \in {"starting", "reading"} => broker = NewBroker
  /\ phase = "adding" =>
       IsBroker(broker) /\ broker.workers \subseteq NamesGiven /\ broker.connections = {}
       /\ DOMAIN broker.files \subseteq broker.workers
  /\ phase \in Connecting =>
       /\ IsBroker(registered) /\ registered.workers = NamesGiven /\ registered.connections = {}
       /\ DOMAIN registered.files \subseteq registered.workers

\* The operations done are connected, and those of a program that failed cannot be.
Connected ==
  /\ phase \in {"starting", "reading", "adding"} => at = <<1, 1>>
  /\ phase \in Connecting => ops = [i \in DOMAIN lines |-> parsePipeline(Texts[lines[i]])]
  /\ phase = "connecting" =>
       /\ at \in (1..(Len(ops) + 1)) \X (Nat \ {0})
       /\ at[1] <= Len(ops) => at[2] <= Len(ops[at[1]]) + 1
       /\ Good(registered, OpAt(ops), Taken(ops, at))
       /\ Reached(registered, broker, AllRequests(OpAt(ops), Taken(ops, at)))
  /\ phase = "running" =>
       Good(registered, OpAt(ops), Places(ops))
       /\ Reached(registered, broker, AllRequests(OpAt(ops), Places(ops)))
  /\ phase = "unconnected" => ~Good(registered, OpAt(ops), Places(ops))

\* The inductive invariant.
IInv == Readable /\ AllAdded /\ OnlyAdded /\ Connected

\* When everything runs, the workers registered are those the configuration names
\* and those at the ends of the operations of the pipelines, and the connections
\* are those the operations ask for, each pair of workers connected once.
RunsAsWritten ==
  phase = "running" =>
    LET asked == AllRequests(OpAt(ops), Places(ops))
    IN /\ broker.workers = NamesGiven \cup Ends(asked)
       /\ broker.connections = asked
       /\ \A c, d \in asked : SamePair(c, d) => c = d

----------------------------------------------------------------------------
(* One request. *)

\* What a file is does not change while other workers are created.
LEMMA FilesStay ==
  ASSUME NEW r, NEW b, NEW C, Reached(r, b, C), DOMAIN r.files \subseteq r.workers,
         NEW w, NEW filepath, NEW created, created \cap b.workers = {},
         w \in b.workers \cup created
  PROVE  LET files == Over([x \in {y \in created : y.func = "file"} |-> x.args[1]], b.files)
         IN (w \in DOMAIN files /\ files[w] = filepath) <=> FileOf(r, w, filepath)
<1> DEFINE new == [x \in {y \in created : y.func = "file"} |-> x.args[1]]
           files == Over(new, b.files)
<1>1. /\ DOMAIN files = {y \in created : y.func = "file"} \cup DOMAIN b.files
      /\ \A x \in DOMAIN files : files[x] = IF x \in DOMAIN new THEN new[x] ELSE b.files[x]
  <2>1. DOMAIN new = {y \in created : y.func = "file"}
    OBVIOUS
  <2>2. files = Over(new, b.files)
    OBVIOUS
  <2> HIDE DEF new, files
  <2>3. /\ DOMAIN files = DOMAIN new \cup DOMAIN b.files
        /\ \A x \in DOMAIN files : files[x] = IF x \in DOMAIN new THEN new[x] ELSE b.files[x]
    BY <2>2 DEF Over
  <2> QED
    BY <2>1, <2>3
<1>2. /\ b.workers = r.workers \cup Ends(C)
      /\ DOMAIN b.files = DOMAIN r.files \cup {y \in Ends(C) \ r.workers : y.func = "file"}
      /\ \A y \in DOMAIN b.files : b.files[y] = IF y \in DOMAIN r.files THEN r.files[y] ELSE y.args[1]
  BY DEF Reached
<1>3. /\ DOMAIN new = {y \in created : y.func = "file"}
      /\ \A x \in DOMAIN new : new[x] = x.args[1]
  OBVIOUS
<1> HIDE DEF new, files
<1>4. (w \in DOMAIN files /\ files[w] = filepath) <=> FileOf(r, w, filepath)
  BY <1>1, <1>2, <1>3 DEF FileOf
<1> QED
  BY <1>4 DEF files, new

\* A request is connected if the broker could always do it and its workers are not
\* connected yet, and refused otherwise.
LEMMA OneMoreConnects ==
  ASSUME NEW r, NEW b, NEW C, Reached(r, b, C), DOMAIN r.files \subseteq r.workers,
         NEW producer, NEW consumer, NEW pipe
  PROVE  LET c == Request(producer, consumer, pipe)
             n == tryConnecting(b, producer, consumer, pipe)
         IN IF Fine(r, c) /\ \A d \in C : ~SamePair(c, d)
              THEN Reached(r, n, C \cup {c}) ELSE n = Refused
<1> DEFINE c == Request(producer, consumer, pipe)
           n == tryConnecting(b, producer, consumer, pipe)
           made == [w \in ToSet(pipe) \ DOMAIN b.interceptors |-> tryCreateInterceptor(w)]
           created == {producer, consumer} \ b.workers
           files == Over([w \in {x \in created : x.func = "file"} |-> w.args[1]], b.files)
           a == [b EXCEPT !.interceptors = Over(made, @), !.workers = @ \cup created, !.files = files]
<1>1. /\ b.workers = r.workers \cup Ends(C)
      /\ DOMAIN b.interceptors = DOMAIN r.interceptors \cup Words(C)
      /\ b.connections = r.connections \cup C
      /\ b.allow_self_connect = r.allow_self_connect
      /\ DOMAIN b.files = DOMAIN r.files \cup {w \in Ends(C) \ r.workers : w.func = "file"}
      /\ \A w \in DOMAIN b.files : b.files[w] = IF w \in DOMAIN r.files THEN r.files[w] ELSE w.args[1]
      /\ \A d \in C : Fine(r, d)
      /\ IsBroker(b)
  BY DEF Reached
<1>2. c.producer = producer /\ c.consumer = consumer /\ c.pipe = pipe
  BY DEF Request
<1>3. (\E w \in DOMAIN made : isRefused(made[w])) <=>
        ~\A w \in ToSet(pipe) \ DOMAIN r.interceptors : ~isRefused(tryCreateInterceptor(w))
  <2>1. \A w \in Words(C) \ DOMAIN r.interceptors : ~isRefused(tryCreateInterceptor(w))
    BY <1>1 DEF Words, Fine
  <2> QED
    BY <1>1, <2>1
<1>4. (\E w \in created : ~canCreateWorker(w)) <=>
        ~\A w \in {producer, consumer} \ r.workers : canCreateWorker(w)
  <2>1. \A w \in Ends(C) \ r.workers : canCreateWorker(w)
    BY <1>1 DEF Ends, Fine
  <2> QED
    BY <1>1, <2>1
<1>5. /\ a = [workers |-> b.workers \cup created, files |-> files, interceptors |-> Over(made, b.interceptors),
              connections |-> b.connections, allow_self_connect |-> b.allow_self_connect]
  <2> HIDE DEF made, created, files
  <2>1. PICK i : i = Over(made, b.interceptors)
    OBVIOUS
  <2>2. PICK w : w = b.workers \cup created
    OBVIOUS
  <2>3. a = [b EXCEPT !.interceptors = i, !.workers = w, !.files = files]
    BY <2>1, <2>2
  <2> HIDE DEF a
  <2>4. a = [workers |-> w, files |-> files, interceptors |-> i,
             connections |-> b.connections, allow_self_connect |-> b.allow_self_connect]
    BY <1>1, <2>3 DEF IsBroker
  <2> QED
    BY <2>1, <2>2, <2>4
<1>6. /\ isFile(a, producer, "stdout") <=> FileOf(r, producer, "stdout")
      /\ isFile(a, consumer, "stdin") <=> FileOf(r, consumer, "stdin")
  <2>1. created \cap b.workers = {} /\ producer \in b.workers \cup created
        /\ consumer \in b.workers \cup created
    OBVIOUS
  <2>2. ASSUME NEW w \in b.workers \cup created, NEW filepath
        PROVE  (w \in DOMAIN files /\ files[w] = filepath) <=> FileOf(r, w, filepath)
    <3> HIDE DEF created
    <3> QED
      BY <2>1, FilesStay, Zenon
  <2>3. a.files = files
    BY <1>5
  <2> HIDE DEF a, files, created
  <2> QED
    BY <2>1, <2>2, <2>3 DEF isFile
<1>7. areConnected(a, producer, consumer) <=>
        areConnected(r, producer, consumer) \/ \E d \in C : SamePair(c, d)
  <2>1. a.connections = r.connections \cup C
    BY <1>1, <1>5
  <2> HIDE DEF a, c
  <2> QED
    BY <1>2, <2>1 DEF areConnected, SamePair
<1>8. n = IF (\E w \in DOMAIN made : isRefused(made[w])) \/ (\E w \in created : ~canCreateWorker(w))
            THEN Refused ELSE connectProxyToWorker(a, producer, consumer, pipe)
  BY Zenon DEF tryConnecting
<1>9. a.allow_self_connect = r.allow_self_connect
  BY <1>1, <1>5
<1>10. CASE ~(Fine(r, c) /\ \A d \in C : ~SamePair(c, d))
  <2> HIDE DEF a, c, n, made, created
  <2>1. n = Refused
    BY <1>2, <1>3, <1>4, <1>6, <1>7, <1>8, <1>9, <1>10 DEF Fine, connectProxyToWorker
  <2> QED
    BY <1>10, <2>1 DEF c, n
<1>11. CASE Fine(r, c) /\ \A d \in C : ~SamePair(c, d)
  <2>1. n = [a EXCEPT !.connections = @ \cup {[producer |-> producer, consumer |-> consumer, pipe |-> pipe]}]
    <3> HIDE DEF a, c, n, made, created
    <3> QED
      BY <1>2, <1>3, <1>4, <1>6, <1>7, <1>8, <1>9, <1>11 DEF Fine, connectProxyToWorker
  <2>2. n = [workers |-> b.workers \cup created, files |-> files, interceptors |-> Over(made, b.interceptors),
             connections |-> b.connections \cup {c}, allow_self_connect |-> b.allow_self_connect]
    <3> HIDE DEF files, made, created, n
    <3> QED
      BY <1>5, <2>1 DEF Request
  <2>3. Ends(C \cup {c}) = Ends(C) \cup {producer, consumer} /\ Words(C \cup {c}) = Words(C) \cup ToSet(pipe)
    <3> HIDE DEF c
    <3> QED
      BY <1>2 DEF Ends, Words
  <2>4. DOMAIN Over(made, b.interceptors) = DOMAIN b.interceptors \cup ToSet(pipe)
    <3>1. DOMAIN Over(made, b.interceptors) = DOMAIN made \cup DOMAIN b.interceptors
      <4> HIDE DEF made
      <4> QED
        BY DEF Over
    <3> QED
      BY <3>1
  <2>5. /\ DOMAIN files = {x \in created : x.func = "file"} \cup DOMAIN b.files
        /\ \A x \in DOMAIN files :
             files[x] = IF x \in created /\ x.func = "file" THEN x.args[1] ELSE b.files[x]
    <3> DEFINE fresh1 == [w \in {x \in created : x.func = "file"} |-> w.args[1]]
    <3>1. /\ DOMAIN files = DOMAIN fresh1 \cup DOMAIN b.files
          /\ \A x \in DOMAIN files : files[x] = IF x \in DOMAIN fresh1 THEN fresh1[x] ELSE b.files[x]
      <4>1. files = Over(fresh1, b.files)
        OBVIOUS
      <4> HIDE DEF fresh1, files
      <4> QED
        BY <4>1 DEF Over
    <3>2. DOMAIN fresh1 = {x \in created : x.func = "file"} /\ \A x \in DOMAIN fresh1 : fresh1[x] = x.args[1]
      OBVIOUS
    <3> HIDE DEF fresh1, files, created
    <3> QED
      BY <3>1, <3>2
  <2> HIDE DEF n, files, made, c
  <2>6. n.workers = r.workers \cup Ends(C \cup {c})
    BY <1>1, <2>2, <2>3
  <2>7. DOMAIN n.interceptors = DOMAIN r.interceptors \cup Words(C \cup {c})
    BY <1>1, <2>2, <2>3, <2>4
  <2>8. n.connections = r.connections \cup (C \cup {c}) /\ n.allow_self_connect = r.allow_self_connect
    BY <1>1, <2>2
  <2>9. DOMAIN n.files = DOMAIN r.files \cup {w \in Ends(C \cup {c}) \ r.workers : w.func = "file"}
    BY <1>1, <2>2, <2>3, <2>5
  <2>10. \A w \in DOMAIN n.files : n.files[w] = IF w \in DOMAIN r.files THEN r.files[w] ELSE w.args[1]
    BY <1>1, <2>2, <2>5
  <2>11. IsBroker(n)
    BY <2>2 DEF IsBroker
  <2>12. \A d \in C \cup {c} : Fine(r, d)
    BY <1>1, <1>11
  <2>13. Reached(r, n, C \cup {c})
    BY <2>6, <2>7, <2>8, <2>9, <2>10, <2>11, <2>12 DEF Reached
  <2> QED
    BY <1>11, <2>13 DEF c, n
<1> QED
  BY <1>10, <1>11

----------------------------------------------------------------------------
(* Operations. *)

\* A broker is never taken for a refusal.
LEMMA BrokersAreNotRefused ==
  isRefused(Refused) /\ \A b : IsBroker(b) => ~isRefused(b)
<1>1. ASSUME NEW b, IsBroker(b) PROVE ~isRefused(b)
  <2>1. PICK w, f, i, c, s : b = [workers |-> w, files |-> f, interceptors |-> i, connections |-> c,
                                  allow_self_connect |-> s]
    BY <1>1, Zenon DEF IsBroker
  <2> QED
    BY <2>1 DEF isRefused
<1>2. isRefused(Refused)
  BY DEF isRefused, Refused
<1> QED
  BY <1>1, <1>2

\* An operation is connected if it could always be and connects no workers that
\* are, and refused otherwise.
LEMMA OperationConnects ==
  ASSUME NEW r, NEW b, NEW C, Reached(r, b, C), DOMAIN r.files \subseteq r.workers, NEW op
  PROVE  IF FineOp(r, op) /\ \A c \in Requests(op), d \in C : ~SamePair(c, d)
           THEN Reached(r, connectOp(b, op), C \cup Requests(op)) ELSE connectOp(b, op) = Refused
<1>1. ~isRefused(b) /\ isRefused(Refused)
  BY BrokersAreNotRefused DEF Reached
<1> DEFINE Can(D, c) == Fine(r, c) /\ \A d \in D : ~SamePair(c, d)
<1>2. ASSUME NEW a, NEW D, Reached(r, a, D), NEW producer, NEW consumer, NEW pipe, NEW c,
             c = Request(producer, consumer, pipe)
      PROVE  IF Can(D, c) THEN /\ Reached(r, tryConnecting(a, producer, consumer, pipe), D \cup {c})
                               /\ ~isRefused(tryConnecting(a, producer, consumer, pipe))
             ELSE tryConnecting(a, producer, consumer, pipe) = Refused
  <2>1. IF Can(D, c) THEN Reached(r, tryConnecting(a, producer, consumer, pipe), D \cup {c})
        ELSE tryConnecting(a, producer, consumer, pipe) = Refused
    BY <1>2, OneMoreConnects, Zenon
  <2> HIDE DEF Can
  <2>2. \A n : Reached(r, n, D \cup {c}) => ~isRefused(n)
    BY BrokersAreNotRefused DEF Reached
  <2> QED
    BY <2>1, <2>2
<1>3. CASE isRefused(op)
  BY <1>3 DEF connectOp, FineOp
<1>4. CASE ~isRefused(op) /\ op.type = "normal"
  <2> DEFINE c == Request(op.left, op.right, op.subpipe)
  <2>1. connectOp(b, op) = tryConnecting(b, op.left, op.right, op.subpipe)
    BY <1>1, <1>4 DEF connectOp, initOp
  <2>2. Requests(op) = {c}
    BY <1>4 DEF Requests
  <2> HIDE DEF c
  <2>3. FineOp(r, op) <=> Fine(r, c)
    BY <1>4, <2>2 DEF FineOp
  <2>4. IF Can(C, c) THEN Reached(r, connectOp(b, op), C \cup {c}) ELSE connectOp(b, op) = Refused
    <3> HIDE DEF Can
    <3> QED
      BY <1>2, <2>1 DEF c
  <2> QED
    BY <2>2, <2>3, <2>4
<1>5. CASE ~isRefused(op) /\ op.type = "inverted"
  <2> DEFINE c == Request(op.right, op.left, Reverse(op.subpipe))
  <2>1. connectOp(b, op) = tryConnecting(b, op.right, op.left, Reverse(op.subpipe))
    BY <1>1, <1>5 DEF connectOp, initOp
  <2>2. Requests(op) = {c}
    BY <1>5 DEF Requests
  <2> HIDE DEF c
  <2>3. FineOp(r, op) <=> Fine(r, c)
    BY <1>5, <2>2 DEF FineOp
  <2>4. IF Can(C, c) THEN Reached(r, connectOp(b, op), C \cup {c}) ELSE connectOp(b, op) = Refused
    <3> HIDE DEF Can
    <3> QED
      BY <1>2, <2>1 DEF c
  <2> QED
    BY <2>2, <2>3, <2>4
<1>6. CASE ~isRefused(op) /\ op.type \notin {"normal", "inverted"}
  <2> DEFINE c == Request(op.left, op.right, fakePipe("normal", op.subpipe))
             d == Request(op.right, op.left, fakePipe("inverted", op.subpipe))
             can == \A w \in ToSet(fakePipe("normal", op.subpipe)) : ~isRefused(w)
             there == tryConnecting(b, op.left, op.right, fakePipe("normal", op.subpipe))
             back == tryConnecting(there, op.right, op.left, fakePipe("inverted", op.subpipe))
  <2>1. connectOp(b, op) = IF ~can THEN Refused ELSE IF isRefused(there) THEN Refused ELSE back
    <3>1. connectOp(b, op) = tryCreateBidirConnect(b, op.left, op.right, op.subpipe)
      BY <1>1, <1>6 DEF connectOp, initOp
    <3> QED
      BY <3>1, Zenon DEF tryCreateBidirConnect
  <2>2. Requests(op) = {c, d}
    BY <1>6 DEF Requests
  <2>3. SamePair(c, d) <=> op.left = op.right
    BY DEF SamePair, Request
  <2> HIDE DEF c, d, can
  <2>4. FineOp(r, op) <=> op.left # op.right /\ can /\ Fine(r, c) /\ Fine(r, d)
    BY <1>6, <2>2 DEF FineOp, can
  <2>5. IF Can(C, c) THEN Reached(r, there, C \cup {c}) /\ ~isRefused(there) ELSE there = Refused
    <3> HIDE DEF Can
    <3> QED
      BY <1>2 DEF c
  <2>6. Can(C, c) => IF Can(C \cup {c}, d) THEN Reached(r, back, (C \cup {c}) \cup {d}) ELSE back = Refused
    <3> HIDE DEF Can, there
    <3> QED
      BY <1>2, <2>5 DEF d
  <2>7. \A x, y : SamePair(x, y) <=> SamePair(y, x)
    BY DEF SamePair
  <2>8. Can(C \cup {c}, d) <=> Can(C, d) /\ op.left # op.right
    BY <2>3, <2>7
  <2>9. (C \cup {c}) \cup {d} = C \cup {c, d}
    OBVIOUS
  <2>10. (FineOp(r, op) /\ \A x \in Requests(op), y \in C : ~SamePair(x, y)) <=>
           op.left # op.right /\ can /\ Can(C, c) /\ Can(C, d)
    BY <2>2, <2>4
  <2> HIDE DEF Can, there, back
  <2> QED
    BY <1>1, <2>1, <2>2, <2>5, <2>6, <2>8, <2>9, <2>10
<1> QED
  BY <1>3, <1>4, <1>5, <1>6

\* A refused operation or broker leaves nothing.
LEMMA NothingConnects ==
  \A op : connectOp(Refused, op) = Refused
BY BrokersAreNotRefused DEF connectOp

\* One more operation of a family.
LEMMA OutcomeOfOneMore ==
  ASSUME NEW r, DOMAIN r.files \subseteq r.workers, NEW f, NEW S, NEW b, Outcome(r, f, S, b),
         NEW x, x \notin S
  PROVE  Outcome(r, f, S \cup {x}, connectOp(b, f[x]))
<1> DEFINE C == AllRequests(f, S)
           T == S \cup {x}
           n == connectOp(b, f[x])
<1>1. \A c, d : SamePair(c, d) <=> SamePair(d, c)
  BY DEF SamePair
<1>2. Good(r, f, T) <=>
        /\ Good(r, f, S) /\ FineOp(r, f[x])
        /\ \A c \in Requests(f[x]), d \in C : ~SamePair(c, d)
  BY <1>1 DEF Good, AllRequests
<1>3. AllRequests(f, T) = C \cup Requests(f[x])
  BY DEF AllRequests
<1> HIDE DEF C, T, n
<1>4. CASE ~Good(r, f, S)
  <2>1. b = Refused
    BY <1>4 DEF Outcome
  <2>2. n = Refused
    BY <2>1, NothingConnects DEF n
  <2> QED
    BY <1>2, <1>4, <2>2 DEF Outcome, T, n
<1>5. CASE Good(r, f, S)
  <2>1. Reached(r, b, C)
    BY <1>5 DEF Outcome, C
  <2>2. IF FineOp(r, f[x]) /\ \A c \in Requests(f[x]), d \in C : ~SamePair(c, d)
          THEN Reached(r, n, C \cup Requests(f[x])) ELSE n = Refused
    BY <2>1, OperationConnects, Zenon DEF n
  <2>3. Outcome(r, f, T, n)
    BY <1>2, <1>3, <1>5, <2>2 DEF Outcome
  <2> QED
    BY <2>3 DEF T, n
<1> QED
  BY <1>4, <1>5

----------------------------------------------------------------------------
(* Lines of operations. *)

\* The brokers after each operation of the line s, beginning with b.
LineUpTo(g, n, b, s) == g = [j \in 0..n |-> IF j = 0 THEN b ELSE connectOp(g[j - 1], s[j])]

\* A line is connected up to each of its operations.
LEMMA LineExists ==
  ASSUME NEW n \in Nat, NEW b, NEW s
  PROVE  \E g : LineUpTo(g, n, b, s)
<1> DEFINE Up(g, k) == g = [j \in 0..k |-> IF j = 0 THEN b ELSE connectOp(g[j - 1], s[j])]
           P == {k \in Nat : \E g : Up(g, k)}
<1>1. \E g : Up(g, 0)
  <2> DEFINE g == [j \in 0..0 |-> b]
  <2>1. \A j \in 0..0 : j = 0
    OBVIOUS
  <2>2. Up(g, 0)
    BY <2>1
  <2> QED
    BY <2>2
<1>2. ASSUME NEW k \in Nat, NEW g, Up(g, k) PROVE \E h : Up(h, k + 1)
  <2> DEFINE h == [j \in 0..(k + 1) |-> IF j <= k THEN g[j] ELSE connectOp(g[k], s[k + 1])]
  <2>1. ASSUME NEW j \in 0..(k + 1)
        PROVE  h[j] = IF j = 0 THEN b ELSE connectOp(h[j - 1], s[j])
    <3>1. CASE j = 0
      <4>1. 0 \in 0..k /\ h[j] = g[0]
        BY <3>1
      <4>2. g[0] = b
        BY <1>2, <4>1
      <4> QED
        BY <3>1, <4>1, <4>2
    <3>2. CASE j # 0 /\ j <= k
      <4>1. j \in 0..k /\ j - 1 \in 0..(k + 1) /\ j - 1 <= k
        BY <3>2
      <4>2. h[j] = g[j] /\ h[j - 1] = g[j - 1]
        BY <3>2, <4>1
      <4>3. g[j] = connectOp(g[j - 1], s[j])
        BY <1>2, <3>2, <4>1
      <4> QED
        BY <3>2, <4>2, <4>3
    <3>3. CASE ~(j <= k)
      <4>1. j = k + 1 /\ j - 1 = k /\ k \in 0..(k + 1) /\ k <= k /\ j # 0
        BY <3>3
      <4>2. h[j] = connectOp(g[k], s[k + 1]) /\ h[k] = g[k]
        BY <3>3, <4>1
      <4> QED
        BY <4>1, <4>2
    <3> QED
      BY <3>1, <3>2, <3>3
  <2>2. h = [j \in 0..(k + 1) |-> h[j]]
    OBVIOUS
  <2> HIDE DEF h
  <2>3. Up(h, k + 1)
    BY <2>1, <2>2
  <2> QED
    BY <2>3
<1>3. 0 \in P /\ \A k \in Nat : k \in P => k + 1 \in P
  <2> HIDE DEF Up
  <2> QED
    BY <1>1, <1>2
<1>4. n \in P
  <2> HIDE DEF P
  <2> QED
    BY <1>3, NaturalsInduct
<1> QED
  BY <1>4 DEF LineUpTo

\* Connecting a line goes on one operation at a time.
LEMMA LineSteps ==
  ASSUME NEW b, NEW s, Len(s) \in Nat
  PROVE  \E g : /\ g[0] = b /\ connectLine(b, s) = g[Len(s)]
               /\ \A j \in 1..Len(s) : g[j] = connectOp(g[j - 1], s[j])
<1> PICK n \in Nat : n = Len(s)
  OBVIOUS
<1> DEFINE Own(g) == g = [j \in 0..n |-> IF j = 0 THEN b ELSE connectOp(g[j - 1], s[j])]
           g == CHOOSE h : Own(h)
<1>1. connectLine(b, s) = g[n]
  BY Zenon DEF connectLine
<1>2. Own(g)
  <2>1. \E h : LineUpTo(h, n, b, s)
    BY LineExists, Zenon
  <2>2. \A h : LineUpTo(h, n, b, s) <=> Own(h)
    BY Zenon DEF LineUpTo
  <2> HIDE DEF Own
  <2> QED
    BY <2>1, <2>2
<1> HIDE DEF g
<1>3. g[0] = b
  <2>1. 0 \in 0..n
    OBVIOUS
  <2> QED
    BY <1>2, <2>1
<1>4. ASSUME NEW j \in 1..n PROVE g[j] = connectOp(g[j - 1], s[j])
  <2>1. j \in 0..n /\ j # 0
    OBVIOUS
  <2> QED
    BY <1>2, <2>1
<1> QED
  BY <1>1, <1>3, <1>4

\* The brokers after each of the lines s, beginning with b.
LinesUpTo(g, n, b, s) == g = [j \in 0..n |-> IF j = 0 THEN b ELSE connectLine(g[j - 1], s[j])]

\* Lines are connected up to each of them.
LEMMA LinesExist ==
  ASSUME NEW n \in Nat, NEW b, NEW s
  PROVE  \E g : LinesUpTo(g, n, b, s)
<1> DEFINE Up(g, k) == g = [j \in 0..k |-> IF j = 0 THEN b ELSE connectLine(g[j - 1], s[j])]
           P == {k \in Nat : \E g : Up(g, k)}
<1>1. \E g : Up(g, 0)
  <2> DEFINE g == [j \in 0..0 |-> b]
  <2>1. \A j \in 0..0 : j = 0
    OBVIOUS
  <2>2. Up(g, 0)
    BY <2>1
  <2> QED
    BY <2>2
<1>2. ASSUME NEW k \in Nat, NEW g, Up(g, k) PROVE \E h : Up(h, k + 1)
  <2> DEFINE h == [j \in 0..(k + 1) |-> IF j <= k THEN g[j] ELSE connectLine(g[k], s[k + 1])]
  <2>1. ASSUME NEW j \in 0..(k + 1)
        PROVE  h[j] = IF j = 0 THEN b ELSE connectLine(h[j - 1], s[j])
    <3>1. CASE j = 0
      <4>1. 0 \in 0..k /\ h[j] = g[0]
        BY <3>1
      <4>2. g[0] = b
        BY <1>2, <4>1
      <4> QED
        BY <3>1, <4>1, <4>2
    <3>2. CASE j # 0 /\ j <= k
      <4>1. j \in 0..k /\ j - 1 \in 0..(k + 1) /\ j - 1 <= k
        BY <3>2
      <4>2. h[j] = g[j] /\ h[j - 1] = g[j - 1]
        BY <3>2, <4>1
      <4>3. g[j] = connectLine(g[j - 1], s[j])
        BY <1>2, <3>2, <4>1
      <4> QED
        BY <3>2, <4>2, <4>3
    <3>3. CASE ~(j <= k)
      <4>1. j = k + 1 /\ j - 1 = k /\ k \in 0..(k + 1) /\ k <= k /\ j # 0
        BY <3>3
      <4>2. h[j] = connectLine(g[k], s[k + 1]) /\ h[k] = g[k]
        BY <3>3, <4>1
      <4> QED
        BY <4>1, <4>2
    <3> QED
      BY <3>1, <3>2, <3>3
  <2>2. h = [j \in 0..(k + 1) |-> h[j]]
    OBVIOUS
  <2> HIDE DEF h
  <2>3. Up(h, k + 1)
    BY <2>1, <2>2
  <2> QED
    BY <2>3
<1>3. 0 \in P /\ \A k \in Nat : k \in P => k + 1 \in P
  <2> HIDE DEF Up
  <2> QED
    BY <1>1, <1>2
<1>4. n \in P
  <2> HIDE DEF P
  <2> QED
    BY <1>3, NaturalsInduct
<1> QED
  BY <1>4 DEF LinesUpTo

\* Connecting lines goes on one line at a time.
LEMMA LinesSteps ==
  ASSUME NEW b, NEW s, Len(s) \in Nat
  PROVE  \E g : /\ g[0] = b /\ connectLines(b, s) = g[Len(s)]
               /\ \A j \in 1..Len(s) : g[j] = connectLine(g[j - 1], s[j])
<1> PICK n \in Nat : n = Len(s)
  OBVIOUS
<1> DEFINE Own(g) == g = [j \in 0..n |-> IF j = 0 THEN b ELSE connectLine(g[j - 1], s[j])]
           g == CHOOSE h : Own(h)
<1>1. connectLines(b, s) = g[n]
  BY Zenon DEF connectLines
<1>2. Own(g)
  <2>1. \E h : LinesUpTo(h, n, b, s)
    BY LinesExist, Zenon
  <2>2. \A h : LinesUpTo(h, n, b, s) <=> Own(h)
    BY Zenon DEF LinesUpTo
  <2> HIDE DEF Own
  <2> QED
    BY <2>1, <2>2
<1> HIDE DEF g
<1>3. g[0] = b
  <2>1. 0 \in 0..n
    OBVIOUS
  <2> QED
    BY <1>2, <2>1
<1>4. ASSUME NEW j \in 1..n PROVE g[j] = connectLine(g[j - 1], s[j])
  <2>1. j \in 0..n /\ j # 0
    OBVIOUS
  <2> QED
    BY <1>2, <2>1
<1> QED
  BY <1>1, <1>3, <1>4

\* One more line of a family.
LEMMA OutcomeOfLine ==
  ASSUME NEW r, DOMAIN r.files \subseteq r.workers, NEW f, NEW S, NEW b, Outcome(r, f, S, b),
         NEW line, Len(line) \in Nat, NEW i,
         \A j \in 1..Len(line) : <<i, j>> \notin S /\ f[<<i, j>>] = line[j]
  PROVE  Outcome(r, f, S \cup ({i} \X (1..Len(line))), connectLine(b, line))
<1> PICK n \in Nat : n = Len(line)
  OBVIOUS
<1>1. PICK g : /\ g[0] = b /\ connectLine(b, line) = g[n]
              /\ \A j \in 1..n : g[j] = connectOp(g[j - 1], line[j])
  BY LineSteps
<1> DEFINE Upto(k) == S \cup ({i} \X (1..k))
           P == {k \in Nat : k <= n => Outcome(r, f, Upto(k), g[k])}
<1>2. 0 \in P
  <2>1. Upto(0) = S
    <3>1. 1..0 = {}
      OBVIOUS
    <3> QED
      BY <3>1
  <2> HIDE DEF Upto
  <2> QED
    BY <1>1, <2>1
<1>3. ASSUME NEW k \in Nat, k \in P PROVE k + 1 \in P
  <2> SUFFICES ASSUME k + 1 <= n PROVE Outcome(r, f, Upto(k + 1), g[k + 1])
    OBVIOUS
  <2>1. k + 1 \in 1..n /\ (k + 1) - 1 = k /\ k <= n
    OBVIOUS
  <2>2. Upto(k + 1) = Upto(k) \cup {<<i, k + 1>>}
    <3>1. 1..(k + 1) = (1..k) \cup {k + 1}
      BY OneMoreInRange
    <3> QED
      BY <3>1
  <2>3. <<i, k + 1>> \notin Upto(k)
    <3>1. k + 1 \notin 1..k
      OBVIOUS
    <3> QED
      BY <2>1, <3>1
  <2>4. g[k + 1] = connectOp(g[k], f[<<i, k + 1>>])
    <3>1. g[k + 1] = connectOp(g[(k + 1) - 1], line[k + 1])
      BY <1>1, <2>1
    <3> QED
      BY <2>1, <3>1
  <2>5. Outcome(r, f, Upto(k), g[k])
    BY <1>3, <2>1
  <2> HIDE DEF Upto
  <2>6. Outcome(r, f, Upto(k) \cup {<<i, k + 1>>}, connectOp(g[k], f[<<i, k + 1>>]))
    BY <2>3, <2>5, OutcomeOfOneMore
  <2> QED
    BY <2>2, <2>4, <2>6
<1>4. n \in P
  <2> HIDE DEF P
  <2> QED
    BY <1>2, <1>3, NaturalsInduct
<1> QED
  BY <1>1, <1>4

\* What connecting lines leaves.
LEMMA OutcomeOfLines ==
  ASSUME NEW r, DOMAIN r.files \subseteq r.workers, Reached(r, r, {}),
         NEW all, Len(all) \in Nat, DOMAIN all = 1..Len(all),
         \A i \in 1..Len(all) : Len(all[i]) \in Nat /\ DOMAIN all[i] = 1..Len(all[i])
  PROVE  Outcome(r, OpAt(all), Places(all), connectLines(r, all))
<1> PICK n \in Nat : n = Len(all)
  OBVIOUS
<1>1. PICK g : /\ g[0] = r /\ connectLines(r, all) = g[n]
              /\ \A j \in 1..n : g[j] = connectLine(g[j - 1], all[j])
  BY LinesSteps
<1> DEFINE f == OpAt(all)
           Upto(k) == UNION {{i} \X DOMAIN all[i] : i \in 1..k}
           P == {k \in Nat : k <= n => Outcome(r, f, Upto(k), g[k])}
<1>0. \A x \in Places(all) : f[x] = all[x[1]][x[2]]
  BY DEF OpAt
<1> HIDE DEF f
<1>2. 0 \in P
  <2>1. Upto(0) = {}
    <3>1. 1..0 = {}
      OBVIOUS
    <3> QED
      BY <3>1
  <2>2. Outcome(r, f, {}, r)
    <3>1. AllRequests(f, {}) = {} /\ Good(r, f, {})
      BY DEF AllRequests, Good
    <3> QED
      BY <3>1 DEF Outcome
  <2> HIDE DEF Upto
  <2> QED
    BY <1>1, <2>1, <2>2
<1>3. ASSUME NEW k \in Nat, k \in P PROVE k + 1 \in P
  <2> HIDE DEF Upto
  <2> SUFFICES ASSUME k + 1 <= n PROVE Outcome(r, f, Upto(k + 1), g[k + 1])
    OBVIOUS
  <2>1. k + 1 \in 1..n /\ (k + 1) - 1 = k /\ k <= n
    OBVIOUS
  <2> PICK line : line = all[k + 1]
    OBVIOUS
  <2>2. Len(line) \in Nat /\ DOMAIN line = 1..Len(line)
    BY <2>1
  <2>3. Upto(k + 1) = Upto(k) \cup ({k + 1} \X (1..Len(line)))
    <3>1. 1..(k + 1) = (1..k) \cup {k + 1}
      BY OneMoreInRange
    <3> QED
      BY <2>2, <3>1 DEF Upto
  <2>4. ASSUME NEW j \in 1..Len(line) PROVE <<k + 1, j>> \notin Upto(k) /\ f[<<k + 1, j>>] = line[j]
    <3>1. k + 1 \notin 1..k
      OBVIOUS
    <3>2. <<k + 1, j>> \in Places(all)
      BY <2>1, <2>2 DEF Places
    <3> QED
      BY <1>0, <3>1, <3>2 DEF Upto
  <2>5. g[k + 1] = connectLine(g[k], line)
    <3>1. g[k + 1] = connectLine(g[(k + 1) - 1], all[k + 1])
      BY <1>1, <2>1
    <3> QED
      BY <2>1, <3>1
  <2>6. Outcome(r, f, Upto(k), g[k])
    BY <1>3, <2>1
  <2>7. Outcome(r, f, Upto(k) \cup ({k + 1} \X (1..Len(line))), connectLine(g[k], line))
    BY <2>2, <2>4, <2>6, OutcomeOfLine
  <2> QED
    BY <2>3, <2>5, <2>7
<1>4. n \in P
  <2> HIDE DEF P
  <2> QED
    BY <1>2, <1>3, NaturalsInduct
<1>5. Upto(n) = Places(all)
  BY DEF Places
<1> HIDE DEF Upto
<1>6. Outcome(r, f, Places(all), connectLines(r, all))
  BY <1>1, <1>4, <1>5
<1> QED
  BY <1>6 DEF f

\* The items of a text that end an operation, and the operations they end.
Ending(p, n) == {k \in 1..n : ~p.items[k + 1].star}
OpsTo(p, n) == [k \in 1..n |-> operationTo(p, k)]

\* The operations of a text are those that end with its workers, in order.
LEMMA OperationsKept ==
  ASSUME NEW p, NEW n \in Nat, Len(p.items) = n + 1
  PROVE  \E f : KeptFrom(f, operations(p), n, Ending(p, n), OpsTo(p, n))
                /\ operations(p) \in Seq({operationTo(p, k) : k \in 1..n})
<1> DEFINE K == Ending(p, n)
           v == OpsTo(p, n)
           S == {operationTo(p, k) : k \in 1..n}
           Own(f) == f = [i \in 0..(Len(p.items) - 1) |->
                            IF i = 0 THEN <<>>
                            ELSE IF p.items[i + 1].star THEN f[i - 1]
                                 ELSE Append(f[i - 1], operationTo(p, i))]
<1>0. Len(p.items) - 1 = n
  OBVIOUS
<1>1. v \in [1..n -> S]
  BY DEF OpsTo
<1>2. ASSUME NEW f PROVE Own(f) <=> StepsOf(f, n, K, v)
  <2> DEFINE a(k) == IF k = 0 THEN <<>>
                     ELSE IF p.items[k + 1].star THEN f[k - 1]
                          ELSE Append(f[k - 1], operationTo(p, k))
             b(k) == IF k = 0 THEN <<>>
                     ELSE IF k \in K THEN Append(f[k - 1], v[k]) ELSE f[k - 1]
  <2>1. ASSUME NEW k \in 0..n PROVE a(k) = b(k)
    <3>1. CASE k = 0
      BY <3>1
    <3>2. CASE k # 0
      <4>1. k \in 1..n
        BY <3>2
      <4>2. v[k] = operationTo(p, k) /\ (k \in K <=> ~p.items[k + 1].star)
        BY <4>1 DEF Ending, OpsTo
      <4> HIDE DEF K, v
      <4> QED
        BY <3>2, <4>2
    <3> QED
      BY <3>1, <3>2
  <2>2. Own(f) <=> f = [k \in 0..(Len(p.items) - 1) |-> a(k)]
    BY Zenon
  <2>3. StepsOf(f, n, K, v) <=> f = [k \in 0..n |-> b(k)]
    BY Zenon DEF StepsOf
  <2> HIDE DEF a, b, Own
  <2>4. [k \in 0..n |-> a(k)] = [k \in 0..n |-> b(k)]
    BY <2>1
  <2>5. Own(f) <=> f = [k \in 0..n |-> a(k)]
    BY <1>0, <2>2, Zenon
  <2> QED
    BY <2>3, <2>4, <2>5
<1>3. \E f : Own(f)
  <2> HIDE DEF K, v, Own
  <2>1. \E f : StepsOf(f, n, K, v)
    BY <1>1, StepsExist
  <2> QED
    BY <1>2, <2>1
<1>4. operations(p) = (CHOOSE f : Own(f))[n]
  <2>1. operations(p) = (CHOOSE f : Own(f))[Len(p.items) - 1]
    BY Zenon DEF operations
  <2> HIDE DEF Own
  <2> QED
    BY <1>0, <2>1, Zenon
<1> HIDE DEF Own, K, v
<1>5. StepsOf(CHOOSE f : Own(f), n, K, v)
  <2>1. Own(CHOOSE f : Own(f))
    BY <1>3, Zenon
  <2> QED
    BY <1>2, <2>1
<1>9. \A k \in K \cap (1..n) : v[k] \in S
  BY <1>1
<1> HIDE DEF S
<1>6. Kept(operations(p), n, K, v, S)
  <2>1. Kept((CHOOSE f : Own(f))[n], n, K, v, S)
    BY <1>1, <1>5, StepsKeep
  <2> QED
    BY <1>4, <2>1
<1>7. operations(p) \in Seq(S)
  <2>1. n \in 0..n
    OBVIOUS
  <2> QED
    BY <1>6, <2>1 DEF Kept
<1>8. \E f : KeptFrom(f, operations(p), n, K, v)
  BY <1>6, <1>9, KeptInPlace
<1> QED
  BY <1>7, <1>8 DEF K, v, S

----------------------------------------------------------------------------
(* Texts written backwards. *)

\* Operations that ask for the same, and can be done by the same brokers.
Alike(a, b) == Requests(a) = Requests(b) /\ \A r : FineOp(r, a) <=> FineOp(r, b)

\* An operation by its fields, and a sequence with its reverse.
Operation(left, right, type, subpipe) ==
  [left |-> left, right |-> right, type |-> type, subpipe |-> subpipe]
Backwards(s, t, m) == s = [x \in 1..m |-> s[x]] /\ t = [x \in 1..m |-> s[m - x + 1]]

\* A pipe written from right to left asks for what it does from left to right.
LEMMA OppositeOperations ==
  ASSUME NEW left, NEW right, NEW m \in Nat, NEW s, NEW t, Backwards(s, t, m)
  PROVE  Alike(Operation(left, right, "normal", s), Operation(right, left, "inverted", t))
<1> DEFINE a == Operation(left, right, "normal", s)
           b == Operation(right, left, "inverted", t)
<1>0. s = [x \in 1..m |-> s[x]] /\ t = [x \in 1..m |-> s[m - x + 1]]
  BY DEF Backwards
<1>1. Len(t) = m /\ DOMAIN t = 1..m /\ \A x \in 1..m : t[x] = s[m - x + 1]
  BY <1>0
<1>2. Reverse(t) = s
  <2>1. Reverse(t) = [x \in 1..m |-> t[m - x + 1]]
    BY <1>1 DEF Reverse
  <2>2. ASSUME NEW x \in 1..m PROVE t[m - x + 1] = s[x]
    <3>1. m - x + 1 \in 1..m /\ m - (m - x + 1) + 1 = x
      OBVIOUS
    <3> QED
      BY <1>1, <3>1
  <2> QED
    BY <1>0, <2>1, <2>2
<1>3. /\ a.left = left /\ a.right = right /\ a.type = "normal" /\ a.subpipe = s
      /\ b.left = right /\ b.right = left /\ b.type = "inverted" /\ b.subpipe = t
      /\ ~isRefused(a) /\ ~isRefused(b)
  BY DEF isRefused, Operation
<1> HIDE DEF a, b
<1>4. Requests(a) = Requests(b)
  BY <1>2, <1>3 DEF Requests
<1>5. \A r : FineOp(r, a) <=> FineOp(r, b)
  BY <1>3, <1>4 DEF FineOp
<1> QED
  BY <1>4, <1>5 DEF Alike, a, b

\* The direction of a splitter read from the other side.
turned == [normal |-> "inverted", inverted |-> "normal"]

\* q is p from right to left, n splitters long.
Mirrored(p, q, n) ==
  /\ \A i \in 1..(n + 1) : p.items[i].star \in BOOLEAN /\ q.items[i] = p.items[n + 2 - i]
  /\ \A i \in 1..n : p.splitters[i].dir \in {"normal", "inverted"}
                     /\ q.splitters[i].dir = turned[p.splitters[n + 1 - i].dir]

\* If q is p from right to left, p is q from right to left.
LEMMA MirroredBack ==
  ASSUME NEW n \in Nat, NEW p, NEW q, Mirrored(p, q, n)
  PROVE  Mirrored(q, p, n)
<1>1. ASSUME NEW i \in 1..(n + 1) PROVE q.items[i].star \in BOOLEAN /\ p.items[i] = q.items[n + 2 - i]
  <2>1. n + 2 - i \in 1..(n + 1) /\ n + 2 - (n + 2 - i) = i
    OBVIOUS
  <2> QED
    BY <2>1 DEF Mirrored
<1>2. ASSUME NEW i \in 1..n
      PROVE  /\ q.splitters[i].dir \in {"normal", "inverted"}
             /\ p.splitters[i].dir = turned[q.splitters[n + 1 - i].dir]
  <2>1. n + 1 - i \in 1..n /\ n + 1 - (n + 1 - i) = i
    OBVIOUS
  <2>2. turned["normal"] = "inverted" /\ turned["inverted"] = "normal"
    BY DEF turned
  <2> QED
    BY <2>1, <2>2 DEF Mirrored
<1> QED
  BY <1>1, <1>2 DEF Mirrored

\* The item an operation begins with.
From(p, k) == Max({x \in 1..k : ~p.items[x].star})

\* An operation begins with the last worker before its end; all between are pipes.
LEMMA FromFacts ==
  ASSUME NEW p, ~p.items[1].star, NEW n \in Nat, NEW k \in 1..n
  PROVE  /\ From(p, k) \in 1..k /\ From(p, k) \in 1..n
         /\ ~p.items[From(p, k)].star
         /\ \A x \in 1..k : x > From(p, k) => p.items[x].star
<1> DEFINE T == {x \in 1..k : ~p.items[x].star}
<1>1. T \in SUBSET (1..k) /\ 1 \in T /\ k \in Nat
  OBVIOUS
<1>2. Max(T) \in T /\ \A y \in T : y <= Max(T)
  <2> HIDE DEF T
  <2> QED
    BY <1>1, MaxFacts
<1>3. From(p, k) = Max(T)
  BY DEF From
<1> PICK m : m = From(p, k)
  OBVIOUS
<1>4. m \in T /\ \A y \in T : y <= m
  <2> HIDE DEF T
  <2> QED
    BY <1>2, <1>3
<1> QED
  BY <1>4

\* An operation of a text, and the one that is it in the text backwards.
LEMMA MirroredOperation ==
  ASSUME NEW n \in Nat, NEW p, NEW q, Mirrored(p, q, n), ~p.items[1].star, ~q.items[1].star,
         NEW k \in Ending(p, n), NEW a, a = From(p, k), NEW l, l = n + 1 - a
  PROVE  /\ l \in Ending(q, n) /\ From(q, l) = n + 1 - k
         /\ isRefused(operationTo(p, k)) <=> isRefused(operationTo(q, l))
         /\ Alike(operationTo(p, k), operationTo(q, l))
<1>1. k \in 1..n /\ ~p.items[k + 1].star
  BY DEF Ending
<1>2. a \in 1..k /\ a \in 1..n /\ ~p.items[a].star /\ \A x \in 1..k : x > a => p.items[x].star
  BY <1>1, FromFacts
<1>3. \A i \in 1..(n + 1) : q.items[i] = p.items[n + 2 - i]
  BY DEF Mirrored
<1>4. l \in 1..n /\ ~q.items[l + 1].star
  <2>1. l + 1 \in 1..(n + 1) /\ n + 2 - (l + 1) = a /\ l \in 1..n
    BY <1>2
  <2> QED
    BY <1>2, <1>3, <2>1
<1> DEFINE c == n + 1 - k
<1>5. From(q, l) = c
  <2> PICK d : d = From(q, l)
    OBVIOUS
  <2>1. d \in 1..l /\ ~q.items[d].star /\ \A x \in 1..l : x > d => q.items[x].star
    BY <1>4, FromFacts
  <2>2. c \in 1..l /\ c \in 1..(n + 1) /\ n + 2 - c = k + 1
    BY <1>1, <1>2
  <2>3. q.items[c] = p.items[k + 1]
    BY <1>3, <2>2
  <2>4. ~(c > d)
    BY <1>1, <2>1, <2>2, <2>3
  <2>5. ASSUME d > c PROVE FALSE
    <3>1. d \in 1..(n + 1) /\ n + 2 - d \in 1..k /\ n + 2 - d > a
      BY <1>1, <1>2, <1>4, <2>1, <2>5
    <3>2. q.items[d] = p.items[n + 2 - d]
      BY <1>3, <3>1
    <3> QED
      BY <1>2, <2>1, <3>1, <3>2
  <2>6. d \in Int /\ c \in Int
    BY <1>1, <2>1
  <2>7. d = c
    BY <2>4, <2>5, <2>6
  <2> QED
    BY <2>7
<1> DEFINE one == p.splitters[a].dir
           mixed == \E j \in a..k : p.splitters[j].dir # one
           op == [left |-> p.items[a].word, right |-> p.items[k + 1].word, type |-> one,
                  subpipe |-> [x \in 1..(k - a) |-> p.items[a + x].word]]
           other == q.splitters[c].dir
           mixed2 == \E j \in c..l : q.splitters[j].dir # other
           op2 == [left |-> q.items[c].word, right |-> q.items[l + 1].word, type |-> other,
                   subpipe |-> [x \in 1..(l - c) |-> q.items[c + x].word]]
<1>6. one \in {"normal", "inverted"} /\ \A j \in a..k : p.splitters[j].dir \in {"normal", "inverted"}
  <2>1. \A j \in a..k : j \in 1..n
    BY <1>1, <1>2
  <2> QED
    BY <1>2, <2>1 DEF Mirrored
<1>7. other \in {"normal", "inverted"}
  <2>1. c \in 1..n
    BY <1>1
  <2>2. Mirrored(q, p, n)
    BY MirroredBack
  <2> HIDE DEF c
  <2> QED
    BY <2>1, <2>2 DEF Mirrored
<1>8. operationTo(p, k) = IF mixed THEN Refused ELSE op
  <2> DEFINE from == Max({x \in 1..k : ~p.items[x].star})
             first == p.splitters[from]
  <2>1. operationTo(p, k) =
          IF \/ \E j \in from..k : p.splitters[j].dir # first.dir
             \/ first.dir = "bidirectional" /\ from # k
          THEN Refused
          ELSE [left |-> p.items[from].word, right |-> p.items[k + 1].word, type |-> first.dir,
                subpipe |-> IF first.dir = "bidirectional" THEN first.between
                            ELSE [x \in 1..(k - from) |-> p.items[from + x].word]]
    BY Zenon DEF operationTo
  <2>2. from = a
    BY Zenon DEF From
  <2> HIDE DEF from
  <2> QED
    BY <1>6, <2>1, <2>2
<1>9. operationTo(q, l) = IF mixed2 THEN Refused ELSE op2
  <2> DEFINE from == Max({x \in 1..l : ~q.items[x].star})
             first == q.splitters[from]
  <2>1. operationTo(q, l) =
          IF \/ \E j \in from..l : q.splitters[j].dir # first.dir
             \/ first.dir = "bidirectional" /\ from # l
          THEN Refused
          ELSE [left |-> q.items[from].word, right |-> q.items[l + 1].word, type |-> first.dir,
                subpipe |-> IF first.dir = "bidirectional" THEN first.between
                            ELSE [x \in 1..(l - from) |-> q.items[from + x].word]]
    BY Zenon DEF operationTo
  <2>2. from = c
    BY <1>5, Zenon DEF From
  <2> HIDE DEF from, c
  <2> QED
    BY <1>7, <2>1, <2>2
<1>10. ASSUME NEW j \in c..l
       PROVE  n + 1 - j \in a..k /\ q.splitters[j].dir = turned[p.splitters[n + 1 - j].dir]
  <2>1. j \in 1..n /\ n + 1 - j \in a..k
    BY <1>1, <1>2
  <2> QED
    BY <2>1 DEF Mirrored
<1>11. ASSUME NEW j \in a..k
       PROVE  n + 1 - j \in c..l /\ n + 1 - (n + 1 - j) = j
  BY <1>1, <1>2
<1>12. turned["normal"] = "inverted" /\ turned["inverted"] = "normal"
  BY DEF turned
<1>13. c \in c..l /\ n + 1 - c = k /\ a \in a..k /\ k \in a..k
  BY <1>1, <1>2
<1>14. mixed <=> mixed2
  <2>1. \A j \in a..k : q.splitters[n + 1 - j].dir = turned[p.splitters[j].dir]
    BY <1>10, <1>11
  <2>2. other = turned[p.splitters[k].dir]
    BY <1>10, <1>13
  <2> HIDE DEF c
  <2>3. ASSUME ~mixed PROVE ~mixed2
    <3>1. \A j \in a..k : p.splitters[j].dir = one
      BY <2>3
    <3> QED
      BY <1>10, <1>13, <2>2, <3>1
  <2>4. ASSUME ~mixed2 PROVE ~mixed
    <3>1. \A j \in a..k : turned[p.splitters[j].dir] = other
      BY <1>11, <2>1, <2>4
    <3> QED
      BY <1>6, <1>12, <1>13, <3>1
  <2> QED
    BY <2>3, <2>4
<1>15. ASSUME ~mixed
       PROVE  /\ other = turned[one]
              /\ op2.left = op.right /\ op2.right = op.left /\ k - a \in Nat
              /\ op2.subpipe = [x \in 1..(k - a) |-> op.subpipe[(k - a) - x + 1]]
  <2>1. other = turned[one]
    BY <1>10, <1>13, <1>15
  <2>2. q.items[c].word = p.items[k + 1].word
    <3>1. c \in 1..(n + 1) /\ n + 2 - c = k + 1
      BY <1>1
    <3> QED
      BY <1>3, <3>1
  <2>3. q.items[l + 1].word = p.items[a].word
    <3>1. l + 1 \in 1..(n + 1) /\ n + 2 - (l + 1) = a
      BY <1>2
    <3> QED
      BY <1>3, <3>1
  <2>4. l - c = k - a /\ k - a \in Nat
    BY <1>1, <1>2
  <2>5. ASSUME NEW x \in 1..(k - a)
        PROVE  q.items[c + x].word = op.subpipe[(k - a) - x + 1]
    <3>1. c + x \in 1..(n + 1) /\ (k - a) - x + 1 \in 1..(k - a)
          /\ n + 2 - (c + x) = a + ((k - a) - x + 1)
      BY <1>1, <1>2
    <3>2. q.items[c + x] = p.items[a + ((k - a) - x + 1)]
      BY <1>3, <3>1
    <3>3. op.subpipe[(k - a) - x + 1] = p.items[a + ((k - a) - x + 1)].word
      BY <3>1
    <3> QED
      BY <3>2, <3>3
  <2>6. op2.subpipe = [x \in 1..(k - a) |-> q.items[c + x].word]
    BY <2>4
  <2> QED
    BY <2>1, <2>2, <2>3, <2>4, <2>5, <2>6
<1>16. isRefused(Refused) /\ ~isRefused(op) /\ ~isRefused(op2)
  BY DEF isRefused, Refused
<1>17. Alike(operationTo(p, k), operationTo(q, l))
  <2>1. CASE mixed
    <3>1. operationTo(p, k) = operationTo(q, l)
      BY <1>8, <1>9, <1>14, <2>1
    <3> QED
      BY <3>1 DEF Alike
  <2>2. CASE ~mixed
    <3> PICK m \in Nat : m = k - a
      BY <1>15, <2>2
    <3> PICK s : s = op.subpipe
      OBVIOUS
    <3> PICK t : t = op2.subpipe
      OBVIOUS
    <3> PICK left : left = op.left
      OBVIOUS
    <3> PICK right : right = op.right
      OBVIOUS
    <3>1. Backwards(s, t, m)
      BY <1>15, <2>2 DEF Backwards
    <3>2. Backwards(t, s, m)
      <4>1. \A x \in 1..m : m - x + 1 \in 1..m /\ m - (m - x + 1) + 1 = x
        OBVIOUS
      <4> HIDE DEF op, op2
      <4> QED
        BY <3>1, <4>1 DEF Backwards
    <3>3. op = Operation(left, right, one, s)
      BY DEF Operation
    <3>4. op2 = Operation(right, left, other, t)
      BY <1>15, <2>2 DEF Operation
    <3>5. Alike(op, op2)
      <4>1. CASE one = "normal"
        <5>1. other = "inverted"
          BY <1>12, <1>15, <2>2, <4>1
        <5>2. Alike(Operation(left, right, "normal", s), Operation(right, left, "inverted", t))
          BY <3>1, OppositeOperations
        <5> HIDE DEF op, op2, one, other
        <5> QED
          BY <3>3, <3>4, <4>1, <5>1, <5>2
      <4>2. CASE one = "inverted"
        <5>1. other = "normal"
          BY <1>12, <1>15, <2>2, <4>2
        <5>2. Alike(Operation(right, left, "normal", t), Operation(left, right, "inverted", s))
          BY <3>2, OppositeOperations
        <5> HIDE DEF op, op2, one, other
        <5>3. Alike(op2, op)
          BY <3>3, <3>4, <4>2, <5>1, <5>2
        <5> QED
          BY <5>3 DEF Alike
      <4> QED
        BY <1>6, <4>1, <4>2
    <3> HIDE DEF op, op2
    <3> QED
      BY <1>8, <1>9, <1>14, <2>2, <3>5
  <2> QED
    BY <2>1, <2>2
<1> HIDE DEF op, op2, c
<1> QED
  BY <1>4, <1>5, <1>8, <1>9, <1>14, <1>16, <1>17 DEF Ending, c

\* Each operation of F is one of G, and no two the same.
Embeds(h, F, G) ==
  /\ h \in [1..Len(F) -> 1..Len(G)]
  /\ \A x, y \in 1..Len(F) : h[x] = h[y] => x = y
  /\ \A x \in 1..Len(F) : Alike(F[x], G[h[x]])

\* Some operation of the line cannot be parsed.
AnyRefused(F) == \E x \in 1..Len(F) : isRefused(F[x])

\* The operations of a text are in the text backwards.
LEMMA OperationsEmbed ==
  ASSUME NEW n \in Nat, NEW p, NEW q, Len(p.items) = n + 1, Len(q.items) = n + 1,
         Mirrored(p, q, n), ~p.items[1].star, ~q.items[1].star
  PROVE  \E h : /\ Embeds(h, operations(p), operations(q))
                /\ AnyRefused(operations(p)) => AnyRefused(operations(q))
<1>0. \A j, k \in 1..n : j < k => j + 1 \in 1..k
  OBVIOUS
<1> PICK F : F = operations(p)
  OBVIOUS
<1> PICK G : G = operations(q)
  OBVIOUS
<1>1. PICK f : KeptFrom(f, F, n, Ending(p, n), OpsTo(p, n))
  BY OperationsKept
<1>2. PICK g : KeptFrom(g, G, n, Ending(q, n), OpsTo(q, n))
  BY OperationsKept
<1>3. Len(F) \in Nat /\ Len(G) \in Nat
  BY OperationsKept
<1> PICK a \in Nat : a = Len(F)
  BY <1>3
<1> PICK b \in Nat : b = Len(G)
  BY <1>3
<1>4. /\ f \in [1..a -> 1..n] /\ \A x \in 1..a : f[x] \in Ending(p, n) /\ F[x] = operationTo(p, f[x])
      /\ \A x, y \in 1..a : x < y => f[x] < f[y]
  BY <1>1 DEF KeptFrom, OpsTo
<1>5. /\ g \in [1..b -> 1..n] /\ \A x \in 1..b : G[x] = operationTo(q, g[x])
      /\ \A l \in Ending(q, n) : \E y \in 1..b : g[y] = l
  BY <1>2 DEF KeptFrom, OpsTo, Ending
<1> DEFINE l(x) == n + 1 - From(p, f[x])
           h == [x \in 1..a |-> CHOOSE y \in 1..b : g[y] = l(x)]
<1>6. ASSUME NEW x \in 1..a
      PROVE  /\ l(x) \in Ending(q, n) /\ From(p, f[x]) \in 1..f[x]
             /\ Alike(F[x], operationTo(q, l(x)))
             /\ isRefused(F[x]) <=> isRefused(operationTo(q, l(x)))
  <2> PICK k : k = f[x]
    OBVIOUS
  <2>1. k \in Ending(p, n) /\ k \in 1..n /\ F[x] = operationTo(p, k)
    BY <1>4
  <2> PICK c : c = From(p, k)
    OBVIOUS
  <2>2. c \in 1..k
    BY <2>1, FromFacts
  <2> PICK d : d = n + 1 - c
    OBVIOUS
  <2>3. /\ d \in Ending(q, n)
        /\ isRefused(operationTo(p, k)) <=> isRefused(operationTo(q, d))
        /\ Alike(operationTo(p, k), operationTo(q, d))
    BY <2>1, MirroredOperation
  <2> QED
    BY <2>1, <2>2, <2>3
<1>7. ASSUME NEW x \in 1..a
      PROVE  h[x] \in 1..b /\ g[h[x]] = l(x)
  <2>1. \E y \in 1..b : g[y] = l(x)
    BY <1>5, <1>6
  <2> HIDE DEF l
  <2> QED
    BY <2>1
<1>8. h \in [1..a -> 1..b]
  BY <1>7
<1>9. ASSUME NEW x \in 1..a, NEW y \in 1..a, f[x] < f[y] PROVE From(p, f[x]) < From(p, f[y])
  <2> PICK j : j = f[x]
    OBVIOUS
  <2> PICK k : k = f[y]
    OBVIOUS
  <2>1. j \in Ending(p, n) /\ j \in 1..n /\ k \in 1..n /\ j < k
    BY <1>4, <1>9
  <2>2. From(p, k) \in 1..k /\ \A z \in 1..k : z > From(p, k) => p.items[z].star
    BY <2>1, FromFacts
  <2>3. From(p, j) \in 1..j
    BY <2>1, FromFacts
  <2>4. j + 1 \in 1..k /\ ~p.items[j + 1].star
    <3>1. ~p.items[j + 1].star
      BY <2>1 DEF Ending
    <3> HIDE DEF l, h
    <3> QED
      BY <1>0, <2>1, <3>1
  <2>5. ~(j + 1 > From(p, k))
    BY <2>2, <2>4
  <2>6. From(p, j) < From(p, k)
    BY <2>1, <2>2, <2>3, <2>5
  <2> QED
    BY <2>6
<1>10. ASSUME NEW x \in 1..a, NEW y \in 1..a, h[x] = h[y] PROVE x = y
  <2>1. l(x) = l(y)
    BY <1>7, <1>10
  <2>2. From(p, f[x]) \in 1..f[x] /\ From(p, f[y]) \in 1..f[y] /\ f[x] \in 1..n /\ f[y] \in 1..n
    BY <1>4, <1>6
  <2>3. From(p, f[x]) = From(p, f[y])
    BY <2>1, <2>2
  <2>4. ~(f[x] < f[y]) /\ ~(f[y] < f[x])
    BY <1>9, <2>2, <2>3
  <2>5. ~(x < y) /\ ~(y < x)
    BY <1>4, <2>4
  <2> QED
    BY <2>5
<1>11. ASSUME NEW x \in 1..a PROVE Alike(F[x], G[h[x]]) /\ (isRefused(F[x]) <=> isRefused(G[h[x]]))
  <2>1. G[h[x]] = operationTo(q, l(x))
    BY <1>5, <1>7
  <2> HIDE DEF l, h
  <2> QED
    BY <1>6, <2>1
<1> HIDE DEF l, h
<1>12. Embeds(h, F, G)
  BY <1>8, <1>10, <1>11 DEF Embeds
<1>13. AnyRefused(F) => AnyRefused(G)
  BY <1>7, <1>11 DEF AnyRefused
<1> QED
  BY <1>12, <1>13

\* What parsing a text gives is a sequence.
LEMMA ParsedType ==
  ASSUME NEW n \in Nat, NEW p, Len(p.items) = n + 1
  PROVE  Len(parsePipeline(p)) \in Nat /\ DOMAIN parsePipeline(p) = 1..Len(parsePipeline(p))
<1>1. Len(operations(p)) \in Nat /\ DOMAIN operations(p) = 1..Len(operations(p))
  BY OperationsKept
<1>2. Len(<<Refused>>) \in Nat /\ DOMAIN <<Refused>> = 1..Len(<<Refused>>)
  OBVIOUS
<1>3. parsePipeline(p) = operations(p) \/ parsePipeline(p) = <<Refused>>
  BY Zenon DEF parsePipeline
<1> QED
  BY <1>1, <1>2, <1>3, Zenon

\* A line of operations is in itself.
LEMMA EmbedsItself ==
  ASSUME NEW F
  PROVE  \E h : Embeds(h, F, F)
<1> DEFINE h == [x \in 1..Len(F) |-> x]
<1>1. Embeds(h, F, F)
  BY DEF Embeds, Alike
<1> QED
  BY <1>1

\* A text is parsed to operations of the text backwards, or both are refused.
LEMMA ParsedEmbed ==
  ASSUME NEW n \in Nat, NEW p, NEW q, Len(p.items) = n + 1, Len(q.items) = n + 1,
         Mirrored(p, q, n)
  PROVE  \E h : Embeds(h, parsePipeline(p), parsePipeline(q))
<1> PICK F : F = operations(p)
  OBVIOUS
<1> PICK G : G = operations(q)
  OBVIOUS
<1>1. Mirrored(q, p, n)
  BY MirroredBack
<1>2. isMalformed(p) <=> isMalformed(q)
  <2>1. /\ Len(p.items) < 2 <=> n = 0
        /\ Len(q.items) < 2 <=> n = 0
        /\ p.items[Len(p.items)] = p.items[n + 1] /\ q.items[Len(q.items)] = q.items[n + 1]
    OBVIOUS
  <2>2. 1 \in 1..(n + 1) /\ n + 1 \in 1..(n + 1) /\ n + 2 - 1 = n + 1 /\ n + 2 - (n + 1) = 1
    OBVIOUS
  <2>3. q.items[1] = p.items[n + 1] /\ q.items[n + 1] = p.items[1]
    BY <2>2 DEF Mirrored
  <2> QED
    BY <2>1, <2>3 DEF isMalformed
<1>3. DOMAIN F = 1..Len(F) /\ DOMAIN G = 1..Len(G)
  BY OperationsKept
<1>4. parsePipeline(p) = IF isMalformed(p) \/ AnyRefused(F) THEN <<Refused>> ELSE F
  BY <1>3, Zenon DEF parsePipeline, AnyRefused
<1>5. parsePipeline(q) = IF isMalformed(q) \/ AnyRefused(G) THEN <<Refused>> ELSE G
  BY <1>3, Zenon DEF parsePipeline, AnyRefused
<1>6. CASE isMalformed(p)
  <2>1. parsePipeline(p) = <<Refused>> /\ parsePipeline(q) = <<Refused>>
    BY <1>2, <1>4, <1>5, <1>6
  <2> QED
    BY <2>1, EmbedsItself
<1>7. CASE ~isMalformed(p)
  <2>1. ~p.items[1].star /\ ~q.items[1].star
    BY <1>2, <1>7 DEF isMalformed
  <2>2. \E h : Embeds(h, F, G) /\ (AnyRefused(F) => AnyRefused(G))
    BY <2>1, OperationsEmbed
  <2>3. \E h : Embeds(h, G, F) /\ (AnyRefused(G) => AnyRefused(F))
    BY <1>1, <2>1, OperationsEmbed
  <2>4. CASE AnyRefused(F)
    <3>1. parsePipeline(p) = <<Refused>> /\ parsePipeline(q) = <<Refused>>
      BY <1>4, <1>5, <2>2, <2>4
    <3> QED
      BY <3>1, EmbedsItself
  <2>5. CASE ~AnyRefused(F)
    <3>1. parsePipeline(p) = F /\ parsePipeline(q) = G
      BY <1>2, <1>4, <1>5, <1>7, <2>3, <2>5
    <3> QED
      BY <2>2, <3>1
  <2> QED
    BY <2>4, <2>5
<1> QED
  BY <1>6, <1>7

\* F is a line of operations.
IsLine(F) == Len(F) \in Nat /\ DOMAIN F = 1..Len(F)

\* Of a text and of the text written backwards.
LEMMA BackwardsEmbed ==
  ASSUME NEW p, IsText(p)
  PROVE  /\ IsLine(parsePipeline(p)) /\ IsLine(parsePipeline(WrittenBackwards(p)))
         /\ \E h : Embeds(h, parsePipeline(p), parsePipeline(WrittenBackwards(p)))
         /\ \E h : Embeds(h, parsePipeline(WrittenBackwards(p)), parsePipeline(p))
<1> PICK n \in Nat : n = Len(p.splitters)
  BY DEF IsText, IsSequence
<1>1. /\ Len(p.items) = n + 1 /\ DOMAIN p.items = 1..(n + 1) /\ DOMAIN p.splitters = 1..n
      /\ \A i \in 1..(n + 1) : p.items[i].star \in BOOLEAN
      /\ \A i \in 1..n :
           /\ p.splitters[i] = [dir |-> p.splitters[i].dir, between |-> p.splitters[i].between]
           /\ p.splitters[i].dir \in {"normal", "inverted", "bidirectional"}
  <2>1. DOMAIN p.items = 1..Len(p.items) /\ DOMAIN p.splitters = 1..Len(p.splitters)
    BY DEF IsText, IsSequence
  <2>2. Len(p.items) = n + 1
    BY DEF IsText
  <2>3. DOMAIN p.items = 1..(n + 1) /\ DOMAIN p.splitters = 1..n
    BY <2>1, <2>2, Zenon
  <2>4. /\ \A i \in DOMAIN p.items : p.items[i].star \in BOOLEAN
        /\ \A i \in DOMAIN p.splitters :
             /\ p.splitters[i] = [dir |-> p.splitters[i].dir, between |-> p.splitters[i].between]
             /\ p.splitters[i].dir \in {"normal", "inverted", "bidirectional"}
    BY Zenon DEF IsText
  <2> QED
    BY <2>2, <2>3, <2>4, Zenon
<1>2. IsLine(parsePipeline(p))
  BY <1>1, ParsedType DEF IsLine
<1>3. CASE ~OneDirection(p)
  <2>1. WrittenBackwards(p) = p
    BY <1>3, Zenon DEF WrittenBackwards
  <2> QED
    BY <1>2, <2>1, EmbedsItself
<1>4. CASE OneDirection(p)
  <2> DEFINE back == Reverse(p.splitters)
             items == Reverse(p.items)
             splitters == [i \in DOMAIN back |-> [back[i] EXCEPT !.dir = turned[@]]]
             q == WrittenBackwards(p)
  <2>1. q = [items |-> items, splitters |-> splitters]
    BY <1>4, Zenon DEF WrittenBackwards, turned
  <2>2. /\ DOMAIN back = 1..n /\ \A i \in 1..n : back[i] = p.splitters[n + 1 - i]
    <3>1. back = [i \in 1..n |-> p.splitters[(n - i) + 1]]
      BY DEF Reverse
    <3>2. \A i \in 1..n : (n - i) + 1 = n + 1 - i
      OBVIOUS
    <3> HIDE DEF back
    <3> QED
      BY <3>1, <3>2
  <2>3. Len(items) = n + 1 /\ \A i \in 1..(n + 1) : items[i] = p.items[n + 2 - i]
    <3>1. items = [i \in 1..(n + 1) |-> p.items[((n + 1) - i) + 1]]
      BY <1>1 DEF Reverse
    <3>2. \A i \in 1..(n + 1) : ((n + 1) - i) + 1 = n + 2 - i
      OBVIOUS
    <3> HIDE DEF items
    <3> QED
      BY <3>1, <3>2
  <2>4. ASSUME NEW i \in 1..n PROVE splitters[i].dir = turned[p.splitters[n + 1 - i].dir]
    <3> PICK s : s = p.splitters[n + 1 - i]
      OBVIOUS
    <3>1. s = [dir |-> s.dir, between |-> s.between] /\ back[i] = s
      <4>1. n + 1 - i \in 1..n
        OBVIOUS
      <4> HIDE DEF back
      <4> QED
        BY <1>1, <2>2, <4>1
    <3>2. splitters[i] = [s EXCEPT !.dir = turned[@]]
      <4> HIDE DEF back
      <4> QED
        BY <2>2, <3>1
    <3> HIDE DEF splitters
    <3> QED
      BY <3>1, <3>2
  <2>5. ASSUME NEW i \in 1..n PROVE p.splitters[i].dir \in {"normal", "inverted"}
    BY <1>1, <1>4 DEF OneDirection
  <2> HIDE DEF items, splitters, back
  <2>6. q.items = items /\ q.splitters = splitters
    BY <2>1
  <2> HIDE DEF q
  <2>7. Mirrored(p, q, n)
    BY <1>1, <2>3, <2>4, <2>5, <2>6 DEF Mirrored
  <2>8. Mirrored(q, p, n)
    BY <2>7, MirroredBack
  <2>9. Len(q.items) = n + 1
    BY <2>3, <2>6
  <2>10. IsLine(parsePipeline(q))
    BY <2>9, ParsedType DEF IsLine
  <2>11. \E h : Embeds(h, parsePipeline(p), parsePipeline(q))
    BY <1>1, <2>7, <2>9, ParsedEmbed
  <2>12. \E h : Embeds(h, parsePipeline(q), parsePipeline(p))
    BY <1>1, <2>8, <2>9, ParsedEmbed
  <2> QED
    BY <1>2, <2>10, <2>11, <2>12 DEF q
<1> QED
  BY <1>3, <1>4

----------------------------------------------------------------------------
(* The same operations in another order. *)

\* h says which of a family's operations each of another's is.
IsPart(h, f, S, g, T) ==
  /\ \A x \in S : h[x] \in T /\ Alike(f[x], g[h[x]])
  /\ \A x, y \in S : h[x] = h[y] => x = y

\* A broker that can connect a family can connect what is in it.
LEMMA SameFamilies ==
  ASSUME NEW f, NEW S, NEW g, NEW T, NEW h, IsPart(h, f, S, g, T)
  PROVE  /\ \A r : Good(r, g, T) => Good(r, f, S)
         /\ AllRequests(f, S) \subseteq AllRequests(g, T)
<1>0. \A x, y \in S : h[x] = h[y] => x = y
  BY DEF IsPart
<1>1. ASSUME NEW x \in S PROVE h[x] \in T /\ Requests(f[x]) = Requests(g[h[x]])
                              /\ \A r : FineOp(r, f[x]) <=> FineOp(r, g[h[x]])
  BY DEF IsPart, Alike
<1>2. ASSUME NEW r, Good(r, g, T) PROVE Good(r, f, S)
  <2>1. \A x \in S : FineOp(r, f[x])
    BY <1>1, <1>2 DEF Good
  <2>2. ASSUME NEW x \in S, NEW y \in S, x # y, NEW c \in Requests(f[x]), NEW d \in Requests(f[y])
        PROVE  ~SamePair(c, d)
    <3>1. c \in Requests(g[h[x]]) /\ d \in Requests(g[h[y]]) /\ h[x] # h[y]
      BY <1>0, <1>1, <2>2
    <3> QED
      BY <1>1, <1>2, <3>1 DEF Good
  <2> QED
    BY <2>1, <2>2 DEF Good
<1>3. AllRequests(f, S) \subseteq AllRequests(g, T)
  BY <1>1 DEF AllRequests
<1> QED
  BY <1>2, <1>3

\* A is n lines of operations.
AreLines(A, n) == Len(A) = n /\ DOMAIN A = 1..n /\ \A i \in 1..n : IsLine(A[i])

\* The operations of lines are in the lines in the opposite order.
LEMMA LinesEmbed ==
  ASSUME NEW n \in Nat, NEW A, NEW B, AreLines(A, n), AreLines(B, n),
         \A i \in 1..n : \E h : Embeds(h, A[i], B[n + 1 - i])
  PROVE  /\ \A r : Good(r, OpAt(B), Places(B)) => Good(r, OpAt(A), Places(A))
         /\ AllRequests(OpAt(A), Places(A)) \subseteq AllRequests(OpAt(B), Places(B))
<1> DEFINE e(i) == CHOOSE h : Embeds(h, A[i], B[n + 1 - i])
           h == [x \in Places(A) |-> <<n + 1 - x[1], e(x[1])[x[2]]>>]
<1>1. \A i \in 1..n : Embeds(e(i), A[i], B[n + 1 - i])
  OBVIOUS
<1>2. /\ \A i \in 1..n : DOMAIN A[i] = 1..Len(A[i]) /\ DOMAIN B[i] = 1..Len(B[i])
      /\ DOMAIN A = 1..n /\ DOMAIN B = 1..n
  BY DEF AreLines, IsLine
<1> HIDE DEF e
<1>3. ASSUME NEW i \in 1..n, NEW j \in DOMAIN A[i]
      PROVE  /\ n + 1 - i \in 1..n /\ e(i)[j] \in DOMAIN B[n + 1 - i]
             /\ Alike(A[i][j], B[n + 1 - i][e(i)[j]])
  <2>1. n + 1 - i \in 1..n
    OBVIOUS
  <2> PICK k : k = n + 1 - i
    OBVIOUS
  <2>2. Embeds(e(i), A[i], B[k])
    BY <1>1
  <2> QED
    BY <1>2, <2>1, <2>2 DEF Embeds
<1>4. ASSUME NEW x \in Places(A)
      PROVE  /\ x[1] \in 1..n /\ x[2] \in DOMAIN A[x[1]] /\ x = <<x[1], x[2]>>
             /\ OpAt(A)[x] = A[x[1]][x[2]]
  BY <1>2 DEF Places, OpAt
<1>5. ASSUME NEW x \in Places(A)
      PROVE  h[x] \in Places(B) /\ Alike(OpAt(A)[x], OpAt(B)[h[x]])
  <2> PICK i : i = x[1]
    OBVIOUS
  <2> PICK j : j = x[2]
    OBVIOUS
  <2>1. i \in 1..n /\ j \in DOMAIN A[i] /\ OpAt(A)[x] = A[i][j]
    BY <1>4
  <2> PICK k : k = n + 1 - i
    OBVIOUS
  <2> PICK l : l = e(i)[j]
    OBVIOUS
  <2>2. h[x] = <<k, l>>
    OBVIOUS
  <2>3. k \in 1..n /\ l \in DOMAIN B[k] /\ Alike(A[i][j], B[k][l])
    BY <1>3, <2>1
  <2>4. <<k, l>> \in Places(B)
    BY <1>2, <2>3 DEF Places
  <2>5. OpAt(B)[<<k, l>>] = B[k][l]
    BY <2>4 DEF OpAt
  <2> HIDE DEF h
  <2> QED
    BY <2>1, <2>2, <2>3, <2>4, <2>5
<1>6. ASSUME NEW x \in Places(A), NEW y \in Places(A), h[x] = h[y] PROVE x = y
  <2>1. n + 1 - x[1] = n + 1 - y[1] /\ e(x[1])[x[2]] = e(y[1])[y[2]]
    BY <1>6
  <2>2. x[1] \in 1..n /\ y[1] \in 1..n /\ x[2] \in DOMAIN A[x[1]] /\ y[2] \in DOMAIN A[y[1]]
    BY <1>4
  <2>3. x[1] = y[1]
    <3> HIDE DEF h
    <3> QED
      BY <2>1, <2>2
  <2>4. Embeds(e(x[1]), A[x[1]], B[n + 1 - x[1]])
    BY <1>1, <2>2
  <2>5. x[2] = y[2]
    <3>1. x[2] \in 1..Len(A[x[1]]) /\ y[2] \in 1..Len(A[x[1]]) /\ e(x[1])[x[2]] = e(x[1])[y[2]]
      BY <1>2, <2>1, <2>2, <2>3
    <3> HIDE DEF h
    <3> QED
      BY <2>4, <3>1 DEF Embeds
  <2> QED
    BY <1>4, <2>3, <2>5
<1> HIDE DEF h
<1>7. IsPart(h, OpAt(A), Places(A), OpAt(B), Places(B))
  BY <1>5, <1>6 DEF IsPart
<1> QED
  BY <1>7, SameFamilies

----------------------------------------------------------------------------
(* Sequences of what is to be added. *)

\* The sequences ws joined, up to each of them.
FlatUpTo(g, n, ws) == g = [i \in 1..n |-> IF i = 1 THEN ws[i] ELSE g[i - 1] \o ws[i]]

\* Sequences are joined up to each of them.
LEMMA FlatExists ==
  ASSUME NEW n \in Nat, NEW ws
  PROVE  \E g : FlatUpTo(g, n, ws)
<1> DEFINE Up(g, k) == g = [i \in 1..k |-> IF i = 1 THEN ws[i] ELSE g[i - 1] \o ws[i]]
           P == {k \in Nat : \E g : Up(g, k)}
<1>1. \E g : Up(g, 0)
  <2> DEFINE g == [i \in 1..0 |-> 0]
  <2>1. \A i \in 1..0 : FALSE
    OBVIOUS
  <2>2. Up(g, 0)
    BY <2>1
  <2> QED
    BY <2>2
<1>2. ASSUME NEW k \in Nat, NEW g, Up(g, k) PROVE \E h : Up(h, k + 1)
  <2> DEFINE last == IF k = 0 THEN ws[1] ELSE g[k] \o ws[k + 1]
             h == [i \in 1..(k + 1) |-> IF i <= k THEN g[i] ELSE last]
  <2>1. ASSUME NEW i \in 1..(k + 1)
        PROVE  h[i] = IF i = 1 THEN ws[i] ELSE h[i - 1] \o ws[i]
    <3>1. CASE i = 1 /\ i <= k
      <4>1. 1 \in 1..k /\ h[i] = g[1]
        BY <3>1
      <4>2. g[1] = ws[1]
        BY <1>2, <4>1
      <4> QED
        BY <3>1, <4>1, <4>2
    <3>2. CASE i # 1 /\ i <= k
      <4>1. i \in 1..k /\ i - 1 \in 1..(k + 1) /\ i - 1 <= k
        BY <3>2
      <4>2. h[i] = g[i] /\ h[i - 1] = g[i - 1]
        BY <3>2, <4>1
      <4>3. g[i] = g[i - 1] \o ws[i]
        BY <1>2, <3>2, <4>1
      <4> QED
        BY <3>2, <4>2, <4>3
    <3>3. CASE ~(i <= k) /\ k = 0
      <4>1. i = 1
        BY <3>3
      <4> QED
        BY <3>3, <4>1
    <3>4. CASE ~(i <= k) /\ k # 0
      <4>1. i = k + 1 /\ i - 1 = k /\ k \in 1..(k + 1) /\ k <= k /\ i # 1
        BY <3>4
      <4>2. h[i] = g[k] \o ws[k + 1] /\ h[k] = g[k]
        BY <3>4, <4>1
      <4> QED
        BY <4>1, <4>2
    <3> QED
      BY <3>1, <3>2, <3>3, <3>4
  <2>2. h = [i \in 1..(k + 1) |-> h[i]]
    OBVIOUS
  <2> HIDE DEF h
  <2>3. Up(h, k + 1)
    BY <2>1, <2>2
  <2> QED
    BY <2>3
<1>3. 0 \in P /\ \A k \in Nat : k \in P => k + 1 \in P
  <2> HIDE DEF Up
  <2> QED
    BY <1>1, <1>2
<1>4. n \in P
  <2> HIDE DEF P
  <2> QED
    BY <1>3, NaturalsInduct
<1> QED
  BY <1>4 DEF FlatUpTo

\* What is in either of two sequences is in the two joined.
LEMMA ElementsOfBoth ==
  ASSUME NEW U, NEW s \in Seq(U), NEW t \in Seq(U)
  PROVE  /\ s \o t \in Seq(U)
         /\ ToSet(s) \subseteq ToSet(s \o t) /\ ToSet(t) \subseteq ToSet(s \o t)
<1>1. PICK w \in Seq(U) : w = s \o t
  BY ConcatProperties
<1> PICK m \in Nat : m = Len(s)
  OBVIOUS
<1> PICK n \in Nat : n = Len(t)
  OBVIOUS
<1>2. /\ Len(w) = m + n /\ DOMAIN w = 1..(m + n) /\ DOMAIN s = 1..m /\ DOMAIN t = 1..n
      /\ \A i \in 1..(m + n) : w[i] = IF i <= m THEN s[i] ELSE t[i - m]
  BY <1>1, ConcatProperties
<1>3. ASSUME NEW i \in 1..m PROVE \E j \in 1..(m + n) : w[j] = s[i]
  <2>1. i \in 1..(m + n) /\ i <= m
    OBVIOUS
  <2> QED
    BY <1>2, <2>1
<1>4. ASSUME NEW i \in 1..n PROVE \E j \in 1..(m + n) : w[j] = t[i]
  <2>1. m + i \in 1..(m + n) /\ ~(m + i <= m) /\ (m + i) - m = i
    OBVIOUS
  <2> QED
    BY <1>2, <2>1
<1>5. ToSet(s) \subseteq ToSet(w) /\ ToSet(t) \subseteq ToSet(w)
  <2>1. \A j \in 1..(m + n) : w[j] \in ToSet(w)
    BY <1>2, Zenon DEF ToSet
  <2>2. ASSUME NEW x \in ToSet(s) PROVE x \in ToSet(w)
    <3>1. PICK i \in 1..m : x = s[i]
      BY <1>2, Zenon DEF ToSet
    <3> QED
      BY <1>3, <2>1, <3>1, Zenon
  <2>3. ASSUME NEW x \in ToSet(t) PROVE x \in ToSet(w)
    <3>1. PICK i \in 1..n : x = t[i]
      BY <1>2, Zenon DEF ToSet
    <3> QED
      BY <1>4, <2>1, <3>1, Zenon
  <2> QED
    BY <2>2, <2>3
<1> QED
  BY <1>1, <1>5

\* What is joined has what each of the sequences has.
LEMMA FlattenHas ==
  ASSUME NEW U, NEW n \in Nat, n # 0, NEW ws, Len(ws) = n, \A i \in 1..n : ws[i] \in Seq(U)
  PROVE  /\ FlattenSeq(ws) \in Seq(U)
         /\ \A i \in 1..n : ToSet(ws[i]) \subseteq ToSet(FlattenSeq(ws))
<1> DEFINE Own(g) == g = [i \in 1..Len(ws) |-> IF i = 1 THEN ws[i] ELSE g[i - 1] \o ws[i]]
           g == CHOOSE h : Own(h)
<1>1. FlattenSeq(ws) = g[n]
  <2>1. FlattenSeq(ws) = IF Len(ws) = 0 THEN ws ELSE g[Len(ws)]
    BY Zenon DEF FlattenSeq
  <2> HIDE DEF g
  <2> QED
    BY <2>1, Zenon
<1>2. Own(g)
  <2>1. \E h : FlatUpTo(h, n, ws)
    BY FlatExists, Zenon
  <2>2. \A h : FlatUpTo(h, n, ws) <=> Own(h)
    BY Zenon DEF FlatUpTo
  <2> HIDE DEF Own
  <2> QED
    BY <2>1, <2>2
<1> HIDE DEF g
<1>3. \A i \in 1..n : g[i] = IF i = 1 THEN ws[i] ELSE g[i - 1] \o ws[i]
  BY <1>2
<1> DEFINE Has(k) == /\ g[k] \in Seq(U)
                     /\ \A i \in 1..k : ToSet(ws[i]) \subseteq ToSet(g[k])
           P == {k \in Nat : k + 1 <= n => Has(k + 1)}
<1>4. 0 \in P
  <2>1. 1 \in 1..n /\ 1..1 = {1} /\ 0 + 1 = 1
    OBVIOUS
  <2>2. g[1] = ws[1]
    BY <1>3, <2>1
  <2>3. Has(1)
    BY <2>1, <2>2
  <2> HIDE DEF Has
  <2> QED
    BY <2>1, <2>3
<1>5. ASSUME NEW k \in Nat, k \in P PROVE k + 1 \in P
  <2> SUFFICES ASSUME (k + 1) + 1 <= n PROVE Has((k + 1) + 1)
    OBVIOUS
  <2> PICK m : m = k + 1
    OBVIOUS
  <2>1. m \in Nat /\ m \in 1..n /\ m + 1 \in 1..n /\ m + 1 # 1 /\ (m + 1) - 1 = m /\ m <= n
    OBVIOUS
  <2>2. Has(m)
    BY <1>5, <2>1
  <2> PICK s \in Seq(U) : s = g[m]
    BY <2>2
  <2> PICK t \in Seq(U) : t = ws[m + 1]
    BY <2>1
  <2>3. g[m + 1] = s \o t
    BY <1>3, <2>1
  <2>4. s \o t \in Seq(U) /\ ToSet(s) \subseteq ToSet(s \o t) /\ ToSet(t) \subseteq ToSet(s \o t)
    BY ElementsOfBoth
  <2>5. ASSUME NEW i \in 1..(m + 1) PROVE ToSet(ws[i]) \subseteq ToSet(s \o t)
    <3>1. CASE i = m + 1
      BY <2>4, <3>1
    <3>2. CASE i # m + 1
      <4>1. i \in 1..m
        BY <2>1, <3>2
      <4>2. ToSet(ws[i]) \subseteq ToSet(s)
        BY <2>2, <4>1
      <4> QED
        BY <2>4, <4>2
    <3> QED
      BY <3>1, <3>2
  <2>6. Has(m + 1)
    BY <2>3, <2>4, <2>5
  <2> HIDE DEF Has
  <2> QED
    BY <2>6
<1>6. \A k \in Nat : k \in P
  <2> HIDE DEF P
  <2> QED
    BY <1>4, <1>5, NaturalsInduct
<1>7. Has(n)
  <2>1. n - 1 \in Nat /\ (n - 1) + 1 = n
    OBVIOUS
  <2>2. n - 1 \in P
    BY <1>6, <2>1
  <2> HIDE DEF Has
  <2> QED
    BY <2>1, <2>2
<1> QED
  BY <1>1, <1>7

\* A sequence is one of its own elements.
LEMMA SequenceOfItself ==
  ASSUME NEW n \in Nat, NEW S, NEW t \in Seq(S), Len(t) = n
  PROVE  IsSequence(t)
<1>1. t = [i \in 1..n |-> t[i]]
  OBVIOUS
<1>2. \A i \in 1..n : t[i] \in ToSet(t)
  BY <1>1 DEF ToSet
<1>3. t \in Seq(ToSet(t))
  BY <1>1, <1>2
<1> QED
  BY <1>3 DEF IsSequence

\* A sequence of some elements is one of more.
LEMMA SequenceOfMore ==
  ASSUME NEW S, NEW U, S \subseteq U, NEW s \in Seq(S)
  PROVE  s \in Seq(U)
<1> PICK n \in Nat : n = Len(s)
  OBVIOUS
<1>1. s = [i \in 1..n |-> s[i]] /\ \A i \in 1..n : s[i] \in U
  OBVIOUS
<1> QED
  BY <1>1

\* The workers to be added are a sequence, with all there are in each section.
LEMMA WorkersAre ==
  ASSUME NEW c, IsConfig(c)
  PROVE  /\ IsSequence(workersOf(c))
         /\ \A i \in DOMAIN WorkerSections :
              \A w \in ToSet(section(c, WorkerSections[i]).list) :
                \E x \in ToSet(workersOf(c)) : x.made = w
<1> DEFINE ws == [i \in DOMAIN WorkerSections |-> section(c, WorkerSections[i]).list]
           U == UNION {ToSet(ws[i]) : i \in DOMAIN WorkerSections}
           all == FlattenSeq(ws)
           named(w) == IF "worker" \in DOMAIN w.values THEN w.values.worker.values.name
                       ELSE w.values.name
<1> PICK n \in Nat : n = 17
  OBVIOUS
<1>1. DOMAIN WorkerSections = 1..n /\ n # 0
  BY DEF WorkerSections
<1>2. \A i \in 1..n : ws[i] \in Seq(ToSet(ws[i])) /\ ws[i] = section(c, WorkerSections[i]).list
  BY <1>1 DEF IsConfig, IsSequence
<1>3. Len(ws) = n
  BY <1>1
<1> HIDE DEF ws
<1>4. \A i \in 1..n : ws[i] \in Seq(U)
  <2> SUFFICES ASSUME NEW i \in 1..n PROVE ws[i] \in Seq(U)
    OBVIOUS
  <2>1. ToSet(ws[i]) \subseteq U
    BY <1>1
  <2> HIDE DEF U
  <2>2. ws[i] \in Seq(ToSet(ws[i]))
    BY <1>2
  <2> QED
    BY <2>1, <2>2, SequenceOfMore
<1> HIDE DEF U
<1>5. all \in Seq(U) /\ \A i \in 1..n : ToSet(ws[i]) \subseteq ToSet(all)
  BY <1>1, <1>3, <1>4, FlattenHas
<1>6. workersOf(c) = [i \in DOMAIN all |-> [name |-> Name(named(all[i]).leaf), made |-> all[i]]]
  BY Zenon DEF workersOf, ws
<1> HIDE DEF all, named
<1>7. PICK m \in Nat : DOMAIN all = 1..m
  BY <1>5
<1>8. IsSequence(workersOf(c))
  <2> PICK s : s = workersOf(c)
    OBVIOUS
  <2>1. s = [i \in 1..m |-> s[i]]
    BY <1>6, <1>7
  <2>2. \A i \in 1..m : s[i] \in ToSet(s)
    BY <2>1 DEF ToSet
  <2>3. s \in Seq(ToSet(s))
    BY <2>1, <2>2
  <2> QED
    BY <2>3 DEF IsSequence
<1>9. ASSUME NEW i \in 1..n, NEW w \in ToSet(ws[i])
      PROVE  \E x \in ToSet(workersOf(c)) : x.made = w
  <2>1. w \in ToSet(all)
    BY <1>5
  <2>2. PICK j \in DOMAIN all : w = all[j]
    BY <2>1, Zenon DEF ToSet
  <2>3. workersOf(c)[j].made = w /\ j \in DOMAIN workersOf(c)
    BY <1>6, <2>2
  <2>4. workersOf(c)[j] \in ToSet(workersOf(c))
    BY <2>3, Zenon DEF ToSet
  <2> QED
    BY <2>3, <2>4
<1> QED
  BY <1>1, <1>2, <1>8, <1>9

\* The HTTP API is at most one worker.
LEMMA ApiIs ==
  ASSUME NEW c
  PROVE  IsSequence(apiOf(c))
<1> DEFINE x == [name |-> Name("internal.radapter.api"), made |-> section(c, <<"api">>)]
<1>1. apiOf(c) = <<x>> \/ apiOf(c) = <<>>
  BY Zenon DEF apiOf
<1> HIDE DEF x
<1>2. IsSequence(<<x>>) /\ IsSequence(<<>>)
  <2>1. ToSet(<<x>>) = {x}
    BY DEF ToSet
  <2>2. <<x>> \in Seq({x}) /\ <<>> \in Seq(ToSet(<<>>))
    OBVIOUS
  <2> QED
    BY <2>1, <2>2 DEF IsSequence
<1> QED
  BY <1>1, <1>2

\* The first and the others of what is still to be added.
LEMMA TailElements ==
  ASSUME NEW s, IsSequence(s), s # <<>>
  PROVE  /\ IsSequence(Tail(s)) /\ Head(s) \in ToSet(s) /\ ToSet(Tail(s)) \subseteq ToSet(s)
         /\ \A x \in ToSet(s) : x = Head(s) \/ x \in ToSet(Tail(s))
<1>1. s \in Seq(ToSet(s))
  BY DEF IsSequence
<1> PICK U : U = ToSet(s)
  OBVIOUS
<1>2. /\ Len(s) \in Nat /\ Len(s) >= 1 /\ 1 \in 1..Len(s) /\ Head(s) = s[1]
      /\ Tail(s) \in Seq(U) /\ Len(Tail(s)) = Len(s) - 1
      /\ \A i \in 1..(Len(s) - 1) : i + 1 \in 1..Len(s) /\ Tail(s)[i] = s[i + 1]
  BY <1>1, HeadAndTail
<1> PICK n \in Nat : n = Len(s)
  BY <1>2
<1>3. DOMAIN s = 1..n
  BY <1>1
<1> PICK t : t = Tail(s)
  OBVIOUS
<1>4. t \in Seq(U) /\ DOMAIN t = 1..(n - 1) /\ \A i \in 1..(n - 1) : i + 1 \in 1..n /\ t[i] = s[i + 1]
  BY <1>2
<1>5. IsSequence(t)
  <2>1. Len(t) \in Nat
    BY <1>4
  <2> QED
    BY <1>4, <2>1, SequenceOfItself
<1>6. \A i \in 1..n : s[i] \in ToSet(s)
  BY <1>3, Zenon DEF ToSet
<1>7. Head(s) \in ToSet(s)
  BY <1>2, <1>6
<1>8. ASSUME NEW x \in ToSet(t) PROVE x \in ToSet(s)
  <2>1. PICK i \in 1..(n - 1) : x = t[i]
    BY <1>4, Zenon DEF ToSet
  <2> QED
    BY <1>4, <1>6, <2>1
<1>9. ASSUME NEW x \in ToSet(s) PROVE x = Head(s) \/ x \in ToSet(t)
  <2>1. PICK i \in 1..n : x = s[i]
    BY <1>3, Zenon DEF ToSet
  <2>2. CASE i = 1
    BY <1>2, <2>1, <2>2
  <2>3. CASE i # 1
    <3>1. i - 1 \in 1..(n - 1) /\ (i - 1) + 1 = i
      BY <2>3
    <3>2. t[i - 1] = x
      BY <1>4, <2>1, <3>1
    <3>3. t[i - 1] \in ToSet(t)
      BY <1>4, <3>1, Zenon DEF ToSet
    <3> QED
      BY <3>2, <3>3
  <2> QED
    BY <2>2, <2>3
<1> QED
  BY <1>5, <1>7, <1>8, <1>9

\* What registering a worker makes of a broker.
LEMMA AddWorker ==
  ASSUME NEW b, IsBroker(b), NEW c, NEW w, NEW n, n = addWorker(b, c, w), ~isRefused(n)
  PROVE  /\ IsBroker(n) /\ n.workers = b.workers \cup {w.name} /\ n.connections = b.connections
         /\ ~constructorThrows(c, w.made)
         /\ DOMAIN b.files \subseteq b.workers => DOMAIN n.files \subseteq n.workers
<1> DEFINE files == IF w.made.class = "FileWorker"
                      THEN Over([x \in {w.name} |-> w.made.values.filepath.leaf], b.files) ELSE b.files
<1>1. n = IF constructorThrows(c, w.made) \/ w.name = Name("") \/ w.name \in b.workers THEN Refused
          ELSE [b EXCEPT !.workers = @ \cup {w.name}, !.files = files]
  BY Zenon DEF addWorker
<1>2. DOMAIN files \subseteq DOMAIN b.files \cup {w.name}
  <2> DEFINE one == [x \in {w.name} |-> w.made.values.filepath.leaf]
  <2>1. DOMAIN one = {w.name}
    OBVIOUS
  <2> HIDE DEF one
  <2>2. DOMAIN Over(one, b.files) = DOMAIN one \cup DOMAIN b.files
    BY DEF Over
  <2> QED
    BY <2>1, <2>2 DEF one
<1> HIDE DEF files
<1>3. isRefused(Refused)
  BY DEF isRefused, Refused
<1>4. ~constructorThrows(c, w.made) /\ n = [b EXCEPT !.workers = @ \cup {w.name}, !.files = files]
  BY <1>1, <1>3
<1>5. n = [workers |-> b.workers \cup {w.name}, files |-> files, interceptors |-> b.interceptors,
           connections |-> b.connections, allow_self_connect |-> b.allow_self_connect]
  BY <1>4 DEF IsBroker
<1>6. /\ n.workers = b.workers \cup {w.name} /\ n.files = files /\ n.interceptors = b.interceptors
      /\ n.connections = b.connections /\ n.allow_self_connect = b.allow_self_connect
  BY <1>5
<1>7. IsBroker(n)
  BY <1>5, <1>6 DEF IsBroker
<1> QED
  BY <1>2, <1>4, <1>6, <1>7

\* And registering an interceptor.
LEMMA AddInterceptor ==
  ASSUME NEW b, IsBroker(b), NEW i, NEW n, n = addInterceptor(b, i), ~isRefused(n)
  PROVE  /\ IsBroker(n) /\ n.workers = b.workers /\ n.connections = b.connections
         /\ n.files = b.files
<1> DEFINE interceptors == Over([x \in {i.name} |-> i.made], b.interceptors)
<1>1. n = IF isRefused(i.made) THEN Refused ELSE [b EXCEPT !.interceptors = interceptors]
  BY Zenon DEF addInterceptor
<1> HIDE DEF interceptors
<1>2. isRefused(Refused)
  BY DEF isRefused, Refused
<1>3. n = [b EXCEPT !.interceptors = interceptors]
  BY <1>1, <1>2
<1>4. n = [workers |-> b.workers, files |-> b.files, interceptors |-> interceptors,
           connections |-> b.connections, allow_self_connect |-> b.allow_self_connect]
  BY <1>3 DEF IsBroker
<1> QED
  BY <1>4 DEF IsBroker

----------------------------------------------------------------------------
(* The invariant holds at first, and every step keeps it. *)

\* Nothing has been added or connected at first.
LEMMA InitialState ==
  ASSUME Init
  PROVE  IInv
BY DEF Init, IInv, Readable, AllAdded, OnlyAdded, Connected, Read, Connecting

\* The command line, read or refused, changes no broker.
LEMMA ParseKeeps ==
  ASSUME IInv, parseCommandlineArgs
  PROVE  IInv'
<1>1. /\ phase = "starting" /\ options' \in CommandLines /\ phase' \in {"reading", "refused"}
      /\ broker' = broker /\ at' = at
  BY DEF parseCommandlineArgs
<1>2. Readable'
  BY <1>1 DEF Readable, Read
<1>3. AllAdded'
  BY <1>1 DEF AllAdded, Connecting
<1>4. OnlyAdded'
  BY <1>1 DEF IInv, OnlyAdded, Connecting
<1>5. Connected'
  BY <1>1 DEF IInv, Connected, Connecting
<1> QED
  BY <1>2, <1>3, <1>4, <1>5 DEF IInv

\* Reading the settings fixes what is to be added and connects nothing.
LEMMA InitConfigKeeps ==
  ASSUME IInv, initConfig
  PROVE  IInv'
<1>1. /\ phase = "reading" /\ options' = options /\ at' = at /\ ops' = ops
      /\ options \in CommandLines /\ broker = NewBroker /\ at = <<1, 1>>
  BY DEF initConfig, IInv, Readable, OnlyAdded, Connected
<1>0. PICK raw \in Raws : \E read \in {readSettings(raw, options)} :
        IF isRefused(read.config) \/ modbusRefused(section(read.config, <<"modbus">>))
          THEN phase' = "refused" /\ UNCHANGED <<config, broker, todo, lines>>
          ELSE
            /\ phase' = "adding" /\ config' = read.config
            /\ broker' = [broker EXCEPT !.allow_self_connect =
                            isTrue(section(read.config, <<"broker", "allow_self_connect">>))]
            /\ todo' = [workers |-> workersOf(read.config),
                        interceptors |-> interceptorsOf(read.config), api |-> apiOf(read.config)]
            /\ lines' = options.pipes \o linesOf(read.config)
  BY Zenon DEF initConfig
<1>2. PICK read \in {readSettings(raw, options)} :
        IF isRefused(read.config) \/ modbusRefused(section(read.config, <<"modbus">>))
          THEN phase' = "refused" /\ UNCHANGED <<config, broker, todo, lines>>
          ELSE
            /\ phase' = "adding" /\ config' = read.config
            /\ broker' = [broker EXCEPT !.allow_self_connect =
                            isTrue(section(read.config, <<"broker", "allow_self_connect">>))]
            /\ todo' = [workers |-> workersOf(read.config),
                        interceptors |-> interceptorsOf(read.config), api |-> apiOf(read.config)]
            /\ lines' = options.pipes \o linesOf(read.config)
  BY <1>0, Zenon
<1> PICK c : c = read.config
  OBVIOUS
<1>3. isRefused(c) \/ IsConfig(c)
  <2>1. c = readSettings(raw, options).config
    OBVIOUS
  <2> QED
    BY <1>1, <2>1, SettingsAssumption, Zenon
<1>4. CASE isRefused(c) \/ modbusRefused(section(c, <<"modbus">>))
  <2>1. phase' = "refused" /\ broker' = broker
    BY <1>2, <1>4
  <2>2. Readable'
    BY <1>1, <2>1 DEF Readable, Read
  <2>3. AllAdded'
    BY <2>1 DEF AllAdded, Connecting
  <2>4. OnlyAdded'
    BY <2>1 DEF OnlyAdded, Connecting
  <2>5. Connected'
    BY <2>1 DEF Connected, Connecting
  <2> QED
    BY <2>2, <2>3, <2>4, <2>5 DEF IInv
<1>5. CASE ~(isRefused(c) \/ modbusRefused(section(c, <<"modbus">>)))
  <2> PICK workers : workers = workersOf(c)
    OBVIOUS
  <2> PICK interceptors : interceptors = interceptorsOf(c)
    OBVIOUS
  <2> PICK api : api = apiOf(c)
    OBVIOUS
  <2> PICK self : self = isTrue(section(c, <<"broker", "allow_self_connect">>))
    OBVIOUS
  <2>1. /\ phase' = "adding" /\ config' = c
        /\ broker' = [broker EXCEPT !.allow_self_connect = self]
        /\ todo' = [workers |-> workers, interceptors |-> interceptors, api |-> api]
        /\ lines' = options.pipes \o linesOf(c)
    BY <1>2, <1>5, Zenon
  <2>2. Readable'
    <3>1. lines' \in Seq(DOMAIN Texts)
      <4>1. options.pipes \in Seq(DOMAIN Texts) /\ linesOf(c) \in Seq(DOMAIN Texts)
        BY <1>1, <1>3, <1>5, CommandLinesAssumption DEF IsConfig
      <4> QED
        BY <2>1, <4>1, ConcatProperties
    <3>2. IsConfig(c)' /\ ~modbusRefused(section(c, <<"modbus">>))'
      BY <1>3, <1>5
    <3> QED
      BY <1>1, <1>3, <1>5, <2>1, <3>1 DEF Readable
  <2>3. AllAdded'
    <3>1. IsSequence(workers) /\ IsSequence(api)
      BY <1>3, <1>5, WorkersAre, ApiIs
    <3>2. todo'.workers = workers /\ todo'.interceptors = interceptors /\ todo'.api = api
      BY <2>1
    <3> QED
      BY <2>1, <3>1, <3>2 DEF AllAdded, Connecting
  <2>4. OnlyAdded'
    <3>1. broker' = [workers |-> {}, files |-> NoKeys, interceptors |-> NoKeys, connections |-> {},
                     allow_self_connect |-> self]
      BY <1>1, <2>1 DEF NewBroker
    <3>2. DOMAIN NoKeys = {}
      BY DEF NoKeys
    <3>3. IsBroker(broker)' /\ broker'.workers = {} /\ broker'.connections = {} /\ broker'.files = NoKeys
      BY <3>1 DEF IsBroker
    <3> QED
      BY <2>1, <3>2, <3>3 DEF OnlyAdded, Connecting
  <2>5. Connected'
    BY <1>1, <2>1 DEF Connected, Connecting
  <2> QED
    BY <2>2, <2>3, <2>4, <2>5 DEF IInv
<1> QED
  BY <1>4, <1>5

\* What is to be added, by its fields.
IsTodo(t) == t = [workers |-> t.workers, interceptors |-> t.interceptors, api |-> t.api]
Todo(workers, interceptors, api) ==
  [workers |-> workers, interceptors |-> interceptors, api |-> api]

\* What is left to be added, with something else in one place.
LEMMA LeftToAdd ==
  ASSUME NEW t, IsTodo(t), NEW x
  PROVE  /\ [t EXCEPT !.workers = x] = Todo(x, t.interceptors, t.api)
         /\ [t EXCEPT !.interceptors = x] = Todo(t.workers, x, t.api)
         /\ [t EXCEPT !.api = x] = Todo(t.workers, t.interceptors, x)
<1> PICK a : a = t.workers
  OBVIOUS
<1> PICK b : b = t.interceptors
  OBVIOUS
<1> PICK c : c = t.api
  OBVIOUS
<1>1. t = [workers |-> a, interceptors |-> b, api |-> c]
  BY DEF IsTodo
<1> QED
  BY <1>1 DEF Todo

\* A worker is added from either of the two lists that have some.
LEMMA AddedWorkerKeeps ==
  ASSUME IInv, phase = "adding", NEW w, w \in ToSet(workersOf(config)) \cup ToSet(apiOf(config)),
         NEW left, Added(addWorker(broker, config, w), left),
         left = [workers |-> left.workers, interceptors |-> left.interceptors, api |-> left.api],
         IsSequence(left.workers), IsSequence(left.api),
         ToSet(left.workers) \subseteq ToSet(todo.workers), ToSet(left.api) \subseteq ToSet(todo.api),
         \A x \in ToSet(todo.workers) : x = w \/ x \in ToSet(left.workers),
         \A x \in ToSet(todo.api) : x = w \/ x \in ToSet(left.api)
  PROVE  IInv'
<1> PICK n : n = addWorker(broker, config, w)
  OBVIOUS
<1>1. /\ IF isRefused(n) THEN phase' = "unregistered" /\ UNCHANGED <<broker, todo>>
         ELSE broker' = n /\ todo' = left /\ UNCHANGED phase
      /\ UNCHANGED <<options, config, given, lines, ops, at, registered>>
  BY DEF Added
<1>2. Readable'
  BY <1>1 DEF IInv, Readable, Read
<1>3. Connected'
  BY <1>1 DEF IInv, Connected, Connecting
<1>4. CASE isRefused(n)
  <2>1. phase' = "unregistered"
    BY <1>1, <1>4
  <2>2. AllAdded' /\ OnlyAdded'
    BY <2>1 DEF AllAdded, OnlyAdded, Connecting
  <2> QED
    BY <1>2, <1>3, <2>2 DEF IInv
<1>5. CASE ~isRefused(n)
  <2>1. broker' = n /\ todo' = left /\ phase' = "adding" /\ config' = config
    BY <1>1, <1>5
  <2>2. /\ IsBroker(broker) /\ broker.workers \subseteq NamesGiven /\ broker.connections = {}
        /\ DOMAIN broker.files \subseteq broker.workers
    BY DEF IInv, OnlyAdded
  <2>3. /\ IsBroker(n) /\ n.workers = broker.workers \cup {w.name} /\ n.connections = broker.connections
        /\ ~constructorThrows(config, w.made) /\ DOMAIN n.files \subseteq n.workers
    BY <1>5, <2>2, AddWorker
  <2>4. OnlyAdded'
    <3>1. w.name \in NamesGiven
      BY DEF NamesGiven
    <3>2. NamesGiven' = NamesGiven
      BY <2>1 DEF NamesGiven
    <3>3. n.workers \subseteq NamesGiven
      BY <2>2, <2>3, <3>1
    <3>4. IsBroker(broker)' /\ broker'.workers \subseteq NamesGiven' /\ broker'.connections = {}
          /\ DOMAIN broker'.files \subseteq broker'.workers
      BY <2>1, <2>2, <2>3, <3>2, <3>3
    <3> QED
      BY <2>1, <3>4 DEF OnlyAdded, Connecting
  <2>5. AllAdded'
    <3>1. \A x : IsAdded(x) => IsAdded(x)'
      BY <2>1, <2>3 DEF IsAdded
    <3>2. IsAdded(w)'
      BY <2>1, <2>3 DEF IsAdded
    <3>3. /\ ToSet(todo.workers) \subseteq ToSet(workersOf(config))
          /\ ToSet(todo.api) \subseteq ToSet(apiOf(config))
          /\ \A x \in ToSet(workersOf(config)) : x \in ToSet(todo.workers) \/ IsAdded(x)
          /\ \A x \in ToSet(apiOf(config)) : x \in ToSet(todo.api) \/ IsAdded(x)
      BY DEF IInv, AllAdded
    <3>4. /\ \A x \in ToSet(workersOf(config)) : x \in ToSet(left.workers) \/ IsAdded(x)'
          /\ \A x \in ToSet(apiOf(config)) : x \in ToSet(left.api) \/ IsAdded(x)'
      BY <3>1, <3>2, <3>3
    <3> QED
      BY <2>1, <3>3, <3>4 DEF AllAdded, Connecting
  <2> QED
    BY <1>2, <1>3, <2>4, <2>5 DEF IInv
<1> QED
  BY <1>4, <1>5

\* The next worker of the configuration is taken from what is left and registered.
LEMMA AddNextWorkerKeeps ==
  ASSUME IInv, addNextWorker
  PROVE  IInv'
<1> DEFINE w == Head(todo.workers)
           left == [todo EXCEPT !.workers = Tail(@)]
<1>1. phase = "adding" /\ todo.workers # <<>> /\ Added(addWorker(broker, config, w), left)
  BY DEF addNextWorker
<1>2. /\ todo = [workers |-> todo.workers, interceptors |-> todo.interceptors, api |-> todo.api]
      /\ IsSequence(todo.workers) /\ IsSequence(todo.api)
      /\ ToSet(todo.workers) \subseteq ToSet(workersOf(config))
  BY <1>1 DEF IInv, AllAdded
<1>3. /\ IsSequence(Tail(todo.workers)) /\ w \in ToSet(todo.workers)
      /\ ToSet(Tail(todo.workers)) \subseteq ToSet(todo.workers)
      /\ \A x \in ToSet(todo.workers) : x = w \/ x \in ToSet(Tail(todo.workers))
  BY <1>1, <1>2, TailElements
<1>4. left = [workers |-> Tail(todo.workers), interceptors |-> todo.interceptors, api |-> todo.api]
  <2>1. IsTodo(todo)
    BY <1>2, Zenon DEF IsTodo
  <2> QED
    BY <2>1, LeftToAdd, Zenon DEF Todo
<1>5. left.workers = Tail(todo.workers) /\ left.interceptors = todo.interceptors /\ left.api = todo.api
  BY <1>4
<1>6. left = [workers |-> left.workers, interceptors |-> left.interceptors, api |-> left.api]
  BY <1>4, <1>5
<1> HIDE DEF w, left
<1> QED
  BY <1>1, <1>2, <1>3, <1>5, <1>6, AddedWorkerKeeps

\* The API is registered once every worker is.
LEMMA AddApiKeeps ==
  ASSUME IInv, addApi
  PROVE  IInv'
<1> DEFINE w == Head(todo.api)
           left == [todo EXCEPT !.api = Tail(@)]
<1>1. /\ phase = "adding" /\ todo.workers = <<>> /\ todo.api # <<>>
      /\ Added(addWorker(broker, config, w), left)
  BY DEF addApi
<1>2. /\ todo = [workers |-> todo.workers, interceptors |-> todo.interceptors, api |-> todo.api]
      /\ IsSequence(todo.workers) /\ IsSequence(todo.api)
      /\ ToSet(todo.api) \subseteq ToSet(apiOf(config))
  BY <1>1 DEF IInv, AllAdded
<1>3. /\ IsSequence(Tail(todo.api)) /\ w \in ToSet(todo.api)
      /\ ToSet(Tail(todo.api)) \subseteq ToSet(todo.api)
      /\ \A x \in ToSet(todo.api) : x = w \/ x \in ToSet(Tail(todo.api))
  BY <1>1, <1>2, TailElements
<1>4. left = [workers |-> todo.workers, interceptors |-> todo.interceptors, api |-> Tail(todo.api)]
  <2>1. IsTodo(todo)
    BY <1>2, Zenon DEF IsTodo
  <2> QED
    BY <2>1, LeftToAdd, Zenon DEF Todo
<1>5. left.workers = todo.workers /\ left.interceptors = todo.interceptors /\ left.api = Tail(todo.api)
  BY <1>4
<1>6. left = [workers |-> left.workers, interceptors |-> left.interceptors, api |-> left.api]
  BY <1>4, <1>5
<1> HIDE DEF w, left
<1> QED
  BY <1>1, <1>2, <1>3, <1>5, <1>6, AddedWorkerKeeps

\* An interceptor registers no worker.
LEMMA AddNextInterceptorKeeps ==
  ASSUME IInv, addNextInterceptor
  PROVE  IInv'
<1> DEFINE left == [todo EXCEPT !.interceptors = Tail(@)]
<1> PICK n : n = addInterceptor(broker, Head(todo.interceptors))
  OBVIOUS
<1>1. /\ phase = "adding"
      /\ IF isRefused(n) THEN phase' = "unregistered" /\ UNCHANGED <<broker, todo>>
         ELSE broker' = n /\ todo' = left /\ UNCHANGED phase
      /\ UNCHANGED <<options, config, given, lines, ops, at, registered>>
  BY Zenon DEF addNextInterceptor, Added
<1>2. Readable'
  BY <1>1 DEF IInv, Readable, Read
<1>3. Connected'
  BY <1>1 DEF IInv, Connected, Connecting
<1>4. CASE isRefused(n)
  <2>1. phase' = "unregistered"
    BY <1>1, <1>4
  <2>2. AllAdded' /\ OnlyAdded'
    BY <2>1 DEF AllAdded, OnlyAdded, Connecting
  <2> QED
    BY <1>2, <1>3, <2>2 DEF IInv
<1>5. CASE ~isRefused(n)
  <2>1. broker' = n /\ todo' = left /\ phase' = "adding" /\ config' = config
    BY <1>1, <1>5
  <2>2. /\ IsBroker(broker) /\ broker.workers \subseteq NamesGiven /\ broker.connections = {}
        /\ DOMAIN broker.files \subseteq broker.workers
    BY <1>1 DEF IInv, OnlyAdded
  <2>3. /\ IsBroker(n) /\ n.workers = broker.workers /\ n.connections = broker.connections
        /\ n.files = broker.files
    BY <1>5, <2>2, AddInterceptor
  <2>4. OnlyAdded'
    <3>1. NamesGiven' = NamesGiven
      BY <2>1 DEF NamesGiven
    <3>2. IsBroker(broker)' /\ broker'.workers \subseteq NamesGiven' /\ broker'.connections = {}
          /\ DOMAIN broker'.files \subseteq broker'.workers
      BY <2>1, <2>2, <2>3, <3>1
    <3> QED
      BY <2>1, <3>2 DEF OnlyAdded, Connecting
  <2>5. AllAdded'
    <3>1. todo = [workers |-> todo.workers, interceptors |-> todo.interceptors, api |-> todo.api]
      BY <1>1 DEF IInv, AllAdded
    <3>2. left = [workers |-> todo.workers, interceptors |-> Tail(todo.interceptors), api |-> todo.api]
      <4>1. IsTodo(todo)
        BY <3>1, Zenon DEF IsTodo
      <4> QED
        BY <4>1, LeftToAdd, Zenon DEF Todo
    <3>3. left.workers = todo.workers /\ left.interceptors = Tail(todo.interceptors)
          /\ left.api = todo.api
      BY <3>2
    <3>4. \A x : IsAdded(x) => IsAdded(x)'
      BY <2>1, <2>3 DEF IsAdded
    <3> HIDE DEF left
    <3>5. todo' = [workers |-> todo'.workers, interceptors |-> todo'.interceptors, api |-> todo'.api]
          /\ todo'.workers = todo.workers /\ todo'.api = todo.api
      BY <2>1, <3>2, <3>3
    <3>6. /\ IsSequence(todo.workers) /\ IsSequence(todo.api)
          /\ ToSet(todo.workers) \subseteq ToSet(workersOf(config))
          /\ ToSet(todo.api) \subseteq ToSet(apiOf(config))
          /\ \A x \in ToSet(workersOf(config)) : x \in ToSet(todo.workers) \/ IsAdded(x)
          /\ \A x \in ToSet(apiOf(config)) : x \in ToSet(todo.api) \/ IsAdded(x)
      BY <1>1 DEF IInv, AllAdded
    <3> QED
      BY <2>1, <3>4, <3>5, <3>6 DEF AllAdded, Connecting
  <2> QED
    BY <1>2, <1>3, <2>4, <2>5 DEF IInv
<1> QED
  BY <1>4, <1>5

\* The operations of the pipelines are lines of operations.
LEMMA OpsAreLines ==
  ASSUME NEW names, names \in Seq(DOMAIN Texts), NEW all,
         all = [i \in DOMAIN names |-> parsePipeline(Texts[names[i]])]
  PROVE  Len(all) = Len(names) /\ Len(names) \in Nat /\ AreLines(all, Len(names))
<1> PICK n \in Nat : n = Len(names)
  OBVIOUS
<1>1. DOMAIN names = 1..n /\ \A i \in 1..n : names[i] \in DOMAIN Texts
  OBVIOUS
<1>2. Len(all) = n /\ DOMAIN all = 1..n /\ \A i \in 1..n : all[i] = parsePipeline(Texts[names[i]])
  BY <1>1
<1>3. \A i \in 1..n : IsLine(all[i])
  BY <1>1, <1>2, TextsAssumption, BackwardsEmbed
<1> QED
  BY <1>2, <1>3 DEF AreLines

\* Connecting begins when nothing is left to add, with no operation done.
LEMMA BeginKeeps ==
  ASSUME IInv, beginPipelines
  PROVE  IInv'
<1>1. /\ phase = "adding" /\ todo = Nothing /\ phase' = "connecting"
      /\ ops' = [i \in DOMAIN lines |-> parsePipeline(Texts[lines[i]])]
      /\ registered' = broker /\ UNCHANGED <<options, config, given, broker, todo, lines, at>>
  BY DEF beginPipelines
<1>2. Readable'
  BY <1>1 DEF IInv, Readable, Read
<1>3. ToSet(todo.workers) = {} /\ ToSet(todo.api) = {}
  <2>1. todo.workers = <<>> /\ todo.api = <<>>
    BY <1>1 DEF Nothing
  <2>2. ToSet(<<>>) = {}
    BY DEF ToSet
  <2> QED
    BY <2>1, <2>2
<1>4. \A w \in ToSet(workersOf(config)) \cup ToSet(apiOf(config)) : IsAdded(w)
  BY <1>1, <1>3 DEF IInv, AllAdded
<1>5. AllAdded'
  <2>1. \A w : IsAdded(w) => IsAdded(w)'
    BY <1>1 DEF IsAdded
  <2> QED
    BY <1>1, <1>4, <2>1 DEF AllAdded, Connecting
<1>6. /\ IsBroker(broker) /\ broker.workers \subseteq NamesGiven /\ broker.connections = {}
      /\ DOMAIN broker.files \subseteq broker.workers
  BY <1>1 DEF IInv, OnlyAdded
<1>7. broker.workers = NamesGiven
  BY <1>4, <1>6 DEF NamesGiven, IsAdded
<1>8. OnlyAdded'
  <2>1. NamesGiven' = NamesGiven
    BY <1>1 DEF NamesGiven
  <2>2. IsBroker(registered)' /\ registered'.workers = NamesGiven' /\ registered'.connections = {}
        /\ DOMAIN registered'.files \subseteq registered'.workers
    BY <1>1, <1>6, <1>7, <2>1
  <2> QED
    BY <1>1, <2>2 DEF OnlyAdded, Connecting
<1>9. Connected'
  <2> PICK r : r = broker
    OBVIOUS
  <2> PICK f : f = OpAt(ops)'
    OBVIOUS
  <2> PICK T : T = Taken(ops, at)'
    OBVIOUS
  <2>1. lines' \in Seq(DOMAIN Texts) /\ at' = <<1, 1>>
    BY <1>1 DEF IInv, Readable, Read, Connected
  <2>2. Len(ops') = Len(lines') /\ Len(lines') \in Nat /\ AreLines(ops, Len(lines))'
    <3>1. ops' = [i \in DOMAIN lines' |-> parsePipeline(Texts[lines'[i]])]
      BY <1>1
    <3> QED
      BY <2>1, <3>1, OpsAreLines
  <2> PICK n \in Nat : n = Len(ops')
    BY <2>2
  <2>3. DOMAIN ops' = 1..n /\ \A i \in 1..n : Len(ops'[i]) \in Nat /\ DOMAIN ops'[i] = 1..Len(ops'[i])
    BY <2>2 DEF AreLines, IsLine
  <2>4. T = {}
    <3>1. \A x \in Places(ops)' : x[1] \in 1..n /\ x[2] \in 1..Len(ops'[x[1]])
      BY <2>3 DEF Places
    <3>2. \A i \in 1..n : \A j \in 1..Len(ops'[i]) : ~(i < 1) /\ ~(j < 1)
      BY <2>3
    <3>3. \A x \in Places(ops)' : ~(x[1] < at'[1] \/ (x[1] = at'[1] /\ x[2] < at'[2]))
      BY <2>1, <3>1, <3>2
    <3> QED
      BY <3>3 DEF Taken
  <2>5. AllRequests(f, {}) = {} /\ Good(r, f, {})
    BY DEF AllRequests, Good
  <2>6. Reached(r, r, {})
    BY <1>6 DEF Reached, Ends, Words
  <2>7. at' \in (1..(Len(ops') + 1)) \X (Nat \ {0}) /\ (at'[1] <= Len(ops') => at'[2] <= Len(ops'[at'[1]]) + 1)
    <3>1. 1 \in 1..(n + 1)
      OBVIOUS
    <3>2. 1 <= n => 1 <= Len(ops'[1]) + 1
      BY <2>3
    <3> QED
      BY <2>1, <3>1, <3>2
  <2>8. Good(registered, OpAt(ops), Taken(ops, at))'
        /\ Reached(registered, broker, AllRequests(OpAt(ops), Taken(ops, at)))'
    BY <1>1, <2>4, <2>5, <2>6
  <2> QED
    BY <1>1, <2>7, <2>8 DEF Connected, Connecting
<1> QED
  BY <1>2, <1>5, <1>8, <1>9 DEF IInv

\* The place that is next.
LEMMA AtPlace ==
  ASSUME IInv, phase = "connecting"
  PROVE  /\ DOMAIN ops = 1..Len(ops) /\ Len(ops) \in Nat /\ AreLines(ops, Len(ops))
         /\ \A i \in 1..Len(ops) : Len(ops[i]) \in Nat /\ DOMAIN ops[i] = 1..Len(ops[i])
         /\ at = <<at[1], at[2]>> /\ at[1] \in 1..(Len(ops) + 1) /\ at[2] \in Nat \ {0}
         /\ at[1] <= Len(ops) => at[2] <= Len(ops[at[1]]) + 1
         /\ IsBroker(registered) /\ DOMAIN registered.files \subseteq registered.workers
<1>1. lines \in Seq(DOMAIN Texts) /\ ops = [i \in DOMAIN lines |-> parsePipeline(Texts[lines[i]])]
  BY DEF IInv, Readable, Connected, Read, Connecting
<1>2. Len(ops) = Len(lines) /\ Len(lines) \in Nat /\ AreLines(ops, Len(lines))
  BY <1>1, OpsAreLines
<1>3. /\ at \in (1..(Len(ops) + 1)) \X (Nat \ {0})
      /\ at[1] <= Len(ops) => at[2] <= Len(ops[at[1]]) + 1
  BY DEF IInv, Connected
<1>4. at = <<at[1], at[2]>> /\ at[1] \in 1..(Len(ops) + 1) /\ at[2] \in Nat \ {0}
  BY <1>3
<1>5. IsBroker(registered) /\ DOMAIN registered.files \subseteq registered.workers
  BY DEF IInv, OnlyAdded, Connecting
<1> QED
  <2>1. AreLines(ops, Len(ops))
    BY <1>2
  <2> QED
    BY <1>2, <1>3, <1>4, <1>5, <2>1 DEF AreLines, IsLine

\* What the places before the next become.
Steps(all, n, a, b) ==
  /\ a = n + 1 => Taken(all, <<a, b>>) = Places(all)
  /\ a <= n /\ b = Len(all[a]) + 1 => Taken(all, <<a + 1, 1>>) = Taken(all, <<a, b>>)
  /\ a <= n /\ b <= Len(all[a]) =>
       /\ <<a, b>> \in Places(all) /\ <<a, b>> \notin Taken(all, <<a, b>>)
       /\ Taken(all, <<a, b + 1>>) = Taken(all, <<a, b>>) \cup {<<a, b>>}

\* Going on to the next operation adds it to those done, going on to the next line none.
LEMMA TakenSteps ==
  ASSUME NEW all, NEW n \in Nat, AreLines(all, n), NEW a \in 1..(n + 1), NEW b \in Nat \ {0}
  PROVE  Steps(all, n, a, b)
<1>0. /\ DOMAIN all = 1..n
      /\ \A i \in 1..n : Len(all[i]) \in Nat /\ DOMAIN all[i] = 1..Len(all[i])
  BY DEF AreLines, IsLine
<1>1. ASSUME NEW x \in Places(all)
      PROVE  x = <<x[1], x[2]>> /\ x[1] \in 1..n /\ x[2] \in 1..Len(all[x[1]]) /\ x[2] \in Nat \ {0}
  <2>1. x = <<x[1], x[2]>> /\ x[1] \in 1..n /\ x[2] \in 1..Len(all[x[1]])
    BY <1>0 DEF Places
  <2> QED
    BY <1>0, <2>1
<1>2. <<a, b>>[1] = a /\ <<a, b>>[2] = b
  OBVIOUS
<1>3. \A x, to : x \in Taken(all, to) <=> x \in Places(all) /\ (x[1] < to[1] \/ (x[1] = to[1] /\ x[2] < to[2]))
  BY DEF Taken
<1>4. ASSUME a = n + 1 PROVE Taken(all, <<a, b>>) = Places(all)
  <2>1. \A i \in 1..n : i < a
    BY <1>4
  <2>2. ASSUME NEW x \in Places(all) PROVE x \in Taken(all, <<a, b>>)
    <3>1. x[1] < a
      BY <1>1, <2>1
    <3> QED
      BY <1>2, <1>3, <3>1
  <2> QED
    BY <1>3, <2>2
<1>5. ASSUME a <= n, b = Len(all[a]) + 1 PROVE Taken(all, <<a + 1, 1>>) = Taken(all, <<a, b>>)
  <2>1. \A i \in 1..n : i < a + 1 <=> i < a \/ i = a
    OBVIOUS
  <2>2. \A j \in 1..Len(all[a]) : j < b
    BY <1>5
  <2>3. \A j \in Nat \ {0} : ~(j < 1)
    OBVIOUS
  <2>4. <<a + 1, 1>>[1] = a + 1 /\ <<a + 1, 1>>[2] = 1
    OBVIOUS
  <2>5. ASSUME NEW x \in Places(all) PROVE x \in Taken(all, <<a + 1, 1>>) <=> x \in Taken(all, <<a, b>>)
    <3>1. x \in Taken(all, <<a + 1, 1>>) <=> x[1] < a + 1 \/ (x[1] = a + 1 /\ x[2] < 1)
      BY <1>3, <2>4
    <3>2. x \in Taken(all, <<a, b>>) <=> x[1] < a \/ (x[1] = a /\ x[2] < b)
      BY <1>2, <1>3
    <3>3. ~(x[2] < 1) /\ (x[1] < a + 1 <=> x[1] < a \/ x[1] = a) /\ (x[1] = a => x[2] < b)
      BY <1>1, <2>1, <2>2, <2>3
    <3> QED
      BY <3>1, <3>2, <3>3
  <2> QED
    BY <1>3, <2>5
<1>6. ASSUME a <= n, b <= Len(all[a])
      PROVE  /\ <<a, b>> \in Places(all) /\ <<a, b>> \notin Taken(all, <<a, b>>)
             /\ Taken(all, <<a, b + 1>>) = Taken(all, <<a, b>>) \cup {<<a, b>>}
  <2>1. a \in 1..n /\ b \in 1..Len(all[a])
    BY <1>6
  <2>2. <<a, b>> \in Places(all)
    BY <1>0, <2>1 DEF Places
  <2>3. ~(a < a) /\ ~(b < b)
    OBVIOUS
  <2>4. <<a, b>> \notin Taken(all, <<a, b>>)
    BY <1>2, <1>3, <2>3
  <2>5. \A j \in Nat \ {0} : j < b + 1 <=> j < b \/ j = b
    OBVIOUS
  <2>6. <<a, b + 1>>[1] = a /\ <<a, b + 1>>[2] = b + 1
    OBVIOUS
  <2>7. ASSUME NEW x \in Places(all)
        PROVE  x \in Taken(all, <<a, b + 1>>) <=> x \in Taken(all, <<a, b>>) \/ x = <<a, b>>
    <3>1. x \in Taken(all, <<a, b + 1>>) <=> x[1] < a \/ (x[1] = a /\ x[2] < b + 1)
      BY <1>3, <2>6
    <3>2. x \in Taken(all, <<a, b>>) <=> x[1] < a \/ (x[1] = a /\ x[2] < b)
      BY <1>2, <1>3
    <3>3. (x[2] < b + 1 <=> x[2] < b \/ x[2] = b) /\ (x = <<a, b>> <=> x[1] = a /\ x[2] = b)
      BY <1>1, <2>5
    <3>4. x = <<a, b>> => ~(x[1] < a)
      BY <2>3
    <3> QED
      BY <3>1, <3>2, <3>3, <3>4
  <2> QED
    BY <1>3, <2>2, <2>4, <2>7
<1> QED
  BY <1>4, <1>5, <1>6 DEF Steps

\* The next operation is connected, or the program fails and could not but fail.
LEMMA ConnectNextKeeps ==
  ASSUME IInv, connectNext
  PROVE  IInv'
<1>1. /\ phase = "connecting" /\ at[1] <= Len(ops)
      /\ UNCHANGED <<options, config, given, todo, lines, ops, registered>>
  BY DEF connectNext
<1>2. /\ DOMAIN ops = 1..Len(ops) /\ Len(ops) \in Nat /\ AreLines(ops, Len(ops))
      /\ \A i \in 1..Len(ops) : Len(ops[i]) \in Nat /\ DOMAIN ops[i] = 1..Len(ops[i])
      /\ at = <<at[1], at[2]>> /\ at[1] \in 1..(Len(ops) + 1) /\ at[2] \in Nat \ {0}
      /\ at[2] <= Len(ops[at[1]]) + 1
      /\ IsBroker(registered) /\ DOMAIN registered.files \subseteq registered.workers
  BY <1>1, AtPlace
<1> PICK n : n = Len(ops)
  OBVIOUS
<1> PICK a : a = at[1]
  OBVIOUS
<1> PICK b : b = at[2]
  OBVIOUS
<1> PICK r : r = registered
  OBVIOUS
<1> PICK f : f = OpAt(ops)
  OBVIOUS
<1> PICK T : T = Taken(ops, at)
  OBVIOUS
<1> PICK op : op = ops[a][b]
  OBVIOUS
<1> PICK c : c = connectOp(broker, op)
  OBVIOUS
<1>3. /\ n \in Nat /\ AreLines(ops, n) /\ DOMAIN ops = 1..n /\ a \in 1..(n + 1) /\ b \in Nat \ {0} /\ a <= n
      /\ \A i \in 1..n : Len(ops[i]) \in Nat /\ DOMAIN ops[i] = 1..Len(ops[i])
      /\ at = <<a, b>> /\ b <= Len(ops[a]) + 1 /\ T = Taken(ops, <<a, b>>)
  BY <1>1, <1>2
<1>4. /\ b > Len(ops[a]) => at' = <<a + 1, 1>> /\ UNCHANGED <<phase, broker>>
      /\ ~(b > Len(ops[a])) =>
           IF isRefused(c) THEN phase' = "unconnected" /\ UNCHANGED <<broker, at>>
           ELSE broker' = c /\ at' = <<a, b + 1>> /\ UNCHANGED phase
  BY Zenon DEF connectNext
<1>5. /\ ops = [i \in DOMAIN lines |-> parsePipeline(Texts[lines[i]])]
      /\ Good(r, f, T) /\ Reached(r, broker, AllRequests(f, T))
  BY <1>1 DEF IInv, Connected, Connecting
<1>6. phase' \in Connecting
  BY <1>1, <1>4 DEF Connecting
<1>7. Readable' /\ AllAdded' /\ OnlyAdded'
  <2>1. Readable'
    BY <1>1, <1>4 DEF IInv, Readable, Read
  <2>2. broker.workers \subseteq broker'.workers
    <3>1. CASE broker' = broker
      BY <3>1
    <3>2. CASE broker' # broker
      <4>1. broker' = c /\ ~isRefused(c)
        BY <1>4, <3>2
      <4>2. Outcome(r, f, T, broker)
        BY <1>5 DEF Outcome
      <4>3. \E C : Reached(r, c, AllRequests(f, T) \cup C)
        <5>1. IF FineOp(r, op) /\ \A x \in Requests(op), y \in AllRequests(f, T) : ~SamePair(x, y)
                THEN Reached(r, c, AllRequests(f, T) \cup Requests(op)) ELSE c = Refused
          <6>1. Reached(r, broker, AllRequests(f, T)) /\ DOMAIN r.files \subseteq r.workers
            BY <1>2, <1>5
          <6>2. IF FineOp(r, op) /\ \A x \in Requests(op), y \in AllRequests(f, T) : ~SamePair(x, y)
                  THEN Reached(r, connectOp(broker, op), AllRequests(f, T) \cup Requests(op))
                  ELSE connectOp(broker, op) = Refused
            BY <6>1, OperationConnects
          <6> QED
            BY <6>2
        <5>2. isRefused(Refused)
          BY DEF isRefused, Refused
        <5> QED
          BY <4>1, <5>1, <5>2
      <4>4. PICK C : Reached(r, c, AllRequests(f, T) \cup C)
        BY <4>3
      <4>5. Ends(AllRequests(f, T)) \subseteq Ends(AllRequests(f, T) \cup C)
        BY DEF Ends
      <4> QED
        BY <1>5, <4>1, <4>4, <4>5 DEF Reached
    <3> QED
      BY <3>1, <3>2
  <2>3. AllAdded'
    <3>1. \A w \in ToSet(workersOf(config)) \cup ToSet(apiOf(config)) : IsAdded(w)
      BY <1>1 DEF IInv, AllAdded, Connecting
    <3>2. \A w : IsAdded(w) => IsAdded(w)'
      BY <1>1, <2>2 DEF IsAdded
    <3>3. phase' # "adding"
      BY <1>6 DEF Connecting
    <3> QED
      BY <1>1, <3>1, <3>2, <3>3 DEF AllAdded
  <2>4. OnlyAdded'
    <3>1. /\ IsBroker(registered) /\ registered.workers = NamesGiven /\ registered.connections = {}
          /\ DOMAIN registered.files \subseteq registered.workers
      BY <1>1 DEF IInv, OnlyAdded, Connecting
    <3>2. NamesGiven' = NamesGiven
      BY <1>1 DEF NamesGiven
    <3>3. phase' \notin {"starting", "reading", "adding"}
      BY <1>6 DEF Connecting
    <3> QED
      BY <1>1, <3>1, <3>2, <3>3 DEF OnlyAdded
  <2> QED
    BY <2>1, <2>3, <2>4
<1>8. CASE b > Len(ops[a])
  <2>1. b = Len(ops[a]) + 1
    <3>1. a \in 1..n
      BY <1>3
    <3>2. Len(ops[a]) \in Nat
      BY <1>3, <3>1
    <3> QED
      BY <1>3, <1>8, <3>2
  <2>2. Taken(ops, <<a + 1, 1>>) = T
    <3>1. Steps(ops, n, a, b)
      BY <1>3, TakenSteps
    <3> QED
      BY <1>3, <2>1, <3>1 DEF Steps
  <2>3. at' = <<a + 1, 1>> /\ phase' = "connecting" /\ broker' = broker
    BY <1>1, <1>4, <1>8
  <2>4. at' \in (1..(n + 1)) \X (Nat \ {0}) /\ (at'[1] <= n => at'[2] <= Len(ops[at'[1]]) + 1)
    <3>1. a + 1 \in 1..(n + 1)
      BY <1>3
    <3>2. a + 1 <= n => 1 <= Len(ops[a + 1]) + 1
      <4>1. a + 1 <= n => a + 1 \in 1..n
        BY <1>3
      <4>2. \A l \in Nat : 1 <= l + 1
        OBVIOUS
      <4> QED
        BY <1>3, <4>1, <4>2
    <3> QED
      BY <2>3, <3>1, <3>2
  <2>5. (OpAt(ops))' = f /\ Taken(ops, at)' = T
    BY <1>1, <2>2, <2>3 DEF OpAt, Taken, Places
  <2>6. Connected'
    BY <1>1, <1>5, <2>3, <2>4, <2>5 DEF Connected, Connecting
  <2> QED
    BY <1>7, <2>6 DEF IInv
<1>9. CASE ~(b > Len(ops[a]))
  <2> DEFINE x == <<a, b>>
             U == T \cup {x}
  <2>1. a \in 1..n /\ b <= Len(ops[a])
    <3>1. a \in 1..n
      BY <1>3
    <3>2. Len(ops[a]) \in Nat
      BY <1>3, <3>1
    <3> QED
      BY <1>3, <1>9, <3>1, <3>2
  <2>2. x \in Places(ops) /\ x \notin T /\ Taken(ops, <<a, b + 1>>) = U
    <3>1. Steps(ops, n, a, b)
      BY <1>3, TakenSteps
    <3> QED
      BY <1>3, <2>1, <3>1 DEF Steps
  <2>3. f[x] = op
    BY <2>2 DEF OpAt
  <2>4. Outcome(r, f, T, broker)
    BY <1>5 DEF Outcome
  <2> HIDE DEF x
  <2>5. Outcome(r, f, U, c)
    <3>1. Outcome(r, f, T \cup {x}, connectOp(broker, f[x]))
      BY <1>2, <2>2, <2>4, OutcomeOfOneMore
    <3> QED
      BY <2>3, <3>1
  <2>6. U \subseteq Places(ops)
    BY <2>2 DEF Taken
  <2> HIDE DEF U
  <2>7. CASE isRefused(c)
    <3>1. phase' = "unconnected" /\ broker' = broker /\ at' = at
      BY <1>4, <1>9, <2>7
    <3>2. ~Good(r, f, U)
      BY <2>5, <2>7, BrokersAreNotRefused DEF Outcome, Reached
    <3>3. ~Good(r, f, Places(ops))
      BY <2>6, <3>2 DEF Good
    <3>4. OpAt(ops)' = f /\ Places(ops)' = Places(ops)
      BY <1>1 DEF OpAt, Places
    <3>5. Connected'
      BY <1>1, <1>5, <3>1, <3>3, <3>4 DEF Connected, Connecting
    <3> QED
      BY <1>7, <3>5 DEF IInv
  <2>8. CASE ~isRefused(c)
    <3>1. phase' = "connecting" /\ broker' = c /\ at' = <<a, b + 1>>
      BY <1>1, <1>4, <1>9, <2>8
    <3>2. isRefused(Refused)
      BY DEF isRefused, Refused
    <3>3. Good(r, f, U) /\ Reached(r, c, AllRequests(f, U))
      BY <2>5, <2>8, <3>2 DEF Outcome
    <3>4. at' \in (1..(n + 1)) \X (Nat \ {0}) /\ (at'[1] <= n => at'[2] <= Len(ops[at'[1]]) + 1)
      <4>1. b + 1 \in Nat \ {0} /\ b + 1 <= Len(ops[a]) + 1
        BY <1>3, <2>1
      <4> QED
        BY <1>3, <3>1, <4>1
    <3>5. (OpAt(ops))' = f /\ Taken(ops, at)' = U
      BY <1>1, <2>2, <3>1 DEF OpAt, Taken, Places
    <3>6. Connected'
      BY <1>1, <1>5, <3>1, <3>3, <3>4, <3>5 DEF Connected, Connecting
    <3> QED
      BY <1>7, <3>6 DEF IInv
  <2> QED
    BY <2>7, <2>8
<1> QED
  BY <1>8, <1>9

\* When the last line is done, every operation of every line is.
LEMMA RunKeeps ==
  ASSUME IInv, runAll
  PROVE  IInv'
<1>1. /\ phase = "connecting" /\ at[1] > Len(ops) /\ phase' = "running"
      /\ UNCHANGED <<options, config, given, broker, todo, lines, ops, at, registered>>
  BY DEF runAll
<1> PICK n : n = Len(ops)
  OBVIOUS
<1> PICK a : a = at[1]
  OBVIOUS
<1> PICK b : b = at[2]
  OBVIOUS
<1>2. /\ n \in Nat /\ AreLines(ops, n) /\ DOMAIN ops = 1..n /\ a \in 1..(n + 1) /\ b \in Nat \ {0} /\ a > n
      /\ \A i \in 1..n : Len(ops[i]) \in Nat /\ DOMAIN ops[i] = 1..Len(ops[i])
      /\ at = <<a, b>>
  BY <1>1, AtPlace
<1>3. a = n + 1
  BY <1>2
<1>4. Taken(ops, at) = Places(ops)
  <2>1. Steps(ops, n, a, b)
    BY <1>2, TakenSteps
  <2> QED
    BY <1>2, <1>3, <2>1 DEF Steps
<1>5. Readable'
  BY <1>1 DEF IInv, Readable, Read
<1>6. AllAdded'
  BY <1>1 DEF IInv, AllAdded, Connecting, IsAdded
<1>7. OnlyAdded'
  BY <1>1 DEF IInv, OnlyAdded, Connecting, NamesGiven
<1>8. Connected'
  <2>1. Good(registered, OpAt(ops), Places(ops))
        /\ Reached(registered, broker, AllRequests(OpAt(ops), Places(ops)))
    BY <1>1, <1>4 DEF IInv, Connected
  <2>2. ops = [i \in DOMAIN lines |-> parsePipeline(Texts[lines[i]])]
    BY <1>1 DEF IInv, Connected, Connecting
  <2>3. OpAt(ops)' = OpAt(ops) /\ Places(ops)' = Places(ops)
    BY <1>1 DEF OpAt, Places
  <2> QED
    BY <1>1, <2>1, <2>2, <2>3 DEF Connected, Connecting
<1> QED
  BY <1>5, <1>6, <1>7, <1>8 DEF IInv

\* A step that changes nothing keeps the invariant.
LEMMA StutterKeeps ==
  ASSUME IInv, UNCHANGED vars
  PROVE  IInv'
BY DEF vars, IInv, Readable, AllAdded, OnlyAdded, Connected, IsAdded, NamesGiven, OpAt, Places,
       Taken

\* In every state the launcher can be in, what it has done so far is what the
\* configuration and the pipelines say.
THEOREM LauncherInvariant == Spec => []IInv
<1>1. Init => IInv
  BY InitialState
<1>2. IInv /\ [Next]_vars => IInv'
  BY ParseKeeps, InitConfigKeeps, AddNextWorkerKeeps, AddNextInterceptorKeeps, AddApiKeeps,
     BeginKeeps, ConnectNextKeeps, RunKeeps, StutterKeeps DEF Next
<1> QED
  BY <1>1, <1>2, PTL DEF Spec

----------------------------------------------------------------------------
(* What follows from it. *)

\* When every operation is done, what is connected is what all of them ask for.
LEMMA InvariantRuns ==
  ASSUME IInv
  PROVE  RunsAsWritten
<1> SUFFICES ASSUME phase = "running" PROVE RunsAsWritten
  BY DEF RunsAsWritten
<1> DEFINE S == Places(ops)
           f == OpAt(ops)
           asked == AllRequests(f, S)
<1>1. Good(registered, f, S) /\ Reached(registered, broker, asked)
  BY DEF IInv, Connected
<1>2. registered.workers = NamesGiven /\ registered.connections = {}
  BY DEF IInv, OnlyAdded, Connecting
<1>3. broker.workers = NamesGiven \cup Ends(asked) /\ broker.connections = asked
  BY <1>1, <1>2 DEF Reached
<1>4. ASSUME NEW c \in asked, NEW d \in asked, SamePair(c, d) PROVE c = d
  <2>1. PICK x \in S : c \in Requests(f[x])
    BY DEF AllRequests
  <2>2. PICK y \in S : d \in Requests(f[y])
    BY DEF AllRequests
  <2> HIDE DEF S, f, asked
  <2>3. x = y
    BY <1>1, <1>4, <2>1, <2>2 DEF Good
  <2> PICK op : op = f[x]
    OBVIOUS
  <2>4. c \in Requests(op) /\ d \in Requests(op) /\ FineOp(registered, op)
    BY <1>1, <2>1, <2>2, <2>3 DEF Good
  <2>5. CASE op.type \in {"normal", "inverted"}
    BY <2>4, <2>5 DEF Requests
  <2>6. CASE op.type \notin {"normal", "inverted"}
    <3>1. op.left # op.right
      BY <2>4, <2>6 DEF FineOp
    <3>2. Requests(op) = {Request(op.left, op.right, fakePipe("normal", op.subpipe)),
                          Request(op.right, op.left, fakePipe("inverted", op.subpipe))}
      BY <2>6 DEF Requests
    <3>3. \A pipe, way : ~SamePair(Request(op.left, op.right, pipe), Request(op.right, op.left, way))
                         /\ ~SamePair(Request(op.right, op.left, way), Request(op.left, op.right, pipe))
      BY <3>1 DEF SamePair, Request
    <3> QED
      BY <1>4, <2>4, <3>2, <3>3
  <2> QED
    BY <2>5, <2>6
<1> HIDE DEF S, f, asked
<1> QED
  BY <1>3, <1>4 DEF RunsAsWritten, S, f, asked

\* The broker reached is the one the pipelines written backwards, in the opposite
\* order, would reach, and they fail where these do.
LEMMA InvariantFree ==
  ASSUME IInv
  PROVE  OrderIsFree
<1> SUFFICES ASSUME phase \in {"running", "unconnected"} PROVE OrderIsFree
  BY Zenon DEF OrderIsFree
<1> DEFINE turnedLines == [i \in DOMAIN lines |-> parsePipeline(WrittenBackwards(Texts[lines[i]]))]
           backwards == Reverse(turnedLines)
           outcome == connectLines(registered, backwards)
<1>1. lines \in Seq(DOMAIN Texts) /\ ops = [i \in DOMAIN lines |-> parsePipeline(Texts[lines[i]])]
  BY DEF IInv, Readable, Connected, Read, Connecting
<1> PICK n \in Nat : n = Len(lines)
  BY <1>1
<1>2. AreLines(ops, n)
  BY <1>1, OpsAreLines
<1>3. DOMAIN lines = 1..n /\ \A i \in 1..n : lines[i] \in DOMAIN Texts
  BY <1>1
<1>4. \A i \in 1..n : ops[i] = parsePipeline(Texts[lines[i]])
  BY <1>1, <1>3
<1>5. /\ Len(backwards) = n /\ DOMAIN backwards = 1..n
      /\ \A i \in 1..n : backwards[n + 1 - i] = parsePipeline(WrittenBackwards(Texts[lines[i]]))
  <2>1. Len(turnedLines) = n /\ \A i \in 1..n : turnedLines[i] = parsePipeline(WrittenBackwards(Texts[lines[i]]))
    BY <1>3
  <2> HIDE DEF turnedLines
  <2>2. backwards = [i \in 1..n |-> turnedLines[(n - i) + 1]]
    BY <2>1 DEF Reverse
  <2> HIDE DEF backwards
  <2>3. \A i \in 1..n : n + 1 - i \in 1..n /\ (n - (n + 1 - i)) + 1 = i
    OBVIOUS
  <2>4. Len(backwards) = n /\ DOMAIN backwards = 1..n
    BY <2>2
  <2>5. \A i \in 1..n : backwards[n + 1 - i] = turnedLines[i]
    BY <2>2, <2>3
  <2> QED
    BY <2>1, <2>4, <2>5
<1>6. \A i \in 1..n : n + 1 - i \in 1..n /\ n + 1 - (n + 1 - i) = i
  OBVIOUS
<1> HIDE DEF turnedLines, backwards
<1>7. ASSUME NEW i \in 1..n
      PROVE  /\ IsLine(backwards[n + 1 - i])
             /\ \E h : Embeds(h, ops[i], backwards[n + 1 - i])
             /\ \E h : Embeds(h, backwards[n + 1 - i], ops[i])
  <2>1. IsText(Texts[lines[i]])
    BY <1>3, TextsAssumption
  <2> PICK p : p = Texts[lines[i]]
    OBVIOUS
  <2>2. /\ IsLine(parsePipeline(WrittenBackwards(p)))
        /\ \E h : Embeds(h, parsePipeline(p), parsePipeline(WrittenBackwards(p)))
        /\ \E h : Embeds(h, parsePipeline(WrittenBackwards(p)), parsePipeline(p))
    BY <2>1, BackwardsEmbed
  <2> QED
    BY <1>4, <1>5, <2>2
<1>8. AreLines(backwards, n)
  BY <1>5, <1>6, <1>7 DEF AreLines
<1> DEFINE A == AllRequests(OpAt(ops), Places(ops))
           B == AllRequests(OpAt(backwards), Places(backwards))
<1>9. /\ \A r : Good(r, OpAt(backwards), Places(backwards)) => Good(r, OpAt(ops), Places(ops))
      /\ A \subseteq B
  <2>1. \A i \in 1..n : \E h : Embeds(h, ops[i], backwards[n + 1 - i])
    BY <1>7
  <2> QED
    BY <1>2, <1>8, <2>1, LinesEmbed
<1>10. /\ \A r : Good(r, OpAt(ops), Places(ops)) => Good(r, OpAt(backwards), Places(backwards))
       /\ B \subseteq A
  <2>1. \A i \in 1..n : \E h : Embeds(h, backwards[i], ops[n + 1 - i])
    BY <1>6, <1>7
  <2> QED
    BY <1>2, <1>8, <2>1, LinesEmbed
<1>11. IsBroker(registered) /\ DOMAIN registered.files \subseteq registered.workers
  BY DEF IInv, OnlyAdded, Connecting
<1>12. Reached(registered, registered, {})
  BY <1>11 DEF Reached, Ends, Words
<1>13. Outcome(registered, OpAt(backwards), Places(backwards), outcome)
  <2>1. /\ Len(backwards) \in Nat /\ DOMAIN backwards = 1..Len(backwards)
        /\ \A i \in 1..Len(backwards) : Len(backwards[i]) \in Nat /\ DOMAIN backwards[i] = 1..Len(backwards[i])
    BY <1>8 DEF AreLines, IsLine
  <2> QED
    BY <1>11, <1>12, <2>1, OutcomeOfLines
<1> HIDE DEF outcome
<1>14. isRefused(Refused)
  BY DEF isRefused, Refused
<1>15. CASE phase = "unconnected"
  <2>1. ~Good(registered, OpAt(ops), Places(ops))
    BY <1>15 DEF IInv, Connected
  <2>2. isRefused(outcome)
    BY <1>9, <1>13, <1>14, <2>1 DEF Outcome
  <2> QED
    BY <1>15, <2>2, Zenon DEF OrderIsFree, outcome, backwards, turnedLines
<1>16. CASE phase = "running"
  <2>1. Good(registered, OpAt(ops), Places(ops)) /\ Reached(registered, broker, A)
    BY <1>16 DEF IInv, Connected
  <2>2. Reached(registered, outcome, B)
    BY <1>10, <1>13, <2>1 DEF Outcome
  <2> HIDE DEF A, B
  <2>3. A = B
    BY <1>9, <1>10
  <2>4. ~isRefused(outcome) /\ outcome.connections = broker.connections
    BY <2>1, <2>2, <2>3, BrokersAreNotRefused DEF Reached
  <2>5. phase # "unconnected"
    BY <1>16
  <2> QED
    BY <2>4, <2>5, Zenon DEF OrderIsFree, outcome, backwards, turnedLines
<1> QED
  BY <1>15, <1>16

\* When everything runs, what is registered and connected is what the
\* configuration and the pipelines say.
THEOREM WhatRunsIsWritten == Spec => []RunsAsWritten
<1>1. IInv => RunsAsWritten
  BY InvariantRuns
<1> QED
  BY <1>1, LauncherInvariant, PTL

\* The order in which pipelines are written, and the direction of those of one,
\* make no difference.
THEOREM OrderOfPipelinesIsFree == Spec => []OrderIsFree
<1>1. IInv => OrderIsFree
  BY InvariantFree
<1> QED
  BY <1>1, LauncherInvariant, PTL

----------------------------------------------------------------------------
(* The registers of a slave. *)

\* A section of one name or of two.
LEMMA SectionOfOne ==
  ASSUME NEW o, NEW a
  PROVE  section(o, <<a>>) = o.values[a]
<1> DEFINE path == <<a>>
           Own(h) == h = [i \in 0..Len(path) |-> IF i = 0 THEN o ELSE h[i - 1].values[path[i]]]
           g == CHOOSE h : Own(h)
           f == [i \in 0..1 |-> IF i = 0 THEN o ELSE o.values[a]]
<1>1. section(o, path) = g[Len(path)]
  BY Zenon DEF section
<1>2. Len(path) = 1 /\ path[1] = a /\ 0..1 = {0, 1}
  OBVIOUS
<1> HIDE DEF path
<1>3. Own(f)
  <2>1. f[0] = o /\ f[1] = o.values[a] /\ 1 - 1 = 0
    BY <1>2
  <2>2. \A i \in 0..1 : f[i] = IF i = 0 THEN o ELSE f[i - 1].values[path[i]]
    BY <1>2, <2>1
  <2>3. f = [i \in 0..1 |-> f[i]]
    OBVIOUS
  <2> HIDE DEF f
  <2> QED
    BY <1>2, <2>2, <2>3
<1>4. Own(g)
  <2> HIDE DEF Own, f
  <2> QED
    BY <1>3
<1> HIDE DEF g
<1>5. \A i \in 0..1 : g[i] = IF i = 0 THEN o ELSE g[i - 1].values[path[i]]
  BY <1>2, <1>4
<1>6. g[0] = o /\ g[1] = g[0].values[path[1]]
  <2>1. 0 \in 0..1 /\ 1 \in 0..1 /\ 1 - 1 = 0
    BY <1>2
  <2> QED
    BY <1>5, <2>1
<1> QED
  BY <1>1, <1>2, <1>6 DEF path

\* A section of a section is found one name at a time.
LEMMA SectionOfTwo ==
  ASSUME NEW o, NEW a, NEW b
  PROVE  section(o, <<a, b>>) = section(o, <<a>>).values[b]
<1> DEFINE path == <<a, b>>
           Own(h) == h = [i \in 0..Len(path) |-> IF i = 0 THEN o ELSE h[i - 1].values[path[i]]]
           g == CHOOSE h : Own(h)
           f == [i \in 0..2 |-> IF i = 0 THEN o ELSE IF i = 1 THEN o.values[a]
                                ELSE o.values[a].values[b]]
<1>1. section(o, path) = g[Len(path)]
  BY Zenon DEF section
<1>2. Len(path) = 2 /\ path[1] = a /\ path[2] = b /\ 0..2 = {0, 1, 2}
  OBVIOUS
<1> HIDE DEF path
<1>3. Own(f)
  <2>1. f[0] = o /\ f[1] = o.values[a] /\ f[2] = o.values[a].values[b] /\ 1 - 1 = 0 /\ 2 - 1 = 1
    BY <1>2
  <2> HIDE DEF f
  <2>2. \A i \in 0..2 : f[i] = IF i = 0 THEN o ELSE f[i - 1].values[path[i]]
    BY <1>2, <2>1
  <2>3. f = [i \in 0..2 |-> f[i]]
    BY DEF f
  <2> QED
    BY <1>2, <2>2, <2>3
<1>4. Own(g)
  <2> HIDE DEF Own, f
  <2> QED
    BY <1>3
<1> HIDE DEF g
<1>5. \A i \in 0..2 : g[i] = IF i = 0 THEN o ELSE g[i - 1].values[path[i]]
  BY <1>2, <1>4
<1>6. g[0] = o /\ g[1] = g[0].values[path[1]] /\ g[2] = g[1].values[path[2]]
  <2>1. 0 \in 0..2 /\ 1 \in 0..2 /\ 2 \in 0..2 /\ 1 - 1 = 0 /\ 2 - 1 = 1
    BY <1>2
  <2> QED
    BY <1>5, <2>1
<1> QED
  BY <1>1, <1>2, <1>6, SectionOfOne DEF path

\* The words counted, unless a register is out of range.
Counts == [DOMAIN NoCounts -> Nat]

\* The counts of words so far, if all fitted.
CountsOrNone == Counts \cup {Refused}

\* A register with a table and an index.
IsRegister(reg) == TableOf(reg) \in DOMAIN NoCounts /\ IndexOf(reg) \in Int

\* A count that has not reached the limit is kept as it is.
LEMMA BelowLimit ==
  ASSUME NEW a \in Nat
  PROVE  a % CountSize \in Nat /\ (a < CountSize => a % CountSize = a)
BY CountAssumption

\* What counting one register does.
LEMMA CountedOne ==
  ASSUME NEW reg, IsRegister(reg)
  PROVE  /\ \A c \in CountsOrNone : counted(c, reg) \in CountsOrNone
         /\ counted(Refused, reg) = Refused
         /\ \A c \in Counts : counted(c, reg) # Refused =>
              /\ counted(c, reg) \in Counts
              /\ IndexOf(reg) <= c[TableOf(reg)]
              /\ \A t \in DOMAIN NoCounts :
                   counted(c, reg)[t] = IF t = TableOf(reg) THEN (c[t] + WordsOf(reg)) % CountSize
                                        ELSE c[t]
<1>1. "refused" \notin DOMAIN NoCounts
  BY DEF NoCounts, Tables
<1>2. \A c \in Counts : ~isRefused(c) /\ c # Refused
  BY <1>1 DEF isRefused, Refused, Counts
<1>3. isRefused(Refused)
  BY DEF isRefused, Refused
<1>4. WordsOf(reg) \in {1, 2}
  BY DEF WordsOf
<1> PICK table : table = TableOf(reg)
  OBVIOUS
<1> PICK index \in Int : index = IndexOf(reg)
  BY DEF IsRegister
<1> PICK words \in {1, 2} : words = WordsOf(reg)
  BY <1>4
<1>5. table \in DOMAIN NoCounts
  BY DEF IsRegister
<1>6. ASSUME NEW c
      PROVE  counted(c, reg) = IF isRefused(c) THEN Refused ELSE IF index > c[table] THEN Refused
                               ELSE [c EXCEPT ![table] = (@ + words) % CountSize]
  BY Zenon DEF counted, OutOfRange
<1>7. ASSUME NEW c \in Counts, counted(c, reg) # Refused
      PROVE  /\ counted(c, reg) \in Counts
             /\ index <= c[table]
             /\ \A t \in DOMAIN NoCounts :
                  counted(c, reg)[t] = IF t = table THEN (c[t] + words) % CountSize ELSE c[t]
  <2> PICK n : n = counted(c, reg)
    OBVIOUS
  <2>1. n = [c EXCEPT ![table] = (@ + words) % CountSize] /\ ~(index > c[table])
    BY <1>2, <1>6, <1>7
  <2> PICK D : D = DOMAIN NoCounts
    OBVIOUS
  <2>2. c \in [D -> Nat] /\ table \in D
    BY <1>5 DEF Counts
  <2> PICK sum : sum = (c[table] + words) % CountSize
    OBVIOUS
  <2>3. sum \in Nat
    <3>1. c[table] + words \in Nat
      BY <2>2
    <3> QED
      BY <3>1, BelowLimit
  <2>4. n = [c EXCEPT ![table] = sum]
    BY <2>1
  <2>5. n \in [D -> Nat] /\ n[table] = sum /\ \A t \in D : t # table => n[t] = c[t]
    BY <2>2, <2>3, <2>4
  <2>6. index <= c[table]
    BY <2>1, <2>2
  <2> QED
    BY <2>5, <2>6 DEF Counts
<1>8. counted(Refused, reg) = Refused
  BY <1>3, <1>6
<1>9. ASSUME NEW c \in CountsOrNone PROVE counted(c, reg) \in CountsOrNone
  BY <1>7, <1>8 DEF CountsOrNone
<1> QED
  BY <1>7, <1>8, <1>9

\* The tables after each register.
SizesAfter(r, regs, n) ==
  /\ r \in [0..n -> CountsOrNone] /\ r[0] = NoCounts
  /\ FoldLeft(counted, NoCounts, regs) = r[n]
  /\ \A i \in 1..n : r[i] = counted(r[i - 1], regs[i])

\* Counting goes on one register at a time, from the first.
LEMMA CountingSteps ==
  ASSUME NEW n \in Nat, NEW regs, DOMAIN regs = 1..n, \A i \in 1..n : IsRegister(regs[i])
  PROVE  \E r : SizesAfter(r, regs, n)
<1> DEFINE step == [xw \in (1..n) \X CountsOrNone |-> counted(xw[2], regs[xw[1]])]
           Own(g) == g = [T \in SUBSET (DOMAIN regs) |->
                            IF T = {} THEN NoCounts
                            ELSE counted(g[T \ {Max(T)}], regs[Max(T)])]
<1>1. NoCounts \in CountsOrNone
  BY DEF NoCounts, CountsOrNone, Counts
<1>2. ASSUME NEW x \in 1..n, NEW w \in CountsOrNone PROVE counted(w, regs[x]) \in CountsOrNone
  BY CountedOne
<1>3. FoldLeft(counted, NoCounts, regs) = (CHOOSE g : Own(g))[DOMAIN regs]
  BY Zenon DEF FoldLeft, MapThenFoldSet
<1>4. PICK f \in [SUBSET (1..n) -> CountsOrNone] :
        \A T \in SUBSET (1..n) : f[T] = IF T = {} THEN NoCounts
                                        ELSE counted(f[T \ {Max(T)}], regs[Max(T)])
  <2>1. \A x \in 1..n, w \in CountsOrNone : step[<<x, w>>] = counted(w, regs[x])
    OBVIOUS
  <2>2. StaysIn(step, 1..n, CountsOrNone)
    <3> HIDE DEF step
    <3> QED
      BY <1>2, <2>1, Zenon DEF StaysIn
  <2> HIDE DEF step
  <2>3. PICK f \in [SUBSET (1..n) -> CountsOrNone] : FoldsRange(f, n, NoCounts, step)
    BY <1>1, <2>2, FoldOverRange, Zenon
  <2>4. ASSUME NEW T \in SUBSET (1..n)
        PROVE  f[T] = IF T = {} THEN NoCounts ELSE counted(f[T \ {Max(T)}], regs[Max(T)])
    <3>1. CASE T = {}
      BY <2>3, <3>1 DEF FoldsRange
    <3>2. CASE T # {}
      <4>1. Max(T) \in 1..n /\ f[T \ {Max(T)}] \in CountsOrNone
        BY <3>2, MaxFacts
      <4>2. f[T] = step[<<Max(T), f[T \ {Max(T)}]>>]
        BY <2>3, <3>2 DEF FoldsRange
      <4> QED
        BY <2>1, <3>2, <4>1, <4>2
    <3> QED
      BY <3>1, <3>2
  <2> QED
    BY <2>4
<1> DEFINE g == CHOOSE h : Own(h)
<1>5. Own(g)
  <2>1. Own(f)
    BY <1>4
  <2> HIDE DEF Own
  <2> QED
    BY <2>1
<1> HIDE DEF g
<1>6. \A T \in SUBSET (1..n) : g[T] = IF T = {} THEN NoCounts
                                      ELSE counted(g[T \ {Max(T)}], regs[Max(T)])
  BY <1>5
<1>7. g[{}] = NoCounts
  BY <1>6
<1>8. ASSUME NEW i \in 1..n PROVE g[1..i] = counted(g[1..(i - 1)], regs[i])
  <2>1. /\ 1..i \in SUBSET (1..n) /\ 1..i # {}
        /\ Max(1..i) = i /\ (1..i) \ {i} = 1..(i - 1)
    BY RangeFacts
  <2>2. g[1..i] = counted(g[(1..i) \ {Max(1..i)}], regs[Max(1..i)])
    BY <1>6, <2>1, Zenon
  <2> QED
    BY <2>1, <2>2, Zenon
<1> DEFINE r == [i \in 0..n |-> g[1..i]]
<1>9. r[0] = NoCounts /\ r[n] = g[1..n]
  <2>1. 1..0 = {}
    OBVIOUS
  <2> QED
    BY <1>7, <2>1
<1>10. ASSUME NEW i \in 1..n PROVE r[i] = counted(r[i - 1], regs[i])
  <2>1. i \in 0..n /\ i - 1 \in 0..n
    OBVIOUS
  <2> QED
    BY <1>8, <2>1
<1>11. FoldLeft(counted, NoCounts, regs) = r[n]
  <2> HIDE DEF Own, r
  <2> QED
    BY <1>3, <1>9 DEF g
<1> DEFINE P == {i \in Nat : i <= n => r[i] \in CountsOrNone}
<1>12. r = [i \in 0..n |-> r[i]]
  OBVIOUS
<1> HIDE DEF r, Own
<1>13. \A i \in Nat : i \in P
  <2>1. 0 \in P
    BY <1>1, <1>9
  <2>2. ASSUME NEW i \in Nat, i \in P PROVE i + 1 \in P
    <3> SUFFICES ASSUME i + 1 <= n PROVE r[i + 1] \in CountsOrNone
      OBVIOUS
    <3>1. i + 1 \in 1..n /\ (i + 1) - 1 = i /\ i <= n
      OBVIOUS
    <3>2. r[i] \in CountsOrNone
      BY <2>2, <3>1
    <3>3. r[i + 1] = counted(r[i], regs[i + 1])
      BY <1>10, <3>1
    <3> QED
      BY <1>2, <3>1, <3>2, <3>3
  <2> HIDE DEF P
  <2> QED
    BY <2>1, <2>2, NaturalsInduct
<1>14. r \in [0..n -> CountsOrNone]
  BY <1>12, <1>13
<1> QED
  BY <1>9, <1>10, <1>11, <1>14 DEF SizesAfter

\* The words of a table that its first k registers have.
WordsTo(regs, k, table) ==
  {x \in (1..k) \X {0, 1} : TableOf(regs[x[1]]) = table /\ x[2] < WordsOf(regs[x[1]])}

\* They are finitely many, and each register adds its own.
LEMMA WordsAdded ==
  ASSUME NEW regs, NEW table, NEW k \in Nat
  PROVE  /\ IsFiniteSet(WordsTo(regs, k, table)) /\ Cardinality(WordsTo(regs, k, table)) \in Nat
         /\ Cardinality(WordsTo(regs, 0, table)) = 0
         /\ Cardinality(WordsTo(regs, k + 1, table)) =
              Cardinality(WordsTo(regs, k, table)) +
              (IF TableOf(regs[k + 1]) = table THEN WordsOf(regs[k + 1]) ELSE 0)
<1> DEFINE W(i) == WordsTo(regs, i, table)
           one == <<k + 1, 0>>
           two == <<k + 1, 1>>
<1>1. IsFiniteSet(W(k)) /\ Cardinality(W(k)) \in Nat
  <2>1. IsFiniteSet(1..k) /\ IsFiniteSet(0..1)
    <3>1. 0 \in Int /\ 1 \in Int /\ k \in Int
      OBVIOUS
    <3> QED
      BY <3>1, FS_Interval, Zenon
  <2>2. IsFiniteSet({0, 1})
    <3>1. {0, 1} = 0..1
      OBVIOUS
    <3> QED
      BY <2>1, <3>1
  <2>3. IsFiniteSet((1..k) \X {0, 1})
    BY <2>1, <2>2, FS_Product
  <2>4. W(k) \subseteq (1..k) \X {0, 1}
    BY DEF WordsTo
  <2> QED
    BY <2>3, <2>4, FS_Subset, FS_CardinalityType
<1>2. Cardinality(W(0)) = 0
  <2>1. W(0) = {}
    BY DEF WordsTo
  <2> QED
    BY <2>1, FS_EmptySet
<1>3. WordsOf(regs[k + 1]) \in {1, 2}
  BY DEF WordsOf
<1>4. (1..(k + 1)) = (1..k) \cup {k + 1} /\ k + 1 \notin 1..k
  OBVIOUS
<1>5. one \notin W(k) /\ two \notin W(k) \cup {one} /\ 0 # 1
  BY <1>4 DEF WordsTo
<1>6. CASE TableOf(regs[k + 1]) # table
  <2>1. W(k + 1) = W(k)
    BY <1>4, <1>6 DEF WordsTo
  <2> QED
    BY <1>1, <1>2, <1>6, <2>1
<1>7. CASE TableOf(regs[k + 1]) = table /\ WordsOf(regs[k + 1]) = 1
  <2>1. W(k + 1) = W(k) \cup {one}
    BY <1>4, <1>7 DEF WordsTo
  <2>2. Cardinality(W(k) \cup {one}) = Cardinality(W(k)) + 1
    BY <1>1, <1>5, FS_AddElement
  <2> QED
    BY <1>1, <1>2, <1>7, <2>1, <2>2
<1>8. CASE TableOf(regs[k + 1]) = table /\ WordsOf(regs[k + 1]) = 2
  <2>1. W(k + 1) = (W(k) \cup {one}) \cup {two}
    BY <1>4, <1>8 DEF WordsTo
  <2>2. /\ IsFiniteSet(W(k) \cup {one}) /\ Cardinality(W(k) \cup {one}) = Cardinality(W(k)) + 1
    BY <1>1, <1>5, FS_AddElement
  <2>3. Cardinality((W(k) \cup {one}) \cup {two}) = (Cardinality(W(k)) + 1) + 1
    BY <1>5, <2>2, FS_AddElement
  <2> QED
    BY <1>1, <1>2, <1>8, <2>1, <2>3
<1> QED
  BY <1>3, <1>6, <1>7, <1>8

\* A register that is counted fits its table in the end, if the words of that are
\* below the limit: then none of its counts has begun anew.
LEMMA CountedFit ==
  ASSUME NEW n \in Nat, NEW regs, DOMAIN regs = 1..n, \A i \in 1..n : IsRegister(regs[i]),
         NEW sizes, sizes = FoldLeft(counted, NoCounts, regs), ~isRefused(sizes), NEW i \in 1..n,
         wordsIn(regs, TableOf(regs[i])) < CountSize
  PROVE  IndexOf(regs[i]) + WordsOf(regs[i]) <= sizes[TableOf(regs[i])]
<1>1. PICK r : SizesAfter(r, regs, n)
  BY CountingSteps
<1>2. /\ r \in [0..n -> CountsOrNone] /\ r[0] = NoCounts /\ r[n] = sizes
      /\ \A j \in 1..n : r[j] = counted(r[j - 1], regs[j])
  BY <1>1 DEF SizesAfter
<1>3. isRefused(Refused)
  BY DEF isRefused, Refused
<1> PICK table : table = TableOf(regs[i])
  OBVIOUS
<1> PICK end : end = IndexOf(regs[i]) + WordsOf(regs[i])
  OBVIOUS
<1>4. table \in DOMAIN NoCounts /\ end \in Int
  <2>1. IsRegister(regs[i])
    OBVIOUS
  <2>2. WordsOf(regs[i]) \in {1, 2}
    BY DEF WordsOf
  <2> QED
    BY <2>1, <2>2 DEF IsRegister
<1> DEFINE W(k) == WordsTo(regs, k, table)
           card(k) == Cardinality(W(k))
<1>5. card(n) < CountSize
  <2>1. W(n) = {x \in (DOMAIN regs) \X {0, 1} :
                  TableOf(regs[x[1]]) = table /\ x[2] < WordsOf(regs[x[1]])}
    BY DEF WordsTo
  <2> QED
    BY <2>1 DEF wordsIn
<1>6. ASSUME NEW k \in 0..n PROVE card(k) \in Nat /\ card(k) < CountSize
  <2>1. IsFiniteSet(W(n)) /\ card(n) \in Nat /\ card(k) \in Nat
    <3>1. k \in Nat
      OBVIOUS
    <3> QED
      BY <3>1, WordsAdded
  <2>2. W(k) \subseteq W(n)
    BY DEF WordsTo
  <2>3. card(k) <= card(n)
    BY <2>1, <2>2, FS_Subset
  <2> HIDE DEF card
  <2> QED
    BY <1>5, <2>1, <2>3, CountAssumption
<1> DEFINE Exact(k) == /\ r[k] \in Counts /\ r[k][table] = card(k)
                       /\ k >= i => end <= r[k][table]
           P == {k \in Nat : k <= n => r[k] = Refused \/ Exact(k)}
<1>7. 0 \in P
  <2>1. r[0] = NoCounts /\ ~(0 >= i)
    BY <1>2
  <2>2. NoCounts \in Counts /\ NoCounts[table] = 0
    BY <1>4 DEF Counts, NoCounts
  <2>3. card(0) = 0
    BY WordsAdded
  <2> QED
    BY <2>1, <2>2, <2>3
<1>8. ASSUME NEW k \in Nat, k \in P PROVE k + 1 \in P
  <2> SUFFICES ASSUME k + 1 <= n, r[k + 1] # Refused PROVE Exact(k + 1)
    OBVIOUS
  <2>1. k + 1 \in 1..n /\ (k + 1) - 1 = k /\ k <= n /\ k \in 0..n /\ k + 1 \in 0..n
    OBVIOUS
  <2> PICK c : c = r[k]
    OBVIOUS
  <2> PICK reg : reg = regs[k + 1]
    OBVIOUS
  <2> PICK d : d = r[k + 1]
    OBVIOUS
  <2>2. d = counted(c, reg) /\ IsRegister(reg)
    BY <1>2, <2>1
  <2>3. c # Refused
    BY <2>2, CountedOne
  <2>4. c \in Counts /\ c[table] = card(k) /\ (k >= i => end <= c[table])
    BY <1>8, <2>1, <2>3
  <2>5. /\ d \in Counts /\ IndexOf(reg) <= c[TableOf(reg)]
        /\ d[table] = IF table = TableOf(reg) THEN (c[table] + WordsOf(reg)) % CountSize ELSE c[table]
    BY <1>4, <2>2, <2>4, CountedOne
  <2>6. WordsOf(reg) \in {1, 2} /\ IndexOf(reg) \in Int
    BY <2>2 DEF WordsOf, IsRegister
  <2>7. card(k + 1) = card(k) + (IF TableOf(reg) = table THEN WordsOf(reg) ELSE 0)
    BY WordsAdded
  <2>8. card(k) \in Nat /\ card(k + 1) \in Nat /\ card(k + 1) < CountSize
    BY <1>6, <2>1
  <2> HIDE DEF card
  <2>9. d[table] = card(k + 1)
    <3>1. CASE TableOf(reg) = table
      <4>1. d[table] = card(k + 1) % CountSize
        BY <2>4, <2>5, <2>7, <3>1
      <4> QED
        BY <2>8, <4>1, BelowLimit
    <3>2. CASE TableOf(reg) # table
      BY <2>4, <2>5, <2>6, <2>7, <2>8, <3>2
    <3> QED
      BY <3>1, <3>2
  <2>10. k + 1 >= i => end <= d[table]
    <3>1. CASE k + 1 = i
      <4>1. reg = regs[i] /\ TableOf(reg) = table /\ end = IndexOf(reg) + WordsOf(reg)
        BY <3>1
      <4> QED
        BY <2>4, <2>5, <2>6, <2>7, <2>8, <2>9, <4>1
    <3>2. CASE k + 1 # i
      <4>1. k + 1 >= i => k >= i
        BY <3>2
      <4>2. card(k) <= card(k + 1)
        BY <2>6, <2>7, <2>8
      <4> QED
        BY <1>4, <2>4, <2>8, <2>9, <4>1, <4>2
    <3> QED
      BY <3>1, <3>2
  <2> QED
    BY <2>5, <2>9, <2>10
<1>9. n \in P
  <2> HIDE DEF P
  <2> QED
    BY <1>7, <1>8, NaturalsInduct
<1>10. r[n] # Refused
  BY <1>2, <1>3
<1>11. end <= r[n][table]
  BY <1>9, <1>10
<1> QED
  BY <1>2, <1>11

\* A slave is started only if its registers fit the tables it makes, as far as
\* RegistersFit says.
LEMMA InvariantFits ==
  ASSUME IInv
  PROVE  RegistersFit
<1> DEFINE modbus == section(config, <<"modbus">>)
<1> SUFFICES ASSUME phase \in {"connecting", "running"}, NEW w \in ToSet(modbus.values.slaves.list)
             PROVE  fits(workerInit(modbus, w).registers, slaveInit(modbus, w))
  BY Zenon DEF RegistersFit
<1>1. IsConfig(config) /\ ~modbusRefused(modbus)
  BY DEF IInv, Readable, Read
<1> DEFINE all == modbus.values.registers.map
           d == w.values.registers.leaf
           regs == workerInit(modbus, w)
           s == regs.registers
           sizes == slaveInit(modbus, w)
<1>2. /\ \A x \in ToSet(modbus.values.slaves.list) : x.class = "ModbusSlave"
      /\ \A x \in DOMAIN all : isRefused(registersOf(all[x])) \/ AreRegisters(registersOf(all[x]))
  BY <1>1, Zenon DEF IsConfig, IsModbus
<1>3. ~isRefused(sizes)
  BY <1>1, Zenon DEF modbusRefused
<1>4. sizes = IF isRefused(regs) THEN Refused ELSE FoldLeft(counted, NoCounts, s)
  BY Zenon DEF slaveInit, tableSizes
<1>5. isRefused(Refused)
  BY DEF isRefused, Refused
<1>6. ~isRefused(regs) /\ sizes = FoldLeft(counted, NoCounts, s)
  <2> HIDE DEF sizes, regs, s
  <2> QED
    BY <1>3, <1>4, <1>5
<1>7. AreRegisters(regs)
  <2> HIDE DEF modbus, all, d
  <2>1. regs = IF d \notin DOMAIN all \/ w.values.device \notin devicesMap(modbus) THEN Refused
               ELSE notEmpty(registersOf(all[d]))
    BY Zenon DEF workerInit, all, d
  <2> HIDE DEF regs
  <2>2. d \in DOMAIN all /\ regs = notEmpty(registersOf(all[d]))
    BY <1>5, <1>6, <2>1
  <2>3. ~isRefused(registersOf(all[d])) /\ regs = registersOf(all[d])
    BY <1>5, <1>6, <2>2 DEF notEmpty
  <2> QED
    BY <1>2, <2>2, <2>3
<1>8. ~collides(s)
  <2>1. PICK x \in ToSet(workersOf(config)) : x.made = w
    <3>1. 11 \in DOMAIN WorkerSections /\ WorkerSections[11] = <<"modbus", "slaves">>
      BY DEF WorkerSections
    <3>2. section(config, <<"modbus", "slaves">>) = modbus.values["slaves"]
      BY SectionOfTwo
    <3>3. w \in ToSet(section(config, WorkerSections[11]).list)
      BY <3>1, <3>2
    <3> QED
      BY <1>1, <3>1, <3>3, WorkersAre
  <2>2. ~constructorThrows(config, w)
    BY <2>1 DEF IInv, AllAdded, Connecting, IsAdded
  <2>3. w.class = "ModbusSlave"
    BY <1>2
  <2> QED
    BY <2>2, <2>3 DEF constructorThrows
<1> HIDE DEF regs, sizes, modbus
<1> PICK n \in Nat : n = Len(s)
  BY <1>7 DEF AreRegisters, IsSequence
<1>9. DOMAIN s = 1..n /\ \A i \in 1..n : IsRegister(s[i])
  BY <1>7 DEF AreRegisters, IsSequence, IsRegister
<1> HIDE DEF s
<1>10. ASSUME NEW i \in 1..n, wordsIn(s, TableOf(s[i])) < CountSize
       PROVE  IndexOf(s[i]) + WordsOf(s[i]) <= sizes[TableOf(s[i])]
  BY <1>3, <1>6, <1>9, <1>10, CountedFit
<1>11. ASSUME NEW i \in 1..n, NEW j \in (1..n) \ {i}
       PROVE  <<TableOf(s[j]), IndexOf(s[j])>> # <<TableOf(s[i]), IndexOf(s[i])>>
  BY <1>8, <1>9 DEF collides
<1>12. fits(s, sizes)
  BY <1>9, <1>10, <1>11 DEF fits
<1> QED
  BY <1>12 DEF s, regs, sizes

\* Every register of a slave lies in the table it makes for it, unless its index is
\* negative or the words of its table were too many to be counted, and none begins
\* where another does.
THEOREM RegistersOfSlavesFit == Spec => []RegistersFit
<1>1. IInv => RegistersFit
  BY InvariantFits
<1> QED
  BY <1>1, LauncherInvariant, PTL
====
