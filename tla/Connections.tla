---- MODULE Connections ----
(***************************************************************************)
(* Pipelines: from their text, through the operations it stands for, to    *)
(* the workers and interceptors created on the way and the connections the *)
(* broker makes.                                                           *)
(*                                                                         *)
(* A word of a pipeline is a function with its arguments, or a name, which *)
(* is a function without.  A pipeline is the items between its splitters,  *)
(* interceptors marked with a star, and the splitters.                     *)
(***************************************************************************)
EXTENDS Settings

CONSTANT Present  \* the files that can be opened

Name(n) == [func |-> n, args |-> <<>>]

----------------------------------------------------------------------------
(* Creation.                                                               *)

validating(pairs, inverse) == [kind |-> "validating", pairs |-> pairs, inverse |-> inverse]

tryCreateInterceptor(w) ==
  LET has(n) == Len(w.args) >= n
      fields(n) == {w.args[i] : i \in n..Len(w.args)}
      each(validator, names) == {[validator |-> validator, field |-> f] : f \in names}
  IN CASE w.func \in {"wrap", "unwrap"} /\ has(1) -> [kind |-> w.func, key |-> w.args[1]]
       [] w.func \in {"block", "allow"} -> validating(each("invalidate", fields(1)), w.func = "allow")
       [] w.func = "rename" /\ has(2) -> [kind |-> w.func]
       [] w.func = "remap" /\ has(3) -> [kind |-> w.func]
       [] w.func = "add_timestamp" /\ has(1) ->
            validating(each("set_unix_timestamp", {w.args[1]}), FALSE)
       [] w.func = "validate" /\ has(2) ->
            IF w.args[1] \in Validators THEN validating(each(w.args[1], fields(2)), FALSE) ELSE Refused
       [] w.func = "add_metadata" -> [kind |-> w.func]
       [] OTHER -> Refused

\* The workers a pipeline can create by naming them, each with its arguments.
\* (Python modules, which take their settings from the file, are left out.)
WorkerArgs ==
  "repeater" :> <<>> @@ "mock" :> <<>> @@ "file" :> <<"text">> @@ "udp.in" :> <<"word">> @@
  "udp.out" :> <<"text", "word">> @@ "websocket.server" :> <<"word">> @@
  "websocket.client" :> <<"text", "word">>

\* The standard streams are open, and each goes one way.
opens(filepath) == filepath \in Present \cup {"stdin", "stdout"}

\* An argument as a value of a type, invalid if it is missing or does not convert.
tryExtract(w, i, type) == IF Len(w.args) < i THEN Invalid ELSE convert(type, Leaf(w.args[i]))

canCreateWorker(w) ==
  /\ w.func \in DOMAIN WorkerArgs
  /\ \A i \in DOMAIN WorkerArgs[w.func] : isValid(tryExtract(w, i, WorkerArgs[w.func][i]))
  /\ w.func = "file" => opens(w.args[1])

----------------------------------------------------------------------------
(* Connection.  A broker is its workers, those of them that are files each *)
(* with its path, its interceptors by their names, its connections and the *)
(* one setting that matters.                                               *)

areConnected(b, producer, consumer) ==
  \E c \in b.connections : c.producer = producer /\ c.consumer = consumer

\* A file worker throws when it is connected against the way its file goes.
isFile(b, w, filepath) == w \in DOMAIN b.files /\ b.files[w] = filepath

connectProxyToWorker(b, producer, consumer, pipe) ==
  IF \/ producer = consumer /\ ~b.allow_self_connect
     \/ areConnected(b, producer, consumer)
     \/ isFile(b, producer, "stdout") \/ isFile(b, consumer, "stdin")
    THEN Refused
    ELSE [b EXCEPT !.connections =
            @ \cup {[producer |-> producer, consumer |-> consumer, pipe |-> pipe]}]

\* What is inserted in a map goes over what is there.
Over(f, g) == [x \in DOMAIN f \cup DOMAIN g |-> IF x \in DOMAIN f THEN f[x] ELSE g[x]]

\* The program ends with what throws here, whatever was created before.
tryConnecting(b, producer, consumer, pipe) ==
  LET made == [w \in ToSet(pipe) \ DOMAIN b.interceptors |-> tryCreateInterceptor(w)]
      created == {producer, consumer} \ b.workers
  IN IF \/ \E w \in DOMAIN made : isRefused(made[w])
        \/ \E w \in created : ~canCreateWorker(w)
       THEN Refused
       ELSE connectProxyToWorker([b EXCEPT !.interceptors = Over(made, @),
                                           !.workers = @ \cup created,
                                           !.files = Over([w \in {x \in created : x.func = "file"} |->
                                                            w.args[1]], @)],
                                 producer, consumer, pipe)

\* What a function between "<=" and "=>" is in one direction.
oneWay(dir, w) ==
  CASE w.func = "branch" -> [w EXCEPT !.func = IF dir = "normal" THEN "unwrap" ELSE "wrap"]
    [] w.func \in {"block", "allow"} -> w
    [] w.func \in {"rename", "remap"} ->
         [w EXCEPT !.args = IF dir = "normal" THEN @ ELSE Reverse(@)]
    [] OTHER -> Refused

\* Variant for mutation: the way back has its functions in the order of the way
\* there.
fakePipeInOrder(dir, subpipe) == [i \in DOMAIN subpipe |-> oneWay(dir, subpipe[i])]

fakePipe(dir, subpipe) ==
  LET words == [i \in DOMAIN subpipe |-> oneWay(dir, subpipe[i])]
  IN IF dir = "normal" THEN words ELSE Reverse(words)

tryCreateBidirConnect(b, left, right, subpipe) ==
  IF \E w \in ToSet(fakePipe("normal", subpipe)) : isRefused(w) THEN Refused
  ELSE LET there == tryConnecting(b, left, right, fakePipe("normal", subpipe))
       IN IF isRefused(there) THEN Refused
          ELSE tryConnecting(there, right, left, fakePipe("inverted", subpipe))

\* Variant for mutation: a pipe written from right to left is not turned round.
initOpInOrder(b, op) ==
  CASE op.type = "normal" -> tryConnecting(b, op.left, op.right, op.subpipe)
    [] op.type = "inverted" -> tryConnecting(b, op.right, op.left, op.subpipe)
    [] OTHER -> tryCreateBidirConnect(b, op.left, op.right, op.subpipe)

initOp(b, op) ==
  CASE op.type = "normal" -> tryConnecting(b, op.left, op.right, op.subpipe)
    [] op.type = "inverted" -> tryConnecting(b, op.right, op.left, Reverse(op.subpipe))
    [] OTHER -> tryCreateBidirConnect(b, op.left, op.right, op.subpipe)

----------------------------------------------------------------------------
(* Text. *)

\* The operation that ends with the item after a splitter: from the last worker
\* before it, through the interceptors between them.  handleSplitter wants all of
\* its splitters to go one way, and one only if it goes both ways.
operationTo(p, i) ==
  LET from == Max({k \in 1..i : ~p.items[k].star})
      first == p.splitters[from]
  IN IF \/ \E k \in from..i : p.splitters[k].dir # first.dir
        \/ first.dir = "bidirectional" /\ from # i
       THEN Refused
       ELSE [left |-> p.items[from].word, right |-> p.items[i + 1].word, type |-> first.dir,
             subpipe |-> IF first.dir = "bidirectional" THEN first.between
                         ELSE [k \in 1..(i - from) |-> p.items[from + k].word]]

\* One for each worker but the first.
operations(p) ==
  LET upTo[i \in 0..(Len(p.items) - 1)] ==
        IF i = 0 THEN <<>>
        ELSE IF p.items[i + 1].star THEN upTo[i - 1] ELSE Append(upTo[i - 1], operationTo(p, i))
  IN upTo[Len(p.items) - 1]

\* The operations of a pipeline, or one that is refused if its text is.
isMalformed(p) == Len(p.items) < 2 \/ p.items[1].star \/ p.items[Len(p.items)].star
parsePipeline(p) ==
  IF isMalformed(p) THEN <<Refused>>
  ELSE LET ops == operations(p)
       IN IF \E j \in DOMAIN ops : isRefused(ops[j]) THEN <<Refused>> ELSE ops
====
