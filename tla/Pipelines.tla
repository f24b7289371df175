---- MODULE Pipelines ----
(***************************************************************************)
(* What the interceptors of a pipeline do to the dictionaries sent through *)
(* them.                                                                   *)
(***************************************************************************)
EXTENDS Connections, JsonDict

\* What a message becomes in an interceptor: invalid if it is not passed on.
Emitted(msg) == IF isEmpty(msg) THEN Invalid ELSE msg

\* checkKeyVal.  A field hits what it leads to and what leads to it.  The one
\* validator that never refuses comes last in the order of their names.
hits(name, path) ==
  Parts[name] = join(path) \/ IsPrefix(Parts[name], path) \/ IsPrefix(path, Parts[name])
checkKeyVal(i, path, v) ==
  LET applied == {p.validator : p \in {q \in i.pairs : hits(q.field, path) # i.inverse}}
  IN IF "set_unix_timestamp" \in applied THEN Leaf("now")
     ELSE IF applied # {} THEN Invalid ELSE v

validated(i, msg) ==
  LET all == leaves(msg)
      checked == [n \in DOMAIN all |-> <<all[n][1], checkKeyVal(i, all[n][1], all[n][2])>>]
  IN InsertAll(Empty, SelectSeq(checked, LAMBDA e : isValid(e[2]))).dict

\* Renaming, remapping and metadata change the message but never emit it.  Where
\* the path unwrapped leads through a list the code throws in the sender's
\* thread; no message here has one.
onMsgFromWorker(i, msg) ==
  CASE i.kind = "wrap" -> Emitted(insert(Empty, Parts[i.key], msg))
    [] i.kind = "unwrap" -> Emitted(toMap(value(msg, Parts[i.key])))
    [] i.kind = "validating" -> Emitted(validated(i, msg))
    [] OTHER -> Invalid

RECURSIVE through(_, _)
through(pipe, msg) ==
  IF pipe = <<>> \/ ~isValid(msg) THEN msg
  ELSE through(Tail(pipe), onMsgFromWorker(Head(pipe), msg))
====
