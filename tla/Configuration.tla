---- MODULE Configuration ----
(***************************************************************************)
(* The launcher with the reading of files and dictionaries it rests on, and*)
(* with the messages that go through the pipes it makes.                   *)
(***************************************************************************)
EXTENDS Launcher, Reader, Registers, Pipelines

CONSTANT Messages  \* the dictionaries sent through pipes

\* initConfig, what it reads: "key=text" of the command line goes over what the
\* file has under the key asked for; extra fields of the top are let pass.
override(raw, overrides) ==
  InsertAll(raw, [i \in DOMAIN overrides |-> <<Parts[overrides[i][1]], Leaf(overrides[i][2])>>])

readConfig(raw, asked) ==
  LET all == IF asked.reads THEN recurseMapNode(raw) ELSE Empty
      overridden == override(IF isRefused(all) THEN Empty ELSE toMap(get(all, asked.key)),
                             asked.overrides)
  IN [given |-> overridden.dict,
      config |-> IF isRefused(all) \/ ~overridden.ok THEN Refused
                 ELSE updateObject(fresh("AppConfig"), overridden.dict, TRUE)]

----------------------------------------------------------------------------
(* Properties. *)

\* When everything runs, each name the configuration gives a worker, at whatever
\* depth of a section, is that of a registered worker, and each registered worker
\* is named there or in a pipeline, or is the API, when it is enabled.
NamesOf(d) ==
  {Name(e[2].leaf) : e \in {l \in ToSet(leaves(d)) :
     \/ field(l[1]) = "name" /\ Head(l[1]) \in {"repeaters", "mocks"}
     \/ IsSuffix(<<"worker", "name">>, l[1]) /\ Head(l[1]) \in DOMAIN AppConfigFields}} \cup
  {Name("internal.radapter.api") : e \in {l \in ToSet(leaves(d)) :
     l = <<<<"api", "enabled">>, Leaf("true")>>}}

WordsIn(text) == {Texts[text].items[i].word : i \in DOMAIN Texts[text].items}

NamedWorkersRun ==
  phase = "running" =>
    /\ NamesOf(given) \subseteq broker.workers
    /\ broker.workers \subseteq NamesOf(given) \cup UNION {WordsIn(t) : t \in ToSet(lines)}

\* What comes back through a pipe of both directions says nothing that was not
\* said: each value in it has the place it had in the message sent there.
PipeOf(producer, consumer) ==
  LET words == (CHOOSE c \in broker.connections :
                  c.producer = producer /\ c.consumer = consumer).pipe
  IN [i \in DOMAIN words |-> broker.interceptors[words[i]]]

ThereAndBack ==
  phase = "running" =>
    \A t \in ToSet(lines) : \A i \in DOMAIN parsePipeline(Texts[t]) :
      LET op == parsePipeline(Texts[t])[i]
      IN op.type = "bidirectional" =>
           \A m \in Messages :
             LET back == through(PipeOf(op.right, op.left), through(PipeOf(op.left, op.right), m))
             IN isValid(back) => containsDict(m, back)
====
