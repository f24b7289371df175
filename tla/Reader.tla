---- MODULE Reader ----
(***************************************************************************)
(* The reader of configurations: YamlReader, which follows "!include" from *)
(* file to file, and DictReader, which takes the part under a key.         *)
(*                                                                         *)
(* A node of a file is written as the value it decodes to; the scalar of an*)
(* include has a tag besides, and a null node is the invalid value.  No    *)
(* key looks like an index, and no file includes itself, which would never *)
(* end.                                                                    *)
(***************************************************************************)
EXTENDS Serializable

CONSTANT Files  \* what the other files hold, by their names; the rest are missing

Include(name) == [leaf |-> name, tag |-> "!include"]
IsInclude(node) == "tag" \in DOMAIN node

\* convert<QVariant>, convert<QVariantMap> and convert<QVariantList>: the tag of
\* a scalar is lost.
RECURSIVE decode(_), decodeMap(_), decodeList(_)
decode(node) ==
  IF IsMap(node) THEN decodeMap(node)
  ELSE IF IsList(node) THEN decodeList(node)
  ELSE IF isValid(node) THEN Leaf(node.leaf) ELSE node

decodeMap(node) == Map([k \in DOMAIN node.map |-> decode(node.map[k])])
decodeList(node) == List([i \in DOMAIN node.list |-> decode(node.list[i])])

\* getAll: a file that is missing gives nothing, one whose top is no map throws.
\* recurseMapNode puts what a file holds in the place of its include, and looks
\* for them in maps only.
RECURSIVE getAll(_), recurseMapNode(_)
getAll(file) ==
  IF file \notin DOMAIN Files THEN Invalid
  ELSE IF ~IsMap(Files[file]) THEN Refused ELSE recurseMapNode(Files[file])

recurseMapNode(node) ==
  LET read == [k \in DOMAIN node.map |->
                LET n == node.map[k]
                IN IF IsInclude(n) THEN IF n.leaf = "" THEN Refused ELSE getAll(n.leaf)
                   ELSE IF IsMap(n) THEN recurseMapNode(n) ELSE decode(n)]
  IN IF \E k \in DOMAIN read : isRefused(read[k]) THEN Refused ELSE Map(read)

\* DictReader::get: down the maps along the parts of a key, the empty one of none.
get(config, key) ==
  FoldLeft(LAMBDA v, k : IF IsMap(v) /\ k \in DOMAIN v.map THEN v.map[k] ELSE Invalid,
           config, Parts[key])
====
