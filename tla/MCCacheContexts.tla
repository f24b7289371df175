---- MODULE MCCacheContexts ----
(* CacheContexts for TLC: commands alone and in packs, for either worker. *)
EXTENDS CacheContexts

command(c) == [what |-> "command", cmds |-> <<c>>]
pack(cs)   == [what |-> "pack", cmds |-> cs]

MCRequests ==
  {command(c) : c \in {"read", "object", "count"}}
    \cup {pack(<<"read", "unsupported", "read">>), pack(<<"read", "read">>),
          pack(<<"write", "write", "count">>), pack(<<"read", "object">>),
          [what |-> "trigger", cmds |-> <<"object">>]}
====
