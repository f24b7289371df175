---- MODULE Channels ----
(***************************************************************************)
(* What the broker promises to every ordered pair of workers: a reliable   *)
(* FIFO channel.  A send puts the message on the channels of the receivers *)
(* that accept it; each channel hands its messages over once and in order. *)
(* Which route (direct pipe or broker broadcast) carries it does not show. *)
(***************************************************************************)
EXTENDS Naturals, Sequences

CONSTANT Nodes

VARIABLES
  count,      \* number of messages sent so far; messages are numbered from 1
  channel,    \* channel[<<p, r>>]: numbers sent by p to r and not yet received
  received    \* received[r]: what r has received, in order

vars == <<count, channel, received>>

Init ==
  /\ count = 0
  /\ channel = [pr \in Nodes \X Nodes |-> <<>>]
  /\ received = [r \in Nodes |-> <<>>]

\* p sends one message, which the receivers in accept will get.
Send(p, accept) ==
  /\ count' = count + 1
  /\ channel' = [pr \in Nodes \X Nodes |->
                   IF pr[1] = p /\ pr[2] \in accept
                   THEN Append(channel[pr], count')
                   ELSE channel[pr]]
  /\ UNCHANGED received

Receive(p, r) ==
  /\ channel[<<p, r>>] # <<>>
  /\ received' = [received EXCEPT
                    ![r] = Append(@, [from |-> p, n |-> Head(channel[<<p, r>>])])]
  /\ channel' = [channel EXCEPT ![<<p, r>>] = Tail(@)]
  /\ UNCHANGED count

Next ==
  \/ \E p \in Nodes, accept \in SUBSET Nodes : Send(p, accept)
  \/ \E p, r \in Nodes : Receive(p, r)

Spec == Init /\ [][Next]_vars
====
