---- MODULE WebsocketServer ----
(***************************************************************************)
(* The clients of a websocket server: pinged by a timer, and closed when   *)
(* they have been silent for too long.  A closed socket may be forgotten   *)
(* at once, while the timer's handler walks over the set it is in.         *)
(***************************************************************************)
EXTENDS Integers, FiniteSets

CONSTANTS
  Sockets,     \* addresses of sockets, which are used again
  Heartbeat,   \* heartbeat_ms and
  Keepalive,   \* keepalive_time, in some unit
  MaxQuiet     \* bound on the counting of unanswered pings

\* m_ttls has no entry, which reads as 0.
Absent == 0

VARIABLES
  clients,   \* m_clients
  ttls,      \* m_ttls
  closing,   \* clients closed whose sockets are not disconnected yet
  quiet,     \* history: ticks since a client's last answer in which it was pinged
  timeouts,  \* history: what quiet was when a client was closed by the timer
  passed     \* history: clients passed over by the last tick

serverVars == <<clients, ttls, closing, quiet, timeouts, passed>>

\* postUpdate of the settings refuses anything else.
ASSUME ServerAssumption ==
  /\ {Heartbeat, Keepalive, MaxQuiet} \subseteq Nat \ {0}
  /\ Keepalive > Heartbeat

ServerInit ==
  /\ clients = {} /\ closing = {} /\ timeouts = {} /\ passed = {}
  /\ ttls = [c \in Sockets |-> Absent]
  /\ quiet = [c \in Sockets |-> 0]

\* Variant for mutation: an entry left behind by an earlier socket is kept.
InsertedTtlIfAbsent(c) == IF ttls[c] = Absent THEN Keepalive ELSE ttls[c]

\* QHash::insert overwrites.
InsertedTtl(c) == Keepalive

onNewConnection(c) ==
  /\ c \notin clients
  /\ clients' = clients \cup {c}
  /\ ttls' = [ttls EXCEPT ![c] = InsertedTtl(c)]
  /\ quiet' = [quiet EXCEPT ![c] = 0]
  /\ UNCHANGED <<closing, timeouts, passed>>

\* The slot of QWebSocket::disconnected.
disconnected(c) ==
  /\ c \in clients
  /\ clients' = clients \ {c}
  /\ ttls' = [ttls EXCEPT ![c] = Absent]
  /\ closing' = closing \ {c}
  /\ UNCHANGED <<quiet, timeouts, passed>>

\* A pong with another payload closes the socket.
pong(c, payloadFits) ==
  /\ c \in clients \ closing
  /\ quiet[c] > 0
  /\ IF payloadFits
     THEN /\ ttls' = [ttls EXCEPT ![c] = Keepalive]
          /\ quiet' = [quiet EXCEPT ![c] = 0]
          /\ UNCHANGED <<clients, closing>>
     ELSE \/ /\ closing' = closing \cup {c}
             /\ UNCHANGED <<clients, ttls, quiet>>
          \/ /\ clients' = clients \ {c}
             /\ ttls' = [ttls EXCEPT ![c] = Absent]
             /\ UNCHANGED <<closing, quiet>>
  /\ UNCHANGED <<timeouts, passed>>

\* Variant for mutation: what is left stops at zero.
LessToZero(ttl, visits) == IF ttl < visits * Heartbeat THEN 0 ELSE ttl - visits * Heartbeat

\* A ttl below this is as good as any other.
Floor == -2 * Heartbeat
Less(ttl, visits) ==
  IF ttl - visits * Heartbeat < Floor THEN Floor ELSE ttl - visits * Heartbeat

\* The visits of checkClients to each client, and those that are gone before it
\* ends.  Erasing from a hash moves other entries to places the walk has passed or
\* will come to.
Visits(visits, gone) ==
  /\ \A c \in gone : visits[c] = (IF ttls[c] < 0 THEN 1 ELSE 2)
  /\ \A c \in clients : gone \subseteq {c} => visits[c] = 1

\* A visit that finds a ttl below zero.
IsTimedOut(c, visits) == visits > 0 /\ ttls[c] - (visits - 1) * Heartbeat < 0

\* Each visit pings the client or closes it, and takes from its ttl, which the
\* subtraction creates anew, from 0, for one that is gone.
checkClients ==
  \E visits \in [clients -> 0..2] :
    LET timedOut == {c \in clients : IsTimedOut(c, visits[c])} IN
    \E gone \in SUBSET timedOut :
      /\ Visits(visits, gone)
      /\ clients' = clients \ gone
      /\ passed' = {c \in clients : visits[c] = 0}
      /\ closing' = (closing \ gone) \cup (timedOut \ gone)
      /\ ttls' = [c \in Sockets |-> IF c \in gone THEN -Heartbeat
                                    ELSE IF c \in clients THEN Less(ttls[c], visits[c])
                                    ELSE ttls[c]]
      /\ timeouts' = timeouts \cup {quiet[c] : c \in timedOut \ closing}
      /\ quiet' = [c \in Sockets |-> IF c \in clients /\ visits[c] > 0 /\ quiet[c] < MaxQuiet
                                     THEN quiet[c] + 1 ELSE quiet[c]]

ServerNext ==
  \/ \E c \in Sockets : onNewConnection(c) \/ disconnected(c)
  \/ \E c \in Sockets : \E payloadFits \in BOOLEAN : pong(c, payloadFits)
  \/ checkClients

\* The timer fires, and a socket that was closed is disconnected in the end.
ServerFairness ==
  /\ WF_serverVars(checkClients)
  /\ \A c \in Sockets : WF_serverVars(c \in closing /\ disconnected(c))

ServerSpec == ServerInit /\ [][ServerNext]_serverVars /\ ServerFairness
----------------------------------------------------------------------------
(* Properties. *)

\* A client that answers each ping before the next is never timed out, though it
\* may be visited twice in one tick, and a socket before it may have had its
\* address.
AnsweringStays == 0 \notin timeouts

\* A client that is silent is closed in the end, unless the walk passes it over
\* again and again, which takes others that are closed.
SilentLeaves ==
  \A c \in Sockets : []<>(c \notin clients \/ c \in closing \cup passed \/ quiet[c] = 0)
====
