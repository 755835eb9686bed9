----------------------------- MODULE RelayLinks -----------------------------
(***************************************************************************)
(* What a relay client promises its consumer (spec sections 3, 8.3, 8.6    *)
(* and 8.7), without queues, locks, frames or nonces.                      *)
(*                                                                         *)
(* For each ordered pair of clients, c's link to k is absent, connecting   *)
(* or connected; a connected link carries k's messages to c reliably       *)
(* enough that c receives exactly a prefix of what k sent, in order.  The  *)
(* event stream of c announces each connected peer before any of its       *)
(* messages, and the server channel before any session event.  Errors are  *)
(* not events: they may be yielded at any time and change nothing.         *)
(***************************************************************************)
EXTENDS Naturals, Sequences

CONSTANTS
  Clients,          \* the clients
  SessionEvents,    \* kinds of event the server channel may announce
  NoPeer            \* the peer of an event not about a peer

VARIABLES
  link,     \* link[c][k]: "none", "handshake" or "transport"
  sent,     \* sent[c][k]: messages c has committed to send to k
  got,      \* got[c][k]: messages of k that c has received
  srvUp,    \* srvUp[c]: c's server channel is connected
  events    \* events[c]: the events c's stream has yielded, in order

lvars == <<link, sent, got, srvUp, events>>

Event(kind, peer, val) == [kind |-> kind, peer |-> peer, val |-> val]

Announced(c, k) ==
  \E i \in 1..Len(events[c]) : events[c][i] = Event("PeerConnected", k, 0)

Emit(c, e) == events' = [events EXCEPT ![c] = Append(@, e)]

Init ==
  /\ link = [c \in Clients |-> [k \in Clients |-> "none"]]
  /\ sent = [c \in Clients |-> [k \in Clients |-> 0]]
  /\ got = [c \in Clients |-> [k \in Clients |-> 0]]
  /\ srvUp = [c \in Clients |-> FALSE]
  /\ events = [c \in Clients |-> <<>>]

(* c starts a handshake towards k. *)
Initiate(c, k) ==
  /\ link[c][k] = "none"
  /\ link' = [link EXCEPT ![c][k] = "handshake"]
  /\ UNCHANGED <<sent, got, srvUp, events>>

(* c answers k's handshake: its side of the link is connected at once. *)
Accept(c, k) ==
  /\ link[c][k] = "none" /\ link[k][c] = "handshake"
  /\ link' = [link EXCEPT ![c][k] = "transport"]
  /\ UNCHANGED <<sent, got, srvUp, events>>

(* The responder announces the peer once its answer is on its way. *)
Announce(c, k) ==
  /\ link[c][k] = "transport" /\ ~ Announced(c, k)
  /\ Emit(c, Event("PeerConnected", k, 0))
  /\ UNCHANGED <<link, sent, got, srvUp>>

(* The initiator completes on k's answer and announces k. *)
Complete(c, k) ==
  /\ link[c][k] = "handshake" /\ link[k][c] = "transport"
  /\ link' = [link EXCEPT ![c][k] = "transport"]
  /\ Emit(c, Event("PeerConnected", k, 0))
  /\ UNCHANGED <<sent, got, srvUp>>

Send(c, k) ==
  /\ link[c][k] = "transport"
  /\ sent' = [sent EXCEPT ![c][k] = @ + 1]
  /\ UNCHANGED <<link, got, srvUp, events>>

(* c receives k's next message, never before it announced k. *)
Deliver(c, k) ==
  /\ Announced(c, k)
  /\ got[c][k] < sent[k][c]
  /\ got' = [got EXCEPT ![c][k] = @ + 1]
  /\ Emit(c, Event("Message", k, got[c][k]))
  /\ UNCHANGED <<link, sent, srvUp>>

ServerUp(c) ==
  /\ ~ srvUp[c]
  /\ srvUp' = [srvUp EXCEPT ![c] = TRUE]
  /\ Emit(c, Event("ServerConnected", NoPeer, 0))
  /\ UNCHANGED <<link, sent, got>>

ServerNotify(c, e) ==
  /\ srvUp[c]
  /\ Emit(c, Event(e, NoPeer, 0))
  /\ UNCHANGED <<link, sent, got, srvUp>>

Next ==
  \/ \E c, k \in Clients :
       /\ c # k
       /\ \/ Initiate(c, k) \/ Accept(c, k) \/ Announce(c, k)
          \/ Complete(c, k) \/ Send(c, k) \/ Deliver(c, k)
  \/ \E c \in Clients :
       \/ ServerUp(c)
       \/ \E e \in SessionEvents : ServerNotify(c, e)

Spec == Init /\ [][Next]_lvars

=============================================================================
