---------------------------- MODULE RelayClient ----------------------------
(***************************************************************************)
(* The relay client core of src/client/src/native.rs.                      *)
(*                                                                         *)
(* Each client c is a NativeClient: facade handles (the struct is Clone,   *)
(* so several tasks may call it), one EventLoop task, the peer registry    *)
(* and the server channel behind tokio RwLocks, and two bounded mpsc       *)
(* queues: outbound (facade and loop -> socket writer) and decoded (socket *)
(* reader -> dispatcher), both drained only by the EventLoop.  The relay   *)
(* server is the environment: it answers the server handshake, relays peer *)
(* frames in FIFO order and answers control messages.                      *)
(*                                                                         *)
(* Noise is abstracted to its observable discipline: a handshake state and *)
(* per-direction nonce counters; a transport message decrypts only when    *)
(* its nonce is the receiver's next one.  Payloads are abstracted to their *)
(* nonce, JSON/Blob encodings to one kind of message event.                *)
(***************************************************************************)
EXTENDS Naturals, Sequences, FiniteSets, Functions, TLC

CONSTANTS
  Clients,          \* the clients, named by their static public keys
  Tasks,            \* facade handles per client (clones of NativeClient)
  OutboundCap,      \* capacity of the outbound queue (32 in the code)
  DecodedCap,       \* capacity of the decoded-message queue (32 in the code)
  MaxCalls,         \* bound on facade calls per client
  ControlRequests,  \* ServerMessage variants a facade sends through request()
  ServerReplies,    \* ServerMessage variants the relay server sends back
  NoHolder,         \* the peers lock is free
  NoPeer,           \* stream items not about a peer
  ForeignSenders,   \* peers built from other code, whose envelopes need
                    \* not be what relay() makes ({} between clients of
                    \* this code)
  ForeignEnvelopes, \* what such a peer may send besides a relay() envelope
  ServerEncodings,  \* encodings the server gives its envelopes ({"Blob"})
  MaxRecipients     \* bound on the recipient list of a broadcast

ASSUME /\ Cardinality(Clients) >= 2
       /\ Tasks # {} /\ NoHolder \notin Tasks
       /\ OutboundCap \in Nat \ {0} /\ DecodedCap \in Nat \ {0}
       /\ MaxCalls \in Nat
       /\ ServerReplies \subseteq
            {"Error", "SessionCreated", "SessionReady", "SessionActive",
             "SessionFinished", "Other"}
       /\ ForeignSenders \subseteq Clients
       /\ ForeignEnvelopes \subseteq {"Noop", "Overlong"}
       /\ MaxRecipients \in Nat
       /\ "Blob" \in ServerEncodings /\ ServerEncodings \subseteq {"Blob", "Json"}

VARIABLES
  server,    \* server[c]: c's Noise channel with the server (state, nonces)
  peers,     \* peers[c]: the registry, a function from peer key to state
  lock,      \* lock[c]: who holds c's peers write-lock across an await
  outbound,  \* outbound[c]: RequestMessages waiting for the socket writer
  decoded,   \* decoded[c]: ResponseMessages waiting for dispatch
  loop,      \* loop[c]: where c's EventLoop is, and the message it holds
  task,      \* task[c][t]: facade task t of c, the request it sends, and
             \* the recipients a broadcast has still to relay to
  calls,     \* calls[c]: facade calls made so far (bounded by MaxCalls)
  stream,    \* stream[c]: the items c's EventLoop has yielded, in order
  toServer,  \* toServer[c]: frames written by c, not yet read by the server
  toClient,  \* toClient[c]: frames the server wrote to c, not yet read
  relay,     \* relay[c]: the server's side of its Noise channel with c
  srvFail    \* clients whose control message the server failed to decrypt

vars == <<server, peers, lock, outbound, decoded, loop, task, calls, stream,
          toServer, toClient, relay, srvFail>>

-----------------------------------------------------------------------------
(* Wire messages.  The same shapes serve RequestMessage and              *)
(* ResponseMessage; in a frame to the server `peer` is the addressee, in *)
(* a frame from the server it is the sender.                             *)

SrvHs == [type |-> "ServerHandshake"]
PeerHs(k, role) == [type |-> "PeerHandshake", peer |-> k, role |-> role]
PeerMsg(k, n, enc) ==
  [type |-> "PeerMessage", peer |-> k, nonce |-> n, enc |-> enc]
SrvMsg(n, body, enc) ==
  [type |-> "ServerMessage", nonce |-> n, body |-> body, enc |-> enc]
NoMsg == [type |-> "None"]

Message ==
  {SrvHs, NoMsg}
  \cup {PeerHs(k, r) : k \in Clients, r \in {"Initiator", "Responder"}}
  \cup [type : {"PeerMessage"}, peer : Clients, nonce : Nat,
        enc : {"Data", "Noop", "Overlong"}]
  \cup [type : {"ServerMessage"}, nonce : Nat,
        body : ControlRequests \cup ServerReplies, enc : {"Blob", "Json"}]

(* The envelopes a peer sends, as decrypt_peer_channel sees them.  A     *)
(* client's relay() uses Json or Blob ("Data", one kind of message) and  *)
(* sets `length` to what write_message wrote.  A peer of other code may  *)
(* also label an envelope Noop, or give a `length` beyond its payload    *)
(* ("Overlong", a Data envelope otherwise).                              *)
PeerEncodings(c) ==
  {"Data"} \cup (IF c \in ForeignSenders THEN ForeignEnvelopes ELSE {})

(* Items of the event stream: an Event, or an Err yielded in-band. *)
Item(kind, peer, val) == [kind |-> kind, peer |-> peer, val |-> val]
Err(e, peer) == Item("Err", peer, e)

(* A Noise channel in transport mode with fresh nonces. *)
Transport == [st |-> "transport", send |-> 0, recv |-> 0]
(* A peer initiator that has written its first handshake message. *)
Initiator == [st |-> "handshake", send |-> 0, recv |-> 0]

-----------------------------------------------------------------------------
TaskIdle == [pc |-> "idle", req |-> NoMsg, rest |-> <<>>]

(* NativeClient::new: server channel in Handshake (initiator built, not  *)
(* yet written), empty registry, empty queues, loop waiting in select!.  *)
Init ==
  /\ server = [c \in Clients |-> [st |-> "init", send |-> 0, recv |-> 0]]
  /\ peers = [c \in Clients |-> <<>>]
  /\ lock = [c \in Clients |-> NoHolder]
  /\ outbound = [c \in Clients |-> <<>>]
  /\ decoded = [c \in Clients |-> <<>>]
  /\ loop = [c \in Clients |-> [pc |-> "idle", msg |-> NoMsg]]
  /\ task = [c \in Clients |-> [t \in Tasks |-> TaskIdle]]
  /\ calls = [c \in Clients |-> 0]
  /\ stream = [c \in Clients |-> <<>>]
  /\ toServer = [c \in Clients |-> <<>>]
  /\ toClient = [c \in Clients |-> <<>>]
  /\ relay = [c \in Clients |-> [hs |-> FALSE, send |-> 0, recv |-> 0]]
  /\ srvFail = {}

-----------------------------------------------------------------------------
(***************************************************************************)
(* Facade.  A call runs under the lock it takes up to its                  *)
(* outbound_tx.send(..).await; the send itself is TaskSend.  A call that   *)
(* returns an error leaves the task idle.                                  *)
(***************************************************************************)

(* The bound on c's facade calls (a model may give each client its own). *)
CallBound(c) == MaxCalls

FacadeCall(c, t) ==
  /\ task[c][t].pc = "idle"
  /\ calls[c] < CallBound(c)
  /\ calls' = [calls EXCEPT ![c] = @ + 1]

(* A bounded mpsc queue accepts a send while it holds fewer than its    *)
(* capacity; otherwise send(..).await waits.                            *)
RoomForOffByOne(q, cap) == Len(q) <= cap
RoomFor(q, cap) == Len(q) < cap

(* A write guard kept alive across the following outbound send. *)
ReleasePeersLock(c, holder) == UNCHANGED lock
KeepPeersLock(c, holder) == lock' = [lock EXCEPT ![c] = holder]

Sending(c, t, req, rest) ==
  task' = [task EXCEPT ![c][t] = [pc |-> "send", req |-> req, rest |-> rest]]

(* connect: write the first server handshake message.  A second write    *)
(* fails in snow (not the initiator's turn) and Transport fails with     *)
(* NotHandshakeState; both leave the state as it was.                    *)
Connect(c, t) ==
  /\ FacadeCall(c, t)
  /\ IF server[c].st = "init"
       THEN /\ server' = [server EXCEPT ![c].st = "sent"]
            /\ Sending(c, t, SrvHs, <<>>)
       ELSE UNCHANGED <<server, task>>
  /\ UNCHANGED <<peers, lock, outbound, decoded, loop, stream, toServer,
                 toClient, relay, srvFail>>

(* connect_peer: under the peers write-lock, fail PeerAlreadyExists or   *)
(* store an initiator and write its first message; the lock is dropped   *)
(* before the send.                                                      *)
ConnectPeer(c, t, k) ==
  /\ FacadeCall(c, t)
  /\ lock[c] = NoHolder
  /\ IF k \in DOMAIN peers[c]
       THEN UNCHANGED <<peers, task>>
       ELSE /\ peers' = [peers EXCEPT ![c] = @ @@ (k :> Initiator)]
            /\ Sending(c, t, PeerHs(k, "Initiator"), <<>>)
  /\ UNCHANGED <<server, lock, outbound, decoded, loop, stream, toServer,
                 toClient, relay, srvFail>>

(* encrypt_peer_channel: the entry must be in Transport; the message     *)
(* takes the entry's next sending nonce.                                 *)
EncryptPeerReusesNonce(c, k) == UNCHANGED peers
EncryptPeer(c, k) == peers' = [peers EXCEPT ![c][k].send = @ + 1]

RelayPeerUnlocked(c, t, k, rest) ==
  /\ lock[c] = NoHolder
  /\ IF k \in DOMAIN peers[c] /\ peers[c][k].st = "transport"
       THEN /\ EncryptPeer(c, k)
            /\ \E enc \in PeerEncodings(c) :
                 Sending(c, t, PeerMsg(k, peers[c][k].send, enc), rest)
       ELSE task' = [task EXCEPT ![c][t] = TaskIdle] /\ UNCHANGED peers
  /\ UNCHANGED <<server, lock, outbound, decoded, loop, stream, toServer,
                 toClient, relay, srvFail>>

(* relay: under the peers write-lock, fail PeerNotFound or             *)
(* NotTransportState, or encrypt and keep holding the lock across the    *)
(* outbound send.  A broadcast goes on with `rest` after the send; an    *)
(* error ends the call.                                                  *)
RelayPeer(c, t, k, rest) ==
  /\ lock[c] = NoHolder
  /\ IF k \in DOMAIN peers[c] /\ peers[c][k].st = "transport"
       THEN /\ EncryptPeer(c, k)
            /\ KeepPeersLock(c, t)
            /\ \E enc \in PeerEncodings(c) :
                 Sending(c, t, PeerMsg(k, peers[c][k].send, enc), rest)
       ELSE /\ task' = [task EXCEPT ![c][t] = TaskIdle]
            /\ UNCHANGED <<peers, lock>>
  /\ UNCHANGED <<server, outbound, decoded, loop, stream, toServer, toClient,
                 relay, srvFail>>

(* send / send_blob: relay with the Json or Blob encoding. *)
Relay(c, t, k) == FacadeCall(c, t) /\ RelayPeer(c, t, k, <<>>)

(* broadcast / broadcast_blob: relay_broadcast to a list of recipients. *)
Broadcast(c, t, rs) ==
  /\ FacadeCall(c, t)
  /\ task' = [task EXCEPT ![c][t] = [pc |-> "broadcast", req |-> NoMsg, rest |-> rs]]
  /\ UNCHANGED <<server, peers, lock, outbound, decoded, loop, stream,
                 toServer, toClient, relay, srvFail>>

BroadcastRelayUnchecked(c, t) ==
  /\ task[c][t].pc = "broadcast"
  /\ lock[c] = NoHolder
  /\ LET k == Head(task[c][t].rest) IN
       IF k \in DOMAIN peers[c]
         THEN /\ EncryptPeer(c, k)
              /\ KeepPeersLock(c, t)
              /\ Sending(c, t, PeerMsg(k, peers[c][k].send, "Data"),
                         Tail(task[c][t].rest))
         ELSE /\ task' = [task EXCEPT ![c][t] = TaskIdle]
              /\ UNCHANGED <<peers, lock>>
  /\ UNCHANGED <<server, outbound, decoded, loop, calls, stream, toServer,
                 toClient, relay, srvFail>>

(* relay_broadcast: the loop's next `self.relay(key, ..).await?`. *)
BroadcastRelay(c, t) ==
  /\ task[c][t].pc = "broadcast"
  /\ RelayPeer(c, t, Head(task[c][t].rest), Tail(task[c][t].rest))
  /\ UNCHANGED calls

(* new_session, session_ready_notify, session_active_notify,             *)
(* register_session_connection, close_session -> request: encrypt on the *)
(* server channel under its write-lock, drop the lock, then send.        *)
(* encrypt_server_channel fails NotTransportState before the handshake;  *)
(* with the state None the calling task hits unreachable!() and unwinds. *)
Request(c, t, m) ==
  /\ FacadeCall(c, t)
  /\ CASE server[c].st = "transport" ->
            /\ server' = [server EXCEPT ![c].send = @ + 1]
            /\ Sending(c, t, SrvMsg(server[c].send, m, "Blob"), <<>>)
       [] server[c].st = "none" ->
            /\ task' = [task EXCEPT ![c][t].pc = "panic"]
            /\ UNCHANGED server
       [] OTHER -> UNCHANGED <<server, task>>
  /\ UNCHANGED <<peers, lock, outbound, decoded, loop, stream, toServer,
                 toClient, relay, srvFail>>

(* outbound_tx.send(request).await completes once the queue has room; a  *)
(* lock held across it (relay) is released when relay returns; a         *)
(* broadcast then relays to its next recipient.                          *)
TaskSend(c, t) ==
  /\ task[c][t].pc = "send"
  /\ RoomFor(outbound[c], OutboundCap)
  /\ outbound' = [outbound EXCEPT ![c] = Append(@, task[c][t].req)]
  /\ task' = [task EXCEPT ![c][t] =
                IF @.rest = <<>> THEN TaskIdle
                ELSE [pc |-> "broadcast", req |-> NoMsg, rest |-> @.rest]]
  /\ lock' = [lock EXCEPT ![c] = IF @ = t THEN NoHolder ELSE @]
  /\ UNCHANGED <<server, peers, decoded, loop, calls, stream, toServer,
                 toClient, relay, srvFail>>

-----------------------------------------------------------------------------
(***************************************************************************)
(* EventLoop::run: select! over the socket reader, the outbound queue and  *)
(* the decoded queue; a branch runs to completion before the next select.  *)
(***************************************************************************)

LoopAt(c, pc, msg) == loop' = [loop EXCEPT ![c] = [pc |-> pc, msg |-> msg]]
LoopIdle(c) == LoopAt(c, "idle", NoMsg)
Yield(c, item) == stream' = [stream EXCEPT ![c] = Append(@, item)]

(* ws_reader.next(): take a binary frame; read_message decodes it and    *)
(* awaits message_tx.send, which only this loop drains.                  *)
ReadFrame(c) ==
  /\ loop[c].pc = "idle"
  /\ toClient[c] # <<>>
  /\ toClient' = [toClient EXCEPT ![c] = Tail(@)]
  /\ LoopAt(c, "push", Head(toClient[c]))
  /\ UNCHANGED <<server, peers, lock, outbound, decoded, task, calls, stream,
                 toServer, relay, srvFail>>

PushDecoded(c) ==
  /\ loop[c].pc = "push"
  /\ RoomFor(decoded[c], DecodedCap)
  /\ decoded' = [decoded EXCEPT ![c] = Append(@, loop[c].msg)]
  /\ LoopIdle(c)
  /\ UNCHANGED <<server, peers, lock, outbound, task, calls, stream, toServer,
                 toClient, relay, srvFail>>

(* outbound_rx.recv() -> send_message: encode, write and flush. *)
SendOutbound(c) ==
  /\ loop[c].pc = "idle"
  /\ outbound[c] # <<>>
  /\ toServer' = [toServer EXCEPT ![c] = Append(@, Head(outbound[c]))]
  /\ outbound' = [outbound EXCEPT ![c] = Tail(@)]
  /\ UNCHANGED <<server, peers, lock, decoded, loop, task, calls, stream,
                 toClient, relay, srvFail>>

(* message_rx.recv(): hand the message to handle_incoming_message. *)
DispatchPop(c) ==
  /\ loop[c].pc = "idle"
  /\ decoded[c] # <<>>
  /\ decoded' = [decoded EXCEPT ![c] = Tail(@)]
  /\ LoopAt(c, "dispatch", Head(decoded[c]))
  /\ UNCHANGED <<server, peers, lock, outbound, task, calls, stream, toServer,
                 toClient, relay, srvFail>>

Dispatching(c, type) == loop[c].pc = "dispatch" /\ loop[c].msg.type = type

(* server_handshake: take() the state, leaving None behind on every      *)
(* error.  A Handshake that has written reads the responder's reply and  *)
(* goes to Transport; one that has not fails in snow's read_message      *)
(* (ProtocolError); any other state fails NotHandshakeState.             *)
ServerHandshake(c) ==
  /\ Dispatching(c, "ServerHandshake")
  /\ CASE server[c].st = "sent" ->
            /\ server' = [server EXCEPT ![c] = Transport]
            /\ Yield(c, Item("ServerConnected", NoPeer, 0))
       [] server[c].st = "init" ->
            /\ server' = [server EXCEPT ![c].st = "none"]
            /\ Yield(c, Err("ProtocolError", NoPeer))
       [] OTHER ->
            /\ server' = [server EXCEPT ![c].st = "none"]
            /\ Yield(c, Err("NotHandshakeState", NoPeer))
  /\ LoopIdle(c)
  /\ UNCHANGED <<peers, lock, outbound, decoded, task, calls, toServer,
                 toClient, relay, srvFail>>

(* The responder's collision check: an entry for the sender exists. *)
RaceWith(c, k) == k \in DOMAIN peers[c]

(* peer_handshake_responder: under the peers write-lock, fail            *)
(* PeerAlreadyExistsMaybeRace, or build a responder, read the initiator, *)
(* write the reply, store Transport, and keep the lock across the        *)
(* outbound send of the reply (LoopRespond).                             *)
PeerHandshakeResponder(c) ==
  /\ Dispatching(c, "PeerHandshake")
  /\ loop[c].msg.role = "Initiator"
  /\ lock[c] = NoHolder
  /\ LET k == loop[c].msg.peer IN
       IF RaceWith(c, k)
         THEN /\ Yield(c, Err("PeerAlreadyExistsMaybeRace", k))
              /\ LoopIdle(c)
              /\ UNCHANGED <<peers, lock>>
         ELSE /\ peers' = [peers EXCEPT ![c] = @ @@ (k :> Transport)]
              /\ KeepPeersLock(c, "loop")
              /\ LoopAt(c, "respond", PeerHs(k, "Responder"))
              /\ UNCHANGED stream
  /\ UNCHANGED <<server, outbound, decoded, task, calls, toServer, toClient,
                 relay, srvFail>>

LoopRespondLost(c) ==
  /\ loop[c].pc = "respond"
  /\ RoomFor(outbound[c], OutboundCap)
  /\ lock' = [lock EXCEPT ![c] = NoHolder]
  /\ Yield(c, Item("PeerConnected", loop[c].msg.peer, 0))
  /\ LoopIdle(c)
  /\ UNCHANGED <<server, peers, outbound, decoded, task, calls, toServer,
                 toClient, relay, srvFail>>

LoopRespondKeepsLock(c) ==
  /\ loop[c].pc = "respond"
  /\ RoomFor(outbound[c], OutboundCap)
  /\ outbound' = [outbound EXCEPT ![c] = Append(@, loop[c].msg)]
  /\ Yield(c, Item("PeerConnected", loop[c].msg.peer, 0))
  /\ LoopIdle(c)
  /\ UNCHANGED <<server, peers, lock, decoded, task, calls, toServer,
                 toClient, relay, srvFail>>

(* The reply is queued, the guard dropped, PeerConnected yielded. *)
LoopRespond(c) ==
  /\ loop[c].pc = "respond"
  /\ RoomFor(outbound[c], OutboundCap)
  /\ outbound' = [outbound EXCEPT ![c] = Append(@, loop[c].msg)]
  /\ lock' = [lock EXCEPT ![c] = NoHolder]
  /\ Yield(c, Item("PeerConnected", loop[c].msg.peer, 0))
  /\ LoopIdle(c)
  /\ UNCHANGED <<server, peers, decoded, task, calls, toServer, toClient,
                 relay, srvFail>>

(* peer_handshake_ack: under the peers write-lock, remove the entry      *)
(* (PeerNotFound if absent); a Handshake entry reads the reply and is    *)
(* reinserted as Transport; any other entry fails NotHandshakeState and  *)
(* is not reinserted.                                                    *)
PeerHandshakeAck(c) ==
  /\ Dispatching(c, "PeerHandshake")
  /\ loop[c].msg.role = "Responder"
  /\ lock[c] = NoHolder
  /\ LET k == loop[c].msg.peer IN
       CASE k \notin DOMAIN peers[c] ->
              /\ Yield(c, Err("PeerNotFound", k))
              /\ UNCHANGED peers
         [] peers[c][k].st = "handshake" ->
              /\ peers' = [peers EXCEPT ![c][k] = Transport]
              /\ Yield(c, Item("PeerConnected", k, 0))
         [] OTHER ->
              /\ peers' = [peers EXCEPT ![c] = Restrict(@, DOMAIN @ \ {k})]
              /\ Yield(c, Err("NotHandshakeState", k))
  /\ LoopIdle(c)
  /\ UNCHANGED <<server, lock, outbound, decoded, task, calls, toServer,
                 toClient, relay, srvFail>>

(* A dispatch error is yielded in-band and the loop goes on. *)
Fail(c, e, peer) == Yield(c, Err(e, peer)) /\ LoopIdle(c)

(* A panic! or unreachable!() in dispatch unwinds the stream! generator: *)
(* the loop never runs again and its stream yields nothing more.         *)
Panic(c) == LoopAt(c, "panic", loop[c].msg) /\ UNCHANGED stream

(* decrypt_peer_channel on entry ch: NotTransportState unless in        *)
(* Transport; vec![0; length] and payload[..length] panic for a length   *)
(* beyond the payload, before any nonce is looked at; read_message fails *)
(* (ProtocolError) unless the nonce is the next one; else "Ok" and the   *)
(* caller advances the receiving nonce.                                  *)
DecryptPeer(ch, m) ==
  CASE ch.st # "transport" -> "NotTransportState"
    [] m.enc = "Overlong" -> "Panic"
    [] m.nonce # ch.recv -> "ProtocolError"
    [] OTHER -> "Ok"

(* handle_relayed_message: under the peers write-lock, PeerNotFound or   *)
(* the outcome of decrypt_peer_channel; a decrypted envelope is a        *)
(* message event, or unreachable!() for the Noop encoding.               *)
RelayedMessage(c) ==
  /\ Dispatching(c, "PeerMessage")
  /\ lock[c] = NoHolder
  /\ LET k == loop[c].msg.peer
         n == loop[c].msg.nonce
         d == DecryptPeer(peers[c][k], loop[c].msg) IN
       CASE k \notin DOMAIN peers[c] ->
              Fail(c, "PeerNotFound", k) /\ UNCHANGED peers
         [] d = "Panic" -> Panic(c) /\ UNCHANGED peers
         [] d # "Ok" -> Fail(c, d, k) /\ UNCHANGED peers
         [] OTHER ->
              /\ peers' = [peers EXCEPT ![c][k].recv = @ + 1]
              /\ IF loop[c].msg.enc = "Noop"
                   THEN Panic(c)
                   ELSE Yield(c, Item("Message", k, n)) /\ LoopIdle(c)
  /\ UNCHANGED <<server, lock, outbound, decoded, task, calls, toServer,
                 toClient, relay, srvFail>>

(* handle_server_channel_message: the event, or error, a decoded         *)
(* ServerMessage yields; <<>> for variants it silently consumes.         *)
ServerEvent(body) ==
  CASE body = "Error" -> <<Err("ServerError", NoPeer)>>
    [] body = "Other" -> <<>>
    [] OTHER -> <<Item(body, NoPeer, 0)>>

(* Opaque ServerMessage: under the server write-lock, unreachable!()    *)
(* with the state None; decrypt on the server channel (NotTransportState *)
(* or a Noise error out of order); panic! unless the envelope is Blob;   *)
(* then dispatch.                                                        *)
ServerChannelMessage(c) ==
  /\ Dispatching(c, "ServerMessage")
  /\ LET m == loop[c].msg IN
       CASE server[c].st = "none" ->
              Panic(c) /\ UNCHANGED server
         [] server[c].st # "transport" ->
              Fail(c, "NotTransportState", NoPeer) /\ UNCHANGED server
         [] m.nonce # server[c].recv ->
              Fail(c, "ProtocolError", NoPeer) /\ UNCHANGED server
         [] OTHER ->
              /\ server' = [server EXCEPT ![c].recv = @ + 1]
              /\ IF m.enc # "Blob"
                   THEN Panic(c)
                   ELSE /\ stream' = [stream EXCEPT ![c] = @ \o ServerEvent(m.body)]
                        /\ LoopIdle(c)
  /\ UNCHANGED <<peers, lock, outbound, decoded, task, calls, toServer,
                 toClient, relay, srvFail>>

-----------------------------------------------------------------------------
(***************************************************************************)
(* The relay server (environment, not code of this repository): it reads  *)
(* each client's frames in order.                                          *)
(***************************************************************************)

Serve(c, type) == toServer[c] # <<>> /\ Head(toServer[c]).type = type
Served(c) == toServer' = [toServer EXCEPT ![c] = Tail(@)]

ServeHandshake(c) ==
  /\ Serve(c, "ServerHandshake")
  /\ Served(c)
  /\ relay' = [relay EXCEPT ![c].hs = TRUE]
  /\ toClient' = [toClient EXCEPT ![c] = Append(@, SrvHs)]
  /\ UNCHANGED <<server, peers, lock, outbound, decoded, loop, task, calls,
                 stream, srvFail>>

(* Handshake and transport frames are forwarded, tagged with the sender. *)
ServeForward(c) ==
  /\ \/ Serve(c, "PeerHandshake")
     \/ Serve(c, "PeerMessage")
  /\ Served(c)
  /\ LET m == Head(toServer[c]) IN
       toClient' = [toClient EXCEPT ![m.peer] = Append(@, [m EXCEPT !.peer = c])]
  /\ UNCHANGED <<server, peers, lock, outbound, decoded, loop, task, calls,
                 stream, relay, srvFail>>

(* A control message decrypts only with the server's next nonce for c;   *)
(* the server answers with some ServerMessage.                           *)
ServeControl(c) ==
  /\ Serve(c, "ServerMessage")
  /\ Served(c)
  /\ IF Head(toServer[c]).nonce = relay[c].recv
       THEN \E body \in ServerReplies, enc \in ServerEncodings :
              /\ toClient' = [toClient EXCEPT ![c] =
                                Append(@, SrvMsg(relay[c].send, body, enc))]
              /\ relay' = [relay EXCEPT ![c].recv = @ + 1, ![c].send = @ + 1]
              /\ UNCHANGED srvFail
       ELSE /\ srvFail' = srvFail \cup {c}
            /\ UNCHANGED <<toClient, relay>>
  /\ UNCHANGED <<server, peers, lock, outbound, decoded, loop, task, calls,
                 stream>>

-----------------------------------------------------------------------------

Dispatch(c) ==
  \/ ServerHandshake(c)
  \/ PeerHandshakeResponder(c)
  \/ PeerHandshakeAck(c)
  \/ RelayedMessage(c)
  \/ ServerChannelMessage(c)

LoopStep(c) ==
  \/ ReadFrame(c) \/ PushDecoded(c) \/ SendOutbound(c) \/ DispatchPop(c)
  \/ Dispatch(c) \/ LoopRespond(c)

ServerStep(c) == ServeHandshake(c) \/ ServeForward(c) \/ ServeControl(c)

(* Recipient lists: distinct peers, at most MaxRecipients of them. *)
RecipientLists(c) ==
  UNION {{rs \in [1..n -> Clients \ {c}] : IsInjective(rs)} : n \in 1..MaxRecipients}

Facade(c, t) ==
  \/ Connect(c, t)
  \/ \E k \in Clients \ {c} : ConnectPeer(c, t, k) \/ Relay(c, t, k)
  \/ \E m \in ControlRequests : Request(c, t, m)
  \/ \E rs \in RecipientLists(c) : Broadcast(c, t, rs)
  \/ BroadcastRelay(c, t)
  \/ TaskSend(c, t)

Next ==
  \/ \E c \in Clients :
       \/ \E t \in Tasks : Facade(c, t)
       \/ LoopStep(c)
       \/ ServerStep(c)

(* The tokio scheduler runs every task that can make progress: the loop  *)
(* (select! picks among ready branches at random), a facade task blocked *)
(* in outbound_tx.send, and the server.  Facade calls are the consumer's *)
(* choice and carry no fairness.                                         *)
Fairness ==
  \A c \in Clients :
    /\ WF_vars(LoopStep(c))
    /\ \A t \in Tasks : WF_vars(TaskSend(c, t))
    /\ WF_vars(ServerStep(c))

Spec == Init /\ [][Next]_vars
FairSpec == Spec /\ Fairness

-----------------------------------------------------------------------------
(***************************************************************************)
(* Properties                                                              *)
(***************************************************************************)

ItemKinds == {"ServerConnected", "PeerConnected", "Message", "Err",
              "SessionCreated", "SessionReady", "SessionActive",
              "SessionFinished"}

ErrKinds == {"NotHandshakeState", "NotTransportState", "ProtocolError",
             "PeerNotFound", "PeerAlreadyExistsMaybeRace", "ServerError"}

TypeOK ==
  /\ server \in [Clients -> [st : {"init", "sent", "transport", "none"},
                             send : Nat, recv : Nat]]
  /\ \A c \in Clients :
       /\ DOMAIN peers[c] \subseteq Clients \ {c}
       /\ \A k \in DOMAIN peers[c] :
            peers[c][k] \in [st : {"handshake", "transport"},
                             send : Nat, recv : Nat]
       /\ outbound[c] \in Seq(Message) /\ Len(outbound[c]) <= OutboundCap
       /\ decoded[c] \in Seq(Message) /\ Len(decoded[c]) <= DecodedCap
       /\ toServer[c] \in Seq(Message) /\ toClient[c] \in Seq(Message)
       /\ \A i \in 1..Len(stream[c]) :
            LET e == stream[c][i] IN
              /\ e.kind \in ItemKinds /\ e.peer \in Clients \cup {NoPeer}
              /\ IF e.kind = "Err" THEN e.val \in ErrKinds ELSE e.val \in Nat
  /\ lock \in [Clients -> Tasks \cup {"loop", NoHolder}]
  /\ loop \in [Clients -> [pc : {"idle", "push", "dispatch", "respond", "panic"},
                           msg : Message]]
  /\ task \in [Clients -> [Tasks -> [pc : {"idle", "send", "broadcast", "panic"},
                                      req : Message, rest : Seq(Clients)]]]
  /\ calls \in [Clients -> 0..MaxCalls]
  /\ relay \in [Clients -> [hs : BOOLEAN, send : Nat, recv : Nat]]
  /\ srvFail \subseteq Clients

PeerErrors == {"PeerNotFound", "NotTransportState", "ProtocolError",
               "NotHandshakeState"}

(* Spec 8.3: between honest clients no peer frame a client dispatches    *)
(* fails: every handshake reply finds its initiator and every relayed    *)
(* message finds a Transport entry whose next nonce is its own.  This    *)
(* rests on peer_handshake_responder holding the peers lock until its    *)
(* reply is queued, on relay holding it from encryption until the send,  *)
(* and on FIFO queues end to end.                                        *)
PeerTrafficNeverFails ==
  \A c \in Clients : \A i \in 1..Len(stream[c]) :
    ~ (/\ stream[c][i].kind = "Err"
       /\ stream[c][i].peer # NoPeer
       /\ stream[c][i].val \in PeerErrors)

(* Spec 5: server control messages are ordered per channel: the relay    *)
(* server never receives a control message from a client out of Noise    *)
(* nonce order.  request() drops the server lock between encrypting and  *)
(* queueing the envelope.                                                *)
ServerChannelInOrder == srvFail = {}

Yielded(c, kind, peer) ==
  \E i \in 1..Len(stream[c]) :
    stream[c][i].kind = kind /\ stream[c][i].peer = peer

Connected(c, k) ==
  Yielded(c, "PeerConnected", k) /\ Yielded(k, "PeerConnected", c)

RaceReported(c, k) ==
  \/ \E i \in 1..Len(stream[c]) : stream[c][i] = Err("PeerAlreadyExistsMaybeRace", k)
  \/ \E i \in 1..Len(stream[k]) : stream[k][i] = Err("PeerAlreadyExistsMaybeRace", c)

(* Spec 4.2 and 8, scenarios 1 and 3: every handshake a client starts    *)
(* ends.  A written server handshake ends in ServerConnected; a peer     *)
(* initiator ends in PeerConnected on both sides, unless the two clients *)
(* initiated towards each other, which one of them reports as            *)
(* PeerAlreadyExistsMaybeRace.                                           *)
HandshakesResolve ==
  /\ \A c \in Clients :
       server[c].st = "sent" ~> Yielded(c, "ServerConnected", NoPeer)
  /\ \A c \in Clients : \A k \in Clients \ {c} :
       (k \in DOMAIN peers[c] /\ peers[c][k].st = "handshake")
         ~> (Connected(c, k) \/ RaceReported(c, k))

(* Spec 4.4: the loop keeps serving its three sources: whatever branch   *)
(* of select! it takes completes.  It is about the awaits inside a       *)
(* branch on queues only the loop drains (read_message, the responder's  *)
(* reply) or on the peers lock a facade task holds across its own send.  *)
LoopNeverWedged ==
  \A c \in Clients : loop[c].pc # "idle" ~> loop[c].pc = "idle"

(* The refinement mapping to RelayLinks: a registry entry's state is the *)
(* link, its nonces count the messages sent and received, the server      *)
(* channel is up in Transport, and the events are the stream's items      *)
(* that are not errors.                                                   *)
IsEvent(item) == item.kind # "Err"
LinkState(c, k) == IF k \in DOMAIN peers[c] THEN peers[c][k].st ELSE "none"
Nonce(c, k, dir) == IF k \in DOMAIN peers[c] THEN peers[c][k][dir] ELSE 0

Links == INSTANCE RelayLinks WITH
  SessionEvents <- ItemKinds \ {"ServerConnected", "PeerConnected", "Message", "Err"},
  link <- [c \in Clients |-> [k \in Clients |-> LinkState(c, k)]],
  sent <- [c \in Clients |-> [k \in Clients |-> Nonce(c, k, "send")]],
  got <- [c \in Clients |-> [k \in Clients |-> Nonce(c, k, "recv")]],
  srvUp <- [c \in Clients |-> server[c].st = "transport"],
  events <- [c \in Clients |-> SelectSeq(stream[c], IsEvent)]

(* Spec 8.3, 8.6 and 8.7: the client implements RelayLinks.  What c      *)
(* receives from k is exactly, in order, a prefix of what k encrypted for *)
(* c; PeerConnected for k precedes every message from k, ServerConnected  *)
(* every session event; a link, or the server channel, never goes back    *)
(* from Transport.  It rests on the nonces encrypt_peer_channel and       *)
(* decrypt_peer_channel advance, on the order in which the responder      *)
(* stores Transport, queues its reply and yields PeerConnected, on the    *)
(* ack reinserting the entry it removed, on server_handshake's take()     *)
(* and on connect / connect_peer never overwriting a channel.             *)
LinksRefined == Links!Spec

(* Spec 8.3, its liveness half: every message a client encrypts for a   *)
(* peer is eventually decrypted by that peer.  It is about the path from *)
(* relay's send through the queue, the socket writer, the server, the    *)
(* peer's reader and decoded queue to handle_relayed_message, where a    *)
(* nonce out of order would lose the message and every later one.       *)
SentIsDelivered ==
  \A c \in Clients : \A k \in Clients \ {c} : \A n \in 1..MaxCalls :
    Nonce(c, k, "send") >= n ~> Nonce(k, c, "recv") >= n

=============================================================================
