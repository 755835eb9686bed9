# TLA+ model of the relay client core

This directory models `src/client/src/native.rs`, the native relay client,
`src/client/src/web.rs`, the browser client's constructor, and `address` of
`src/driver/src/lib.rs` in TLA+ and checks them with TLC. The client connects to a relay server. It sets up
a Noise channel with that server and Noise channels with peers, and the server
relays the peer traffic.

## 1. Inventory

### Components and their state

| Component | Source | State | Operations |
|---|---|---|---|
| Server channel | `native.rs` 33, 64-78, 113-138, 605-626 | `Arc<RwLock<Option<ProtocolState>>>`: Handshake (initiator, before or after its first write), Transport, or None after a failed `take()` | `connect`, `server_handshake`, `request` (encrypt), server-message decrypt |
| Peer registry | `native.rs` 32, 140-192, 628-748 | `Arc<RwLock<HashMap<key, ProtocolState>>>` | `connect_peer`, `peer_handshake_responder`, `peer_handshake_ack`, `relay`, `handle_relayed_message` |
| Crypto channels | `native.rs` 751-816 | Noise transport state per channel (nonces) | `encrypt_peer_channel`, `decrypt_peer_channel` |
| Client facade | `native.rs` 35-405 | Handles to the shared state and to `outbound_tx`. `NativeClient` is `Clone`, so many tasks may hold one. | `connect`, `connect_peer`, `send`, `send_blob`, `broadcast`, `broadcast_blob`, `new_session`, `session_ready_notify`, `session_active_notify`, `register_session_connection`, `close_session` |
| Event loop | `native.rs` 407-749 | Socket reader and writer; `outbound_rx`; `message_tx`/`message_rx` (both ends) | `select!` over socket read, outbound queue and decoded queue; `read_message`, `send_message`, `handle_incoming_message` |
| Event stream | `native.rs` 426-482 | The yielded `Result<Event>` items | yield |
| Browser client | `web.rs` | A WebSocket and an open signal | `new` (waits for open) |
| Driver | `driver/src/lib.rs` 93-102 | none (traits) | `address` (Keccak hash, slice, hex) |
| Relay server | not in this repository | Per-client Noise channel, routing | Answers the handshake, forwards peer frames, answers control messages |

### How the components interact

- **Facade to loop.** Facade calls take the peers or server lock, mutate
  Noise state, and then await `outbound_tx.send`. The queue is bounded at 32.
- **Loop to server.** The loop drains `outbound_rx` to the socket.
- **Server to loop.** Socket frames are decoded and pushed with
  `message_tx.send(..).await` into a second bounded queue (32) that the same
  loop drains.
- **Dispatch.** It takes the peers or server lock, yields on the stream, and,
  for a peer initiator, sends the reply into `outbound_tx` itself.
- **Shared state.** The facade and the loop share the two `RwLock`s.
  - `relay` holds the peers guard across its outbound send.
  - `peer_handshake_responder` also holds it across its send.
  - `connect`, `connect_peer` and `request` drop their guard before sending.

### What makes it hard

- **Interleavings.** Facade tasks, including clones, run concurrently with the
  loop.
- **Nondeterministic branch order.** `select!` picks among the ready branches.
- **Bounded queues.** Their sends block.
- **Self-feeding loop.** The loop sends into queues that only it drains.
- **Locks across awaits.** Some guards stay held across a send.
- **Ordering.** Noise transport requires strictly in-order nonces, so every
  reordering of ciphertext between encryption and the receiver's decrypt is
  an error.
- **Handshake races.** Two peers may call `connect_peer` towards each other
  at the same time.

### Properties that make it correct

Spec sections 3, 5 and 8, and the doc comments:

- **Finality.** A channel in Transport stays there (section 8.1).
- **In-order decryption.** Peer and control traffic between honest parties
  always decrypts, in order (sections 5 and 8.3).
- **Handshakes end.** Each ends either connected on both sides or with a
  reported race (sections 4.2 and 8, scenarios 1 and 3).
- **The loop keeps running.** Errors are yielded and the loop continues
  (sections 4.4 and 7).
- **Event order.** Message events for a peer follow that peer's
  `PeerConnected` (sections 8.6 and 8.7).

## 2. Modules

`RelayClient.tla` is the composed system. Its sections are:

- wire messages;
- facade;
- event loop and dispatch handlers;
- relay server (the environment);
- properties.

It is one module because the facade, the loop and the registries share the
two locks and both queues. Splitting them would only pass every variable
through `INSTANCE`.

`RelayLinks.tla` is the abstract specification: what a client promises its
consumer (spec sections 8.3, 8.6 and 8.7).

- For each ordered pair of clients there is a link that is `none`,
  `handshake` or `transport`, and it never goes back.
- There are counts of messages sent and received.
- There is a server-up flag.
- There is the sequence of events each stream yields.
- Each received message is the sender's next one.
- A peer's messages follow its `PeerConnected`, and session events follow
  `ServerConnected`.
- Errors are not events.

`RelayClient` instantiates it as `Links` with a refinement mapping:

- a registry entry's state is the link;
- its `send`/`recv` nonces are the counts;
- Transport on the server channel is "up";
- the stream with its `Err` items filtered out (`SelectSeq`) is the events.

`LinksRefined == Links!Spec` is checked as a property.

`WebClient.tla` models `WebClient::new` in `web.rs`:

- the socket's ready state;
- `onopen`'s spawned send on the capacity-1 open channel;
- whether `open_tx` is still alive;
- the await on `open_rx`, and whether `open_rx` is still alive (`RxAlive`);
- whether the spawned task's `unwrap()` panicked.

The browser may open, fail or close the socket. The caller may drop `new`'s
future at its await (`Cancel`), as a timeout around `new` would; `open_rx`
goes with it, while the socket and the forgotten closures live on. The
spawned send then fails and `unwrap()` panics (`SendOpenPanics`). The drop
cannot fall between `onopen` and its spawned send: `spawn_local` runs the
task in the microtask right after the callback, before any timer fires, so
`Cancel` is disabled while that task is pending.

| Code | Model |
|---|---|
| `server` lock content | `server[c]`: `st` in `init` (Handshake, not yet written), `sent` (written), `transport`, `none`; `send`/`recv` nonces |
| `peers` lock content | `peers[c]`: key to `[st, send, recv]` |
| a guard held across an `.await` | `lock[c]`: a task, `"loop"`, or `NoHolder`. Guards held only inside a step need no variable. |
| `outbound_tx/rx`, `message_tx/rx` | `outbound[c]`, `decoded[c]` (bounded by `OutboundCap`, `DecodedCap`) |
| the loop's position inside a `select!` branch | `loop[c].pc`: `idle`, `push` (in `read_message`'s send), `dispatch` (popped, waiting for a lock), `respond` (responder's send) |
| a facade call waiting in `outbound_tx.send` | `task[c][t]` = `[pc \|-> "send", req]` |
| yielded items | `stream[c]` |
| socket | `toServer[c]`, `toClient[c]` (FIFO, as over TCP) |

**Facade actions.**

- `Connect`, `ConnectPeer`, `Relay` (`send`/`send_blob`, through `RelayPeer`,
  which is `relay`) and `Request` (the five control calls plus `request`) are
  the part of each call up to its outbound send.
  `Request` with the server state None (left by a failed
  `server_handshake`) hits `unreachable!()` and unwinds the calling task
  (task `pc` "panic"); no run reaches that state, since an honest server
  answers the handshake once.
- `Broadcast` starts `broadcast`/`broadcast_blob` with a recipient list.
- `BroadcastRelay` is each iteration of `relay_broadcast`: a `RelayPeer` to
  the next recipient. An error ends the call, and the remaining recipients
  get nothing.
- `TaskSend` is the send itself.
  - It releases a guard that is still held.
  - It resumes a broadcast with its remaining recipients.

**Event-loop actions.**

- `ReadFrame` and `PushDecoded` are the socket branch.
- `SendOutbound` is the outbound branch.
- `DispatchPop` takes the next decoded message.
- Dispatch has one action per handler: `ServerHandshake`,
  `PeerHandshakeResponder` (and `LoopRespond` for its send),
  `PeerHandshakeAck`, `RelayedMessage` and `ServerChannelMessage`.
  - Each one's error paths are branches of the action, in the code's order.
  - A `panic!`/`unreachable!` (`Panic`) moves the loop to `panic`, which no
    action leaves. This covers the server state None, a non-Blob server
    envelope, a Noop peer envelope, and an out-of-range slice.
  - `DecryptPeer` is `decrypt_peer_channel`: NotTransportState, the
    `payload[..length]` panic for an overlong length, then the Noise nonce
    check, in the code's order.

**Relay server actions.** `ServeHandshake`, `ServeForward` and `ServeControl`.
These are environment actions, not code of this repository.

**Abstractions.**

- Payloads are their nonces.
- JSON and Blob encodings are one kind of message event (`"Data"`).
- An envelope keeps its encoding where the code branches on it:
  - `ForeignSenders`: peers, built from other code, that may send, besides
    what `relay()` makes, the envelopes in `ForeignEnvelopes`: one labelled
    Noop, or one whose `length` exceeds its payload ("Overlong");
  - `ServerEncodings`: which encodings the server uses.
  Both are honest (`{}`, `{"Blob"}`) except in the `foreign_*` runs.
- Session ids and participant lists are dropped.
- The server answers a control message with any member of `ServerReplies`.
- Facade errors returned to the caller are not recorded. The call simply ends.

`DriverAddress.tla` models `address`: drop the key's first byte, hash with
`Keccak256` (a constant operator), keep digest bytes 13..32 and write `0x`
and the lowercase hex (`HexEncode`, a RECURSIVE operator for `hex::encode`).
Strings are sequences of one-character strings. The state variable is the
key of the current call, so that TLC evaluates `address` on every key of a
bounded set; `RefAddress` states the address character by character, without
recursion, and the invariant compares the two. `MCDriverAddress.tla` gives
the keys (one to three bytes over `{0, 4, 171, 255}`) and a stand-in hash
whose 32 bytes depend on every input byte and on their position.

`MCRelayClient.tla` instantiates `Clients` as model values `a` and `b`. It
also declares the client symmetry.

`MCRelayClient3.tla` instantiates three clients `p1`, `p2`, `p3`. It
overrides `CallBound` so that `p1` makes two calls and the others one each:
enough for `p2` and `p3` to connect to `p1` and for `p1` to broadcast to both.
Its symmetry permutes `p2` and `p3` only.

## 3. Runs

| Run | cfg | Checks | Result |
|---|---|---|---|
| safety | `MCRelayClient_safety.cfg` | `TypeOK`, `PeerTrafficNeverFails`, `LinksRefined`, two handles per client | pass, about 1.14M states |
| live | `MCRelayClient_live.cfg` | `HandshakesResolve`, `LoopNeverWedged`, `SentIsDelivered` (spec 8.3, liveness) | pass, about 256k states |
| broadcast | `MCRelayClient3_broadcast.cfg` | `LinksRefined` with three clients and broadcasts | pass, about 768k states |
| address | `MCDriverAddress.cfg` | `AddressMatchesReference` | pass, 168 states |
| server_nonce_race | `MCRelayClient_srvorder.cfg` | `ServerChannelInOrder` | **violation** |
| wedge_outbound | `MCRelayClient_wedge_out.cfg` | `LoopNeverWedged` | **violation** |
| wedge_decoded | `MCRelayClient_wedge_dec.cfg` | `LoopNeverWedged` | **violation** |
| foreign_peer | `MCRelayClient_foreign_peer.cfg` | `LoopNeverWedged` with a Noop sender | **violation** |
| foreign_length | `MCRelayClient_foreign_length.cfg` | `LoopNeverWedged` with an overlong envelope length | **violation** |
| foreign_server | `MCRelayClient_foreign_server.cfg` | `LoopNeverWedged` with Json server envelopes | **violation** |
| web_open | `WebClient.cfg` | `NewReturns` | **violation** |
| web_cancel | `WebClient_cancel.cfg` | `OpenSendNeverPanics`, with the caller free to drop `new` | **violation** |

`LinksRefined` implies that a channel in Transport stays there (spec 8.1):
the abstract link and server flag never go back, and the mapping reads them
from the registry and the server state.

**Bounds.**

- **Two clients.** Two are enough for every peer interaction: a handshake in
  either direction, a crossed handshake, and relay traffic.
- **Three facade calls per client.** Enough for `connect` + `connect_peer` +
  `send`, or `connect` + two requests.
- **Safety run queues: `OutboundCap = 2`, `DecodedCap = 1`.** Small enough
  that every blocking send happens. Capacity 2 on the outbound queue also lets
  a message be queued ahead of a waiting reply.
- **Live run queues: capacity 6.** Larger than any backlog three calls per
  client can produce, so no send ever waits.
- **No control requests in the live run.** The server channel holds no guard
  across an await, so control requests add states but no way for the loop
  or a handshake to wait. The safety run and `server_nonce_race` cover them.
- **Two handles (safety run).** Two handles per client with three calls are enough for
  two `send`s to one peer to interleave between encryption and the queue.
- **Three clients** (broadcast run). Three are the fewest for a broadcast
  with more than one recipient. Two of them answer or start handshakes while
  the third broadcasts.
- **Real capacity.** The code uses 32. Nothing in the code depends on the
  value, only on the queue being bounded and drained by the loop alone.

**Fairness (`Fairness`).**

- Weak fairness on each client's loop step, each blocked facade send, and
  each server step.
- This is justified because tokio runs every ready task, and `select!` picks
  a ready branch at random.
- Facade calls carry no fairness: they are the consumer's choice.
- In `WebClient` there is weak fairness on:
  - `new`'s first step;
  - the browser settling a connecting socket (it opens or fails);
  - the spawned sender (its send or its panic);
  - the receive.
  The single-threaded browser executor runs every ready future, and a
  connecting socket does not stay connecting for ever. Dropping `new`
  carries no fairness: it is the caller's choice, and `NewReturns` counts a
  dropped call as ended.

**Deadlock checking.**

- It is off in the safety run and the wedge runs, because the code really
  stops there.
- It is also off in the live runs. Once the consumer's calls are spent, the
  program waits in `select!` for input that never comes.

**Findings.**

1. **`server_nonce_race`.** `request()` drops the server guard (line 338)
   before `outbound_tx.send` (line 344). Two clones then queue control
   envelopes out of nonce order, and the server fails to decrypt.
2. **`wedge_outbound`.** The loop sends the handshake reply into the full
   queue that only it drains (line 671), while holding the peers lock.
   `relay` (line 250) holds the same lock across the same send.
3. **`wedge_decoded`.** `read_message` pushes into the full decoded queue
   that only the loop drains (line 502).
4. **`foreign_peer`.** A decrypted Noop peer envelope hits `unreachable!()`
   (line 731). Spec sections 4.4, 7 and 9 want a protocol error, with the
   loop going on.
5. **`foreign_server`.** A non-Blob server envelope hits `panic!` (line 563),
   with the same spec sections.
6. **`foreign_length`.** `decrypt_peer_channel` slices
   `payload[..length]` with the length from the wire (line 807), before the
   nonce check. An overlong length from a peer of other code panics the loop;
   spec section 7 counts a bad length as a ProtocolError and keeps the loop
   going.
7. **`web_open`.** `WebClient::new` awaits `open_rx.recv()` (`web.rs` line
   74).
   - Its only sender is captured by the forgotten `onopen` closure.
   - A connection that fails before opening therefore leaves `new` pending
     for ever.

8. **`web_cancel`.** The task `onopen` spawns runs
   `open_tx.send(()).await.unwrap()` (`web.rs` line 56). `open_rx` lives in
   `new`'s future. If a caller drops that future while the socket is still
   connecting (a timeout, which the hang of finding 7 invites), the open
   event that comes later makes the send fail and `unwrap()` panic. TLC's
   trace: `New`, `Cancel`, `SocketOpens`, `SendOpenPanics`.

**Mutants.** Every property of a passing run is broken by a plausible code
bug (see `mutants` in `PROJECT.json`):

- an off-by-one queue bound;
- the responder's reply being lost;
- the responder never releasing the peers guard;
- `encrypt_peer_channel` not advancing the nonce (`safety`, `LinksRefined`);
- `address` keeping 21 digest bytes (`address`);
- `relay` dropping the peers guard before its send (`safety`);
- the responder dropping the guard before its reply, which lets a send
  overtake the reply and lose the message (`live`, `SentIsDelivered`);
- a broadcast that encrypts without the Transport check (`broadcast`).

## 4. Not modelled, and the plan

**Not modelled.**

- The rest of `driver/src/lib.rs` is traits (`Driver`, `ProtocolDriver`)
  with no implementation in this repository, and module declarations.
- Keccak-256 itself: `address` is checked for any hash, with a stand-in.
  An empty key would panic at `&public_key[1..]` (line 98); the doc comment
  asks for 65 bytes, and the model feeds only non-empty keys.
- Noise cryptography, codec and TAGLEN arithmetic are below the
  abstraction. A `length` shorter than the ciphertext fails the MAC, which
  is the ProtocolError branch already modelled.
- HTTP upgrade failure is I/O before any state exists.
- **Socket close (line 448).** After close, `ws_reader.next()` yields None on
  every `select!` and the None arm does nothing.
  - The stream never ends, although spec section 7 says close terminates it.
  - The code has no path that ends the stream, so a property would fail only
    by the model's shape.
  - It is listed as a hazard.
- **Client restart.** Reconnection is a non-goal of the spec (section 1), and
  entries live for the client's lifetime (section 3).
  - A restarted peer is refused with `PeerAlreadyExistsMaybeRace` for ever.
  - Nothing in the spec says what should happen instead.
- **Duplicated or stray handshake frames** (the `peer_handshake_ack` removal,
  line 688). They need a peer that answers twice or a server that duplicates
  frames, and the relay uses one FIFO TCP stream.

**Plan for later sittings.**

1. Larger instances of the broadcast run, with the outbound queue at 1; the
   present instance already takes over two minutes.
