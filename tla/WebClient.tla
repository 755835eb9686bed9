----------------------------- MODULE WebClient -----------------------------
(***************************************************************************)
(* WebClient::new of src/client/src/web.rs, the browser client.            *)
(*                                                                         *)
(* new opens a WebSocket, installs onmessage (empty), onerror (logs) and a *)
(* once-only onopen closure, then awaits open_rx.recv().  onopen spawns a  *)
(* task that sends () on the capacity-1 channel.  The browser delivers a   *)
(* socket's events only while the future is suspended, so installing the   *)
(* handlers is one step with creating the socket.  Each closure is         *)
(* forget()-ed: one that never runs keeps what it captured, open_tx        *)
(* included, for ever.  The caller may drop new's future while it awaits  *)
(* (a timeout around a call that may never return): open_rx goes with it, *)
(* while the socket and its closures live on.                             *)
(***************************************************************************)
EXTENDS Naturals

VARIABLES
  pc,       \* where new is: "start", "waiting", "returned", "failed", or
            \* "dropped" by its caller
  sock,     \* the WebSocket's readyState: "none", "connecting", "open", "closed"
  spawned,  \* onopen's spawned task has not yet sent
  openQ,    \* messages in the open channel (capacity 1)
  txAlive,  \* open_tx is still owned by the onopen closure or its task
  panicked  \* the spawned task's unwrap() panicked

wvars == <<pc, sock, spawned, openQ, txAlive, panicked>>

(* open_rx lives in new's future, until new returns or is dropped. *)
RxAlive == pc = "waiting"

Init ==
  /\ pc = "start"
  /\ sock = "none"
  /\ spawned = FALSE
  /\ openQ = 0
  /\ txAlive = TRUE
  /\ panicked = FALSE

(* WebSocket::new(server)? fails for a malformed URL; otherwise the       *)
(* socket is connecting, the handlers are installed and new awaits the    *)
(* open channel.                                                          *)
New ==
  /\ pc = "start"
  /\ \/ pc' = "failed" /\ UNCHANGED sock
     \/ pc' = "waiting" /\ sock' = "connecting"
  /\ UNCHANGED <<spawned, openQ, txAlive, panicked>>

(* The browser opens the socket and runs onopen: it spawns the sender.    *)
SocketOpens ==
  /\ sock = "connecting"
  /\ sock' = "open"
  /\ spawned' = TRUE
  /\ UNCHANGED <<pc, openQ, txAlive, panicked>>

(* The connection fails: an error event (onerror logs it) and close.      *)
SocketFails ==
  /\ sock = "connecting"
  /\ sock' = "closed"
  /\ UNCHANGED <<pc, spawned, openQ, txAlive, panicked>>

(* The server closes an open socket; no onclose handler is installed.     *)
SocketCloses ==
  /\ sock = "open"
  /\ sock' = "closed"
  /\ UNCHANGED <<pc, spawned, openQ, txAlive, panicked>>

(* The spawned task: open_tx.send(()).await.unwrap(), then open_tx drops. *)
SendOpen ==
  /\ spawned
  /\ RxAlive
  /\ openQ < 1
  /\ openQ' = openQ + 1
  /\ spawned' = FALSE
  /\ txAlive' = FALSE
  /\ UNCHANGED <<pc, sock, panicked>>

(* send fails once open_rx is gone, and unwrap() panics. *)
SendOpenPanics ==
  /\ spawned
  /\ ~ RxAlive
  /\ panicked' = TRUE
  /\ spawned' = FALSE
  /\ txAlive' = FALSE
  /\ UNCHANGED <<pc, sock, openQ>>

(* open_rx.recv() returns the () or, once every sender is gone, None;     *)
(* either way new drops open_rx and returns the client.                   *)
RecvOpen ==
  /\ pc = "waiting"
  /\ openQ = 1 \/ ~ txAlive
  /\ pc' = "returned"
  /\ openQ' = 0
  /\ UNCHANGED <<sock, spawned, txAlive, panicked>>

(* The caller drops new's future at its await, open_rx with it.  Not    *)
(* while a task onopen spawned is pending: spawn_local runs it in the    *)
(* microtask right after onopen, before any timer or other event.        *)
Cancel ==
  /\ pc = "waiting"
  /\ ~ spawned
  /\ pc' = "dropped"
  /\ UNCHANGED <<sock, spawned, openQ, txAlive, panicked>>

Next ==
  \/ New \/ SocketOpens \/ SocketFails \/ SocketCloses
  \/ SendOpen \/ SendOpenPanics \/ RecvOpen \/ Cancel

(* The browser settles a connecting socket one way or the other, and the  *)
(* single-threaded executor runs every ready future.                      *)
Spec ==
  /\ Init /\ [][Next]_wvars
  /\ WF_wvars(New) /\ WF_wvars(SocketOpens \/ SocketFails)
  /\ WF_wvars(SendOpen \/ SendOpenPanics) /\ WF_wvars(RecvOpen)

TypeOK ==
  /\ pc \in {"start", "waiting", "returned", "failed", "dropped"}
  /\ sock \in {"none", "connecting", "open", "closed"}
  /\ spawned \in BOOLEAN /\ openQ \in 0..1 /\ txAlive \in BOOLEAN
  /\ panicked \in BOOLEAN

(* new returns Result<WebClient, JsValue>: every call ends, with the      *)
(* client or with an error, unless its caller drops it.  It is about the  *)
(* await on open_rx, whose only sender lives in the onopen closure.       *)
NewReturns == <>(pc \in {"returned", "failed", "dropped"})

(* The task onopen spawns never panics: open_tx.send(()).await.unwrap()   *)
(* finds open_rx alive.  It is about a drop of new's future racing the   *)
(* socket's open event.                                                   *)
OpenSendNeverPanics == ~ panicked

=============================================================================
