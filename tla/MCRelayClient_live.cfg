\* Liveness under the scheduler's fairness, with queues large enough that no
\* send waits for room.  Control requests are left out: the server channel
\* holds no guard across an await, so they add states but no way to wait
\* (the safety and server_nonce_race runs cover them).  Once the consumer's
\* calls are spent the program waits in select! for input that never comes,
\* so deadlock is not checked.  No symmetry: it is unsound with liveness.
CONSTANTS
  a = a
  b = b
  Clients <- MCClients
  Tasks = {t1}
  OutboundCap = 6
  DecodedCap = 6
  MaxCalls = 3
  ControlRequests = {}
  ServerReplies = {"SessionCreated"}
  NoHolder = NoHolder
  NoPeer = NoPeer
  ForeignSenders = {}
  ForeignEnvelopes = {}
  ServerEncodings = {"Blob"}
  MaxRecipients = 0
SPECIFICATION FairSpec
PROPERTY HandshakesResolve
PROPERTY LoopNeverWedged
PROPERTY SentIsDelivered
CHECK_DEADLOCK FALSE
