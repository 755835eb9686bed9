\* Two facade handles of one client (NativeClient is Clone) issue control
\* requests concurrently.  Once the calls are spent the program waits in
\* select! for input, so deadlock is not checked.
CONSTANTS
  a = a
  b = b
  Clients <- MCClients
  Tasks = {t1, t2}
  OutboundCap = 4
  DecodedCap = 4
  MaxCalls = 3
  ControlRequests = {"NewSession"}
  ServerReplies = {"SessionCreated"}
  NoHolder = NoHolder
  NoPeer = NoPeer
  ForeignSenders = {}
  ForeignEnvelopes = {}
  ServerEncodings = {"Blob"}
  MaxRecipients = 0
SPECIFICATION Spec
SYMMETRY ClientSymmetry
INVARIANT ServerChannelInOrder
CHECK_DEADLOCK FALSE
