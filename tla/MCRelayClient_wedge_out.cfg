\* Queue capacities small enough for a send to wait for room. The loop can
\* then stop for good, so deadlock is not reported separately.
CONSTANTS
  a = a
  b = b
  Clients <- MCClients
  Tasks = {t1}
  OutboundCap = 1
  DecodedCap = 6
  MaxCalls = 3
  ControlRequests = {"NewSession"}
  ServerReplies = {"SessionCreated"}
  NoHolder = NoHolder
  NoPeer = NoPeer
  ForeignSenders = {}
  ForeignEnvelopes = {}
  ServerEncodings = {"Blob"}
  MaxRecipients = 0
SPECIFICATION FairSpec
PROPERTY LoopNeverWedged
CHECK_DEADLOCK FALSE
