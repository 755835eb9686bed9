\* Safety, and the refinement of RelayLinks, with two handles per client and
\* small queues: clones interleave and blocking sends happen; the code can
\* deadlock there (see the violation runs), so deadlock is not checked here.
CONSTANTS
  a = a
  b = b
  Clients <- MCClients
  Tasks = {t1, t2}
  OutboundCap = 2
  DecodedCap = 1
  MaxCalls = 3
  ControlRequests = {"NewSession"}
  ServerReplies = {"SessionCreated", "Error", "Other"}
  NoHolder = NoHolder
  NoPeer = NoPeer
  ForeignSenders = {}
  ForeignEnvelopes = {}
  ServerEncodings = {"Blob"}
  MaxRecipients = 1
SPECIFICATION Spec
SYMMETRY ClientSymmetry
INVARIANT TypeOK
INVARIANT PeerTrafficNeverFails
PROPERTY LinksRefined
CHECK_DEADLOCK FALSE
