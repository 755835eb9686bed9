\* Three clients; p1 broadcasts to one or two recipients.  Small queues,
\* so blocking sends happen between the broadcast's relays.  Deadlock is not
\* checked: the code can deadlock there (see the wedge runs).
CONSTANTS
  p1 = p1
  p2 = p2
  p3 = p3
  Clients <- MCClients3
  Tasks = {t1}
  OutboundCap = 2
  DecodedCap = 1
  MaxCalls = 2
  CallBound <- MCCallBound
  ControlRequests = {"NewSession"}
  ServerReplies = {"SessionCreated"}
  NoHolder = NoHolder
  NoPeer = NoPeer
  ForeignSenders = {}
  ForeignEnvelopes = {}
  ServerEncodings = {"Blob"}
  MaxRecipients = 2
SPECIFICATION Spec
SYMMETRY RecipientSymmetry
PROPERTY LinksRefined
CHECK_DEADLOCK FALSE
