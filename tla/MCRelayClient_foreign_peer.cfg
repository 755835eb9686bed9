\* A peer built from other code labels an envelope Noop (b is such a peer).
\* Queues are large enough that no send waits, so only the dispatch of the
\* foreign frame can stop the loop.  No symmetry: b is distinguished, and
\* the property is temporal.  Deadlock is not checked: once the calls are
\* spent the program waits in select! for input.
CONSTANTS
  a = a
  b = b
  Clients <- MCClients
  Tasks = {t1}
  OutboundCap = 6
  DecodedCap = 6
  MaxCalls = 2
  ControlRequests = {"NewSession"}
  ServerReplies = {"SessionCreated"}
  NoHolder = NoHolder
  NoPeer = NoPeer
  ForeignSenders = {b}
  ForeignEnvelopes = {"Noop"}
  ServerEncodings = {"Blob"}
  MaxRecipients = 0
SPECIFICATION FairSpec
PROPERTY LoopNeverWedged
CHECK_DEADLOCK FALSE
