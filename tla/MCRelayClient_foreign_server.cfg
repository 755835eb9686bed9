\* The relay server answers a control message with a Json envelope.
\* Queues are large enough that no send waits, so only the dispatch of the
\* foreign frame can stop the loop.  No symmetry: the property is
\* temporal.  Deadlock is not checked: once the calls are
\* spent the program waits in select! for input.
CONSTANTS
  a = a
  b = b
  Clients <- MCClients
  Tasks = {t1}
  OutboundCap = 6
  DecodedCap = 6
  MaxCalls = 2
  ControlRequests = {"NewSession"}
  ServerReplies = {"SessionCreated"}
  NoHolder = NoHolder
  NoPeer = NoPeer
  ForeignSenders = {}
  ForeignEnvelopes = {}
  ServerEncodings = {"Blob", "Json"}
  MaxRecipients = 0
SPECIFICATION FairSpec
PROPERTY LoopNeverWedged
CHECK_DEADLOCK FALSE
