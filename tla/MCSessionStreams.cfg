SPECIFICATION FairStreamsSpec
CONSTANTS
  None = None
  Sessions = {s1, s2}
  Streams = {h1, h2}
  Senders = {k1}
INVARIANTS StreamsTypeOK NoWriteAfterReturn
PROPERTIES StreamLostForCause AbandonedHandlerReturns EverySendReturns
CHECK_DEADLOCK FALSE
