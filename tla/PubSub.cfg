SPECIFICATION FairSpec
CONSTANTS
  Conns = {c1, c2}
  n1 = n1
  n2 = n2
  Channels = {n1, n2}
  ArgLists <- ShortArgLists
  BufferSize = 1
  MaxMsgs = 2
  MaxChans = 2
\* In the end every connection may have hung up.
CHECK_DEADLOCK FALSE
INVARIANTS TypeOK RegistryExact NoSendOnClosed CountIsExact
PROPERTIES PublishReturns AllWritten CleanupEnds
