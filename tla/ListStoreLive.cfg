SPECIFICATION FairSpec
CONSTANTS
  Clients = {c1, c2}
  Keys = {k1, k2}
  Commands = {"LPUSH", "BRPOP"}
  Batches = {1, 2}
  KeyLists <- OnePair
  Deadlines = {TRUE, FALSE}
  MaxItems = 2
  MaxCallbacks = 1
  Half = 8
\* Every connection may be parked in a pop with timeout 0: the system may stop.
CHECK_DEADLOCK FALSE
PROPERTY CommandsReturn
