SPECIFICATION FairSpec
CONSTANTS
  Clients = {c1, c2}
  Keys = {k1}
  Commands = {"RPUSH", "BLPOP"}
  Batches = {1}
  KeyLists <- OneKeyLists
  Deadlines = {TRUE, FALSE}
  MaxItems = 1
  MaxCallbacks = 1
  Half = 8
\* Every connection may be parked in a pop with timeout 0: the system may stop.
CHECK_DEADLOCK FALSE
PROPERTY BlockedPopWakes
