SPECIFICATION Spec
CONSTANTS
  Clients = {c1, c2, c3}
  Keys = {k1}
  Commands = {"RPUSH", "LPOP", "BLPOP", "LREM", "DEL"}
  Batches = {1}
  KeyLists <- OneKeyLists
  Deadlines = {FALSE}
  MaxItems = 2
  MaxCallbacks = 1
  Half = 8
SYMMETRY ClientSymmetry
\* Every connection may be parked in a pop with timeout 0: the system may stop.
CHECK_DEADLOCK FALSE
INVARIANTS TypeOK EmptyListHasOwner NoPushMissedWhileParked NoElementTwice NotOvertaken
PROPERTY UnlinkedStaysUnlinked
