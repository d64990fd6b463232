SPECIFICATION Spec
CONSTANTS
  Clients = {c1, c2, c3}
  Keys = {k1}
  Commands = {"RPUSH", "LPOP"}
  Batches = {1}
  KeyLists <- OneKeyLists
  Deadlines = {TRUE, FALSE}
  MaxItems = 2
  MaxCallbacks = 1
  Half = 8
SYMMETRY ClientSymmetry
INVARIANT NoLostPush
