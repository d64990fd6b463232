SPECIFICATION Spec
CONSTANTS
  Clients = {c1, c2}
  NumDatabases = 2
  Strings = {s1}
  Containers = {l1, l2}
  Stored = {l1, l2}
  Background = {}
  Triggers = {}
  Faults = {"crash", "io", "shutdown"}
  MaxWrites = 2
  MaxAge = 0
SYMMETRY Symmetry
INVARIANTS TypeOK DiskIsWhole SnapshotIsCut
PROPERTY ActsAsDurableStore
