SPECIFICATION Spec
CONSTANTS
  Clients = {c1, c2}
  NumDatabases = 2
  Events = {"kill", "power", "shutdown"}
  Sizes = {3}
  MaxWrites = 3
INVARIANTS TypeOK AckedIsReplayed SyncedSurvives LogInRealTimeOrder SerialIsRestored
PROPERTY ReplayOnlyGrows
SYMMETRY Symmetry
