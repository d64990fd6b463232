SPECIFICATION FairSpec
CONSTANTS
  Clients = {c1, c2}
  NumDatabases = 1
  Strings = {s1}
  Containers = {}
  Stored = {}
  Background = {b1}
  Triggers <- OneChange
  Faults = {"io"}
  MaxWrites = 2
  MaxAge = 1
PROPERTIES CommandsReturn TriggerFires
