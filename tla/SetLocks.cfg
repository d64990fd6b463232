SPECIFICATION FairSpec
CONSTANTS
  Clients = {c1, c2}
  Sets = {s1, s2}
  Members = {m1}
  Nobody = Nobody
PROPERTY SetCommandsReturn
CHECK_DEADLOCK FALSE
