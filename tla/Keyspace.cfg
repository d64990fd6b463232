SPECIFICATION Spec
CONSTANTS
  Keys = {k1, k2}
  Fields = {f1}
  Numbers = {1}
  NotInt = NotInt
  Nil = Nil
  MaxHeld = 2
  MaxLen = 2
  MaxInt = 2
  Half = 8
INVARIANT ReplayRestores
SYMMETRY Symmetry
