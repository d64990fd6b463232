SPECIFICATION FairSpec
CONSTANTS
  Writers = {w1}
  Readers = {r1}
  Sweeper = sweeper
  Keys = {k1, k2}
  MaxArgs = 2
INVARIANT TypeOK
PROPERTY SweepCatchesAll
INVARIANT EvictsOnlyDue
INVARIANT ReadsNothingExpired

