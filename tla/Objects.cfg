SPECIFICATION ObjectsSpec
CONSTANTS
  Values = {a, b, c}
  MaxLen = 4
  Base = 8
  Half = 64
  NotInt = NotInt
  MaxNumber = 4200
  MaxArgs = 8
INVARIANTS LRangeCorrect LSetReadByLIndex LRemCorrect PushedValuesComeOff
INVARIANTS LengthRoundTrip GetKeysAgrees
PROPERTY CounterIsKept
