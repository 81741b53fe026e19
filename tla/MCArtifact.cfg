SPECIFICATION Spec
CONSTANTS
  Writers = {w1, w2}
  Readers = {r1, r2}
  Old = Old
  Absent = Absent
  Chunks = 2
INVARIANTS
  NeverHalf
  TempsAccountedFor
PROPERTY
  ActsAsRegister
