SPECIFICATION Spec
CONSTANTS
  Maps = {m1, m2}
  NoMap = NoMap
  Slots = {s1, s2}
  MaxChanges = 3
  MaxFaults = 2
SYMMETRY Symmetry
CHECK_DEADLOCK FALSE
INVARIANTS QuietMeansCurrent MapCurrent
PROPERTY NeverOlder
