SPECIFICATION Spec
CONSTANTS
  Stacks = {s1, s2}
  Databases = {d1}
  Schedules = {1, 2}
  Changes = {c1}
CHECK_DEADLOCK FALSE
INVARIANTS OneTaskPerEntry 
