SPECIFICATION Spec
CONSTANTS
  i1 = i1
  i2 = i2
  i3 = i3
  ann = ann
  bob = bob
  Invalid = Invalid
  None = None
  Imports = {i1, i2, i3}
  Recipients = {ann, bob}
  Files <- MCFiles
  Env = {"db"}
  MaxEdits = 2
INVARIANTS
  TypeOK
  NobodyGetsItTwice
  BatchesAreConsecutive
  ReportsAddUp
SYMMETRY Symmetry
CHECK_DEADLOCK FALSE
