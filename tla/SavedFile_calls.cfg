CONSTANTS
  i1 = i1
  i2 = i2
  Caller = {c1, c2}
  Item = {i1, i2}
  Missing = Missing
  Corrupt = Corrupt
  None = None
  Found <- Leftovers
SPECIFICATION Spec
SYMMETRY InterchangeableCallers
PROPERTY ImplementsAtomicFile
