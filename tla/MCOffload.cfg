\* Two models that do not fit together, two callers.
CONSTANTS
  big = big
  small = small
  c1 = c1
  c2 = c2
  Models <- MCModels
  SizeOf <- MCSizeOf
  Budget = 2
  Callers = {c1, c2}
  Free = Free
SPECIFICATION Spec
INVARIANTS
  TypeOK
  Durable
PROPERTIES
  CacheWithinBudget
  UnknownMeansUnplugged
  ImplementsStore
SYMMETRY MCSymmetry
