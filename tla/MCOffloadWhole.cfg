\* One caller: a removal that is interrupted, then a pull.
CONSTANTS
  big = big
  small = small
  c1 = c1
  c2 = c2
  Models <- MCModels
  SizeOf <- MCSizeOf
  Budget = 0
  Callers = {c1}
  Free = Free
SPECIFICATION Spec
PROPERTIES
  PulledIsWhole
