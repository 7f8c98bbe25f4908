\* Two callers, two members, three workers alive or awaited at once.
CONSTANTS
  m1 = m1
  m2 = m2
  Members <- MCMembers
  InitMembers <- MCInitMembers
  NoMember = NoMember
  GroupName = GroupName
  DefaultMember = m1
  Clients = {c1, c2}
  Admins = {c1, c2}
  Workers = {w1, w2, w3}
  NoWorker = NoWorker
  Free = Free
SPECIFICATION Spec
INVARIANTS
  TypeOK
  NoForgottenWorker
  LoadedIsWatched
  LoadedNotCondemned
  LockedLoads
PROPERTIES
  ImplementsSlotSpec
SYMMETRY MCSymmetry
