\* Two callers, two members, two workers alive or awaited at once.
CONSTANTS
  m1 = m1
  m2 = m2
  Members <- MCMembers
  InitMembers <- MCAllMembers
  NoMember = NoMember
  GroupName = GroupName
  DefaultMember = m1
  Clients = {c1, c2}
  Admins = {c2}
  Workers = {w1, w2}
  NoWorker = NoWorker
  Free = Free
SPECIFICATION FairSpec
PROPERTIES
  DeathIsNoticed
  CallReturns
  ForeignListenerLeaves
