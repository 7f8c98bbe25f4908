\* One caller is enough: the swap does not wait for the old listener to go.
CONSTANTS
  m1 = m1
  m2 = m2
  Members <- MCMembers
  InitMembers <- MCAllMembers
  NoMember = NoMember
  GroupName = GroupName
  DefaultMember = m1
  Clients = {c1}
  Admins = {}
  Workers = {w1, w2}
  NoWorker = NoWorker
  Free = Free
SPECIFICATION Spec
INVARIANT LoadedAnswers
