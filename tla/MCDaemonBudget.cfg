\* The same cache, one client: a load of a model that is not in the cache.
CONSTANTS
  a = a
  b = b
  d = d
  client = client
  admin = admin
  main = main
  Slots = {s1}
  Members <- MCMembers
  Models <- MCModels
  DraftOf <- MCDraftOf
  NoModel = NoModel
  NoSlot = NoSlot
  Room = 2
  Threads = {client}
  Jobs <- MCClientJobs
  Mgr = Mgr
  Live = Live
  Free = Free
SPECIFICATION Spec
INVARIANTS
  NoDeadlock
