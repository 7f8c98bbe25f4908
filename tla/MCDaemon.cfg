\* No budget: Pinned is never called, and everything ends.
CONSTANTS
  a = a
  b = b
  d = d
  client = client
  admin = admin
  main = main
  Slots = {s1, s2}
  Members <- MCMembers
  Models <- MCMembers
  DraftOf <- MCSharedDraftOf
  NoModel = NoModel
  NoSlot = NoSlot
  Room = 0
  Threads = {client, admin, main}
  Jobs <- MCLongJobs
  Mgr = Mgr
  Live = Live
  Free = Free
SPECIFICATION FairSpec
INVARIANTS
  TypeOK
  NoDeadlock
PROPERTIES
  JobsEnd
