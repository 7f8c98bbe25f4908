\* A cache with room for two of three models.  The daemon may lock up for good.
CONSTANTS
  a = a
  b = b
  d = d
  client = client
  admin = admin
  main = main
  Slots = {s1, s2}
  Members <- MCMembers
  Models <- MCModels
  DraftOf <- MCDraftOf
  NoModel = NoModel
  NoSlot = NoSlot
  Room = 2
  Threads = {client, admin, main}
  Jobs <- MCJobs
  Mgr = Mgr
  Live = Live
  Free = Free
SPECIFICATION Spec
PROPERTIES
  EvictsNothingInUse
  NoLivelock
SYMMETRY MCSymmetry
CHECK_DEADLOCK FALSE
