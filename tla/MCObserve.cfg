\* Six lines, a pipe of one line, channels of two events, a tail of two lines, two days.
CONSTANTS
  w1 = w1
  member = member
  Workers = {w1}
  Names = {member}
  NameOf <- MCNameOf
  Store = Store
  Tails = {t1}
  Prints <- MCPrints
  PipeCap = 1
  TailCap = 2
  EventCap = 2
  SubCap = 2
  RingCap = 2
  Days = 1
SPECIFICATION FairSpec
INVARIANTS
  TypeOK
  NoSendOnClosed
  InOrder
  TailIsLatest
  LogIsOpen
PROPERTIES
  DoneIsFinal
  MissedIsDropped
  NeverHeldUp
  ExitIsReported
  TailLeaves
CHECK_DEADLOCK FALSE
