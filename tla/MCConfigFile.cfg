\* Two shells, four ports (two of them the router's), three names, three first files.
CONSTANTS
  w1 = w1
  w2 = w2
  chat = chat
  qwen = qwen
  bge = bge
  m1 = m1
  m2 = m2
  m3 = m3
  m4 = m4
  Names <- MCNames
  NoName = NoName
  Chat = chat
  Models <- MCModels
  Ports <- MCPorts
  RouterPorts = {1, 4}
  InitFiles <- MCFiles
  Jobs <- MCJobs
  Dirs <- MCDirs
  Writers = {w1, w2}
\* A file that no longer loads stays so until somebody edits it.
CHECK_DEADLOCK FALSE
SPECIFICATION Spec
INVARIANTS
  TypeOK
  NothingForgotten
PROPERTIES
  AddsKeepLoading
  FreshPortIsFree
  MigrateKeepsMeaning
  ReloadAgrees
