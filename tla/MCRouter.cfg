\* One client, two reloads, five versions of the file.
CONSTANTS
  chat = chat
  qwen = qwen
  Qwen = Qwen
  vis = vis
  ext = ext
  solo = solo
  Names <- MCNames
  Canon <- MCCanon
  Files <- MCFiles
  NoName = NoName
  NoBackend = NoBackend
  Clients = {c1}
  Reloads = {r1, r2}
  Free = Free
SPECIFICATION Spec
INVARIANTS
  TypeOK
  Recognised
  AdminAgrees
PROPERTIES
  Additive
  ReloadCovers
SYMMETRY MCSymmetry
