\* Two clients, no reload.
CONSTANTS
  chat = chat
  qwen = qwen
  Qwen = Qwen
  vis = vis
  ext = ext
  solo = solo
  Names <- MCNames
  Canon <- MCCanon
  Files <- MCFiles
  NoName = NoName
  NoBackend = NoBackend
  Clients = {c1, c2}
  Reloads = {}
  Free = Free
SPECIFICATION Spec
PROPERTIES
  AskedIsServed
