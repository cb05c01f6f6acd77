\* One boot callback, two waiting objects, two calls and four frames.
SPECIFICATION ShimSpec
CONSTANTS
  Callbacks = {c}
  CallResults = {r, s}
  CallbackSlots = 1
  ResultSlots = 2
  PendingLimit = 1
  Lifetime = 1
  MaxCalls = 2
  None = none
  m = m
  n = n
  a = a
  b = b
  Frames <- MCFrames
INVARIANT CallbacksTellLobby
PROPERTIES
  PartnerLeaves
  
