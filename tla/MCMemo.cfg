SPECIFICATION Spec
CONSTANTS
  c1 = c1
  c2 = c2
  s1 = s1
  s2 = s2
  f1 = f1
  old = old
  near = near
  far = far
  most = most
  Gone = Gone
  None = None
  Conversations <- MCConversations
  Sessions <- MCSessions
  SessionId <- MCOwnIds
  Files = {f1}
  Contents = {old, near, far}
  Parts = {most}
  Size <- MCSize
  PayloadContent = TRUE
  CompactHook = TRUE
  MaxWrites = 2
SYMMETRY MCSymmetry
INVARIANTS
  SkipIsSafe
  DiffIsSlight
CHECK_DEADLOCK FALSE
