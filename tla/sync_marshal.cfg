SPECIFICATION Spec
CHECK_DEADLOCK FALSE
CONSTANTS
  None = None
  o1 = o1
  o2 = o2
  o3 = o3
  b1 = b1
  b2 = b2
  b3 = b3
  s1 = s1
  s2 = s2
  LimUploader = lim
  Deleter = del
  Callers = {api}
  Objects = {o1}
  BlocksOf <- TwoBlocks
  Blocks = {b1, b2}
  Stored = {}
  Limit = 2
  Uploaders = {up1}
  MaxCalls = 1
  Slots = {s1, s2}
  UpdateBuffer = 1
  Faults = {"rpc"}
  Deletes = FALSE
INVARIANT DoneIsUploaded
