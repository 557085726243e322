SPECIFICATION Spec
CHECK_DEADLOCK FALSE
CONSTANTS
  None = None
  o1 = o1
  o2 = o2
  o3 = o3
  b1 = b1
  b2 = b2
  b3 = b3
  s1 = s1
  s2 = s2
  LimUploader = lim
  Deleter = del
  Callers = {api}
  Objects = {o1}
  BlocksOf <- OneBlock
  Blocks = {b1}
  Stored = {}
  Limit = 1
  Uploaders = {up1}
  MaxCalls = 2
  Slots = {s1}
  UpdateBuffer = 1
  Faults = {"rpc"}
  Deletes = TRUE
PROPERTY DeletionIsFinal
