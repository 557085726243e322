SPECIFICATION Spec
CHECK_DEADLOCK FALSE
CONSTANTS
  None = None
  o1 = o1
  o2 = o2
  o3 = o3
  b1 = b1
  b2 = b2
  b3 = b3
  s1 = s1
  s2 = s2
  LimUploader = lim
  Deleter = del
  Callers = {api}
  Objects = {o1, o2}
  BlocksOf <- OneBlockEach
  Blocks = {b1, b2}
  Stored = {b2}
  Limit = 1
  Uploaders = {up1, up2}
  MaxCalls = 2
  Slots = {s1, s2}
  UpdateBuffer = 1
  Faults = {"rpc", "status", "gone", "space", "restart"}
  Deletes = TRUE
INVARIANTS TypeOK DoneIsUploaded HeldItemIsUnchanged
SYMMETRY SlotSymmetry
