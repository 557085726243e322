SPECIFICATION Spec
CHECK_DEADLOCK FALSE
CONSTANTS
  None = None
  o1 = o1
  o2 = o2
  o3 = o3
  b1 = b1
  b2 = b2
  b3 = b3
  s1 = s1
  s2 = s2
  LimUploader = lim
  Deleter = del
  Callers = {api}
  Objects = {o1, o2, o3}
  BlocksOf <- ThreeFiles
  Blocks = {b1, b2, b3}
  Stored = {b2}
  Limit = 2
  Uploaders = {up1, up2}
  MaxCalls = 3
  Slots = {s1, s2}
  UpdateBuffer = 3
  Faults = {}
  Deletes = FALSE
INVARIANT EstimateCoversNode
SYMMETRY SlotSymmetry
