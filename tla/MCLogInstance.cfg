SPECIFICATION Spec
CONSTANTS
  Worker = w
  Users = {u1, u2}
  None = None
  CategoryNames <- MCCategoryNames
  Levels = {"info", "error"}
  Kinds <- MCKinds
  Configs <- MCConfigs
  First <- MCFirst
  Slack = 0
  Modes = {"async", "sync"}
  MaxOld = 1
  MaxWrites = 3
  MaxResets = 2
  MaxTakes = 2
  MaxFlushes = 1
  MaxEnables = 1
  MaxFaults = 1
  MaxCalls <- MCMaxCalls
INVARIANT OutputReadable
INVARIANT OneConfiguration
INVARIANT SnapshotIsTail
INVARIANT FlushDelivers
SYMMETRY UserSymmetry
