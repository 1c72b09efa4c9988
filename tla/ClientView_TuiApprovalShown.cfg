SPECIFICATION Spec
CONSTANTS
  Clients <- MCTui
  MaxTasks = 2
  MaxAsks = 1
  Slots = {s1, s2}
  QueueSize = 1
SYMMETRY Symmetry
INVARIANTS TuiApprovalShown
CHECK_DEADLOCK FALSE
