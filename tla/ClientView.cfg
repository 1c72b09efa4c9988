SPECIFICATION Spec
CONSTANTS
  Clients <- MCClients
  MaxTasks = 2
  MaxAsks = 2
  Slots = {s1, s2}
  QueueSize = 1
SYMMETRY Symmetry
INVARIANTS QuietViewIsServer DesktopApprovalShown
CHECK_DEADLOCK FALSE
