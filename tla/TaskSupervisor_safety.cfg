SPECIFICATION Spec
CONSTANTS
    s1 = s1
    o1 = o1
    o2 = o2
    r1 = r1
    Inputs <- MCInputs
    Tasks = {t1, t2}
    Sessions = {s1}
    Operations = {o1, o2}
    Requests = {r1}
    Clients = {c1}
    NoSession = NoSession
    NoTask = NoTask
    MaxCrashes = 1
    MaxFaults = 1
SYMMETRY Symmetry
INVARIANTS
    TypeOK
    OneMutationPerSession
    ExecutionPermitted
    DecisionIsRow
    OperationRunsOnce
    LockMatchesHolder
    CompletedMeansExecuted
    RestartSettles
CHECK_DEADLOCK FALSE
