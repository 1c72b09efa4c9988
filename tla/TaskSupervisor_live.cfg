SPECIFICATION FairSpec
CONSTANTS
    s1 = s1
    o1 = o1
    o2 = o2
    r1 = r1
    Inputs <- MCMixedInputs
    Tasks = {t1}
    Sessions = {s1}
    Operations = {o1, o2}
    Requests = {r1}
    Clients = {c1, c2}
    NoSession = NoSession
    NoTask = NoTask
    MaxCrashes = 1
    MaxFaults = 1
INVARIANTS
    CancelHeard
    ResolvedOnce
PROPERTIES
    DecisionFinal
    TerminalRowStays
    SignalStopsSupervisor
    LockGivenBack
CHECK_DEADLOCK FALSE
