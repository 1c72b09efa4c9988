SPECIFICATION FairSpec
CONSTANTS
    s1 = s1
    o1 = o1
    o2 = o2
    r1 = r1
    Inputs <- MCOneInput
    Tasks = {t1}
    Sessions = {s1}
    Operations = {o1, o2}
    Requests = {r1}
    Clients = {c1}
    NoSession = NoSession
    NoTask = NoTask
    MaxCrashes = 0
    MaxFaults = 0
PROPERTIES
    DenialEndsWait
CHECK_DEADLOCK FALSE
