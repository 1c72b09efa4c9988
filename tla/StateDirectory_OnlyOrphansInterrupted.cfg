SPECIFICATION Spec
CONSTANTS
    Servers = {server1, server2}
    Clis = {cli}
    MaxStarts = 3
PROPERTIES
    OnlyOrphansInterrupted
CHECK_DEADLOCK FALSE
