SPECIFICATION FairSpec
CONSTANTS
    Actions <- MCActions
    Inferred <- MCInferred
INVARIANTS
    TypeOK
    CurrentIsSufficient
    ReportIsMinimal
    NothingRemovable
    NoCancelledEvidence
    LoopsComputeLeast
PROPERTIES
    OnlyShrinks
    Terminates
CHECK_DEADLOCK FALSE
