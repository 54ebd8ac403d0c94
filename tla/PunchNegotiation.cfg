SPECIFICATION FairSpec
CONSTANTS
    Rounds = {1, 2}
    Hellos <- TightHellos
    Waits <- ShortWaits
    MinRemaining = 2
    MaxTime = 5
INVARIANTS Agreement ProbeOnlyPrepared NoConflict
PROPERTIES Terminates HelloWaitsForDeadline
