SPECIFICATION FairSpec
CHECK_DEADLOCK FALSE
INVARIANTS
    RunsHooked
    RunsWhatWasChecked
    PatchesKnownCode
PROPERTY NoOrphan
