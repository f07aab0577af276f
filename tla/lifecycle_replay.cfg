SPECIFICATION ReplaySpec
CONSTANTS
    MaxRuns = 2
    Candidates <- MCCandidates
INVARIANTS
    IllegalOnlyAfterGap
    CompleteHidesNothing
    TimelineIsReplay
    SuccessAgrees
CHECK_DEADLOCK FALSE
