SPECIFICATION FairSpec
CONSTANT MaxProcs = 6
CHECK_DEADLOCK FALSE
INVARIANTS TypeOK FileIsTheLeaves OnlyOrphansLeft
PROPERTY EverythingEnds
