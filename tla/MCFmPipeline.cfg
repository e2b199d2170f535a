SPECIFICATION FairSpec
CONSTANTS MaxFreqs = 2 MaxConseq = 1 MaxSpurious = 1
INVARIANTS TypeOK NoTornBuffer UsedTwice UnfilledOnlyAtExit OneStaleAfterHop
PROPERTY ExitsUnlessAsleep
CHECK_DEADLOCK FALSE
