\* Both tasks, up to four bytes of output, pipes of one byte.
CONSTANTS
    MaxOutput = 4
    Capacity = 1
SPECIFICATION FairSpec
INVARIANTS
    CompleteWhenCmdEnds
PROPERTIES
    EndsUnlessAbandoned
