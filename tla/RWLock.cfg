\* The lock with four threads that read and write in any order; Unlocked is the
\* smallest value its assumption allows.
CONSTANTS
    Threads = {t1, t2, t3, t4}
    Unlocked = 5
SPECIFICATION FairSpec
INVARIANTS
    TypeOK
    MutualExclusion
    ValueDecodes
PROPERTIES
    ImplementsAbstract
    ObstructionFree
    ReadersNeverStarveReaders
