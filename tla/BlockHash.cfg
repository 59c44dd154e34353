\* Three threads, files of one to three blocks.
CONSTANTS
    Threads = {t1, t2, t3}
    BLOCK_SIZE = 4
    WORD = 2
    ULongMod = 37
    Sizes <- MCSizes
    Word <- MCWord
    Unset = Unset
    None = None
SPECIFICATION FairSpec
INVARIANTS
    TypeOK
    OwnSlot
    PrintedIsBlockHashes
PROPERTIES
    StoredIsFinal
    Finishes
