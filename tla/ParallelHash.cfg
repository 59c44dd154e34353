\* Three threads; every input of three operations on two colliding keys, those of
\* four that put both first, and longer chosen ones; an entry more than keys.
CONSTANTS
    Threads = {t1, t2, t3}
    Programs <- Inputs
    TableSize = 4
    Half = 16
    UIntMod = 32
    TableLow = 3
    None = None
SPECIFICATION FairSpec
INVARIANTS
    TypeOK
    SameKeyInOrder
    OutcomesSerial
    NoDuplicateKeys
    TablePointerIntact
    DumpAssert
    FinalTableSerial
PROPERTIES
    LiveEntryKept
    ProcessedUnlessEndless
