\* A PUT that reuses a deleted entry beside a GET of another key.
CONSTANTS
    Threads = {t1, t2}
    Programs <- ReuseBesideGet
    TableSize = 3
    Half = 16
    UIntMod = 32
    TableLow = 3
    None = None
SPECIFICATION Spec
INVARIANTS
    OutcomesSerial
