\* The test program with three threads, two rounds each.
CONSTANTS
    Threads = {t1, t2, t3}
    Unlocked = 4
    ITERS = 2
SPECIFICATION TSpec
INVARIANTS
    WrCtrExact
