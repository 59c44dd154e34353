\* A pipe of four bytes, calls of up to three; with a u32 of 16 values a count
\* of 12 or more may wrap.
CONSTANTS
    BUFF_SIZE = 4
    Bytes = {b1, b2}
    Junk = Junk
    MaxCount = 3
    U32Mod = 16
SPECIFICATION Spec
INVARIANTS
    WholeArrives
    FifoWhenDrained
