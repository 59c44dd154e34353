\* Two processes, three file objects, one pipe, one file name, tables of four
\* with one standard descriptor.
CONSTANTS
    Procs = {p1, p2}
    Files = {f1, f2, f3}
    Pipes = {q1}
    Names = {n1}
    OpenFlags = {{"R", "C"}}
    CreateModes = {{"R"}}
    MAX_OPEN_FILES = 4
    FirstFd = 1
    Restraint = 1
    Null = Null
SPECIFICATION Spec
SYMMETRY Symmetry
INVARIANTS
    RefCountExact
    PipeEndsAgree
