\* Four pages of two addresses each, at most three areas, lengths of one and
\* three pages, the second not a whole number of pages.
CONSTANTS
    MMAP_AREA_START = 4
    MMAP_AREA_END = 12
    PAGE = 2
    MAX_VM = 3
    Prots = {{"R"}, {"R", "W"}}
    FlagSets = {{}, {"FIXED"}, {"FIXED", "POPULATE"}}
    Lengths = {2, 5}
    Null = Null
SPECIFICATION Spec
INVARIANTS
    TypeOK
    SortedDisjoint
    HangsOnlyWhenFull
PROPERTIES
    AgreementKept
    WrittenKept
    ImplementsAbstract
    OnlyTheRange
