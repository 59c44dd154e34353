\* Three processes, a data page, an area of a page that can be written, and a
\* stack of one page that grows to four through a vfork in a vfork.
CONSTANTS
    MaxProcs = 3
    MaxData = 1
    MmapRights <- MmapRightsRW
    MaxStack = 4
    Values = {0, 1}
    Stores <- DataAndStack
    Blank = 0
    Null = Null
SPECIFICATION Spec
INVARIANTS
    RefCountExact
    OneRunsPerTable
    RunnerKnowsPages
PROPERTIES
    SpacesSeparate
    ChildSeesParent
    ParentResumes
