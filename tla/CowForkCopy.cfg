\* Two processes, a data page, an area of a page, a stack of one page.
CONSTANTS
    MaxProcs = 2
    MaxData = 1
    MmapRights <- MmapRightsRW
    MaxStack = 2
    Values = {0, 1}
    Stores <- DataAndStack
    Blank = 0
    Null = Null
SPECIFICATION Spec
PROPERTIES
    WriteAccessKeepsPage
