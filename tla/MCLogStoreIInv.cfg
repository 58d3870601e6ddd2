SPECIFICATION Spec
CONSTANTS
    SectorSize = 4
    PageSize = 2
    NumSectors = 2
    HeaderSlots = 4
    MaxNumOfLog = 3
    MaxLength = 3
    Erased = Erased
    Junk = Junk
    Foreign = Foreign
INVARIANTS
    IInv
