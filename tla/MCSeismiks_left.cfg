SPECIFICATION Spec
CONSTANTS
    Objects = {o1, o2}
    NTables = 1
    SeismiksId = 3
    MaxStations = 2
    None = None
    Disks <- MCDisks
INVARIANTS
    StationStored
