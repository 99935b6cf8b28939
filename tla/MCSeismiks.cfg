SPECIFICATION Spec
CONSTANTS
    Objects = {o1, o2, o3}
    NTables = 2
    SeismiksId = 3
    MaxStations = 2
    None = None
    Disks <- MCDisks
SYMMETRY Symmetry
INVARIANTS
    Opened
    Released
    StationsTrue
PROPERTIES
    KeepsFile
