SPECIFICATION Spec
CONSTANTS
    Objects = {x1, x2, x3, x4}
    Blocks = {s1, s2}
    MaxLen = 3
    None = None
SYMMETRY Symmetry
INVARIANT SliceInside
