SPECIFICATION Spec
CONSTANTS
    Request = {r1, r2}
    Inode = {i1, i2, i3}
    NoFile = NoFile
    Name = {a, b}
    Group = {g}
    NoOp = NoOp
    NoConfig = NoConfig
    Deployed <- OneRule
    MaxCrashes = 1
    a = a
    b = b
    g = g
SYMMETRY Symmetry
CHECK_DEADLOCK FALSE
INVARIANT OnlyCheckedRules
