CONSTANTS
    None = None
    Procs = {p1, p2, p3}
    Tokens = {t1, t2}
    Inodes = {i1, i2, i3}
    Tries = 2
SPECIFICATION Spec
SYMMETRY Symmetry
INVARIANT NobodyIsTrue
PROPERTY KeepsPromise
