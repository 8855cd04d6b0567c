CONSTANTS
    h1 = h1
    h2 = h2
    i1 = i1
    i2 = i2
    t1 = t1
    t2 = t2
    t3 = t3
    Harts = {h1, h2}
    Tasks = {i1, i2, t1, t2, t3}
    Tags = {0, 1, 2}
    NoTag = 0
    Target = 1
    Idle <- MCIdle
SPECIFICATION Spec
SYMMETRY Symmetry
INVARIANT TagIsolation
