CONSTANTS
    Timelines = {l1, l2}
    Points = {p1, p2}
    Merged = {m}
    Incs = {i1}
    Infos = {q1}
    Waiters = {w1}
    Values = {1}
    MaxValue = 1
    Modulus = 4
    AnyOrder = FALSE
    None = None
SPECIFICATION Spec
SYMMETRY Symmetry
INVARIANTS  NoStrandedWaiter FreedIsUnused
CHECK_DEADLOCK FALSE
