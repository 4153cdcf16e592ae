SPECIFICATION PageSpec
CONSTANTS
    Visitors = {u1, u2}
    Slots = {s1, s2}
    MaxChanges = 1
    None = None
SYMMETRY PageSymmetry
INVARIANTS
    ShownIsOfSession
