SPECIFICATION PageSpec
CONSTANTS
    Visitors = {u1}
    Slots = {s1, s2}
    MaxChanges = 2
    None = None
PROPERTIES
    RetriesGetThrough
