SPECIFICATION Spec
CONSTANTS
    Calls = {c1, c2, c3}
    Privy = {p1, p2}
    Linked = {g}
    Google = {g}
    NoUser = NoUser
    NoPrivy = NoPrivy
SYMMETRY Symmetry
INVARIANTS
    OneUserPerPrivyUser
    NoOrphanUsers
    CodeIsUsedOnce
PROPERTIES
    PrivyUserKeepsUser
