CONSTANTS
    e1 = e1
    e2 = e2
    g1 = g1
    Email = {e1, e2}
    FirstAdmin = e1
    Subject = {g1}
    NULL = NULL
    Browser = {b1, b2}
    Process = {p1, p2}
    Identity <- Identities
SPECIFICATION Spec
SYMMETRY Symmetry
INVARIANT
    AnAdminRemains
