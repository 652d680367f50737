CONSTANTS
    Guids = {g1, g2, g3}
    Seeds = {icon}
    Requests = {r1, r2, r3}
    None = None
SPECIFICATION Spec
SYMMETRY Symmetry
INVARIANTS
    FoundDocumentsHaveTheirFile
    OrphansAreExcused
PROPERTIES
    BrickedStaysDown
