CONSTANTS
    phone = phone
    Phone = Phone
    tablet = tablet
    Keys <- MCKeys
    Fold <- MCFold
    Valid <- Unrestricted
    Check <- Unrestricted
    Clash <- SlugExists
    Excludes <- SlugIndex
    Ids = {i1, i2, i3}
    Requests = {r1, r2}
    None = None
SPECIFICATION Spec
SYMMETRY Symmetry
PROPERTIES
    SlugsKept
    ConstraintIsLastResort
