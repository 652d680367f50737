CONSTANTS
    Products = {p1}
    Times <- MCTimes
    Keys <- Price
    Valid <- ValidInterval
    Check <- IntervalChecked
    Clash <- Overlap
    Excludes <- RangesMeet
    Ids = {i1, i2, i3}
    Requests = {r1, r2}
    None = None
SPECIFICATION Spec
SYMMETRY Symmetry
INVARIANTS
    TypeOK
    CurrentPriceIsUnique
PROPERTIES
    DeletedRowsAreFinal
    ConstraintIsLastResort
    CalendarKept
