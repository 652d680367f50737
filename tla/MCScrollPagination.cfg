\* Two visits, so that frames and requests of the first meet the second, and a
\* reader who keeps scrolling. The frames are not symmetric here: a liveness
\* property is checked too.
CONSTANTS
    p1 = p1  p2 = p2  f1 = f1  f2 = f2  all = all  one = one
    None = None
    Pages <- MCPages
    Frames <- MCFrames
    Filters <- MCFilters
    NoFilter = all
    FullPages <- MCFullPages
    MaxEdits = 1
SPECIFICATION FairSpec
INVARIANTS ReferenceIsAlive OneLoadAtATime TickIsOwed ShownInOrder
PROPERTIES FailureIsForGood ReaderSeesEverything
CHECK_DEADLOCK FALSE
