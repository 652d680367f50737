CONSTANTS
    Users = {u1, u2}
    Emails = {e1, e2}
    Requests = {r1, r2}
    Default = u1
    DefaultEmail = e1
    None = None
SPECIFICATION Spec
SYMMETRY Symmetry
INVARIANTS
    TypeOK
    EventsAreAboutStoredUsers
PROPERTIES
    DeletionIsFinal
    PoisonLastsUntilRestart
    ClashBlocksSaves
