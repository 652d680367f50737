CONSTANTS
    Users = {u1}
    Browsers = {b1}
    Tabs = {t1, t2}
    Pages = {p1}
    MaxGuids = 8
    None = None
SPECIFICATION Spec
SYMMETRY Symmetry
INVARIANTS
    TypeOK
    ApplicationsGetSpentTokens
    CookieOutlivesRaces
    DeletedUsersStayOut
    SpentTokensStaySpent
