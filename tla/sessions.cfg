SPECIFICATION Spec
CONSTANTS
    r1 = r1
    r2 = r2
    e1 = e1
    f1 = f1
    Star = Star
    Void = Void
    None = None
    Requests = {r1, r2}
    Operations = {"login", "verify", "refresh", "logout", "create_user", "delete_user", "lapse"}
    Failures = TRUE
    Emails = {e1, f1}
    Normalised = {e1}
    Workspaces = {}
    Masks <- AdminMask
    KeyIds = {}
    MaxUser = 1
    MaxCode = 2
    MaxEdits = 0
    MaxToken = 3
    ForeignKeys = TRUE
SYMMETRY RequestSymmetry
INVARIANTS
    AccountTypeOK
    SessionInv
    SessionsPerCode
PROPERTY RefreshTokensRotate
