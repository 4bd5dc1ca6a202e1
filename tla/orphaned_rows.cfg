SPECIFICATION Spec
CONSTANTS
    r1 = r1
    e1 = e1
    w1 = w1
    Star = Star
    Void = Void
    None = None
    Requests = {r1}
    Operations = {"login", "delete_user"}
    Failures = FALSE
    Emails = {e1}
    Normalised = {e1}
    Workspaces = {w1}
    Masks <- AdminMask
    KeyIds = {}
    MaxUser = 1
    MaxCode = 1
    MaxEdits = 0
    MaxToken = 1
    ForeignKeys = FALSE
INVARIANT RowsHaveUsers
