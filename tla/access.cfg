SPECIFICATION Spec
CONSTANTS
    r1 = r1
    r2 = r2
    e1 = e1
    i1 = i1
    w1 = w1
    Star = Star
    Void = Void
    None = None
    Requests = {r1, r2}
    Operations = {"login", "verify", "refresh", "expire", "delete_user", "roles", "workspaces", "keys"}
    Failures = FALSE
    Emails = {e1}
    Normalised = {e1}
    Workspaces = {w1}
    Masks <- SomeMasks
    KeyIds = {i1}
    MaxUser = 1
    MaxCode = 1
    MaxEdits = 2
    MaxToken = 2
    ForeignKeys = TRUE
SYMMETRY RequestSymmetry
INVARIANTS
    RowsHaveUsers
    StarSupersedes
    RolesCurrent
