SPECIFICATION Spec
CONSTANTS
    Nodes = {n1}
    Requests = {r1}
    Keys = {k1, k2}
    Docs = {d1, d2}
    Publishable = {d1, d2}
    MaxVersion = 3
    n1 = n1
    r1 = r1
    k1 = k1
    k2 = k2
    d1 = d1
    d2 = d2
    None = None
    Operations = {"create", "rename", "upsert", "delete_draft", "publish", "rollback", "get", "evaluate"}
    Faults = {}
INVARIANTS
    ConsecutiveVersionsDiffer
    DraftHasRuleset
    RollbackTargetsVersion
    KeysInv
PROPERTY RenameBlockedByVersions
PROPERTY DraftEvaluatedOnlyUnpublished
