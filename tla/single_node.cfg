SPECIFICATION Spec
CONSTANTS
    Nodes = {n1}
    Requests = {r1, r2, r3}
    Keys = {k1}
    Docs = {d1, d2}
    Publishable = {d1, d2}
    MaxVersion = 2
    n1 = n1
    r1 = r1
    r2 = r2
    r3 = r3
    k1 = k1
    d1 = d1
    d2 = d2
    None = None
    Operations = {"create", "upsert", "publish", "rollback", "get", "evaluate"}
    Faults = {"call", "latest", "put_applied", "delete", "crash"}
SYMMETRY RequestSymmetry
INVARIANTS
    TypeOK
    PublishedServable
    ServedIsPublished
    StagedVersionsFree
    PublishInv
PROPERTY ContentAppendOnly
