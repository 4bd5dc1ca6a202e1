SPECIFICATION Spec
CONSTANTS
    Nodes = {n1, n2}
    Requests = {r1, r2}
    Keys = {k1}
    Docs = {d1, d2}
    Publishable = {d1, d2}
    MaxVersion = 3
    n1 = n1
    n2 = n2
    r1 = r1
    r2 = r2
    k1 = k1
    d1 = d1
    d2 = d2
    None = None
    Operations = {"create", "upsert", "publish"}
    Faults = {"call", "put_applied", "commit_applied", "delete", "crash"}
SYMMETRY ClusterSymmetry
INVARIANTS
    AppendInv
    LeftoversAreNext
    RepeatsBounded
PROPERTY RowsAppendOnly
