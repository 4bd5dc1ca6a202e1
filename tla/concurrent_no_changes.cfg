SPECIFICATION Spec
CONSTANTS
    Nodes = {n1}
    Requests = {r1, r2}
    Keys = {k1}
    Docs = {d1}
    Publishable = {d1}
    MaxVersion = 2
    n1 = n1
    r1 = r1
    r2 = r2
    k1 = k1
    d1 = d1
    None = None
    Operations = {"create", "upsert", "publish"}
    Faults = {}
INVARIANT ConsecutiveVersionsDiffer
