SPECIFICATION FairSpec
CONSTANTS
    Nodes = {n1}
    Requests = {r1, r2}
    Keys = {k1, k2}
    Docs = {d1, d2}
    Publishable = {d1}
    MaxVersion = 2
    n1 = n1
    r1 = r1
    r2 = r2
    k1 = k1
    k2 = k2
    d1 = d1
    d2 = d2
    None = None
    Operations = {"create", "delete", "rename", "upsert", "delete_draft", "publish"}
    Faults = {"call"}
INVARIANTS
    NoResidue
    ResidueInv
PROPERTY DraftsSurviveRename
PROPERTY RequestsEnd
