--------------------------- MODULE ResidueProofs ----------------------------
(***************************************************************************)
(* What failed publishes leave in the blob store.  When puts and clean-up  *)
(* deletes tell the truth and no process stops, nothing: whoever stores an *)
(* object sees to it until the row is there or the object is gone, with    *)
(* any number of processes and without help from the mutex.  With every    *)
(* fault, only objects under the number that the next publish overwrites.  *)
(***************************************************************************)
EXTENDS RulesetServiceProofs

\* Calls may fail, and a commit may be reported as failed; but a put that is
\* reported as failed stored nothing, a delete works, and no process stops.
CleanFaults == Faults \subseteq {"call", "latest", "commit_applied"}

-----------------------------------------------------------------------------
(* Whose step it is *)

\* A step of a request moves no other request.
LEMMA OthersStand ==
    ASSUME TypeOK, NEW r \in Requests, Arrive(r) \/ Advance(r) \/ PublishLock(r)
    PROVE  \A s \in Requests \ {r} : call'[s] = call[s]
  <1>1. call \in [Requests -> Calls]
    BY DEF TypeOK
  <1>2. CASE Return(r)
    BY <1>1, <1>2 DEF Return
  <1>3. CASE \E p \in Steps : Goto(r, p)
    BY <1>1, <1>3 DEF Goto
  <1>4. CASE Arrive(r)
    BY <1>1, <1>4, ZenonT(30) DEF Arrive, Start, UpsertDraft, Rollback, RenameRuleset, Publish, GetVersion,
          GetLatestVersion, GetVersionBundle, GetLatestBundle, Evaluate, StartRead
  <1>5. CASE \/ PublishCompare(r) \/ PublishLock(r) \/ PublishPutDSL(r) \/ PublishPutBundle(r)
             \/ PublishCreate(r) \/ PublishUndoDSL(r)
    <2>1. Return(r) \/ \E p \in Steps : Goto(r, p)
      BY <1>5 DEF PublishCompare, PublishLock, PublishPutDSL, PublishPutBundle, PublishCreate,
            PublishUndoDSL, Steps, Critical, Staging, Preparing
    <2> QED
      BY <1>2, <1>3, <2>1
  <1>6. CASE PublishGetDraft(r) \/ PublishNumber(r) \/ Fetch(r)
    BY <1>1, <1>2, <1>6 DEF PublishGetDraft, PublishNumber, Fetch
  <1> QED
    BY <1>2, <1>4, <1>5, <1>6 DEF Advance, Reply, UpsertDraftWrite, RollbackWrite, RenameCommit,
          PublishUndoPut, PublishUndoBundle, CallFails

\* Only a publish that has a version number writes objects or version rows.
LEMMA BlobsStand ==
    ASSUME NEW r \in Requests, Arrive(r) \/ Advance(r) \/ PublishLock(r), call[r].pc \notin Staging
    PROVE  UNCHANGED <<versions, dsls, bundles>>
  <1>1. CASE Arrive(r)
    BY <1>1 DEF Arrive, UpsertDraft, Rollback, RenameRuleset, Publish, GetVersion, GetLatestVersion,
          GetVersionBundle, GetLatestBundle, Evaluate, StartRead, storeVars, blobVars
  <1>2. CASE \/ Reply(r) \/ UpsertDraftWrite(r) \/ RollbackWrite(r) \/ RenameCommit(r)
             \/ PublishGetDraft(r) \/ PublishCompare(r) \/ PublishLock(r) \/ PublishNumber(r)
             \/ Fetch(r) \/ CallFails(r)
    BY <1>2 DEF Reply, UpsertDraftWrite, RollbackWrite, RenameCommit, WriteDraft, MoveRuleset,
          PublishGetDraft, PublishCompare, PublishLock, PublishNumber, Fetch, CallFails,
          storeVars, blobVars
  <1> QED
    BY <1>1, <1>2 DEF Advance, Staging, At, PublishPutDSL, PublishPutBundle, PublishUndoPut,
          PublishCreate, PublishUndoDSL, PublishUndoBundle

\* A request that has a version number takes one of these six steps.
LEMMA StagingActs ==
    ASSUME NEW r \in Requests, Arrive(r) \/ Advance(r) \/ PublishLock(r), call[r].pc \in Staging
    PROVE  \/ PublishPutDSL(r) \/ PublishPutBundle(r) \/ PublishUndoPut(r)
           \/ PublishCreate(r) \/ PublishUndoDSL(r) \/ PublishUndoBundle(r)
  <1>1. ~Arrive(r)
    BY DEF Arrive, UpsertDraft, Rollback, RenameRuleset, Publish, GetVersion, GetLatestVersion,
          GetVersionBundle, GetLatestBundle, Evaluate, StartRead, Start, Staging
  <1>2. /\ ~Reply(r) /\ ~UpsertDraftWrite(r) /\ ~RollbackWrite(r) /\ ~RenameCommit(r)
        /\ ~PublishGetDraft(r) /\ ~PublishCompare(r) /\ ~PublishLock(r) /\ ~PublishNumber(r)
        /\ ~Fetch(r) /\ ~CallFails(r)
    BY DEF Reply, UpsertDraftWrite, RollbackWrite, RenameCommit, PublishGetDraft, PublishCompare,
          PublishLock, PublishNumber, Fetch, CallFails, At, Staging, Reading, Editing
  <1> QED
    BY <1>1, <1>2 DEF Advance

-----------------------------------------------------------------------------
(* A publish sees to the objects it stored *)

\* r sees to its objects in this step: one it held it still holds, unless the
\* object is gone or has its row, and one it stores it holds from now on.
SeesTo(r, k, v) ==
    /\ HoldsDSL(r, k, v) =>
          HoldsDSL(r, k, v)' \/ dsls'[k][v] = None \/ versions'[k][v] # None
    /\ HoldsBundle(r, k, v) =>
          HoldsBundle(r, k, v)' \/ bundles'[k][v] = None \/ versions'[k][v] # None
    /\ dsls'[k][v] \in {dsls[k][v], None} \/ HoldsDSL(r, k, v)'
    /\ bundles'[k][v] \in {bundles[k][v], None} \/ HoldsBundle(r, k, v)'

\* What one put, or one delete, does to the objects.
LEMMA PutEffect ==
    ASSUME BlobTypeOK, NEW x \in Keys, NEW y \in Versions, NEW d \in Docs \cup {None},
           NEW k \in Keys, NEW v \in Versions
    PROVE  /\ PutDSL(x, y, d) => /\ bundles'[k][v] = bundles[k][v]
                                 /\ dsls'[k][v] = IF k = x /\ v = y THEN d ELSE dsls[k][v]
           /\ PutBundle(x, y, d) => /\ dsls'[k][v] = dsls[k][v]
                                    /\ bundles'[k][v] = IF k = x /\ v = y THEN d ELSE bundles[k][v]
  BY DEF PutDSL, PutBundle, BlobTypeOK, Objects

LEMMA StagingSees ==
    ASSUME TypeOK, CleanFaults, NEW r \in Requests, NEW k \in Keys, NEW v \in Versions,
           Arrive(r) \/ Advance(r) \/ PublishLock(r)
    PROVE  SeesTo(r, k, v)
  <1> DEFINE c == call[r]
             own == k = c.key /\ v = c.ver
  <1>1. call \in [Requests -> Calls] /\ c \in Calls /\ LocalsSet(c) /\ BlobTypeOK
    BY DEF TypeOK
  <1>2. CASE c.pc \notin Staging
    BY <1>2, BlobsStand DEF SeesTo, HoldsDSL, HoldsBundle, PublishingVersion
  <1>3. CASE c.pc \in Staging
    <2>1. c.key \in Keys /\ c.ver \in Versions /\ c.doc \in Docs
      BY <1>1, <1>3 DEF LocalsSet, Staging, Critical
    <2>2. PutDSL(c.key, c.ver, c.doc) \/ DeleteDSL(c.key, c.ver) =>
             /\ bundles'[k][v] = bundles[k][v]
             /\ ~own => dsls'[k][v] = dsls[k][v]
      BY <1>1, <2>1, PutEffect DEF DeleteDSL
    <2>3. PutBundle(c.key, c.ver, c.doc) \/ DeleteBundle(c.key, c.ver) =>
             /\ dsls'[k][v] = dsls[k][v]
             /\ ~own => bundles'[k][v] = bundles[k][v]
      BY <1>1, <2>1, PutEffect DEF DeleteBundle
    <2>4. /\ own /\ DeleteDSL(c.key, c.ver) => dsls'[k][v] = None
          /\ own /\ DeleteBundle(c.key, c.ver) => bundles'[k][v] = None
      BY <1>1, <2>1, PutEffect DEF DeleteDSL, DeleteBundle
    <2>5. \A p \in Steps : Goto(r, p) =>
             call'[r].pc = p /\ call'[r].key = c.key /\ call'[r].ver = c.ver
      BY <1>1 DEF Goto, Calls
    <2>6. CASE PublishPutDSL(r)
      <3>1. c.pc = "pub_put_dsl"
        BY <2>6 DEF PublishPutDSL, At
      <3>2. \/ UNCHANGED blobVars
            \/ PutDSL(c.key, c.ver, c.doc) /\ Goto(r, "pub_put_bundle")
        BY <2>6 DEF PublishPutDSL, CleanFaults
      <3> QED
        BY <2>2, <2>5, <3>1, <3>2 DEF SeesTo, HoldsDSL, HoldsBundle, PublishingVersion,
              blobVars, Steps, Critical, Staging
    <2>7. CASE PublishPutBundle(r)
      <3>1. c.pc = "pub_put_bundle"
        BY <2>7 DEF PublishPutBundle, At
      <3>2. \/ UNCHANGED blobVars /\ Goto(r, "pub_undo_put")
            \/ PutBundle(c.key, c.ver, c.doc) /\ Goto(r, "pub_create")
        BY <2>7 DEF PublishPutBundle, CleanFaults
      <3> QED
        BY <2>3, <2>5, <3>1, <3>2 DEF SeesTo, HoldsDSL, HoldsBundle, PublishingVersion,
              blobVars, Steps, Critical, Staging
    <2>8. CASE PublishUndoPut(r)
      <3>1. c.pc = "pub_undo_put" /\ DeleteDSL(c.key, c.ver)
        BY <2>8 DEF PublishUndoPut, At, CleanFaults
      <3> QED
        BY <2>2, <2>4, <3>1 DEF SeesTo, HoldsDSL, HoldsBundle, PublishingVersion
    <2>9. CASE PublishCreate(r)
      <3>1. c.pc = "pub_create" /\ UNCHANGED blobVars
        BY <2>9 DEF PublishCreate, At
      <3>2. \/ InsertVersion(c.key, c.ver, Checksum(c.doc))
            \/ Goto(r, "pub_undo_dsl")
        BY <2>9 DEF PublishCreate
      <3>3. own /\ InsertVersion(c.key, c.ver, Checksum(c.doc)) => versions'[k][v] # None
        BY <2>1, ChecksumOK, NoneOK DEF InsertVersion, TypeOK, StoreTypeOK
      <3> QED
        BY <2>5, <3>1, <3>2, <3>3 DEF SeesTo, HoldsDSL, HoldsBundle, PublishingVersion,
              blobVars, Steps, Critical, Staging
    <2>10. CASE PublishUndoDSL(r)
      <3>1. c.pc = "pub_undo_dsl" /\ DeleteDSL(c.key, c.ver) /\ Goto(r, "pub_undo_bundle")
        BY <2>10 DEF PublishUndoDSL, At, CleanFaults
      <3> QED
        BY <2>2, <2>4, <2>5, <3>1 DEF SeesTo, HoldsDSL, HoldsBundle, PublishingVersion,
              Steps, Critical, Staging
    <2>11. CASE PublishUndoBundle(r)
      <3>1. c.pc = "pub_undo_bundle" /\ DeleteBundle(c.key, c.ver)
        BY <2>11 DEF PublishUndoBundle, At, CleanFaults
      <3> QED
        BY <2>3, <2>4, <3>1 DEF SeesTo, HoldsDSL, HoldsBundle, PublishingVersion
    <2> QED
      BY <1>3, <2>6, <2>7, <2>8, <2>9, <2>10, <2>11, StagingActs
  <1> QED
    BY <1>2, <1>3
LEMMA ResidueInit == SvcInit => ResidueInv
  BY InitType DEF SvcInit, BlobInit, ResidueInv

LEMMA ResidueNext ==
    ASSUME CleanFaults
    PROVE  ResidueInv /\ [SvcNext]_svcVars => ResidueInv'
  <1> SUFFICES ASSUME ResidueInv, [SvcNext]_svcVars
               PROVE  ResidueInv'
    OBVIOUS
  <1>1. TypeOK /\ TypeOK'
    BY NextType DEF ResidueInv
  <1>2. CASE UNCHANGED <<call, versions, dsls, bundles>>
    BY <1>1, <1>2 DEF ResidueInv, HoldsDSL, HoldsBundle, PublishingVersion
  <1>3. ASSUME NEW r \in Requests, Arrive(r) \/ Advance(r) \/ PublishLock(r)
        PROVE  ResidueInv'
    <2> SUFFICES ASSUME NEW k \in Keys, NEW v \in Versions, versions'[k][v] = None
                 PROVE  /\ dsls'[k][v] # None => \E s \in Requests : HoldsDSL(s, k, v)'
                        /\ bundles'[k][v] # None => \E s \in Requests : HoldsBundle(s, k, v)'
      BY <1>1 DEF ResidueInv
    <2>1. versions[k][v] = None
      BY <1>1, RowsStay
    <2>2. SeesTo(r, k, v)
      BY <1>1, <1>3, StagingSees
    <2>3. \A s \in Requests \ {r} : call'[s] = call[s]
      BY <1>1, <1>3, OthersStand
    <2>4. ASSUME dsls'[k][v] # None
          PROVE  \E s \in Requests : HoldsDSL(s, k, v)'
      <3>1. CASE dsls'[k][v] # dsls[k][v]
        BY <2>2, <2>4, <3>1 DEF SeesTo
      <3>2. CASE dsls'[k][v] = dsls[k][v]
        <4> PICK s \in Requests : HoldsDSL(s, k, v)
          BY <2>1, <2>4, <3>2 DEF ResidueInv
        <4>1. CASE s = r
          BY <2>2, <2>4, <4>1 DEF SeesTo
        <4>2. CASE s # r
          BY <2>3, <4>2 DEF HoldsDSL, PublishingVersion
        <4> QED
          BY <4>1, <4>2
      <3> QED
        BY <3>1, <3>2
    <2>5. ASSUME bundles'[k][v] # None
          PROVE  \E s \in Requests : HoldsBundle(s, k, v)'
      <3>1. CASE bundles'[k][v] # bundles[k][v]
        BY <2>2, <2>5, <3>1 DEF SeesTo
      <3>2. CASE bundles'[k][v] = bundles[k][v]
        <4> PICK s \in Requests : HoldsBundle(s, k, v)
          BY <2>1, <2>5, <3>2 DEF ResidueInv
        <4>1. CASE s = r
          BY <2>2, <2>5, <4>1 DEF SeesTo
        <4>2. CASE s # r
          BY <2>3, <4>2 DEF HoldsBundle, PublishingVersion
        <4> QED
          BY <4>1, <4>2
      <3> QED
        BY <3>1, <3>2
    <2> QED
      BY <2>4, <2>5
  <1>4. ASSUME Administer \/ UNCHANGED svcVars
        PROVE  UNCHANGED <<call, versions, dsls, bundles>>
    BY <1>4 DEF svcVars, Administer, CreateRuleset, DeleteRuleset, DeleteDraft,
                InsertRuleset, RemoveRuleset, RemoveDraft, blobVars
  <1>5. \A n \in Nodes : ~Crash(n)
    BY DEF CleanFaults, Crash
  <1> QED
    BY <1>2, <1>3, <1>4, <1>5 DEF SvcNext

\* Every object without a row has a request that will create the row or remove
\* the object, for any number of processes, requests, keys and versions.
THEOREM ResidueInvariant ==
    ASSUME CleanFaults
    PROVE  Spec => []ResidueInv
  BY ResidueInit, ResidueNext, PTL DEF Spec

\* So a publish that fails leaves nothing behind, with any number of processes,
\* unless a put, a clean-up delete or the process itself fails on it.
THEOREM NothingLeftBehind ==
    ASSUME CleanFaults
    PROVE  Spec => []NoResidue
  <1>1. ResidueInv => NoResidue
    BY DEF ResidueInv, NoResidue, HoldsDSL, HoldsBundle
  <1> QED
    BY <1>1, ResidueInvariant, PTL

-----------------------------------------------------------------------------
(* With every fault *)

\* An object appears or is replaced only under the number of a publish.
LEMMA ObjectsOwn ==
    ASSUME TypeOK, [SvcNext]_svcVars, NEW k \in Keys, NEW v \in Versions,
           dsls'[k][v] # dsls[k][v] \/ bundles'[k][v] # bundles[k][v]
    PROVE  \E r \in Requests : PublishingVersion(r, k, v)
  <1>1. ~UNCHANGED blobVars
    BY DEF blobVars
  <1>2. ~UNCHANGED svcVars /\ ~Administer /\ \A n \in Nodes : ~Crash(n)
    BY <1>1 DEF svcVars, Administer, CreateRuleset, DeleteRuleset, DeleteDraft, Crash, blobVars
  <1> PICK r \in Requests : Arrive(r) \/ Advance(r) \/ PublishLock(r)
    BY <1>2 DEF SvcNext
  <1> DEFINE c == call[r]
  <1>3. c.pc \in Staging
    BY <1>1, BlobsStand DEF blobVars
  <1>4. c.key \in Keys /\ c.ver \in Versions /\ c.doc \in Docs /\ BlobTypeOK
    BY <1>3 DEF TypeOK, LocalsSet, Staging, Critical
  <1>5. \E d \in Docs \cup {None} : PutDSL(c.key, c.ver, d) \/ PutBundle(c.key, c.ver, d)
    BY <1>1, <1>3, <1>4, StagingActs DEF PublishPutDSL, PublishPutBundle, PublishUndoPut,
          PublishCreate, PublishUndoDSL, PublishUndoBundle, DeleteDSL, DeleteBundle
  <1>6. k = c.key /\ v = c.ver
    BY <1>4, <1>5, PutEffect
  <1> QED
    BY <1>3, <1>6 DEF PublishingVersion

LEMMA LeftoversNext ==
    ASSUME AppendInv, LeftoversAreNext, [SvcNext]_svcVars
    PROVE  LeftoversAreNext'
  <1>1. TypeOK /\ \A k \in Keys, v \in Versions : LowerRows(k, v) => LowerRows(k, v)'
    BY RowsStay DEF AppendInv
  <1>2. ASSUME NEW k \in Keys, NEW v \in Versions, dsls'[k][v] # None \/ bundles'[k][v] # None
        PROVE  LowerRows(k, v)
    <2>1. CASE dsls[k][v] # None \/ bundles[k][v] # None
      BY <2>1 DEF LeftoversAreNext
    <2>2. CASE dsls[k][v] = None /\ bundles[k][v] = None
      <3> PICK r \in Requests : PublishingVersion(r, k, v)
        BY <1>1, <1>2, <2>2, ObjectsOwn
      <3> QED
        BY DEF PublishingVersion, AppendInv
    <2> QED
      BY <2>1, <2>2
  <1> QED
    BY <1>1, <1>2 DEF LeftoversAreNext

\* With any number of processes and with every fault, an object is never beyond
\* the first number of its key that has no row.
THEOREM LeftoversReached == Spec => []LeftoversAreNext
  <1>1. SvcInit => LeftoversAreNext
    BY DEF SvcInit, BlobInit, LeftoversAreNext
  <1>2. AppendInv /\ LeftoversAreNext /\ [SvcNext]_svcVars => LeftoversAreNext'
    BY LeftoversNext
  <1> QED
    BY <1>1, <1>2, AppendInvariant, PTL DEF Spec

\* So every object without a row has the number that NextVersionNumber gives the
\* next publish of its key, which replaces the object.
THEOREM LeftoversReplaced ==
    Spec => [](\A k \in Keys, v \in Versions :
                  /\ dsls[k][v] # None \/ bundles[k][v] # None
                  /\ versions[k][v] = None
                  => v \in NextVersionNumber(k))
  <1> DEFINE Next1 == \A k \in Keys, v \in Versions :
                         /\ dsls[k][v] # None \/ bundles[k][v] # None
                         /\ versions[k][v] = None
                         => v \in NextVersionNumber(k)
  <1>1. AppendInv /\ LeftoversAreNext => Next1
    <2> SUFFICES ASSUME AppendInv, LeftoversAreNext, NEW k \in Keys, NEW v \in Versions,
                        dsls[k][v] # None \/ bundles[k][v] # None, versions[k][v] = None
                 PROVE  v \in NextVersionNumber(k)
      OBVIOUS
    <2>1. LowerRows(k, v) /\ v \in Nat /\ v >= 1 /\ v <= MaxVersion
      BY DataAssumption DEF LeftoversAreNext, Versions
    <2>2. ASSUME NEW w \in VersionRows(k)
          PROVE  w \in Nat /\ 1 <= w /\ w < v
      <3>1. w \in Versions /\ w \in Nat /\ 1 <= w /\ LowerRows(k, w) /\ versions[k][w] # None
        BY DataAssumption DEF AppendInv, VersionRows, Versions
      <3> QED
        BY <2>1, <3>1 DEF LowerRows
    <2>3. CASE v = 1
      <3>1. VersionRows(k) = {}
        BY <2>2, <2>3
      <3> QED
        BY <2>3, <3>1 DEF NextVersionNumber
    <2>4. CASE v # 1
      <3>1. v - 1 \in VersionRows(k)
        BY <2>1, <2>4, DataAssumption DEF LowerRows, VersionRows, Versions
      <3>2. \A w \in VersionRows(k) : w <= v - 1
        BY <2>1, <2>2
      <3>3. v - 1 \in LatestVersion(k) /\ VersionRows(k) # {} /\ v = (v - 1) + 1
        BY <2>1, <3>1, <3>2 DEF LatestVersion
      <3> QED
        BY <3>3 DEF NextVersionNumber
    <2> QED
      BY <2>3, <2>4
  <1> QED
    BY <1>1, AppendInvariant, LeftoversReached, PTL
=============================================================================
