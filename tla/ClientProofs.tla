---------------------------- MODULE ClientProofs -----------------------------
(***************************************************************************)
(* What a client of the rulesets can rely on from one request to the next. *)
(* Most of it rests on a look-up made in one step and used in a later one. *)
(* Each theorem names the overlap of two requests that spoils the look-up, *)
(* and holds for any number of processes and requests without that one     *)
(* overlap; the runs show what the overlap does.                           *)
(***************************************************************************)
EXTENDS ResidueProofs, NumberLemmas, FiniteSetTheorems

\* One request at a time, by any number of processes.
ClientsTakeTurns == \A r, s \in Requests : r = s

\* Where a request relies on its ruleset.
NeedsRuleset == {"up_draft", "rb_upsert"} \cup Preparing \cup Critical

\* Where a publish relies on its comparison with the latest version.
Differing == {"pub_lock", "pub_next", "pub_put_dsl", "pub_put_bundle", "pub_create"}

\* No publish inserts its row while another one of the key relies on its comparison.
ComparisonsStand ==
    \A r, s \in Requests :
        call[r].pc \in Differing /\ At(s, "pub_create") /\ call[s].key = call[r].key => s = r

\* No publish of the key inserts its row between the look-up of versions by a
\* rename or an evaluation and the use of what it found.
LookupsStand ==
    \A r, s \in Requests :
        call[r].pc \in {"rn_tx", "eval_draft"} /\ At(s, "pub_create")
            => call[s].key # call[r].key

\* No publish is at work on the version number that a rollback has read.
RollbacksStand ==
    \A r, s \in Requests :
        At(r, "rb_upsert") => ~PublishingVersion(s, call[r].key, call[r].ver)

\* A key found without versions still has none when the rename is committed and
\* when the draft is read to be evaluated.
UnpublishedInv ==
    /\ TypeOK
    /\ \A r \in Requests :
          call[r].pc \in {"rn_tx", "eval_draft"} => VersionRows(call[r].key) = {}

\* From the comparison with the latest version to the insertion of the row, the
\* document differs from the latest version.
DifferInv ==
    /\ AppendInv
    /\ ConsecutiveVersionsDiffer
    /\ \A r \in Requests :
          call[r].pc \in {"pub_lock", "pub_next", "pub_put_dsl", "pub_put_bundle", "pub_create"}
              => ~Unchanged(r)

\* Without concurrency there is no overlap.
LEMMA TurnsStand ==
    ASSUME ClientsTakeTurns
    PROVE  ComparisonsStand /\ LookupsStand /\ RollbacksStand
  BY DEF ClientsTakeTurns, ComparisonsStand, LookupsStand, RollbacksStand, PublishingVersion, At,
         Staging

-----------------------------------------------------------------------------
(* The steps of one request *)

\* A request changes by its own steps, or a process stops.
LEMMA CallStep ==
    ASSUME TypeOK, [SvcNext]_svcVars, NEW r \in Requests
    PROVE  \/ call'[r] = call[r]
           \/ Arrive(r) \/ Advance(r) \/ PublishLock(r)
           \/ \E n \in Nodes : Crash(n)
  <1>1. CASE UNCHANGED svcVars \/ Administer
    BY <1>1 DEF svcVars, Administer, CreateRuleset, DeleteRuleset, DeleteDraft
  <1>2. ASSUME NEW s \in Requests, Arrive(s) \/ Advance(s) \/ PublishLock(s)
        PROVE  s = r \/ call'[r] = call[r]
    BY <1>2, OthersStand
  <1> QED
    BY <1>1, <1>2 DEF SvcNext

LEMMA CrashStep ==
    ASSUME NEW r \in Requests, NEW n \in Nodes, Crash(n)
    PROVE  /\ call'[r] \in {call[r], Idle}
           /\ UNCHANGED <<storeVars, blobVars>>
  BY DEF Crash

\* A key that has version rows has a latest one.
LEMMA LatestExists ==
    ASSUME NEW k \in Keys, VersionRows(k) # {}
    PROVE  LatestVersion(k) # {}
  <1>1. VersionRows(k) \in SUBSET (0 .. MaxVersion) /\ MaxVersion \in Nat
    BY DataAssumption DEF VersionRows, Versions
  <1>2. \E v \in VersionRows(k) : \A w \in VersionRows(k) : w <= v
    BY <1>1, GreatestExists
  <1> QED
    BY <1>2 DEF LatestVersion

\* What a request that starts has looked up.
StartFound(r) ==
    LET c == call'[r] IN
    \/ c.pc \in {"up_draft", "pub_draft"} /\ c.key \in rulesets
    \/ c.pc = "rb_upsert" /\ c.ver \in Versions /\ dsls[c.key][c.ver] # None
    \/ c.pc = "rn_tx" /\ VersionRows(c.key) = {} /\ "rename" \in Operations
    \/ c.pc = "eval_draft" /\ VersionRows(c.key) = {}
    \/ c.pc \in {"get_dsl", "get_bundle", "eval_dsl"}

LEMMA StartStep ==
    ASSUME TypeOK, NEW r \in Requests, Arrive(r)
    PROVE  /\ call[r].pc = "idle"
           /\ call'[r].key \in Keys
           /\ UNCHANGED <<storeVars, blobVars>>
           /\ StartFound(r)
  <1> PICK n \in Nodes, k \in Keys :
          \/ UpsertDraft(r, n, k) \/ Rollback(r, n, k) \/ RenameRuleset(r, n, k)
          \/ Publish(r, n, k) \/ GetVersion(r, n, k) \/ GetLatestVersion(r, n, k)
          \/ GetVersionBundle(r, n, k) \/ GetLatestBundle(r, n, k) \/ Evaluate(r, n, k)
    BY DEF Arrive
  <1>1. call \in [Requests -> Calls]
    BY DEF TypeOK
  <1>2. UNCHANGED <<storeVars, blobVars>>
    BY DEF UpsertDraft, Rollback, RenameRuleset, Publish, GetVersion, GetLatestVersion,
           GetVersionBundle, GetLatestBundle, Evaluate, StartRead
  <1>3. ASSUME NEW p, Start(r, n, k, [Idle EXCEPT !.pc = p])
        PROVE  call[r].pc = "idle" /\ call'[r].key = k /\ call'[r].pc = p
    BY <1>1, <1>3 DEF Start, Idle
  <1>4. ASSUME NEW p, NEW v, Start(r, n, k, [Idle EXCEPT !.pc = p, !.ver = v])
        PROVE  call[r].pc = "idle" /\ call'[r].key = k /\ call'[r].pc = p
    BY <1>1, <1>4 DEF Start, Idle
  <1>5. CASE UpsertDraft(r, n, k) \/ Publish(r, n, k)
    BY <1>2, <1>3, <1>5 DEF UpsertDraft, Publish, StartFound
  <1>6. CASE Rollback(r, n, k)
    <2> PICK v \in Versions :
            /\ dsls[k][v] # None
            /\ Start(r, n, k, [Idle EXCEPT !.pc = "rb_upsert", !.ver = v, !.doc = dsls[k][v]])
      BY <1>6 DEF Rollback
    <2>1. /\ call[r].pc = "idle" /\ call'[r].key = k
          /\ call'[r].pc = "rb_upsert" /\ call'[r].ver = v
      BY <1>1 DEF Start, Idle
    <2> QED
      BY <1>2, <2>1 DEF StartFound
  <1>7. CASE RenameRuleset(r, n, k)
    BY <1>2, <1>3, <1>7 DEF RenameRuleset, StartFound
  <1>8. CASE GetVersion(r, n, k) \/ GetLatestVersion(r, n, k)
             \/ GetVersionBundle(r, n, k) \/ GetLatestBundle(r, n, k)
    BY <1>2, <1>4, <1>8 DEF GetVersion, GetLatestVersion, GetVersionBundle, GetLatestBundle,
          StartRead, StartFound
  <1>9. CASE Evaluate(r, n, k)
    <2>1. LatestVersion(k) = {} => VersionRows(k) = {}
      BY LatestExists
    <2> QED
      BY <1>2, <1>3, <1>4, <1>9, <2>1 DEF Evaluate, StartFound
  <1> QED
    BY <1>5, <1>6, <1>7, <1>8, <1>9
\* What a request that is under way does to itself: it ends, it has what it
\* answers with, or it is a publish that moves on.
LEMMA MoveStep ==
    ASSUME TypeOK, NEW r \in Requests, Advance(r) \/ PublishLock(r)
    PROVE  \/ call'[r] = Idle
           \/ call[r].pc \in Reading /\ call'[r].pc = "reply"
           \/ /\ call'[r].key = call[r].key
              /\ call[r].pc \in Preparing \cup Critical
              /\ call'[r].pc \in {"pub_latest", "pub_lock", "reply"} \cup Critical
  <1>1. call \in [Requests -> Calls] /\ call[r] \in Calls
    BY DEF TypeOK
  <1>2. CASE Return(r)
    BY <1>1, <1>2 DEF Return
  <1>3. ASSUME NEW p \in {"pub_lock", "reply"} \cup Critical, Goto(r, p),
               call[r].pc \in Preparing \cup Critical
        PROVE  /\ call'[r].key = call[r].key
               /\ call'[r].pc \in {"pub_latest", "pub_lock", "reply"} \cup Critical
    BY <1>1, <1>3 DEF Goto, Calls
  <1>4. CASE \/ PublishCompare(r) \/ PublishLock(r) \/ PublishPutDSL(r) \/ PublishPutBundle(r)
             \/ PublishCreate(r) \/ PublishUndoDSL(r)
    <2>1. call[r].pc \in Preparing \cup Critical
      BY <1>4 DEF PublishCompare, PublishLock, PublishPutDSL, PublishPutBundle, PublishCreate,
            PublishUndoDSL, At, Preparing, Critical, Staging
    <2>2. Return(r) \/ \E p \in {"pub_lock", "reply"} \cup Critical : Goto(r, p)
      BY <1>4 DEF PublishCompare, PublishLock, PublishPutDSL, PublishPutBundle, PublishCreate,
            PublishUndoDSL, Critical, Staging
    <2> QED
      BY <1>2, <1>3, <2>1, <2>2
  <1>5. CASE PublishGetDraft(r) /\ ~Return(r)
    BY <1>1, <1>5 DEF PublishGetDraft, At, Calls, Preparing
  <1>6. CASE PublishNumber(r) /\ ~Return(r)
    BY <1>1, <1>6 DEF PublishNumber, At, Calls, Critical, Staging
  <1>7. CASE Fetch(r) /\ ~Return(r)
    BY <1>1, <1>7 DEF Fetch, Calls
  <1> QED
    BY <1>2, <1>4, <1>5, <1>6, <1>7 DEF Advance, Reply, UpsertDraftWrite, RollbackWrite,
          RenameCommit, PublishUndoPut, PublishUndoBundle, CallFails

\* A row is inserted by a publish that then answers or undoes its puts.
LEMMA InsertStep ==
    ASSUME TypeOK, [SvcNext]_svcVars, ~UNCHANGED versions
    PROVE  \E s \in Requests :
              /\ Inserts(s) /\ call'[s].pc \in {"reply", "pub_undo_dsl"}
              /\ \A r \in Requests \ {s} : call'[r] = call[r]
  <1>1. ~UNCHANGED svcVars /\ ~Administer /\ \A n \in Nodes : ~Crash(n)
    BY DEF svcVars, Administer, CreateRuleset, DeleteRuleset, DeleteDraft, InsertRuleset,
          RemoveRuleset, RemoveDraft, Crash, storeVars
  <1> PICK s \in Requests : Arrive(s) \/ Advance(s) \/ PublishLock(s)
    BY <1>1 DEF SvcNext
  <1>2. PublishCreate(s)
    BY BlobsStand, StagingActs DEF PublishPutDSL, PublishPutBundle, PublishUndoPut,
          PublishUndoDSL, PublishUndoBundle, storeVars
  <1>3. Inserts(s) /\ call'[s].pc \in {"reply", "pub_undo_dsl"}
    BY <1>2 DEF PublishCreate, Inserts, At, Goto, TypeOK, Calls, storeVars
  <1> QED
    BY <1>3, OthersStand

\* An INSERT touches the rows of no other key.
LEMMA InsertLocal ==
    ASSUME TypeOK, NEW s \in Requests, Inserts(s), NEW k \in Keys, k # call[s].key
    PROVE  versions'[k] = versions[k]
  BY DEF Inserts, InsertVersion, TypeOK, StoreTypeOK

-----------------------------------------------------------------------------
(* Renames and evaluations of keys without versions *)

LEMMA UnpublishedNext ==
    ASSUME UnpublishedInv, LookupsStand, [SvcNext]_svcVars
    PROVE  UnpublishedInv'
  <1>1. TypeOK /\ TypeOK'
    BY NextType DEF UnpublishedInv
  <1>2. ASSUME NEW r \in Requests, call'[r].pc \in {"rn_tx", "eval_draft"}
        PROVE  VersionRows(call[r].key)' = {}
    <2>1. CASE call'[r] = call[r]
      <3>1. VersionRows(call[r].key) = {} /\ call[r].key \in Keys
        BY <1>1, <1>2, <2>1 DEF UnpublishedInv, TypeOK, LocalsSet
      <3>2. versions'[call[r].key] = versions[call[r].key]
        <4>1. CASE UNCHANGED versions
          BY <4>1
        <4>2. CASE ~UNCHANGED versions
          <5> PICK s \in Requests : Inserts(s)
            BY <1>1, <4>2, InsertStep
          <5>1. call[s].key # call[r].key
            BY <1>2, <2>1 DEF LookupsStand, Inserts, At
          <5> QED
            BY <1>1, <3>1, <5>1, InsertLocal
        <4> QED
          BY <4>1, <4>2
      <3> QED
        BY <2>1, <3>1, <3>2 DEF VersionRows
    <2>2. CASE Arrive(r)
      <3>1. UNCHANGED versions /\ StartFound(r)
        BY <1>1, <2>2, StartStep DEF storeVars
      <3>2. VersionRows(call'[r].key) = {}
        BY <1>2, <3>1 DEF StartFound
      <3> QED
        BY <3>1, <3>2 DEF VersionRows
    <2>3. CASE Advance(r) \/ PublishLock(r)
      BY <1>1, <1>2, <2>3, MoveStep DEF Idle, Critical, Staging
    <2>4. ASSUME NEW n \in Nodes, Crash(n)
          PROVE  call'[r] = call[r]
      BY <1>2, <2>4, CrashStep DEF Idle
    <2> QED
      BY <1>1, <2>1, <2>2, <2>3, <2>4, CallStep
  <1> QED
    BY <1>1, <1>2 DEF UnpublishedInv

\* A key found without versions has none when the finding is used, if no publish
\* of the key inserts its row in between; whatever else runs, and whatever fails.
THEOREM UnpublishedInvariant == Spec /\ []LookupsStand => []UnpublishedInv
  <1>1. SvcInit => UnpublishedInv
    BY InitType DEF SvcInit, Idle, UnpublishedInv
  <1>2. UnpublishedInv /\ LookupsStand /\ [SvcNext]_svcVars => UnpublishedInv'
    BY UnpublishedNext
  <1> QED
    BY <1>1, <1>2, PTL DEF Spec

\* So no ruleset that has published versions is renamed: the overlap with a
\* publish is the only way in.
THEOREM RenamesBlocked == Spec /\ []LookupsStand => RenameBlockedByVersions
  <1>1. UnpublishedInv =>
           [\A r \in Requests :
               At(r, "rn_tx") /\ ~At(r, "rn_tx")' /\ rulesets' # rulesets
                   => VersionRows(call[r].key) = {}]_svcVars
    BY DEF UnpublishedInv, At
  <1> QED
    BY <1>1, UnpublishedInvariant, PTL DEF Spec, RenameBlockedByVersions

\* And no draft is evaluated in place of a published version.
THEOREM DraftsYield == Spec /\ []LookupsStand => DraftEvaluatedOnlyUnpublished
  <1>1. UnpublishedInv =>
           [\A r \in Requests :
               At(r, "eval_draft") /\ At(r, "reply")' => VersionRows(call[r].key) = {}]_svcVars
    BY DEF UnpublishedInv, At
  <1> QED
    BY <1>1, UnpublishedInvariant, PTL DEF Spec, DraftEvaluatedOnlyUnpublished

-----------------------------------------------------------------------------
(* Rollbacks *)

\* An object whose number nobody is publishing belongs to a version.
LEMMA ObjectHasRow ==
    ASSUME ResidueInv, NEW k \in Keys, NEW v \in Versions, dsls[k][v] # None,
           \A s \in Requests : ~PublishingVersion(s, k, v)
    PROVE  versions[k][v] # None
  BY DEF ResidueInv, HoldsDSL

LEMMA RollbackNext ==
    ASSUME ResidueInv, RollbacksStand', RollbackTargetsVersion, [SvcNext]_svcVars
    PROVE  RollbackTargetsVersion'
  <1>1. TypeOK /\ TypeOK'
    BY NextType DEF ResidueInv
  <1>2. ASSUME NEW r \in Requests, call'[r].pc = "rb_upsert"
        PROVE  versions'[call'[r].key][call'[r].ver] # None
    <2>1. CASE call'[r] = call[r]
      <3>1. versions[call[r].key][call[r].ver] # None
        BY <1>2, <2>1 DEF RollbackTargetsVersion, At
      <3>2. CASE UNCHANGED versions
        BY <2>1, <3>1, <3>2
      <3>3. CASE ~UNCHANGED versions
        <4> PICK s \in Requests : Inserts(s)
          BY <1>1, <3>3, InsertStep
        <4>1. call[r].key \in Keys
          BY <1>1, <1>2, <2>1 DEF TypeOK, LocalsSet
        <4>2. call[s].key \in Keys /\ call[s].ver \in Versions /\ Checksum(call[s].doc) # None
          BY <1>1, ChecksumOK, NoneOK DEF Inserts, TypeOK, LocalsSet, Staging, Critical
        <4> QED
          BY <1>1, <2>1, <3>1, <4>1, <4>2 DEF Inserts, InsertVersion, TypeOK, StoreTypeOK
      <3> QED
        BY <3>2, <3>3
    <2>2. CASE Arrive(r)
      <3> DEFINE k == call'[r].key
                 v == call'[r].ver
      <3>1. k \in Keys /\ v \in Versions /\ dsls[k][v] # None /\ UNCHANGED versions
        BY <1>1, <1>2, <2>2, StartStep DEF StartFound, storeVars
      <3>2. \A s \in Requests :
               ~(call'[s].pc \in Staging /\ call'[s].key = k /\ call'[s].ver = v)
        BY <1>2 DEF RollbacksStand, At, PublishingVersion
      <3>3. \A s \in Requests \ {r} : call'[s] = call[s]
        BY <1>1, <2>2, OthersStand
      <3>4. call[r].pc \notin Staging
        BY <1>1, <2>2, StartStep DEF Staging
      <3>5. \A s \in Requests : ~PublishingVersion(s, k, v)
        BY <3>2, <3>3, <3>4 DEF PublishingVersion
      <3> QED
        BY <3>1, <3>5, ObjectHasRow
    <2>3. CASE Advance(r) \/ PublishLock(r)
      BY <1>1, <1>2, <2>3, MoveStep DEF Idle, Critical, Staging
    <2>4. ASSUME NEW n \in Nodes, Crash(n)
          PROVE  call'[r] = call[r]
      BY <1>2, <2>4, CrashStep DEF Idle
    <2> QED
      BY <1>1, <2>1, <2>2, <2>3, <2>4, CallStep
  <1> QED
    BY <1>2 DEF RollbackTargetsVersion, At

\* A rollback looks no version row up; the object it reads has one nevertheless,
\* if failed publishes clean up behind them and none is at work on that number.
THEOREM RollbacksTarget ==
    ASSUME CleanFaults
    PROVE  Spec /\ []RollbacksStand => []RollbackTargetsVersion
  <1>1. SvcInit => RollbackTargetsVersion
    BY DEF SvcInit, Idle, RollbackTargetsVersion, At
  <1>2. ResidueInv /\ RollbacksStand' /\ RollbackTargetsVersion /\ [SvcNext]_svcVars
           => RollbackTargetsVersion'
    BY RollbackNext
  <1> QED
    BY <1>1, <1>2, ResidueInvariant, PTL DEF Spec

-----------------------------------------------------------------------------
(* Drafts *)

\* The steps that write a draft.
LEMMA DraftStep ==
    ASSUME [SvcNext]_svcVars
    PROVE  \/ UNCHANGED drafts
           \/ \E k \in Keys : RemoveDraft(k)
           \/ \E r \in Requests : \/ UpsertDraftWrite(r) \/ RollbackWrite(r)
                                  \/ RenameCommit(r) /\ ~UNCHANGED storeVars
  <1>1. CASE UNCHANGED svcVars
    BY <1>1 DEF svcVars
  <1>2. CASE Administer
    BY <1>2 DEF Administer, CreateRuleset, DeleteRuleset, DeleteDraft, InsertRuleset, RemoveRuleset
  <1>3. ASSUME NEW n \in Nodes, Crash(n)
        PROVE  UNCHANGED drafts
    BY <1>3 DEF Crash, storeVars
  <1>4. ASSUME NEW r \in Requests, Arrive(r)
        PROVE  UNCHANGED drafts
    BY <1>4 DEF Arrive, UpsertDraft, Rollback, RenameRuleset, Publish, GetVersion, GetLatestVersion,
          GetVersionBundle, GetLatestBundle, Evaluate, StartRead, storeVars
  <1>5. ASSUME NEW r \in Requests, Advance(r) \/ PublishLock(r),
               ~UpsertDraftWrite(r), ~RollbackWrite(r), ~RenameCommit(r)
        PROVE  UNCHANGED drafts
    BY <1>5 DEF Advance, Reply, PublishGetDraft, PublishCompare, PublishLock, PublishNumber,
          PublishPutDSL, PublishPutBundle, PublishUndoPut, PublishCreate, InsertVersion,
          PublishUndoDSL, PublishUndoBundle, Fetch, CallFails, storeVars
  <1> QED
    BY <1>1, <1>2, <1>3, <1>4, <1>5 DEF SvcNext, storeVars

\* The keys that have a draft.
DraftRows == {k \in Keys : drafts[k] # None}

\* A rename takes the draft along, and the key that loses it is the one renamed.
LEMMA MoveKeepsDrafts ==
    ASSUME StoreTypeOK, IsFiniteSet(DraftRows), NEW k \in Keys, NEW new \in Keys,
           MoveRuleset(k, new)
    PROVE  /\ \A i \in Keys : drafts[i] # None => \E j \in Keys : drafts'[j] = drafts[i]
           /\ Cardinality(DraftRows') = Cardinality(DraftRows)
           /\ DraftRows' \subseteq DraftRows \cup {new}
  <1>1. CASE new = k \/ drafts[k] = None
    <2>1. drafts' = drafts
      BY <1>1 DEF MoveRuleset
    <2>2. DraftRows' = DraftRows
      BY <2>1 DEF DraftRows
    <2> QED
      BY <2>1, <2>2
  <1>2. CASE new # k /\ drafts[k] # None
    <2>1. /\ drafts[new] = None
          /\ drafts' = [drafts EXCEPT ![k] = None, ![new] = drafts[k]]
          /\ drafts \in [Keys -> Docs \cup {None}]
      BY <1>2 DEF MoveRuleset, CanRename, StoreTypeOK
    <2>2. \A i \in Keys : drafts'[i] = IF i = new THEN drafts[k]
                                      ELSE IF i = k THEN None ELSE drafts[i]
      BY <1>2, <2>1
    <2>3. ASSUME NEW i \in Keys, drafts[i] # None
          PROVE  \E j \in Keys : drafts'[j] = drafts[i]
      BY <2>1, <2>2, <2>3
    <2>4. DraftRows' = (DraftRows \ {k}) \cup {new} /\ k \in DraftRows /\ new \notin DraftRows
      BY <1>2, <2>1, <2>2 DEF DraftRows
    <2>5. IsFiniteSet(DraftRows \ {k}) /\ Cardinality(DraftRows \ {k}) = Cardinality(DraftRows) - 1
      BY <2>4, FS_RemoveElement
    <2>6. Cardinality((DraftRows \ {k}) \cup {new}) = Cardinality(DraftRows \ {k}) + 1
      BY <2>4, <2>5, FS_AddElement
    <2>7. Cardinality(DraftRows) \in Nat
      BY FS_CardinalityType
    <2>8. Cardinality(DraftRows') = Cardinality(DraftRows)
      BY <2>4, <2>5, <2>6, <2>7
    <2> QED
      BY <2>3, <2>4, <2>8
  <1> QED
    BY <1>1, <1>2

\* However many keys there are, finitely many have a draft.
LEMMA DraftsFinite == Spec => []IsFiniteSet(DraftRows)
  <1>1. SvcInit => IsFiniteSet(DraftRows)
    <2>1. SvcInit => DraftRows = {}
      BY DEF SvcInit, StoreInit, DraftRows
    <2> QED
      BY <2>1, FS_EmptySet
  <1>2. ASSUME TypeOK, IsFiniteSet(DraftRows), [SvcNext]_svcVars
        PROVE  IsFiniteSet(DraftRows)'
    <2>1. ASSUME NEW k \in Keys, NEW d, WriteDraft(k, d) \/ RemoveDraft(k)
          PROVE  DraftRows' \subseteq DraftRows \cup {k}
      BY <1>2, <2>1 DEF WriteDraft, RemoveDraft, DraftRows, TypeOK, StoreTypeOK
    <2>2. \E x : DraftRows' \subseteq DraftRows \cup {x}
      <3>1. CASE UNCHANGED drafts
        BY <3>1 DEF DraftRows
      <3>2. ASSUME NEW k \in Keys, RemoveDraft(k)
            PROVE  \E x : DraftRows' \subseteq DraftRows \cup {x}
        BY <2>1, <3>2
      <3>3. ASSUME NEW r \in Requests, UpsertDraftWrite(r) \/ RollbackWrite(r) \/ RenameCommit(r)
            PROVE  \E x : DraftRows' \subseteq DraftRows \cup {x}
        <4>1. call[r].key \in Keys
          BY <1>2, <3>3 DEF UpsertDraftWrite, RollbackWrite, RenameCommit, At, TypeOK, LocalsSet
        <4>2. CASE UpsertDraftWrite(r) \/ RollbackWrite(r)
          BY <2>1, <4>1, <4>2 DEF UpsertDraftWrite, RollbackWrite
        <4>3. CASE RenameCommit(r)
          <5>1. CASE UNCHANGED storeVars
            BY <3>1, <5>1 DEF storeVars
          <5>2. CASE \E new \in Keys : MoveRuleset(call[r].key, new)
            BY <1>2, <4>1, <5>2, MoveKeepsDrafts DEF TypeOK
          <5> QED
            BY <4>3, <5>1, <5>2 DEF RenameCommit
        <4> QED
          BY <3>3, <4>2, <4>3
      <3> QED
        BY <1>2, <3>1, <3>2, <3>3, DraftStep
    <2> PICK x : DraftRows' \subseteq DraftRows \cup {x}
      BY <2>2
    <2>3. IsFiniteSet(DraftRows \cup {x})
      BY <1>2, FS_AddElement
    <2> QED
      BY <2>3, FS_Subset
  <1> QED
    BY <1>1, <1>2, TypeCorrect, PTL DEF Spec

\* What a rename leaves of the drafts, when it commits, fails or is cut off.
LEMMA RenameStep ==
    ASSUME TypeOK, IsFiniteSet(DraftRows), [SvcNext]_svcVars, NEW r \in Requests,
           At(r, "rn_tx"), ~At(r, "rn_tx")'
    PROVE  /\ \A k \in Keys : drafts[k] # None => \E j \in Keys : drafts'[j] = drafts[k]
           /\ Cardinality(DraftRows) = Cardinality(DraftRows')
  <1>1. CASE UNCHANGED drafts
    <2>1. DraftRows' = DraftRows
      BY <1>1 DEF DraftRows
    <2> QED
      BY <1>1, <2>1
  <1>2. CASE RenameCommit(r)
    <2>1. call[r].key \in Keys /\ StoreTypeOK
      BY DEF TypeOK, LocalsSet, At
    <2>2. UNCHANGED drafts \/ \E new \in Keys : MoveRuleset(call[r].key, new)
      BY <1>2 DEF RenameCommit, storeVars
    <2> QED
      BY <1>1, <2>1, <2>2, MoveKeepsDrafts
  <1>3. UNCHANGED drafts \/ RenameCommit(r)
    <2>1. call'[r] # call[r] /\ call[r].pc = "rn_tx"
      BY DEF At
    <2>2. Arrive(r) => FALSE
      BY <2>1, StartStep
    <2>3. PublishLock(r) => FALSE
      BY <2>1 DEF PublishLock, At
    <2>4. Advance(r) => RenameCommit(r) \/ CallFails(r)
      BY <2>1 DEF Advance, Reply, UpsertDraftWrite, RollbackWrite, PublishGetDraft, PublishCompare,
            PublishNumber, PublishPutDSL, PublishPutBundle, PublishUndoPut, PublishCreate,
            PublishUndoDSL, PublishUndoBundle, Fetch, Reading, At
    <2>5. CallFails(r) => UNCHANGED drafts
      BY DEF CallFails, storeVars
    <2>6. \A n \in Nodes : Crash(n) => UNCHANGED drafts
      BY DEF Crash, storeVars
    <2> QED
      BY <2>1, <2>2, <2>3, <2>4, <2>5, <2>6, CallStep
  <1> QED
    BY <1>1, <1>2, <1>3

\* A rename loses no draft: every document that was a draft before is one
\* afterwards, of as many keys, however the request ends.
THEOREM DraftsSurvive == Spec => DraftsSurviveRename
  <1>1. TypeOK /\ IsFiniteSet(DraftRows) /\ [SvcNext]_svcVars =>
           [\A r \in Requests :
               At(r, "rn_tx") /\ ~At(r, "rn_tx")' =>
                   /\ \A k \in Keys : drafts[k] # None => \E j \in Keys : drafts'[j] = drafts[k]
                   /\ Cardinality({k \in Keys : drafts[k] # None})
                         = Cardinality({k \in Keys : drafts'[k] # None})]_svcVars
    BY RenameStep DEF DraftRows
  <1> QED
    BY <1>1, TypeCorrect, DraftsFinite, PTL DEF Spec, DraftsSurviveRename
-----------------------------------------------------------------------------
(* Drafts and publishes have a ruleset *)

\* A ruleset that goes, by a deletion or a rename, leaves under its key no draft,
\* no object and no request that has looked it up.
GoesAlone ==
    \A k \in rulesets \ rulesets' :
        /\ drafts'[k] = None
        /\ \A v \in Versions : dsls'[k][v] = None
        /\ \A r \in Requests : call'[r].pc \in NeedsRuleset => call'[r].key # k

RemovalsStand == [][GoesAlone]_svcVars

LEMMA KeysNext ==
    ASSUME KeysInv, [SvcNext]_svcVars, [GoesAlone]_svcVars
    PROVE  KeysInv'
  <1>1. TypeOK /\ TypeOK'
    BY NextType DEF KeysInv
  <1>2. ASSUME NEW k \in rulesets
        PROVE  \/ k \in rulesets'
               \/ /\ drafts'[k] = None
                  /\ \A v \in Versions : dsls'[k][v] = None
                  /\ \A r \in Requests : call'[r].pc \in NeedsRuleset => call'[r].key # k
    BY DEF GoesAlone, svcVars
  <1>3. ASSUME NEW k \in Keys, drafts'[k] # None
        PROVE  k \in rulesets'
    <2>1. CASE drafts'[k] = drafts[k]
      BY <1>2, <1>3, <2>1 DEF KeysInv, DraftHasRuleset
    <2>2. CASE drafts'[k] # drafts[k]
      <3>1. ~UNCHANGED drafts
        BY <2>2
      <3>2. \A j \in Keys : ~RemoveDraft(j)
        BY <1>1, <1>3, <2>2 DEF RemoveDraft, TypeOK, StoreTypeOK
      <3> PICK r \in Requests : \/ UpsertDraftWrite(r) \/ RollbackWrite(r)
                                \/ RenameCommit(r) /\ ~UNCHANGED storeVars
        BY <3>1, <3>2, DraftStep
      <3>3. CASE UpsertDraftWrite(r) \/ RollbackWrite(r)
        <4>1. call[r].key \in rulesets /\ \E d : WriteDraft(call[r].key, d)
          BY <3>3 DEF UpsertDraftWrite, RollbackWrite, At, KeysInv
        <4>2. k = call[r].key /\ rulesets' = rulesets
          BY <1>1, <2>2, <4>1 DEF WriteDraft, TypeOK, StoreTypeOK
        <4> QED
          BY <4>1, <4>2
      <3>4. CASE RenameCommit(r) /\ ~UNCHANGED storeVars
        <4> PICK new \in Keys : MoveRuleset(call[r].key, new)
          BY <3>4 DEF RenameCommit
        <4>1. k = new
          BY <1>1, <1>3, <2>2 DEF MoveRuleset, TypeOK, StoreTypeOK
        <4> QED
          BY <4>1 DEF MoveRuleset
      <3> QED
        BY <3>3, <3>4
    <2> QED
      BY <2>1, <2>2
  <1>4. ASSUME NEW k \in Keys, NEW v \in Versions, dsls'[k][v] # None
        PROVE  k \in rulesets'
    <2>1. k \in rulesets
      <3>1. CASE dsls'[k][v] = dsls[k][v]
        BY <1>4, <3>1 DEF KeysInv
      <3>2. CASE dsls'[k][v] # dsls[k][v]
        BY <1>1, <3>2, ObjectsOwn DEF PublishingVersion, KeysInv, Critical
      <3> QED
        BY <3>1, <3>2
    <2> QED
      BY <1>2, <1>4, <2>1
  <1>5. ASSUME NEW r \in Requests, call'[r].pc \in NeedsRuleset
        PROVE  call'[r].key \in rulesets'
    <2>1. call'[r].key \in rulesets
      <3>1. CASE call'[r] = call[r]
        BY <1>5, <3>1 DEF KeysInv, NeedsRuleset
      <3>2. CASE Arrive(r)
        <4>1. call'[r].key \in Keys /\ StartFound(r)
          BY <1>1, <3>2, StartStep
        <4> QED
          BY <1>5, <4>1 DEF StartFound, NeedsRuleset, Preparing, Critical, Staging, KeysInv
      <3>3. CASE Advance(r) \/ PublishLock(r)
        <4>1. /\ call'[r].key = call[r].key
              /\ call[r].pc \in Preparing \cup Critical
          BY <1>1, <1>5, <3>3, MoveStep DEF Idle, NeedsRuleset, Preparing, Critical, Staging
        <4> QED
          BY <4>1 DEF KeysInv
      <3>4. ASSUME NEW n \in Nodes, Crash(n)
            PROVE  call'[r] = call[r]
        BY <1>5, <3>4, CrashStep DEF Idle, NeedsRuleset, Preparing, Critical, Staging
      <3> QED
        BY <1>1, <3>1, <3>2, <3>3, <3>4, CallStep
    <2> QED
      BY <1>2, <1>5, <2>1
  <1> QED
    BY <1>1, <1>3, <1>4, <1>5 DEF KeysInv, DraftHasRuleset, NeedsRuleset

LEMMA KeysInit == SvcInit => KeysInv
  BY InitType DEF SvcInit, StoreInit, BlobInit, KeysInv, DraftHasRuleset, Idle,
        Preparing, Critical, Staging

\* Whatever fails, and in any interleaving of any operations, deletions and
\* renames included: what a request looked up of its ruleset still holds when it
\* writes, unless a ruleset went and left something under its key.
THEOREM KeysInvariant == Spec /\ RemovalsStand => []KeysInv
  <1>1. KeysInv /\ [SvcNext]_svcVars /\ [GoesAlone]_svcVars => KeysInv'
    BY KeysNext
  <1> QED
    BY <1>1, KeysInit, PTL DEF Spec, RemovalsStand

\* So a draft without a ruleset comes from such a removal and from nothing else:
\* neither UpsertDraft's look-up nor Rollback, which looks no ruleset up, nor a
\* rename or a draft found under a ruleset created anew makes one.
THEOREM DraftsBelong == Spec /\ RemovalsStand => []DraftHasRuleset
  <1>1. KeysInv => DraftHasRuleset
    BY DEF KeysInv
  <1> QED
    BY <1>1, KeysInvariant, PTL
-----------------------------------------------------------------------------
(* Versions differ from their predecessors *)

\* A publish that relies on the comparison has made it, and keeps its document.
LEMMA DifferingMoves ==
    ASSUME TypeOK, "latest" \notin Faults, NEW r \in Requests, Advance(r) \/ PublishLock(r),
           call'[r].pc \in Differing
    PROVE  /\ call'[r].key = call[r].key /\ call'[r].doc = call[r].doc
           /\ call[r].pc \in Differing \/ ~Unchanged(r)
  <1>1. call \in [Requests -> Calls] /\ call[r] \in Calls
    BY DEF TypeOK
  <1>2. ~Return(r)
    BY <1>1 DEF Return, Idle, Differing
  <1>3. \A p \in Steps : Goto(r, p) =>
           call'[r].pc = p /\ call'[r].key = call[r].key /\ call'[r].doc = call[r].doc
    BY <1>1 DEF Goto, Calls
  <1>4. CASE PublishCompare(r)
    <2>1. ~Unchanged(r) /\ Goto(r, "pub_lock")
      BY <1>2, <1>4 DEF PublishCompare
    <2> QED
      BY <1>3, <2>1 DEF Steps, Preparing
  <1>5. CASE PublishLock(r) \/ PublishPutDSL(r) \/ PublishPutBundle(r)
    <2>1. call[r].pc \in Differing /\ \E p \in Steps : Goto(r, p)
      BY <1>2, <1>5 DEF PublishLock, PublishPutDSL, PublishPutBundle, At, Differing,
            Steps, Critical, Staging
    <2> QED
      BY <1>3, <2>1
  <1>6. CASE PublishNumber(r)
    BY <1>1, <1>2, <1>6 DEF PublishNumber, At, Differing, Calls
  <1>7. CASE PublishGetDraft(r) \/ PublishCreate(r) \/ PublishUndoDSL(r) \/ Fetch(r)
    <2>1. call'[r].pc \in {"pub_latest", "reply", "pub_undo_dsl", "pub_undo_bundle"}
      BY <1>1, <1>2, <1>7 DEF PublishGetDraft, PublishCreate, PublishUndoDSL, Fetch, Goto, Calls
    <2> QED
      BY <2>1 DEF Differing
  <1> QED
    BY <1>2, <1>4, <1>5, <1>6, <1>7 DEF Advance, Reply, UpsertDraftWrite, RollbackWrite,
          RenameCommit, PublishUndoPut, PublishUndoBundle, CallFails

\* The same of every step of the system.
LEMMA DifferingFound ==
    ASSUME TypeOK, "latest" \notin Faults, [SvcNext]_svcVars, NEW r \in Requests,
           call'[r].pc \in Differing
    PROVE  /\ call'[r].key = call[r].key /\ call'[r].doc = call[r].doc
           /\ call[r].pc \in Differing \/ ~Unchanged(r)
  <1>1. ~Arrive(r)
    BY StartStep DEF StartFound, Differing
  <1>2. ASSUME NEW n \in Nodes, Crash(n)
        PROVE  call'[r] = call[r]
    BY <1>2, CrashStep DEF Idle, Differing
  <1> QED
    BY <1>1, <1>2, CallStep, DifferingMoves

\* A row that is inserted holds another checksum than the row before it, and there
\* is no row after it.
LEMMA InsertDiffers ==
    ASSUME DifferInv, NEW r \in Requests, Inserts(r)
    PROVE  ConsecutiveVersionsDiffer'
  <1> DEFINE i == call[r].key
             n == call[r].ver
  <1>1. /\ i \in Keys /\ n \in Versions /\ versions[i][n] = None /\ LowerRows(i, n)
        /\ \A u \in VersionRows(i) : LowerRows(i, u)
        /\ ~Unchanged(r)
    BY DEF DifferInv, AppendInv, Inserts, InsertVersion, TypeOK, LocalsSet, Staging
  <1>2. \A k \in Keys, v \in Versions :
           versions'[k][v] = IF k = i /\ v = n THEN Checksum(call[r].doc) ELSE versions[k][v]
    BY <1>1 DEF Inserts, InsertVersion, DifferInv, AppendInv, TypeOK, StoreTypeOK
  <1>3. \A u \in VersionRows(i) : u < n /\ u \in Nat
    BY <1>1, DataAssumption DEF VersionRows, LowerRows, Versions
  <1>4. ASSUME NEW k \in Keys, NEW v \in VersionRows(k)', NEW w \in VersionRows(k)', w = v + 1
        PROVE  versions'[k][w] # versions'[k][v]
    <2>1. v \in Versions /\ w \in Versions /\ v \in Nat /\ w \in Nat /\ v # w
      BY <1>4, DataAssumption DEF VersionRows, Versions
    <2>2. CASE k # i \/ (v # n /\ w # n)
      <3>1. v \in VersionRows(k) /\ w \in VersionRows(k)
        BY <1>2, <1>4, <2>1, <2>2 DEF VersionRows
      <3>2. versions[k][w] # versions[k][v]
        BY <1>4, <3>1 DEF DifferInv, ConsecutiveVersionsDiffer
      <3> QED
        BY <1>2, <2>1, <2>2, <3>2
    <2>3. CASE k = i /\ v = n
      <3>1. w \in VersionRows(i)
        BY <1>2, <1>4, <2>1, <2>3 DEF VersionRows
      <3> QED
        BY <1>3, <1>4, <2>1, <2>3, <3>1
    <2>4. CASE k = i /\ w = n
      <3>1. v \in VersionRows(i)
        BY <1>2, <1>4, <2>1, <2>4 DEF VersionRows
      <3>2. v \in LatestVersion(i)
        BY <1>3, <1>4, <2>1, <2>4, <3>1 DEF LatestVersion
      <3>3. versions[i][v] # Checksum(call[r].doc)
        BY <1>1, <3>2 DEF Unchanged
      <3> QED
        BY <1>2, <2>1, <2>4, <3>3
    <2> QED
      BY <2>2, <2>3, <2>4
  <1> QED
    BY <1>4 DEF ConsecutiveVersionsDiffer

LEMMA DifferNext ==
    ASSUME DifferInv, ComparisonsStand, "latest" \notin Faults, [SvcNext]_svcVars
    PROVE  DifferInv'
  <1>1. AppendInv' /\ TypeOK /\ TypeOK'
    BY AppendNext DEF DifferInv, AppendInv
  <1>2. ConsecutiveVersionsDiffer'
    <2>1. CASE UNCHANGED versions
      BY <2>1 DEF DifferInv, ConsecutiveVersionsDiffer, VersionRows
    <2> QED
      BY <1>1, <2>1, RowStep, InsertDiffers
  <1>3. ASSUME NEW r \in Requests, call'[r].pc \in Differing
        PROVE  ~Unchanged(r)'
    <2>1. /\ call'[r].key = call[r].key /\ call'[r].doc = call[r].doc
          /\ call[r].pc \in Differing \/ ~Unchanged(r)
      BY <1>1, <1>3, DifferingFound
    <2>2. ~Unchanged(r)
      BY <2>1 DEF DifferInv, Differing
    <2>3. versions'[call[r].key] = versions[call[r].key]
      <3>1. CASE UNCHANGED versions
        BY <3>1
      <3>2. CASE ~UNCHANGED versions
        <4> PICK s \in Requests :
                /\ Inserts(s) /\ call'[s].pc \in {"reply", "pub_undo_dsl"}
                /\ \A q \in Requests \ {s} : call'[q] = call[q]
          BY <1>1, <3>2, InsertStep
        <4>1. s # r /\ call'[r] = call[r]
          BY <1>3 DEF Differing
        <4>2. call[s].key # call[r].key
          BY <1>3, <4>1 DEF ComparisonsStand, Inserts, At
        <4>3. call[r].key \in Keys
          BY <1>1, <1>3, <4>1 DEF TypeOK, LocalsSet, Differing
        <4> QED
          BY <1>1, <4>2, <4>3, InsertLocal
      <3> QED
        BY <3>1, <3>2
    <2> QED
      BY <2>1, <2>2, <2>3 DEF Unchanged, LatestVersion, VersionRows
  <1> QED
    BY <1>1, <1>2, <1>3 DEF DifferInv, Differing

\* A document that was found to differ from the latest version still differs from
\* it when its row is inserted, if no other publish of the key inserts in between
\* and a failed read of the latest version is not taken for "no version".
THEOREM DifferInvariant ==
    ASSUME "latest" \notin Faults
    PROVE  Spec /\ []ComparisonsStand => []DifferInv
  <1>1. SvcInit => DifferInv
    BY AppendInit DEF SvcInit, StoreInit, Idle, DifferInv, ConsecutiveVersionsDiffer, VersionRows
  <1>2. DifferInv /\ ComparisonsStand /\ [SvcNext]_svcVars => DifferInv'
    BY DifferNext
  <1> QED
    BY <1>1, <1>2, PTL DEF Spec

\* So no version repeats the one published before it (ErrNoChanges), whatever
\* puts, commits, deletes and processes fail in between.
THEOREM VersionsDiffer ==
    ASSUME "latest" \notin Faults
    PROVE  Spec /\ []ComparisonsStand => []ConsecutiveVersionsDiffer
  <1>1. DifferInv => ConsecutiveVersionsDiffer
    BY DEF DifferInv
  <1> QED
    BY <1>1, DifferInvariant, PTL

-----------------------------------------------------------------------------
(* How often versions repeat *)

\* The publishes that are on their way to another version of k with checksum x.
Adders(k, x) ==
    {r \in Requests :
        call[r].pc \in Differing /\ call[r].key = k /\ Checksum(call[r].doc) = x}

\* The equal versions that end a list, and the publishes on their way to one
\* more of them, are together no more than the requests.
EndsBounded ==
    \A k \in Keys, x \in Checksums : \A v \in VersionRows(k), w \in LatestVersion(k) :
        (\A u \in v..w : versions[k][u] = x)
            => w - v + Cardinality(Adders(k, x)) < Cardinality(Requests)

RepeatsInv == AppendInv /\ RepeatsBounded /\ EndsBounded

\* Nobody joins them whose document equals the latest version.
LEMMA AddersJoin ==
    ASSUME TypeOK, "latest" \notin Faults, [SvcNext]_svcVars, NEW k \in Keys, NEW x,
           NEW w \in LatestVersion(k), versions[k][w] = x
    PROVE  Adders(k, x)' \subseteq Adders(k, x)
  <1> SUFFICES ASSUME NEW r \in Requests, call'[r].pc \in Differing, call'[r].key = k,
                      Checksum(call'[r].doc) = x
               PROVE  r \in Adders(k, x)
    BY DEF Adders
  <1>1. /\ call[r].key = k /\ Checksum(call[r].doc) = x
        /\ call[r].pc \in Differing \/ ~Unchanged(r)
    BY DifferingFound
  <1> QED
    BY <1>1 DEF Adders, Unchanged

\* The one that inserts its row leaves them.
LEMMA AddersLeave ==
    ASSUME TypeOK, NEW s \in Requests, Inserts(s), call'[s].pc \in {"reply", "pub_undo_dsl"},
           \A r \in Requests \ {s} : call'[r] = call[r]
    PROVE  /\ \A k, x : Adders(k, x)' = Adders(k, x) \ {s}
           /\ s \in Adders(call[s].key, Checksum(call[s].doc))
  BY DEF Adders, Differing, Inserts, At

LEMMA AddersFinite ==
    ASSUME IsFiniteSet(Requests), NEW k, NEW x
    PROVE  /\ IsFiniteSet(Adders(k, x)) /\ Cardinality(Adders(k, x)) \in Nat
           /\ Cardinality(Requests) \in Nat
           /\ \A s \in Adders(k, x) :
                 /\ Cardinality(Adders(k, x) \ {s}) = Cardinality(Adders(k, x)) - 1
                 /\ Cardinality(Adders(k, x) \ {s}) < Cardinality(Requests)
  <1>1. Adders(k, x) \in SUBSET Requests
    BY DEF Adders
  <1>2. IsFiniteSet(Adders(k, x)) /\ Cardinality(Adders(k, x)) <= Cardinality(Requests)
    BY <1>1, FS_Subset
  <1>3. Cardinality(Adders(k, x)) \in Nat /\ Cardinality(Requests) \in Nat
    BY <1>2, FS_CardinalityType
  <1>4. \A s \in Adders(k, x) : Cardinality(Adders(k, x) \ {s}) = Cardinality(Adders(k, x)) - 1
    BY <1>2, FS_RemoveElement
  <1> QED
    BY <1>2, <1>3, <1>4

LEMMA RepeatsInsert ==
    ASSUME RepeatsInv, IsFiniteSet(Requests), NEW s \in Requests, Inserts(s),
           call'[s].pc \in {"reply", "pub_undo_dsl"},
           \A r \in Requests \ {s} : call'[r] = call[r]
    PROVE  RepeatsBounded' /\ EndsBounded'
  <1>0. TypeOK /\ At(s, "pub_create")
    BY DEF RepeatsInv, AppendInv, Inserts, At
  <1> PICK i \in Keys, n \in Versions, x \in Checksums :
          i = call[s].key /\ n = call[s].ver /\ x = Checksum(call[s].doc)
    BY <1>0, ChecksumOK DEF TypeOK, LocalsSet, At, Critical, Staging
  <1>1. /\ versions[i][n] = None /\ LowerRows(i, n)
        /\ \A u \in VersionRows(i) : LowerRows(i, u)
    BY <1>0 DEF RepeatsInv, AppendInv, Inserts, InsertVersion, At, Staging
  <1>2. \A k \in Keys, v \in Versions :
           versions'[k][v] = IF k = i /\ v = n THEN x ELSE versions[k][v]
    BY <1>0 DEF Inserts, InsertVersion, TypeOK, StoreTypeOK
  <1>3. \A u \in VersionRows(i) : u < n /\ u \in Nat
    BY <1>1, DataAssumption DEF VersionRows, LowerRows, Versions
  <1>4. n \in Nat /\ x # None /\ \A v \in Versions : v \in Nat
    BY NoneOK, DataAssumption DEF Versions
  <1>5. VersionRows(i)' = VersionRows(i) \cup {n} /\ LatestVersion(i)' = {n}
    <2>1. \A v \in Versions : versions'[i][v] # None <=> versions[i][v] # None \/ v = n
      BY <1>2, <1>4
    <2>2. VersionRows(i)' = VersionRows(i) \cup {n}
      BY <2>1 DEF VersionRows
    <2> QED
      BY <1>3, <1>4, <2>2 DEF LatestVersion
  <1>6. \A k, y : Adders(k, y)' = Adders(k, y) \ {s}
    BY <1>0, AddersLeave
  <1>7. s \in Adders(i, x)
    BY <1>0, AddersLeave
  <1>8. ASSUME NEW v \in VersionRows(i)', \A u \in v..n : versions'[i][u] = x
        PROVE  n - v + Cardinality(Adders(i, x)') < Cardinality(Requests)
    <2>1. /\ Cardinality(Adders(i, x)) \in Nat /\ Cardinality(Requests) \in Nat
          /\ Cardinality(Adders(i, x)') = Cardinality(Adders(i, x)) - 1
          /\ Cardinality(Adders(i, x)') < Cardinality(Requests)
      BY <1>6, <1>7, AddersFinite
    <2>2. CASE v = n
      BY <1>4, <2>1, <2>2
    <2>3. CASE v # n
      <3>1. v \in VersionRows(i) /\ v < n /\ v \in Nat /\ v >= 1
        BY <1>3, <1>5, <2>3, DataAssumption DEF VersionRows, Versions
      <3>2. n - 1 \in Versions /\ n - 1 \in v..n /\ n - 1 < n
        BY <1>1, <1>4, <3>1, DataAssumption DEF Versions
      <3>3. n - 1 \in VersionRows(i)
        BY <1>1, <3>2 DEF LowerRows, VersionRows
      <3>4. n - 1 \in LatestVersion(i)
        BY <1>3, <1>4, <3>3 DEF LatestVersion
      <3>5. \A u \in v..(n - 1) : u \in v..n /\ u \in Versions /\ u # n
        BY <1>1, <1>4, <3>1, DataAssumption DEF Versions
      <3>6. \A u \in v..(n - 1) : versions[i][u] = x
        BY <1>1, <1>2, <1>8, <3>5
      <3>7. (n - 1) - v + Cardinality(Adders(i, x)) < Cardinality(Requests)
        BY <3>1, <3>4, <3>6 DEF RepeatsInv, EndsBounded
      <3> QED
        BY <1>4, <2>1, <3>1, <3>7
    <2> QED
      BY <2>2, <2>3
  <1>9. ASSUME NEW k \in Keys, k # i
        PROVE  /\ VersionRows(k)' = VersionRows(k) /\ LatestVersion(k)' = LatestVersion(k)
               /\ versions'[k] = versions[k]
    <2>1. versions'[k] = versions[k]
      BY <1>0, <1>9, InsertLocal
    <2> QED
      BY <2>1 DEF VersionRows, LatestVersion
  <1>10. EndsBounded'
    <2> SUFFICES ASSUME NEW k \in Keys, NEW y \in Checksums, NEW v \in VersionRows(k)',
                        NEW w \in LatestVersion(k)', \A u \in v..w : versions'[k][u] = y
                 PROVE  w - v + Cardinality(Adders(k, y)') < Cardinality(Requests)
      BY DEF EndsBounded
    <2>1. v \in Nat /\ w \in Nat /\ v <= w
      BY <1>4 DEF VersionRows, LatestVersion
    <2>2. CASE k = i
      <3>1. w = n /\ n \in v..w
        BY <1>5, <2>1, <2>2
      <3>2. y = x
        BY <1>2, <2>2, <3>1
      <3> QED
        BY <1>8, <2>2, <3>1, <3>2
    <2>3. CASE k # i
      <3>1. w - v + Cardinality(Adders(k, y)) < Cardinality(Requests)
        BY <1>9, <2>3 DEF RepeatsInv, EndsBounded
      <3>2. Adders(k, y)' = Adders(k, y) \ {s}
        BY <1>6
      <3>3. Cardinality(Adders(k, y)') <= Cardinality(Adders(k, y))
        <4>1. CASE s \in Adders(k, y)
          BY <3>2, <4>1, AddersFinite
        <4>2. CASE s \notin Adders(k, y)
          <5>1. Adders(k, y)' = Adders(k, y)
            BY <3>2, <4>2
          <5> QED
            BY <5>1, AddersFinite
        <4> QED
          BY <4>1, <4>2
      <3>4. Cardinality(Adders(k, y)) \in Nat /\ Cardinality(Requests) \in Nat
        BY AddersFinite
      <3>5. Cardinality(Adders(k, y)') \in Nat
        BY <3>2, AddersFinite, FS_CardinalityType, FS_RemoveElement
      <3> QED
        BY <2>1, <3>1, <3>3, <3>4, <3>5
    <2> QED
      BY <2>2, <2>3
  <1>11. RepeatsBounded'
    <2> SUFFICES ASSUME NEW k \in Keys, NEW v \in VersionRows(k)', NEW w \in VersionRows(k)',
                        \A u \in v..w : versions'[k][u] = versions'[k][w]
                 PROVE  w - v < Cardinality(Requests)
      BY DEF RepeatsBounded
    <2>1. v \in Nat /\ w \in Nat /\ v \in Versions /\ w \in Versions
      BY <1>4 DEF VersionRows
    <2>2. CASE k # i
      BY <1>9, <2>2 DEF RepeatsInv, RepeatsBounded
    <2>3. CASE k = i /\ w = n
      <3>1. versions'[i][n] = x
        BY <1>2
      <3>2. n - v + Cardinality(Adders(i, x)') < Cardinality(Requests)
        BY <1>8, <2>3, <3>1
      <3>3. Cardinality(Adders(i, x)') \in Nat /\ Cardinality(Requests) \in Nat
        BY <1>6, <1>7, AddersFinite, FS_CardinalityType, FS_RemoveElement
      <3> QED
        BY <2>1, <2>3, <3>2, <3>3
    <2>4. CASE k = i /\ w # n /\ v <= w
      <3>1. w \in VersionRows(i) /\ w < n
        BY <1>3, <1>5, <2>4
      <3>2. v \in VersionRows(i)
        BY <1>4, <1>5, <2>1, <2>4, <3>1
      <3>3. \A u \in v..w : u \in Versions /\ u # n
        BY <1>4, <2>1, <3>1, DataAssumption DEF Versions
      <3>4. w \in v..w
        BY <2>1, <2>4
      <3>5. \A u \in v..w : versions[i][u] = versions[i][w]
        BY <1>2, <2>1, <2>4, <3>3, <3>4
      <3> QED
        BY <3>1, <3>2, <3>5 DEF RepeatsInv, RepeatsBounded
    <2>5. CASE v > w
      BY <2>1, <2>5, AddersFinite
    <2> QED
      BY <2>1, <2>2, <2>3, <2>4, <2>5
  <1> QED
    BY <1>10, <1>11

LEMMA RepeatsNext ==
    ASSUME RepeatsInv, IsFiniteSet(Requests), "latest" \notin Faults, [SvcNext]_svcVars
    PROVE  RepeatsInv'
  <1>1. AppendInv' /\ TypeOK
    BY AppendNext DEF RepeatsInv, AppendInv
  <1>2. CASE UNCHANGED versions
    <2>1. RepeatsBounded'
      BY <1>2 DEF RepeatsInv, RepeatsBounded, VersionRows
    <2>2. ASSUME NEW k \in Keys, NEW x \in Checksums, NEW v \in VersionRows(k),
                 NEW w \in LatestVersion(k), \A u \in v..w : versions[k][u] = x
          PROVE  w - v + Cardinality(Adders(k, x)') < Cardinality(Requests)
      <3>1. v \in Nat /\ w \in Nat /\ w \in v..w
        BY DataAssumption DEF VersionRows, LatestVersion, Versions
      <3>2. Adders(k, x)' \subseteq Adders(k, x)
        BY <1>1, <2>2, <3>1, AddersJoin
      <3>3. Cardinality(Adders(k, x)') \in Nat
            /\ Cardinality(Adders(k, x)') <= Cardinality(Adders(k, x))
        BY <3>2, AddersFinite, FS_Subset, FS_CardinalityType
      <3>4. w - v + Cardinality(Adders(k, x)) < Cardinality(Requests)
        BY <2>2 DEF RepeatsInv, EndsBounded
      <3> QED
        BY <3>1, <3>3, <3>4, AddersFinite
    <2> QED
      BY <1>1, <1>2, <2>1, <2>2 DEF RepeatsInv, EndsBounded, VersionRows, LatestVersion
  <1>3. CASE ~UNCHANGED versions
    BY <1>1, <1>3, InsertStep, RepeatsInsert DEF RepeatsInv
  <1> QED
    BY <1>2, <1>3

\* However many processes, and with every fault but a failing query for the latest
\* version: stale comparisons repeat a version, but never in more versions in a
\* row than there are requests at a time.
THEOREM RepeatsLimited ==
    ASSUME "latest" \notin Faults, IsFiniteSet(Requests)
    PROVE  Spec => []RepeatsBounded
  <1>1. SvcInit => RepeatsInv
    BY AppendInit DEF SvcInit, StoreInit, RepeatsInv, RepeatsBounded, EndsBounded, VersionRows
  <1>2. RepeatsInv /\ [SvcNext]_svcVars => RepeatsInv'
    BY RepeatsNext
  <1>3. RepeatsInv => RepeatsBounded
    BY DEF RepeatsInv
  <1> QED
    BY <1>1, <1>2, <1>3, PTL DEF Spec

-----------------------------------------------------------------------------
(* Clients that take turns *)

\* One request at a time, by whichever process: every promise above is kept.
THEOREM TurnsSuffice ==
    ASSUME ClientsTakeTurns
    PROVE  /\ Spec => RenameBlockedByVersions /\ DraftEvaluatedOnlyUnpublished
           /\ CleanFaults => (Spec => []RollbackTargetsVersion)
           /\ "latest" \notin Faults => (Spec => []ConsecutiveVersionsDiffer)
  <1>1. ComparisonsStand /\ LookupsStand /\ RollbacksStand
    BY TurnsStand
  <1>2. Spec => RenameBlockedByVersions /\ DraftEvaluatedOnlyUnpublished
    BY <1>1, RenamesBlocked, DraftsYield, PTL
  <1>3. ASSUME CleanFaults
        PROVE  Spec => []RollbackTargetsVersion
    <2>1. Spec /\ []RollbacksStand => []RollbackTargetsVersion
      BY <1>3, RollbacksTarget
    <2> QED
      BY <1>1, <2>1, PTL
  <1>4. ASSUME "latest" \notin Faults
        PROVE  Spec => []ConsecutiveVersionsDiffer
    <2>1. Spec /\ []ComparisonsStand => []ConsecutiveVersionsDiffer
      BY <1>4, VersionsDiffer
    <2> QED
      BY <1>1, <2>1, PTL
  <1> QED
    BY <1>2, <1>3, <1>4
=============================================================================
