------------------------ MODULE RulesetServiceProofs ------------------------
(***************************************************************************)
(* Theorems about the ruleset service that need no hypothesis: they hold   *)
(* for any sets of keys, documents, processes and request slots, any       *)
(* version bound and every fault.  Variables keep their types, and the     *)
(* version rows implement PublishedVersions: rows are appended without a   *)
(* gap and never change.  The publish mutex plays no part in it; the       *)
(* primary key of the versions table and MAX(version) + 1 suffice.         *)
(***************************************************************************)
EXTENDS RulesetProperties, TLAPS

-----------------------------------------------------------------------------
(* Lemmas about single updates *)

CallsOK == call \in [Requests -> Calls] /\ \A r \in Requests : LocalsSet(call[r])

MutexesOK == mu \in [Nodes -> [Keys -> Requests \cup {None}]]

\* The well-formed empty request.
LEMMA IdleOK == Idle \in Calls /\ LocalsSet(Idle)
  BY DEF Idle, Calls, LocalsSet, Steps, Staging, Critical

LEMMA NoneOK == None \notin Keys /\ None \notin Docs /\ None \notin Checksums /\ None \notin Nat
               /\ None \notin Requests /\ None \notin Nodes
  BY DataAssumption, ServiceAssumption

\* A request that ends leaves the requests well-formed.
LEMMA ReturnOK ==
    ASSUME CallsOK, NEW r \in Requests, Return(r)
    PROVE  CallsOK'
  BY IdleOK DEF CallsOK, Return

\* So does one that moves to a step whose locals are set.
LEMMA UpdateOK ==
    ASSUME CallsOK, NEW r \in Requests, NEW c \in Calls, LocalsSet(c),
           call' = [call EXCEPT ![r] = c]
    PROVE  CallsOK'
  BY DEF CallsOK

LEMMA GotoOK ==
    ASSUME CallsOK, NEW r \in Requests, NEW p \in Steps, Goto(r, p),
           LocalsSet([call[r] EXCEPT !.pc = p])
    PROVE  CallsOK'
  <1>1. call' = [call EXCEPT ![r] = [call[r] EXCEPT !.pc = p]]
    BY DEF Goto
  <1>2. [call[r] EXCEPT !.pc = p] \in Calls
    BY DEF CallsOK, Calls
  <1> QED
    BY <1>1, <1>2, UpdateOK

\* Starting a request with well-formed locals.
LEMMA StartOK ==
    ASSUME CallsOK, NEW r \in Requests, NEW n \in Nodes, NEW k \in Keys, NEW c \in Calls,
           LocalsSet([c EXCEPT !.node = n, !.key = k]), Start(r, n, k, c)
    PROVE  CallsOK'
  <1>1. [c EXCEPT !.node = n, !.key = k] \in Calls
    BY DEF Calls
  <1> QED
    BY <1>1, UpdateOK DEF Start

\* The unlock of a request that holds a mutex, and the lock.
LEMMA MutexOK ==
    ASSUME CallsOK, MutexesOK, NEW r \in Requests, call[r].pc # "idle",
           NEW h \in Requests \cup {None},
           mu' = [mu EXCEPT ![call[r].node][call[r].key] = h]
    PROVE  MutexesOK'
  <1>1. call[r].node \in Nodes /\ call[r].key \in Keys
    BY DEF CallsOK, LocalsSet
  <1> QED
    BY <1>1 DEF MutexesOK
-----------------------------------------------------------------------------
(* Type correctness, one lemma per action *)

\* The objects a put or a delete leaves are objects.
LEMMA BlobsOK ==
    ASSUME BlobTypeOK, NEW k \in Keys, NEW v \in Versions, NEW d \in Docs \cup {None}
    PROVE  /\ PutDSL(k, v, d) => BlobTypeOK'
           /\ PutBundle(k, v, d) => BlobTypeOK'
           /\ DeleteDSL(k, v) => BlobTypeOK'
           /\ DeleteBundle(k, v) => BlobTypeOK'
  <1>1. \A e \in Docs \cup {None} : PutDSL(k, v, e) => BlobTypeOK'
    BY DEF BlobTypeOK, Objects, PutDSL
  <1>2. \A e \in Docs \cup {None} : PutBundle(k, v, e) => BlobTypeOK'
    BY DEF BlobTypeOK, Objects, PutBundle
  <1> QED
    BY <1>1, <1>2 DEF DeleteDSL, DeleteBundle

\* What the statements that write leave in the tables.
LEMMA StatementsOK ==
    ASSUME StoreTypeOK, NEW k \in Keys
    PROVE  /\ InsertRuleset(k) => StoreTypeOK'
           /\ RemoveRuleset(k) => StoreTypeOK'
           /\ RemoveDraft(k) => StoreTypeOK'
           /\ \A d \in Docs : WriteDraft(k, d) => StoreTypeOK'
           /\ \A new \in Keys : MoveRuleset(k, new) => StoreTypeOK'
           /\ \A v \in Versions, c \in Checksums : InsertVersion(k, v, c) => StoreTypeOK'
  <1>1. InsertRuleset(k) => StoreTypeOK'
    BY DEF StoreTypeOK, InsertRuleset
  <1>2. RemoveRuleset(k) => StoreTypeOK'
    BY DEF StoreTypeOK, RemoveRuleset
  <1>3. RemoveDraft(k) => StoreTypeOK'
    BY DEF StoreTypeOK, RemoveDraft
  <1>4. \A d \in Docs : WriteDraft(k, d) => StoreTypeOK'
    BY DEF StoreTypeOK, WriteDraft
  <1>5. \A new \in Keys : MoveRuleset(k, new) => StoreTypeOK'
    BY DEF StoreTypeOK, MoveRuleset
  <1>6. \A v \in Versions, c \in Checksums : InsertVersion(k, v, c) => StoreTypeOK'
    BY DEF StoreTypeOK, InsertVersion
  <1> QED
    BY <1>1, <1>2, <1>3, <1>4, <1>5, <1>6

LEMMA ChecksumOK == \A d \in Docs : Checksum(d) \in Checksums
  BY DEF Checksums

\* TypeOK in the parts the lemmas speak of.
LEMMA TypeParts ==
    /\ TypeOK <=> StoreTypeOK /\ BlobTypeOK /\ CallsOK /\ MutexesOK
    /\ TypeOK' <=> StoreTypeOK' /\ BlobTypeOK' /\ CallsOK' /\ MutexesOK'
  BY DEF TypeOK, CallsOK, MutexesOK

LEMMA UnchangedParts ==
    /\ StoreTypeOK /\ UNCHANGED storeVars => StoreTypeOK'
    /\ BlobTypeOK /\ UNCHANGED blobVars => BlobTypeOK'
    /\ CallsOK /\ UNCHANGED call => CallsOK'
    /\ MutexesOK /\ UNCHANGED mu => MutexesOK'
  BY DEF StoreTypeOK, BlobTypeOK, CallsOK, MutexesOK, storeVars, blobVars

\* Requests that start.
LEMMA ArriveType ==
    ASSUME TypeOK, NEW r \in Requests, Arrive(r)
    PROVE  TypeOK'
  <1> PICK n \in Nodes, k \in Keys :
          \/ UpsertDraft(r, n, k) \/ Rollback(r, n, k) \/ RenameRuleset(r, n, k)
          \/ Publish(r, n, k) \/ GetVersion(r, n, k) \/ GetLatestVersion(r, n, k)
          \/ GetVersionBundle(r, n, k) \/ GetLatestBundle(r, n, k) \/ Evaluate(r, n, k)
    BY DEF Arrive
  <1>1. ASSUME NEW p \in {"up_draft", "rn_tx", "pub_draft", "eval_draft"},
               Start(r, n, k, [Idle EXCEPT !.pc = p])
        PROVE  CallsOK'
    <2> DEFINE c == [Idle EXCEPT !.pc = p]
    <2>1. c \in Calls /\ LocalsSet([c EXCEPT !.node = n, !.key = k])
      BY <1>1 DEF Idle, Calls, LocalsSet, Steps, Staging, Critical, Preparing, Reading, Editing
    <2> QED
      BY <1>1, <2>1, StartOK, TypeParts
  <1>2. ASSUME NEW p \in {"get_dsl", "get_bundle", "eval_dsl"}, NEW v \in Versions,
               Start(r, n, k, [Idle EXCEPT !.pc = p, !.ver = v])
        PROVE  CallsOK'
    <2> DEFINE c == [Idle EXCEPT !.pc = p, !.ver = v]
    <2>1. c \in Calls /\ LocalsSet([c EXCEPT !.node = n, !.key = k])
      BY <1>2 DEF Idle, Calls, LocalsSet, Steps, Staging, Critical, Preparing, Reading, Editing
    <2> QED
      BY <1>2, <2>1, StartOK, TypeParts
  <1>3. CallsOK'
    <2>1. CASE Rollback(r, n, k)
      <3> PICK v \in Versions :
              /\ dsls[k][v] # None
              /\ Start(r, n, k, [Idle EXCEPT !.pc = "rb_upsert", !.ver = v, !.doc = dsls[k][v]])
        BY <2>1 DEF Rollback
      <3> DEFINE c == [Idle EXCEPT !.pc = "rb_upsert", !.ver = v, !.doc = dsls[k][v]]
      <3>1. dsls[k][v] \in Docs
        BY DEF TypeOK, BlobTypeOK, Objects
      <3>2. c \in Calls /\ LocalsSet([c EXCEPT !.node = n, !.key = k])
        BY <3>1 DEF Idle, Calls, LocalsSet, Steps, Staging, Critical, Preparing, Reading, Editing
      <3> QED
        BY <3>2, StartOK, TypeParts
    <2>2. CASE UpsertDraft(r, n, k) \/ RenameRuleset(r, n, k) \/ Publish(r, n, k)
      BY <2>2, <1>1 DEF UpsertDraft, RenameRuleset, Publish
    <2>3. CASE GetVersion(r, n, k) \/ GetLatestVersion(r, n, k)
               \/ GetVersionBundle(r, n, k) \/ GetLatestBundle(r, n, k)
      BY <2>3, <1>2 DEF GetVersion, GetLatestVersion, GetVersionBundle, GetLatestBundle,
                        StartRead, VersionRows, LatestVersion
    <2>4. CASE Evaluate(r, n, k)
      BY <2>4, <1>1, <1>2 DEF Evaluate, VersionRows, LatestVersion
    <2> QED
      BY <2>1, <2>2, <2>3, <2>4
  <1>4. UNCHANGED storeVars /\ UNCHANGED blobVars /\ UNCHANGED mu
    BY DEF UpsertDraft, Rollback, RenameRuleset, Publish, GetVersion, GetLatestVersion,
           GetVersionBundle, GetLatestBundle, Evaluate, StartRead
  <1> QED
    BY <1>3, <1>4, TypeParts, UnchangedParts
\* Requests that edit a ruleset or a draft.
LEMMA EditType ==
    ASSUME TypeOK, NEW r \in Requests,
           UpsertDraftWrite(r) \/ RollbackWrite(r) \/ RenameCommit(r)
    PROVE  TypeOK'
  <1>1. call[r].key \in Keys /\ (At(r, "rb_upsert") => call[r].doc \in Docs)
    BY DEF TypeOK, LocalsSet, At, UpsertDraftWrite, RollbackWrite, RenameCommit
  <1>2. StoreTypeOK'
    <2>1. CASE UpsertDraftWrite(r)
      BY <1>1, <2>1, StatementsOK, TypeParts DEF UpsertDraftWrite
    <2>2. CASE RollbackWrite(r)
      BY <1>1, <2>2, StatementsOK, TypeParts DEF RollbackWrite
    <2>3. CASE RenameCommit(r)
      BY <1>1, <2>3, StatementsOK, TypeParts, UnchangedParts DEF RenameCommit
    <2> QED
      BY <2>1, <2>2, <2>3
  <1>3. CallsOK'
    BY ReturnOK, TypeParts DEF UpsertDraftWrite, RollbackWrite, RenameCommit
  <1>4. UNCHANGED blobVars /\ UNCHANGED mu
    BY DEF UpsertDraftWrite, RollbackWrite, RenameCommit
  <1> QED
    BY <1>2, <1>3, <1>4, TypeParts, UnchangedParts

\* Requests that read, and answers.
LEMMA ReadType ==
    ASSUME TypeOK, NEW r \in Requests, Fetch(r) \/ Reply(r)
    PROVE  TypeOK'
  <1>1. CallsOK'
    <2>1. CASE Return(r)
      BY <2>1, ReturnOK, TypeParts
    <2>2. CASE Fetch(r) /\ Found(r) # None
               /\ call' = [call EXCEPT ![r].pc = "reply", ![r].doc = Found(r)]
      <3> DEFINE c == [call[r] EXCEPT !.pc = "reply", !.doc = Found(r)]
      <3>1. Found(r) \in Docs \cup {None}
        <4>1. call[r].pc \in Reading /\ call[r].key \in Keys
              /\ (call[r].pc # "eval_draft" => call[r].ver \in Versions)
          BY <2>2 DEF Fetch, TypeOK, LocalsSet, Reading
        <4> QED
          BY <4>1 DEF Found, TypeOK, StoreTypeOK, BlobTypeOK, Objects
      <3>2. c \in Calls /\ LocalsSet(c)
        BY <2>2, <3>1 DEF TypeOK, Calls, LocalsSet, Steps, Staging, Critical, Reading, Fetch
      <3>3. call' = [call EXCEPT ![r] = c]
        BY <2>2
      <3> QED
        BY <3>2, <3>3, UpdateOK, TypeParts
    <2> QED
      BY <2>1, <2>2 DEF Fetch, Reply
  <1>2. UNCHANGED storeVars /\ UNCHANGED blobVars /\ UNCHANGED mu
    BY DEF Fetch, Reply
  <1> QED
    BY <1>1, <1>2, TypeParts, UnchangedParts

\* Publish until it has a version number.
LEMMA PrepareType ==
    ASSUME TypeOK, NEW r \in Requests,
           PublishGetDraft(r) \/ PublishCompare(r) \/ PublishLock(r) \/ PublishNumber(r)
    PROVE  TypeOK'
  <1>1. CASE PublishGetDraft(r)
    <2>1. CASE Return(r)
      BY <1>1, <2>1, ReturnOK, TypeParts, UnchangedParts DEF PublishGetDraft
    <2>2. CASE ~Return(r)
      <3> DEFINE c == [call[r] EXCEPT !.pc = "pub_latest", !.doc = drafts[call[r].key]]
      <3>1. drafts[call[r].key] \in Docs
        BY <1>1, <2>2, ServiceAssumption DEF PublishGetDraft
      <3>2. c \in Calls /\ LocalsSet(c)
        BY <1>1, <3>1 DEF TypeOK, Calls, LocalsSet, Steps, Staging, Critical, Preparing,
                          PublishGetDraft, At
      <3>3. call' = [call EXCEPT ![r] = c]
        BY <1>1, <2>2 DEF PublishGetDraft
      <3>4. CallsOK'
        BY <3>2, <3>3, UpdateOK, TypeParts
      <3> QED
        BY <1>1, <3>4, TypeParts, UnchangedParts DEF PublishGetDraft
    <2> QED
      BY <2>1, <2>2
  <1>2. CASE PublishCompare(r)
    <2>1. LocalsSet([call[r] EXCEPT !.pc = "pub_lock"])
      BY <1>2 DEF TypeOK, Calls, LocalsSet, Staging, Critical, PublishCompare, At
    <2>2. CallsOK'
      BY <1>2, <2>1, GotoOK, ReturnOK, TypeParts DEF PublishCompare, Steps, Preparing
    <2> QED
      BY <1>2, <2>2, TypeParts, UnchangedParts DEF PublishCompare
  <1>3. CASE PublishLock(r)
    <2>1. LocalsSet([call[r] EXCEPT !.pc = "pub_next"])
      BY <1>3 DEF TypeOK, Calls, LocalsSet, Staging, Critical, PublishLock, At
    <2>2. CallsOK'
      BY <1>3, <2>1, GotoOK, TypeParts DEF PublishLock, Steps, Critical
    <2>3. MutexesOK'
      BY <1>3, MutexOK, TypeParts DEF PublishLock, At
    <2> QED
      BY <1>3, <2>2, <2>3, TypeParts, UnchangedParts DEF PublishLock
  <1>4. CASE PublishNumber(r)
    <2>1. CASE Return(r) /\ Unlock(r)
      <3>1. MutexesOK'
        BY <1>4, <2>1, MutexOK, TypeParts DEF PublishNumber, At, Unlock
      <3> QED
        BY <1>4, <2>1, <3>1, ReturnOK, TypeParts, UnchangedParts DEF PublishNumber
    <2>2. CASE UNCHANGED mu /\ \E v \in Versions :
                    call' = [call EXCEPT ![r].pc = "pub_put_dsl", ![r].ver = v]
      <3> PICK v \in Versions : call' = [call EXCEPT ![r].pc = "pub_put_dsl", ![r].ver = v]
        BY <2>2
      <3> DEFINE c == [call[r] EXCEPT !.pc = "pub_put_dsl", !.ver = v]
      <3>1. c \in Calls /\ LocalsSet(c)
        BY <1>4 DEF TypeOK, Calls, LocalsSet, Steps, Staging, Critical, PublishNumber, At
      <3>2. call' = [call EXCEPT ![r] = c]
        OBVIOUS
      <3>3. CallsOK'
        BY <3>1, <3>2, UpdateOK, TypeParts
      <3> QED
        BY <1>4, <2>2, <3>3, TypeParts, UnchangedParts DEF PublishNumber
    <2> QED
      BY <1>4, <2>1, <2>2 DEF PublishNumber
  <1> QED
    BY <1>1, <1>2, <1>3, <1>4
\* Publish once it has a version number: each step moves on or ends.
LEMMA StagingCalls ==
    ASSUME TypeOK, NEW r \in Requests, call[r].pc \in Staging,
           \/ Return(r)
           \/ \E p \in Staging \cup {"reply"} : Goto(r, p)
    PROVE  CallsOK'
  <1>1. CASE Return(r)
    BY <1>1, ReturnOK, TypeParts
  <1>2. ASSUME NEW p \in Staging \cup {"reply"}, Goto(r, p)
        PROVE  CallsOK'
    <2>1. p \in Steps /\ LocalsSet([call[r] EXCEPT !.pc = p])
      BY DEF TypeOK, Calls, LocalsSet, Steps, Staging, Critical
    <2> QED
      BY <1>2, <2>1, GotoOK, TypeParts
  <1> QED
    BY <1>1, <1>2

LEMMA StagingType ==
    ASSUME TypeOK, NEW r \in Requests,
           \/ PublishPutDSL(r) \/ PublishPutBundle(r) \/ PublishUndoPut(r)
           \/ PublishCreate(r) \/ PublishUndoDSL(r) \/ PublishUndoBundle(r)
    PROVE  TypeOK'
  <1>1. call[r].pc \in Staging
    BY DEF Staging, At, PublishPutDSL, PublishPutBundle, PublishUndoPut, PublishCreate,
           PublishUndoDSL, PublishUndoBundle
  <1>2. call[r].key \in Keys /\ call[r].ver \in Versions /\ call[r].doc \in Docs
    BY <1>1 DEF TypeOK, LocalsSet, Staging, Critical
  <1>3. CallsOK'
    BY <1>1, StagingCalls DEF Staging, PublishPutDSL, PublishPutBundle, PublishUndoPut,
                              PublishCreate, PublishUndoDSL, PublishUndoBundle
  <1>4. MutexesOK'
    <2>1. Unlock(r) \/ UNCHANGED mu
      BY DEF PublishPutDSL, PublishPutBundle, PublishUndoPut, PublishCreate,
             PublishUndoDSL, PublishUndoBundle
    <2>2. Unlock(r) => MutexesOK'
      BY <1>1, MutexOK, TypeParts DEF Unlock, Staging
    <2> QED
      BY <2>1, <2>2, TypeParts, UnchangedParts
  <1>5. BlobTypeOK'
    <2>1. BlobTypeOK /\ call[r].doc \in Docs \cup {None}
      BY <1>2, TypeParts
    <2>2. \/ UNCHANGED blobVars
          \/ PutDSL(call[r].key, call[r].ver, call[r].doc)
          \/ PutBundle(call[r].key, call[r].ver, call[r].doc)
          \/ DeleteDSL(call[r].key, call[r].ver)
          \/ DeleteBundle(call[r].key, call[r].ver)
      BY DEF PublishPutDSL, PublishPutBundle, PublishUndoPut, PublishCreate,
             PublishUndoDSL, PublishUndoBundle
    <2> QED
      BY <1>2, <2>1, <2>2, BlobsOK, UnchangedParts
  <1>6. StoreTypeOK'
    <2>1. \/ UNCHANGED storeVars
          \/ InsertVersion(call[r].key, call[r].ver, Checksum(call[r].doc))
      BY DEF PublishPutDSL, PublishPutBundle, PublishUndoPut, PublishCreate,
             PublishUndoDSL, PublishUndoBundle
    <2> QED
      BY <1>2, <2>1, StatementsOK, ChecksumOK, TypeParts, UnchangedParts
  <1> QED
    BY <1>3, <1>4, <1>5, <1>6, TypeParts

\* Faults, and the methods that are one statement.
LEMMA FaultType ==
    ASSUME TypeOK
    PROVE  /\ \A r \in Requests : CallFails(r) => TypeOK'
           /\ \A n \in Nodes : Crash(n) => TypeOK'
           /\ Administer => TypeOK'
  <1>1. ASSUME NEW r \in Requests, CallFails(r)
        PROVE  TypeOK'
    <2>1. CallsOK'
      BY <1>1, ReturnOK, TypeParts DEF CallFails
    <2>2. MutexesOK'
      BY <1>1, MutexOK, TypeParts, UnchangedParts DEF CallFails, Unlock, At
    <2> QED
      BY <1>1, <2>1, <2>2, TypeParts, UnchangedParts DEF CallFails
  <1>2. ASSUME NEW n \in Nodes, Crash(n)
        PROVE  TypeOK'
    <2>1. CallsOK'
      BY <1>2, IdleOK DEF Crash, TypeOK, CallsOK
    <2>2. MutexesOK'
      BY <1>2 DEF Crash, TypeOK, MutexesOK
    <2> QED
      BY <1>2, <2>1, <2>2, TypeParts, UnchangedParts DEF Crash
  <1>3. ASSUME NEW k \in Keys, CreateRuleset(k) \/ DeleteRuleset(k) \/ DeleteDraft(k)
        PROVE  TypeOK'
    <2>1. StoreTypeOK'
      BY <1>3, StatementsOK, TypeParts DEF CreateRuleset, DeleteRuleset, DeleteDraft
    <2> QED
      BY <1>3, <2>1, TypeParts, UnchangedParts DEF CreateRuleset, DeleteRuleset, DeleteDraft
  <1> QED
    BY <1>1, <1>2, <1>3 DEF Administer

LEMMA NextType == TypeOK /\ [SvcNext]_svcVars => TypeOK'
  <1> SUFFICES ASSUME TypeOK, [SvcNext]_svcVars
               PROVE  TypeOK'
    OBVIOUS
  <1>1. CASE UNCHANGED svcVars
    <2>1. UNCHANGED storeVars /\ UNCHANGED blobVars /\ UNCHANGED call /\ UNCHANGED mu
      BY <1>1 DEF svcVars, storeVars, blobVars
    <2> QED
      BY <2>1, TypeParts, UnchangedParts
  <1>2. ASSUME NEW r \in Requests, Advance(r)
        PROVE  TypeOK'
    BY <1>2, EditType, ReadType, PrepareType, StagingType, FaultType DEF Advance
  <1> QED
    BY <1>1, <1>2, ArriveType, PrepareType, FaultType DEF SvcNext

LEMMA InitType == SvcInit => TypeOK
  <1>1. SvcInit => StoreTypeOK /\ BlobTypeOK
    BY DEF SvcInit, StoreInit, StoreTypeOK, BlobInit, BlobTypeOK, Objects
  <1>2. SvcInit => CallsOK /\ MutexesOK
    BY IdleOK DEF SvcInit, CallsOK, MutexesOK
  <1> QED
    BY <1>1, <1>2, TypeParts

\* Every variable keeps its type and every request, in every interleaving and
\* with every fault, has its locals set where it reads them.
THEOREM TypeCorrect == Spec => []TypeOK
  BY InitType, NextType, PTL DEF Spec

-----------------------------------------------------------------------------
(* What a step does to the rows and to the numbers given out *)

\* r inserts the row of the version it is publishing.
Inserts(r) ==
    /\ call[r].pc = "pub_create"
    /\ InsertVersion(call[r].key, call[r].ver, Checksum(call[r].doc))

LEMMA RowStep ==
    ASSUME TypeOK, [SvcNext]_svcVars
    PROVE  UNCHANGED versions \/ \E r \in Requests : Inserts(r)
  <1>1. CASE UNCHANGED svcVars
    BY <1>1 DEF svcVars
  <1>2. CASE Administer
    BY <1>2 DEF Administer, CreateRuleset, DeleteRuleset, DeleteDraft,
                InsertRuleset, RemoveRuleset, RemoveDraft
  <1>3. ASSUME NEW r \in Requests, Arrive(r) \/ PublishLock(r)
        PROVE  UNCHANGED versions
    BY <1>3 DEF Arrive, PublishLock, UpsertDraft, Rollback, RenameRuleset, Publish, GetVersion,
                GetLatestVersion, GetVersionBundle, GetLatestBundle, Evaluate, StartRead, storeVars
  <1>4. ASSUME NEW r \in Requests, Advance(r)
        PROVE  UNCHANGED versions \/ Inserts(r)
    <2>1. CASE PublishCreate(r)
      BY <2>1 DEF PublishCreate, Inserts, At, storeVars
    <2>2. CASE UpsertDraftWrite(r) \/ RollbackWrite(r) \/ RenameCommit(r)
      BY <2>2 DEF UpsertDraftWrite, RollbackWrite, RenameCommit, WriteDraft, MoveRuleset, storeVars
    <2>3. CASE \/ Reply(r) \/ PublishGetDraft(r) \/ PublishCompare(r) \/ PublishNumber(r)
               \/ PublishPutDSL(r) \/ PublishPutBundle(r) \/ PublishUndoPut(r)
               \/ PublishUndoDSL(r) \/ PublishUndoBundle(r) \/ Fetch(r) \/ CallFails(r)
      BY <2>3 DEF Reply, PublishGetDraft, PublishCompare, PublishNumber, PublishPutDSL,
                  PublishPutBundle, PublishUndoPut, PublishUndoDSL, PublishUndoBundle,
                  Fetch, CallFails, storeVars
    <2> QED
      BY <1>4, <2>1, <2>2, <2>3 DEF Advance
  <1>5. ASSUME NEW n \in Nodes, Crash(n)
        PROVE  UNCHANGED versions
    BY <1>5 DEF Crash, storeVars
  <1> QED
    BY <1>1, <1>2, <1>3, <1>4, <1>5 DEF SvcNext

\* A row that exists is never changed, so the rows below a number stay.
LEMMA RowsStay ==
    ASSUME TypeOK, [SvcNext]_svcVars
    PROVE  /\ \A k \in Keys, v \in Versions :
                 versions[k][v] # None => versions'[k][v] = versions[k][v]
           /\ \A k \in Keys, v \in Versions : LowerRows(k, v) => LowerRows(k, v)'
  <1>1. ASSUME NEW k \in Keys, NEW v \in Versions, versions[k][v] # None
        PROVE  versions'[k][v] = versions[k][v]
    <2>1. CASE UNCHANGED versions
      BY <2>1
    <2>2. ASSUME NEW r \in Requests, Inserts(r)
          PROVE  versions'[k][v] = versions[k][v]
      <3>1. call[r].key \in Keys /\ call[r].ver \in Versions
        BY <2>2 DEF Inserts, TypeOK, LocalsSet, Staging
      <3> QED
        BY <1>1, <2>2, <3>1 DEF Inserts, InsertVersion, TypeOK, StoreTypeOK
    <2> QED
      BY <2>1, <2>2, RowStep
  <1> QED
    BY <1>1 DEF LowerRows

\* A request at work on a version number was already, or has just got it.
HasNumber(r) == call[r].pc \in Staging

LEMMA NumberStep ==
    ASSUME TypeOK, [SvcNext]_svcVars, NEW s \in Requests, call'[s].pc \in Staging
    PROVE  /\ call'[s].key = call[s].key
           /\ \/ HasNumber(s) /\ call'[s].ver = call[s].ver
              \/ call'[s].ver \in NextVersionNumber(call[s].key) /\ call[s].pc = "pub_next"
  <1> DEFINE Goal == /\ call'[s].key = call[s].key
                     /\ \/ HasNumber(s) /\ call'[s].ver = call[s].ver
                        \/ /\ call'[s].ver \in NextVersionNumber(call[s].key)
                           /\ call[s].pc = "pub_next"
  <1>1. call \in [Requests -> Calls]
    BY DEF TypeOK
  <1>2. CASE UNCHANGED call
    BY <1>2 DEF HasNumber
  <1>3. CASE UNCHANGED svcVars \/ Administer
    <2>1. UNCHANGED call
      BY <1>3 DEF svcVars, Administer, CreateRuleset, DeleteRuleset, DeleteDraft
    <2> QED
      BY <1>2, <2>1
  <1>4. ASSUME NEW n \in Nodes, Crash(n)
        PROVE  Goal
    BY <1>4 DEF Crash, HasNumber, Idle, Staging
  <1>5. ASSUME NEW r \in Requests, Return(r)
        PROVE  Goal
    BY <1>1, <1>5 DEF Return, HasNumber, Idle, Staging
  <1>6. ASSUME NEW r \in Requests, NEW p \in Steps, Goto(r, p), p \in Staging => HasNumber(r)
        PROVE  Goal
    BY <1>1, <1>6 DEF Goto, HasNumber, Calls
  <1>7. ASSUME NEW r \in Requests, Arrive(r)
        PROVE  Goal
    <2> PICK n \in Nodes, k \in Keys, c \in Calls : c.pc \notin Staging /\ Start(r, n, k, c)
      <3>1. PICK n \in Nodes, k \in Keys :
              \/ UpsertDraft(r, n, k) \/ Rollback(r, n, k) \/ RenameRuleset(r, n, k)
              \/ Publish(r, n, k) \/ GetVersion(r, n, k) \/ GetLatestVersion(r, n, k)
              \/ GetVersionBundle(r, n, k) \/ GetLatestBundle(r, n, k) \/ Evaluate(r, n, k)
        BY <1>7 DEF Arrive
      <3> DEFINE Fresh(c) == c \in Calls /\ c.pc \notin Staging
      <3>2. /\ \A p \in {"up_draft", "rn_tx", "pub_draft", "eval_draft"} :
                  Fresh([Idle EXCEPT !.pc = p])
            /\ \A p \in {"get_dsl", "get_bundle", "eval_dsl"}, v \in Versions :
                  Fresh([Idle EXCEPT !.pc = p, !.ver = v])
            /\ \A v \in Versions :
                  Fresh([Idle EXCEPT !.pc = "rb_upsert", !.ver = v, !.doc = dsls[k][v]])
        <4>1. \A v \in Versions : dsls[k][v] \in Docs \cup {None}
          BY DEF TypeOK, BlobTypeOK, Objects
        <4> QED
          BY <4>1 DEF Idle, Calls, Steps, Reading, Editing, Preparing, Staging
      <3> HIDE DEF Fresh
      <3>3. CASE UpsertDraft(r, n, k) \/ RenameRuleset(r, n, k) \/ Publish(r, n, k)
        <4>1. \E p \in {"up_draft", "rn_tx", "pub_draft"} : Start(r, n, k, [Idle EXCEPT !.pc = p])
          BY <3>3 DEF UpsertDraft, RenameRuleset, Publish
        <4> QED
          BY <3>2, <4>1 DEF Fresh
      <3>4. CASE Rollback(r, n, k)
        BY <3>2, <3>4 DEF Rollback, Fresh
      <3>5. CASE \/ GetVersion(r, n, k) \/ GetLatestVersion(r, n, k) \/ GetVersionBundle(r, n, k)
                 \/ GetLatestBundle(r, n, k) \/ Evaluate(r, n, k)
        <4>1. \/ \E p \in {"get_dsl", "get_bundle", "eval_dsl"}, v \in Versions :
                    Start(r, n, k, [Idle EXCEPT !.pc = p, !.ver = v])
              \/ Start(r, n, k, [Idle EXCEPT !.pc = "eval_draft"])
          BY <3>5 DEF GetVersion, GetLatestVersion, GetVersionBundle, GetLatestBundle, Evaluate,
                      StartRead, VersionRows, LatestVersion
        <4> QED
          BY <3>2, <4>1 DEF Fresh
      <3> QED
        BY <3>1, <3>3, <3>4, <3>5
    <2> QED
      BY <1>1 DEF Start, HasNumber, Calls
  <1>8. ASSUME NEW r \in Requests, PublishNumber(r)
        PROVE  Goal
    <2>1. CASE Return(r)
      BY <1>5, <2>1
    <2>2. CASE ~Return(r)
      <3> PICK v \in NextVersionNumber(call[r].key) :
               call' = [call EXCEPT ![r].pc = "pub_put_dsl", ![r].ver = v]
        BY <1>8, <2>2 DEF PublishNumber
      <3> QED
        BY <1>1, <1>8 DEF PublishNumber, At, HasNumber, Calls
    <2> QED
      BY <2>1, <2>2
  <1>9. ASSUME NEW r \in Requests, Advance(r) \/ PublishLock(r), ~PublishNumber(r)
        PROVE  Goal
    <2>1. CASE Return(r)
      BY <1>5, <2>1
    <2>2. CASE \/ PublishCompare(r) \/ PublishLock(r) \/ PublishPutDSL(r) \/ PublishPutBundle(r)
               \/ PublishCreate(r) \/ PublishUndoDSL(r)
      <3>1. Return(r) \/ \E p \in Steps : Goto(r, p) /\ (p \in Staging => HasNumber(r))
        BY <2>2 DEF PublishCompare, PublishLock, PublishPutDSL, PublishPutBundle, PublishCreate,
              PublishUndoDSL, HasNumber, At, Steps, Critical, Staging, Preparing
      <3> QED
        BY <1>5, <1>6, <3>1
    <2>3. CASE (PublishGetDraft(r) \/ Fetch(r)) /\ ~Return(r)
      BY <1>1, <2>3 DEF PublishGetDraft, Fetch, HasNumber, Staging, Calls
    <2> QED
      BY <1>9, <2>1, <2>2, <2>3 DEF Advance, Reply, UpsertDraftWrite, RollbackWrite, RenameCommit,
            PublishUndoPut, PublishUndoBundle, CallFails
  <1> QED
    BY <1>3, <1>4, <1>7, <1>8, <1>9 DEF SvcNext

-----------------------------------------------------------------------------
(* Invariance and refinement *)

\* The number after the latest row of a key without gaps has every row below it.
LEMMA NextHasLower ==
    ASSUME NEW k \in Keys, \A v \in VersionRows(k) : LowerRows(k, v),
           NEW n \in NextVersionNumber(k)
    PROVE  LowerRows(k, n)
  <1>1. CASE VersionRows(k) = {}
    BY <1>1, DataAssumption DEF NextVersionNumber, LowerRows, Versions
  <1>2. CASE VersionRows(k) # {}
    <2> PICK m \in LatestVersion(k) : n = m + 1
      BY <1>2 DEF NextVersionNumber
    <2>1. m \in VersionRows(k) /\ m \in Versions
      BY DEF LatestVersion, VersionRows
    <2>2. \A w \in Versions : w < n => w = m \/ w < m
      BY <2>1, DataAssumption DEF Versions
    <2> QED
      BY <2>1, <2>2 DEF LowerRows, VersionRows
  <1> QED
    BY <1>1, <1>2

LEMMA AppendNext == AppendInv /\ [SvcNext]_svcVars => AppendInv'
  <1> SUFFICES ASSUME AppendInv, [SvcNext]_svcVars
               PROVE  AppendInv'
    OBVIOUS
  <1>1. TypeOK /\ TypeOK'
    BY NextType DEF AppendInv
  <1>2. ASSUME NEW k \in Keys, NEW v \in VersionRows(k)'
        PROVE  LowerRows(k, v)'
    <2>1. CASE v \in VersionRows(k)
      BY <1>1, <2>1, RowsStay DEF AppendInv, VersionRows
    <2>2. CASE v \notin VersionRows(k)
      <3> PICK r \in Requests : Inserts(r)
        BY <1>1, <1>2, <2>2, RowStep DEF VersionRows
      <3>1. call[r].key \in Keys /\ call[r].ver \in Versions
        BY <1>1 DEF Inserts, TypeOK, LocalsSet, Staging
      <3>2. k = call[r].key /\ v = call[r].ver
        BY <1>1, <1>2, <2>2, <3>1 DEF Inserts, InsertVersion, VersionRows, TypeOK, StoreTypeOK
      <3>3. LowerRows(k, v)
        BY <3>2 DEF AppendInv, Inserts, Staging
      <3> QED
        BY <1>1, <3>1, <3>2, <3>3, RowsStay
    <2> QED
      BY <2>1, <2>2
  <1>3. ASSUME NEW s \in Requests, call'[s].pc \in Staging
        PROVE  LowerRows(call[s].key, call[s].ver)'
    <2> DEFINE k == call'[s].key
               v == call'[s].ver
    <2>1. k \in Keys /\ v \in Versions
      BY <1>1, <1>3 DEF TypeOK, LocalsSet, Staging
    <2>2. LowerRows(k, v)
      BY <1>1, <1>3, <2>1, NumberStep, NextHasLower DEF AppendInv, HasNumber
    <2>3. \A x \in Keys, y \in Versions : LowerRows(x, y) => LowerRows(x, y)'
      BY <1>1, RowsStay
    <2> QED
      BY <2>1, <2>2, <2>3 DEF LowerRows
  <1> QED
    BY <1>1, <1>2, <1>3 DEF AppendInv

LEMMA AppendInit == SvcInit => AppendInv
  BY InitType DEF SvcInit, StoreInit, AppendInv, VersionRows, Idle, Staging

LEMMA RowsInit == SvcInit => Rows!Init
  BY DEF SvcInit, StoreInit, Rows!Init, Versions

\* An INSERT of a version row appends to the abstract registry.
LEMMA RowsNext == AppendInv /\ [SvcNext]_svcVars => [Rows!Next]_versions
  <1> SUFFICES ASSUME AppendInv, [SvcNext]_svcVars, NEW r \in Requests, Inserts(r)
               PROVE  Rows!Next
    BY RowStep DEF AppendInv
  <1> DEFINE c == call[r]
  <1>1. c.key \in Keys /\ c.ver \in 1 .. MaxVersion /\ Checksum(c.doc) \in Checksums
    BY ChecksumOK DEF AppendInv, TypeOK, LocalsSet, Inserts, Staging, Critical, Versions
  <1>2. LowerRows(c.key, c.ver)
    BY DEF AppendInv, Inserts, Staging
  <1>3. Rows!Append(c.key, c.ver, Checksum(c.doc))
    BY <1>1, <1>2, DataAssumption DEF Rows!Append, Inserts, InsertVersion, LowerRows, Versions
  <1> QED
    BY <1>1, <1>3 DEF Rows!Next

\* The invariant holds with any number of processes and with every fault.
THEOREM AppendInvariant == Spec => []AppendInv
  BY AppendInit, AppendNext, PTL DEF Spec

\* Version rows are numbered from 1 without a gap, are only ever appended, and
\* never change: the datastore implements PublishedVersions, whatever the
\* number of processes, the interleaving of their requests and the faults.
THEOREM RowsImplement == Spec => RowsAppendOnly
  BY AppendInvariant, RowsInit, RowsNext, PTL DEF Spec, RowsAppendOnly, Rows!Spec
=============================================================================
