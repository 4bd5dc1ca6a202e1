--------------------------- MODULE PublishProofs ----------------------------
(***************************************************************************)
(* One rulekitd process, and a datastore that never reports a committed    *)
(* INSERT as failed: then every published version can be served, with the  *)
(* content it was published with, whatever the interleaving of requests    *)
(* and whichever puts, deletes and queries fail or processes stop.         *)
(*                                                                         *)
(* The argument: a step of a request changes rows and objects only under   *)
(* the version number it is publishing (Own), and the mutex keeps any      *)
(* other publish of the key out of that step (Exclusive).                  *)
(***************************************************************************)
EXTENDS RulesetServiceProofs

OneProcess == \A m, n \in Nodes : m = n

CommitsAcknowledged == "commit_applied" \notin Faults

\* Row (k, v), if there is one, can be served.
RowServable(k, v) ==
    versions[k][v] # None =>
        /\ dsls[k][v] # None /\ versions[k][v] = Checksum(dsls[k][v])
        /\ bundles[k][v] = dsls[k][v]

\* A step of r leaves alone what belongs to others: their requests, the rows
\* that exist, every row and object but those of the number r is publishing,
\* and the mutexes that others hold.
Own(r) ==
    /\ \A s \in Requests \ {r} : call'[s] = call[s]
    /\ \A k \in Keys, v \in Versions :
          versions[k][v] # None => versions'[k][v] = versions[k][v]
    /\ \A k \in Keys, v \in Versions :
          call[r].pc \notin Staging \/ k # call[r].key \/ v # call[r].ver =>
              /\ versions'[k][v] = versions[k][v]
              /\ dsls'[k][v] = dsls[k][v]
              /\ bundles'[k][v] = bundles[k][v]
    /\ \A n \in Nodes, k \in Keys : mu[n][k] \notin {r, None} => mu'[n][k] = mu[n][k]

-----------------------------------------------------------------------------
(* Non-interference *)

LEMMA ServableParts ==
    /\ PublishedServable <=> \A k \in Keys, v \in Versions : RowServable(k, v)
    /\ PublishedServable' <=> \A k \in Keys, v \in Versions : RowServable(k, v)'
  BY DEF PublishedServable, RowServable, VersionRows

\* Two publishes of a key are never both past the mutex.
LEMMA Exclusive ==
    ASSUME PublishInv, OneProcess, NEW r \in Requests, NEW s \in Requests,
           call[r].pc \in Critical, call[s].pc \in Critical, call[r].key = call[s].key
    PROVE  r = s
  <1>1. mu[call[r].node][call[r].key] = r /\ mu[call[s].node][call[s].key] = s
    BY DEF PublishInv, RequestInv
  <1>2. call[r].node \in Nodes /\ call[s].node \in Nodes
    BY DEF PublishInv, TypeOK, LocalsSet, Critical, Staging
  <1> QED
    BY <1>1, <1>2 DEF OneProcess

\* A step that keeps to its own keeps the invariants of every other request.
LEMMA OthersKept ==
    ASSUME PublishInv, OneProcess, NEW r \in Requests, Own(r),
           NEW s \in Requests, s # r
    PROVE  RequestInv(s)'
  <1> DEFINE c == call[s]
  <1>1. call'[s] = c /\ RequestInv(s) /\ LocalsSet(c)
    BY DEF Own, PublishInv, TypeOK
  <1>2. CASE c.pc \in Critical
    <2>1. c.node \in Nodes /\ c.key \in Keys /\ (c.pc \in Staging => c.ver \in Versions)
      BY <1>1, <1>2 DEF LocalsSet, Critical, Staging
    <2>2. mu'[c.node][c.key] = s
      BY <1>1, <1>2, <2>1, NoneOK DEF Own, RequestInv
    <2>3. CASE c.pc \in Staging
      <3>1. call[r].pc \notin Staging \/ c.key # call[r].key
        BY <1>2, Exclusive DEF Critical
      <3>2. /\ versions'[c.key][c.ver] = versions[c.key][c.ver]
            /\ dsls'[c.key][c.ver] = dsls[c.key][c.ver]
            /\ bundles'[c.key][c.ver] = bundles[c.key][c.ver]
        BY <2>1, <2>3, <3>1 DEF Own
      <3> QED
        BY <1>1, <1>2, <2>2, <2>3, <3>2 DEF RequestInv, Critical, Staging
    <2>4. CASE c.pc \notin Staging
      BY <1>1, <1>2, <2>2, <2>4 DEF RequestInv, Critical, Staging
    <2> QED
      BY <2>3, <2>4
  <1>3. CASE c.pc \in {"get_dsl", "get_bundle", "eval_dsl"}
    <2>1. c.key \in Keys /\ c.ver \in Versions
      BY <1>1, <1>3 DEF LocalsSet
    <2>2. versions'[c.key][c.ver] # None
      BY <1>1, <1>3, <2>1 DEF Own, RequestInv
    <2> QED
      BY <1>1, <1>3, <2>2 DEF RequestInv, Critical, Staging
  <1>4. CASE c.pc = "reply" /\ c.ver # None
    <2>1. c.key \in Keys /\ c.ver \in Versions /\ c.doc \in Docs
      BY <1>1, <1>4 DEF LocalsSet, PublishInv, TypeOK, Calls
    <2>2. versions'[c.key][c.ver] = Checksum(c.doc)
      BY <1>1, <1>4, <2>1, ChecksumOK, NoneOK DEF Own, RequestInv
    <2> QED
      BY <1>1, <1>4, <2>2 DEF RequestInv, Critical, Staging
  <1>5. CASE /\ c.pc \notin Critical
             /\ c.pc \notin {"get_dsl", "get_bundle", "eval_dsl"}
             /\ ~(c.pc = "reply" /\ c.ver # None)
    BY <1>1, <1>5 DEF RequestInv, Critical, Staging
  <1> QED
    BY <1>2, <1>3, <1>4, <1>5

\* So a step of r keeps the invariant if it keeps to its own, keeps r's part,
\* and leaves the number it publishes servable.
LEMMA StepKeeps ==
    ASSUME PublishInv, OneProcess, TypeOK', NEW r \in Requests, Own(r), RequestInv(r)',
           \A k \in Keys, v \in Versions :
              call[r].pc \in Staging /\ k = call[r].key /\ v = call[r].ver => RowServable(k, v)'
    PROVE  PublishInv'
  <1>1. \A s \in Requests : RequestInv(s)'
    BY OthersKept
  <1>2. ASSUME NEW k \in Keys, NEW v \in Versions
        PROVE  RowServable(k, v)'
    <2>1. CASE call[r].pc \in Staging /\ k = call[r].key /\ v = call[r].ver
      BY <2>1
    <2>2. CASE ~(call[r].pc \in Staging /\ k = call[r].key /\ v = call[r].ver)
      <3>1. RowServable(k, v)
        BY DEF PublishInv, PublishedServable, RowServable, VersionRows
      <3> QED
        BY <2>2, <3>1 DEF Own, RowServable
    <2> QED
      BY <2>1, <2>2
  <1> QED
    BY <1>1, <1>2, ServableParts DEF PublishInv
-----------------------------------------------------------------------------
(* One lemma per group of actions *)

\* Steps that write no version row, no object and no mutex.
LEMMA PassiveKeeps ==
    ASSUME PublishInv, OneProcess, TypeOK', NEW r \in Requests,
           \A s \in Requests \ {r} : call'[s] = call[s],
           UNCHANGED <<versions, dsls, bundles, mu>>, RequestInv(r)'
    PROVE  PublishInv'
  <1>1. Own(r)
    BY DEF Own
  <1>2. \A k \in Keys, v \in Versions :
           call[r].pc \in Staging /\ k = call[r].key /\ v = call[r].ver => RowServable(k, v)'
    BY DEF PublishInv, RequestInv, RowServable
  <1> QED
    BY <1>1, <1>2, StepKeeps

LEMMA ReturnKeeps ==
    ASSUME TypeOK, NEW r \in Requests, Return(r)
    PROVE  RequestInv(r)' /\ \A s \in Requests \ {r} : call'[s] = call[s]
  BY DEF TypeOK, Return, RequestInv, Idle, Critical, Staging

LEMMA ArriveKeeps ==
    ASSUME PublishInv, OneProcess, TypeOK', NEW r \in Requests, Arrive(r)
    PROVE  PublishInv'
  <1> PICK n \in Nodes, k \in Keys :
          \/ UpsertDraft(r, n, k) \/ Rollback(r, n, k) \/ RenameRuleset(r, n, k)
          \/ Publish(r, n, k) \/ GetVersion(r, n, k) \/ GetLatestVersion(r, n, k)
          \/ GetVersionBundle(r, n, k) \/ GetLatestBundle(r, n, k) \/ Evaluate(r, n, k)
    BY DEF Arrive
  <1>1. call \in [Requests -> Calls]
    BY DEF PublishInv, TypeOK
  <1>2. UNCHANGED <<versions, dsls, bundles, mu>> /\ \A s \in Requests \ {r} : call'[s] = call[s]
    BY <1>1 DEF UpsertDraft, Rollback, RenameRuleset, Publish, GetVersion, GetLatestVersion,
           GetVersionBundle, GetLatestBundle, Evaluate, StartRead, Start, storeVars, blobVars
  <1>3. RequestInv(r)'
    <2>1. ASSUME NEW p \in {"up_draft", "rn_tx", "pub_draft", "eval_draft"},
                 Start(r, n, k, [Idle EXCEPT !.pc = p])
          PROVE  RequestInv(r)'
      BY <1>1, <2>1 DEF Start, Idle, RequestInv, Critical, Staging
    <2>2. ASSUME NEW p \in {"get_dsl", "get_bundle", "eval_dsl"}, NEW v \in VersionRows(k),
                 Start(r, n, k, [Idle EXCEPT !.pc = p, !.ver = v])
          PROVE  RequestInv(r)'
      <3>1. call'[r] = [pc |-> p, node |-> n, key |-> k, doc |-> None, ver |-> v]
        BY <1>1, <2>2 DEF Start, Idle
      <3>2. versions'[k][v] # None
        BY <1>2, <2>2 DEF VersionRows
      <3> QED
        BY <3>1, <3>2 DEF RequestInv, Critical, Staging
    <2>3. CASE Rollback(r, n, k)
      <3>1. call'[r].pc = "rb_upsert"
        BY <1>1, <2>3 DEF Rollback, Start, Idle
      <3> QED
        BY <3>1 DEF RequestInv, Critical, Staging
    <2>4. CASE UpsertDraft(r, n, k) \/ RenameRuleset(r, n, k) \/ Publish(r, n, k)
      BY <2>4, <2>1 DEF UpsertDraft, RenameRuleset, Publish
    <2>5. CASE GetVersion(r, n, k) \/ GetLatestVersion(r, n, k)
               \/ GetVersionBundle(r, n, k) \/ GetLatestBundle(r, n, k)
      BY <2>5, <2>2 DEF GetVersion, GetLatestVersion, GetVersionBundle, GetLatestBundle,
                        StartRead, LatestVersion
    <2>6. CASE Evaluate(r, n, k)
      BY <2>6, <2>1, <2>2 DEF Evaluate, LatestVersion
    <2> QED
      BY <2>3, <2>4, <2>5, <2>6
  <1> QED
    BY <1>2, <1>3, PassiveKeeps

\* What a reader finds under the number of an existing row is that row's content.
LEMMA FetchKeeps ==
    ASSUME PublishInv, OneProcess, TypeOK', NEW r \in Requests, Fetch(r)
    PROVE  PublishInv'
  <1> DEFINE c == call[r]
  <1>1. CASE Return(r)
    BY <1>1, ReturnKeeps, PassiveKeeps DEF Fetch, PublishInv, storeVars, blobVars
  <1>2. CASE call' = [call EXCEPT ![r].pc = "reply", ![r].doc = Found(r)]
    <2>1. c \in Calls /\ c.pc \in Reading /\ c.key \in Keys
          /\ (c.pc # "eval_draft" => c.ver \in Versions)
      BY DEF Fetch, PublishInv, TypeOK, LocalsSet, Reading
    <2>2. call'[r] = [c EXCEPT !.pc = "reply", !.doc = Found(r)]
      BY <1>2, <2>1 DEF PublishInv, TypeOK
    <2>3. c.ver # None => versions[c.key][c.ver] = Checksum(Found(r))
      <3>1. CASE c.pc = "eval_draft"
        BY <3>1 DEF PublishInv, RequestInv
      <3>2. CASE c.pc # "eval_draft"
        <4>1. RowServable(c.key, c.ver)
          BY <2>1, <3>2 DEF PublishInv, PublishedServable, RowServable, VersionRows
        <4>2. versions[c.key][c.ver] # None
          BY <2>1, <3>2 DEF PublishInv, RequestInv, Reading
        <4>3. Found(r) = dsls[c.key][c.ver] \/ Found(r) = bundles[c.key][c.ver]
          BY <2>1, <3>2 DEF Found, Reading
        <4> QED
          BY <4>1, <4>2, <4>3 DEF RowServable
      <3> QED
        BY <3>1, <3>2
    <2>4. UNCHANGED <<versions, dsls, bundles, mu>>
      BY DEF Fetch, storeVars, blobVars
    <2>5. RequestInv(r)'
      <3>1. /\ call'[r].pc = "reply" /\ call'[r].key = c.key
            /\ call'[r].ver = c.ver /\ call'[r].doc = Found(r)
        BY <2>1, <2>2 DEF Calls
      <3> QED
        BY <2>3, <2>4, <3>1 DEF RequestInv, Critical, Staging
    <2>6. \A s \in Requests \ {r} : call'[s] = call[s]
      BY <1>2 DEF PublishInv, TypeOK
    <2> QED
      BY <2>4, <2>5, <2>6, PassiveKeeps
  <1> QED
    BY <1>1, <1>2 DEF Fetch
\* Edits of rulesets and drafts, and answers.
LEMMA EditKeeps ==
    ASSUME PublishInv, OneProcess, TypeOK', NEW r \in Requests,
           UpsertDraftWrite(r) \/ RollbackWrite(r) \/ RenameCommit(r) \/ Reply(r)
    PROVE  PublishInv'
  <1>1. Return(r) /\ UNCHANGED <<versions, dsls, bundles, mu>>
    BY DEF UpsertDraftWrite, RollbackWrite, RenameCommit, Reply, WriteDraft, MoveRuleset,
           storeVars, blobVars
  <1> QED
    BY <1>1, ReturnKeeps, PassiveKeeps DEF PublishInv

\* A step of a request that holds its mutex: it may unlock it.
LEMMA UnlockOwn ==
    ASSUME PublishInv, NEW r \in Requests, call[r].pc \in Critical,
           UNCHANGED mu \/ Unlock(r)
    PROVE  \A n \in Nodes, k \in Keys : mu[n][k] \notin {r, None} => mu'[n][k] = mu[n][k]
  <1>1. mu[call[r].node][call[r].key] = r /\ mu \in [Nodes -> [Keys -> Requests \cup {None}]]
    BY DEF PublishInv, RequestInv, TypeOK
  <1>2. call[r].node \in Nodes /\ call[r].key \in Keys
    BY DEF PublishInv, TypeOK, LocalsSet, Critical, Staging
  <1> QED
    BY <1>1, <1>2 DEF Unlock

\* A version number that NextVersionNumber returns has no row.
LEMMA NextIsFree ==
    ASSUME NEW k \in Keys, NEW v \in NextVersionNumber(k)
    PROVE  v \notin VersionRows(k)
  <1>1. CASE VersionRows(k) = {}
    BY <1>1
  <1>2. CASE VersionRows(k) # {}
    <2> PICK w \in LatestVersion(k) : v = w + 1
      BY <1>2 DEF NextVersionNumber
    <2>1. w \in Nat /\ \A u \in VersionRows(k) : u <= w
      BY DataAssumption DEF LatestVersion, VersionRows, Versions
    <2> QED
      BY <2>1
  <1> QED
    BY <1>1, <1>2

\* Publish until it has a version number.
LEMMA PrepareKeeps ==
    ASSUME PublishInv, OneProcess, TypeOK', NEW r \in Requests,
           PublishGetDraft(r) \/ PublishCompare(r) \/ PublishLock(r) \/ PublishNumber(r)
    PROVE  PublishInv'
  <1> DEFINE c == call[r]
  <1>1. c \in Calls /\ call \in [Requests -> Calls]
    BY DEF PublishInv, TypeOK
  <1>2. UNCHANGED <<versions, dsls, bundles>>
    BY DEF PublishGetDraft, PublishCompare, PublishLock, PublishNumber, storeVars, blobVars
  <1>3. ASSUME Return(r), UNCHANGED mu
        PROVE  PublishInv'
    BY <1>2, <1>3, ReturnKeeps, PassiveKeeps DEF PublishInv
  <1>4. CASE (PublishGetDraft(r) \/ PublishCompare(r)) /\ ~Return(r)
    <2>1. /\ UNCHANGED mu
          /\ \A s \in Requests \ {r} : call'[s] = call[s]
          /\ call'[r].pc \in {"pub_latest", "pub_lock"}
      <3>1. CASE PublishGetDraft(r)
        BY <1>1, <1>4, <3>1 DEF PublishGetDraft, Calls
      <3>2. CASE PublishCompare(r)
        BY <1>1, <1>4, <3>2 DEF PublishCompare, Goto, Calls
      <3> QED
        BY <1>4, <3>1, <3>2
    <2>2. RequestInv(r)'
      BY <2>1 DEF RequestInv, Critical, Staging
    <2> QED
      BY <1>2, <2>1, <2>2, PassiveKeeps
  <1>5. CASE PublishLock(r)
    <2>1. c.node \in Nodes /\ c.key \in Keys
      BY <1>5 DEF PublishInv, TypeOK, LocalsSet, PublishLock, At
    <2>2. /\ mu' = [mu EXCEPT ![c.node][c.key] = r]
          /\ mu[c.node][c.key] = None
          /\ call' = [call EXCEPT ![r] = [c EXCEPT !.pc = "pub_next"]]
          /\ c.pc = "pub_lock"
      BY <1>5 DEF PublishLock, Goto, At
    <2>3. Own(r)
      <3>1. mu \in [Nodes -> [Keys -> Requests \cup {None}]]
        BY DEF PublishInv, TypeOK
      <3> QED
        BY <1>1, <1>2, <2>1, <2>2, <3>1 DEF Own
    <2>4. RequestInv(r)'
      <3>1. mu'[c.node][c.key] = r
        BY <2>1, <2>2 DEF PublishInv, TypeOK
      <3>2. call'[r].pc = "pub_next" /\ call'[r].node = c.node /\ call'[r].key = c.key
        BY <1>1, <2>2 DEF Calls
      <3> QED
        BY <3>1, <3>2 DEF RequestInv, Critical, Staging
    <2>5. c.pc \notin Staging
      BY <2>2 DEF Staging
    <2> QED
      BY <2>3, <2>4, <2>5, StepKeeps
  <1>6. CASE PublishNumber(r)
    <2>1. c.pc = "pub_next" /\ c.pc \in Critical /\ c.pc \notin Staging
      BY <1>6 DEF PublishNumber, At, Critical, Staging
    <2>2. UNCHANGED mu \/ Unlock(r)
      BY <1>6 DEF PublishNumber
    <2>3. \A s \in Requests \ {r} : call'[s] = call[s]
      BY <1>1, <1>6 DEF PublishNumber, Return
    <2>4. Own(r)
      BY <1>2, <2>1, <2>2, <2>3, UnlockOwn DEF Own
    <2>5. RequestInv(r)'
      <3>1. CASE Return(r)
        BY <3>1, ReturnKeeps DEF PublishInv
      <3>2. CASE ~Return(r)
        <4> PICK v \in Versions : /\ v \in NextVersionNumber(c.key)
                                  /\ call' = [call EXCEPT ![r].pc = "pub_put_dsl", ![r].ver = v]
                                  /\ UNCHANGED mu
          BY <1>6, <3>2 DEF PublishNumber
        <4>1. c.key \in Keys
          BY <2>1 DEF PublishInv, TypeOK, LocalsSet
        <4>2. versions[c.key][v] = None
          BY <4>1, NextIsFree DEF VersionRows
        <4>3. /\ call'[r].pc = "pub_put_dsl" /\ call'[r].node = c.node
              /\ call'[r].key = c.key /\ call'[r].ver = v
          BY <1>1 DEF Calls
        <4>4. mu[c.node][c.key] = r
          BY <2>1 DEF PublishInv, RequestInv
        <4> QED
          BY <1>2, <4>2, <4>3, <4>4 DEF RequestInv, Critical, Staging
      <3> QED
        BY <3>1, <3>2
    <2> QED
      BY <2>1, <2>4, <2>5, StepKeeps
  <1> QED
    BY <1>3, <1>4, <1>5, <1>6 DEF PublishGetDraft, PublishCompare
\* A step of a publish that has a version number keeps to that number.
LEMMA StagingOwn ==
    ASSUME PublishInv, NEW r \in Requests, call[r].pc \in Staging,
           \A s \in Requests \ {r} : call'[s] = call[s],
           UNCHANGED mu \/ Unlock(r),
           \/ UNCHANGED versions
           \/ InsertVersion(call[r].key, call[r].ver, Checksum(call[r].doc)),
           \/ UNCHANGED blobVars
           \/ \E d \in Docs \cup {None} : \/ PutDSL(call[r].key, call[r].ver, d)
                                          \/ PutBundle(call[r].key, call[r].ver, d)
    PROVE  Own(r)
  <1> DEFINE c == call[r]
  <1>1. c.key \in Keys /\ c.ver \in Versions /\ versions[c.key][c.ver] = None
    <2>1. LocalsSet(c) /\ RequestInv(r)
      BY DEF PublishInv, TypeOK
    <2> QED
      BY <2>1 DEF LocalsSet, RequestInv, Staging
  <1>2. \A k \in Keys, v \in Versions :
           k # c.key \/ v # c.ver => versions'[k][v] = versions[k][v]
    BY <1>1 DEF InsertVersion, PublishInv, TypeOK, StoreTypeOK
  <1>3. \A k \in Keys, v \in Versions :
           k # c.key \/ v # c.ver => dsls'[k][v] = dsls[k][v] /\ bundles'[k][v] = bundles[k][v]
    <2>1. dsls \in Objects /\ bundles \in Objects
      BY DEF PublishInv, TypeOK, BlobTypeOK
    <2>2. CASE UNCHANGED blobVars
      BY <2>2 DEF blobVars
    <2>3. CASE \E d \in Docs \cup {None} : PutDSL(c.key, c.ver, d)
      BY <1>1, <2>1, <2>3 DEF PutDSL, Objects
    <2>4. CASE \E d \in Docs \cup {None} : PutBundle(c.key, c.ver, d)
      BY <1>1, <2>1, <2>4 DEF PutBundle, Objects
    <2> QED
      BY <2>2, <2>3, <2>4
  <1>4. \A n \in Nodes, k \in Keys : mu[n][k] \notin {r, None} => mu'[n][k] = mu[n][k]
    BY UnlockOwn DEF Critical
  <1> QED
    BY <1>1, <1>2, <1>3, <1>4 DEF Own
\* Steps of such a publish that create no row.
LEMMA StagingKeeps ==
    ASSUME PublishInv, OneProcess, CommitsAcknowledged, TypeOK', NEW r \in Requests,
           \/ PublishPutDSL(r) \/ PublishPutBundle(r) \/ PublishUndoPut(r)
           \/ PublishUndoDSL(r) \/ PublishUndoBundle(r)
           \/ PublishCreate(r) /\ UNCHANGED versions
    PROVE  PublishInv'
  <1> DEFINE c == call[r]
  <1>1. c \in Calls /\ call \in [Requests -> Calls] /\ dsls \in Objects /\ bundles \in Objects
    BY DEF PublishInv, TypeOK, BlobTypeOK
  <1>2. c.pc \in Staging
    BY DEF Staging, At, PublishPutDSL, PublishPutBundle, PublishUndoPut, PublishCreate,
           PublishUndoDSL, PublishUndoBundle
  <1>3. /\ c.key \in Keys /\ c.ver \in Versions /\ c.doc \in Docs
        /\ versions[c.key][c.ver] = None /\ mu[c.node][c.key] = r
    <2>1. LocalsSet(c) /\ RequestInv(r)
      BY DEF PublishInv, TypeOK
    <2> QED
      BY <1>2, <2>1 DEF LocalsSet, RequestInv, Staging, Critical
  <1>4. UNCHANGED versions
    BY DEF PublishPutDSL, PublishPutBundle, PublishUndoPut, PublishUndoDSL,
           PublishUndoBundle, storeVars
  <1>5. \/ UNCHANGED blobVars
        \/ \E d \in Docs \cup {None} : PutDSL(c.key, c.ver, d) \/ PutBundle(c.key, c.ver, d)
    BY <1>3 DEF PublishPutDSL, PublishPutBundle, PublishUndoPut, PublishUndoDSL,
           PublishUndoBundle, PublishCreate, DeleteDSL, DeleteBundle
  <1>6. \A s \in Requests \ {r} : call'[s] = call[s]
    BY <1>1 DEF PublishPutDSL, PublishPutBundle, PublishUndoPut, PublishUndoDSL,
           PublishUndoBundle, PublishCreate, Return, Goto
  <1>7. UNCHANGED mu \/ Unlock(r)
    BY DEF PublishPutDSL, PublishPutBundle, PublishUndoPut, PublishUndoDSL,
           PublishUndoBundle, PublishCreate
  <1>8. Own(r)
    BY <1>2, <1>4, <1>5, <1>6, <1>7, StagingOwn
  <1>9. RequestInv(r)'
    <2>1. CASE Return(r)
      BY <2>1, ReturnKeeps DEF PublishInv
    <2>2. ASSUME NEW p \in Staging, Goto(r, p), UNCHANGED mu,
                 p = "pub_put_bundle" => dsls'[c.key][c.ver] = c.doc,
                 p = "pub_create" => /\ dsls'[c.key][c.ver] = c.doc
                                     /\ bundles'[c.key][c.ver] = c.doc
          PROVE  RequestInv(r)'
      <3>1. /\ call'[r].pc = p /\ call'[r].node = c.node /\ call'[r].key = c.key
            /\ call'[r].ver = c.ver /\ call'[r].doc = c.doc
        BY <1>1, <2>2 DEF Goto, Calls
      <3> QED
        BY <1>3, <1>4, <2>2, <3>1 DEF RequestInv, Critical, Staging
    <2>3. CASE PublishPutDSL(r)
      <3>1. PutDSL(c.key, c.ver, c.doc) => dsls'[c.key][c.ver] = c.doc
        BY <1>1, <1>3 DEF PutDSL, Objects
      <3> QED
        BY <2>1, <2>2, <2>3, <3>1 DEF PublishPutDSL, Staging
    <2>4. CASE PublishPutBundle(r)
      <3>1. PutBundle(c.key, c.ver, c.doc) =>
               bundles'[c.key][c.ver] = c.doc /\ dsls'[c.key][c.ver] = c.doc
        <4>1. dsls[c.key][c.ver] = c.doc
          BY <2>4 DEF PublishPutBundle, At, PublishInv, RequestInv
        <4> QED
          BY <1>1, <1>3, <4>1 DEF PutBundle, Objects
      <3> QED
        BY <2>2, <2>4, <3>1 DEF PublishPutBundle, Staging
    <2>5. CASE PublishCreate(r) /\ UNCHANGED versions
      <3>1. ~InsertVersion(c.key, c.ver, Checksum(c.doc))
        <4>1. Checksum(c.doc) # None
          BY <1>3, ChecksumOK, NoneOK
        <4> QED
          BY <1>3, <1>4, <4>1 DEF InsertVersion, PublishInv, TypeOK, StoreTypeOK
      <3> QED
        BY <2>2, <2>5, <3>1 DEF PublishCreate, Staging
    <2>6. CASE PublishUndoDSL(r)
      BY <2>2, <2>6 DEF PublishUndoDSL, Staging
    <2> QED
      BY <2>1, <2>3, <2>4, <2>5, <2>6 DEF PublishUndoPut, PublishUndoBundle
  <1>10. \A k \in Keys, v \in Versions :
            c.pc \in Staging /\ k = c.key /\ v = c.ver => RowServable(k, v)'
    BY <1>3, <1>4 DEF RowServable
  <1> QED
    BY <1>8, <1>9, <1>10, StepKeeps
\* The row is created: both of its objects are there.
LEMMA CreateKeeps ==
    ASSUME PublishInv, OneProcess, CommitsAcknowledged, TypeOK', NEW r \in Requests,
           PublishCreate(r), InsertVersion(call[r].key, call[r].ver, Checksum(call[r].doc))
    PROVE  PublishInv'
  <1> DEFINE c == call[r]
  <1>1. c.pc = "pub_create" /\ c \in Calls /\ call \in [Requests -> Calls]
    BY DEF PublishInv, TypeOK, PublishCreate, At
  <1>2. /\ c.key \in Keys /\ c.ver \in Versions /\ c.doc \in Docs
        /\ dsls[c.key][c.ver] = c.doc /\ bundles[c.key][c.ver] = c.doc
    <2>1. LocalsSet(c) /\ RequestInv(r)
      BY DEF PublishInv, TypeOK
    <2> QED
      BY <1>1, <2>1 DEF LocalsSet, RequestInv, Staging, Critical
  <1>3. versions'[c.key][c.ver] = Checksum(c.doc) /\ Checksum(c.doc) # None
    BY <1>2, ChecksumOK, NoneOK DEF InsertVersion, PublishInv, TypeOK, StoreTypeOK
  <1>4. UNCHANGED <<dsls, bundles>>
    BY DEF PublishCreate, blobVars
  <1>5. Goto(r, "reply") /\ Unlock(r)
    <2>1. ~UNCHANGED versions
      BY <1>2, <1>3 DEF InsertVersion
    <2> QED
      BY <2>1 DEF PublishCreate, CommitsAcknowledged, storeVars
  <1>6. Own(r)
    <2>1. \A s \in Requests \ {r} : call'[s] = call[s]
      BY <1>1, <1>5 DEF Goto
    <2> QED
      BY <1>1, <1>4, <1>5, <2>1, StagingOwn DEF Staging, blobVars
  <1>7. RequestInv(r)'
    <2>1. /\ call'[r].pc = "reply" /\ call'[r].key = c.key
          /\ call'[r].ver = c.ver /\ call'[r].doc = c.doc
      BY <1>1, <1>5 DEF Goto, Calls
    <2> QED
      BY <1>3, <2>1 DEF RequestInv, Critical, Staging
  <1>8. \A k \in Keys, v \in Versions :
           c.pc \in Staging /\ k = c.key /\ v = c.ver => RowServable(k, v)'
    <2>1. dsls[c.key][c.ver] # None
      BY <1>2, NoneOK
    <2> QED
      BY <1>2, <1>3, <1>4, <2>1 DEF RowServable
  <1> QED
    BY <1>6, <1>7, <1>8, StepKeeps

\* Calls that fail, processes that stop, and the methods of one statement.
LEMMA CallFailsKeeps ==
    ASSUME PublishInv, OneProcess, TypeOK', NEW r \in Requests, CallFails(r)
    PROVE  PublishInv'
  <1>1. Return(r) /\ UNCHANGED <<versions, dsls, bundles>>
    BY DEF CallFails, storeVars, blobVars
  <1>2. CASE UNCHANGED mu
    BY <1>1, <1>2, ReturnKeeps, PassiveKeeps DEF PublishInv
  <1>3. CASE At(r, "pub_next") /\ Unlock(r)
    <2>1. call[r].pc \in Critical /\ call[r].pc \notin Staging
      BY <1>3 DEF At, Critical, Staging
    <2>2. Own(r)
      BY <1>1, <1>3, <2>1, ReturnKeeps, UnlockOwn DEF Own, PublishInv
    <2> QED
      BY <1>1, <2>1, <2>2, ReturnKeeps, StepKeeps DEF PublishInv
  <1> QED
    BY <1>2, <1>3 DEF CallFails

LEMMA CrashKeeps ==
    ASSUME PublishInv, TypeOK', NEW n \in Nodes, Crash(n)
    PROVE  PublishInv'
  <1>1. UNCHANGED <<versions, dsls, bundles>>
    BY DEF Crash, storeVars, blobVars
  <1>2. ASSUME NEW r \in Requests
        PROVE  RequestInv(r)'
    <2>1. CASE call[r].node = n
      <3>1. call'[r] = Idle
        BY <2>1 DEF Crash
      <3> QED
        BY <3>1 DEF RequestInv, Idle, Critical, Staging
    <2>2. CASE call[r].node # n
      <3>1. call'[r] = call[r] /\ RequestInv(r) /\ LocalsSet(call[r])
        BY <2>2 DEF Crash, PublishInv, TypeOK
      <3>2. call[r].pc \in Critical => mu'[call[r].node][call[r].key] = mu[call[r].node][call[r].key]
        BY <2>2, <3>1 DEF Crash, LocalsSet, Critical, Staging, PublishInv, TypeOK
      <3> QED
        BY <1>1, <3>1, <3>2 DEF RequestInv
    <2> QED
      BY <2>1, <2>2
  <1>3. PublishedServable'
    BY <1>1 DEF PublishInv, PublishedServable, VersionRows
  <1> QED
    BY <1>2, <1>3 DEF PublishInv

\* Steps that leave the requests, the versions and the objects alone.
LEMMA AdministerKeeps ==
    ASSUME PublishInv, TypeOK', UNCHANGED <<call, mu, versions, dsls, bundles>>
    PROVE  PublishInv'
  BY DEF PublishInv, RequestInv, PublishedServable, VersionRows

-----------------------------------------------------------------------------
(* Theorems *)

LEMMA PublishNext ==
    ASSUME OneProcess, CommitsAcknowledged
    PROVE  PublishInv /\ [SvcNext]_svcVars => PublishInv'
  <1> SUFFICES ASSUME PublishInv, [SvcNext]_svcVars
               PROVE  PublishInv'
    OBVIOUS
  <1>1. TypeOK'
    BY NextType DEF PublishInv
  <1>2. CASE UNCHANGED svcVars \/ Administer
    <2>1. UNCHANGED <<call, mu, versions, dsls, bundles>>
      BY <1>2 DEF svcVars, Administer, CreateRuleset, DeleteRuleset, DeleteDraft,
                  InsertRuleset, RemoveRuleset, RemoveDraft, blobVars
    <2> QED
      BY <1>1, <2>1, AdministerKeeps
  <1>3. ASSUME NEW r \in Requests, Arrive(r) \/ Advance(r) \/ PublishLock(r)
        PROVE  PublishInv'
    <2>1. CASE PublishCreate(r)
      <3>1. UNCHANGED versions
            \/ InsertVersion(call[r].key, call[r].ver, Checksum(call[r].doc))
        BY <2>1 DEF PublishCreate, storeVars
      <3> QED
        BY <1>1, <2>1, <3>1, StagingKeeps, CreateKeeps
    <2>2. CASE Arrive(r)
      BY <1>1, <2>2, ArriveKeeps
    <2>3. CASE Fetch(r) \/ CallFails(r)
      BY <1>1, <2>3, FetchKeeps, CallFailsKeeps
    <2>4. CASE UpsertDraftWrite(r) \/ RollbackWrite(r) \/ RenameCommit(r) \/ Reply(r)
      BY <1>1, <2>4, EditKeeps
    <2>5. CASE PublishGetDraft(r) \/ PublishCompare(r) \/ PublishLock(r) \/ PublishNumber(r)
      BY <1>1, <2>5, PrepareKeeps
    <2>6. CASE \/ PublishPutDSL(r) \/ PublishPutBundle(r) \/ PublishUndoPut(r)
               \/ PublishUndoDSL(r) \/ PublishUndoBundle(r)
      BY <1>1, <2>6, StagingKeeps
    <2> QED
      BY <1>3, <2>1, <2>2, <2>3, <2>4, <2>5, <2>6 DEF Advance
  <1>4. ASSUME NEW n \in Nodes, Crash(n)
        PROVE  PublishInv'
    BY <1>1, <1>4, CrashKeeps
  <1> QED
    BY <1>2, <1>3, <1>4 DEF SvcNext

LEMMA PublishInit == SvcInit => PublishInv
  <1> SUFFICES ASSUME SvcInit
               PROVE  PublishInv
    OBVIOUS
  <1>1. \A r \in Requests : RequestInv(r)
    BY DEF SvcInit, RequestInv, Idle, Critical, Staging
  <1>2. PublishedServable
    BY DEF SvcInit, StoreInit, PublishedServable, VersionRows
  <1> QED
    BY <1>1, <1>2, InitType DEF PublishInv

\* The invariant holds for any number of requests, keys and versions.
THEOREM PublishInvariant ==
    ASSUME OneProcess, CommitsAcknowledged
    PROVE  Spec => []PublishInv
  BY PublishInit, PublishNext, PTL DEF Spec

\* With one process and acknowledged commits, every version row has its DSL
\* object and its bundle, and both hold the document the row's checksum names.
THEOREM Servable ==
    ASSUME OneProcess, CommitsAcknowledged
    PROVE  Spec => []PublishedServable
  <1>1. PublishInv => PublishedServable
    BY DEF PublishInv
  <1> QED
    BY <1>1, PublishInvariant, PTL

\* ... and every answer that carries a version carries the content its row
\* records, although row and object come from two stores at two times.
THEOREM Served ==
    ASSUME OneProcess, CommitsAcknowledged
    PROVE  Spec => []ServedIsPublished
  <1>1. PublishInv => ServedIsPublished
    BY DEF PublishInv, RequestInv, ServedIsPublished, At
  <1> QED
    BY <1>1, PublishInvariant, PTL

\* ... and a publish that is writing or removing objects is the only one at
\* work on that number, which has no row.
THEOREM StagedFree ==
    ASSUME OneProcess, CommitsAcknowledged
    PROVE  Spec => []StagedVersionsFree
  <1>1. ASSUME OneProcess
        PROVE  PublishInv => StagedVersionsFree
    <2> SUFFICES ASSUME PublishInv, NEW r \in Requests, call[r].pc \in Staging
                 PROVE  /\ versions[call[r].key][call[r].ver] = None
                        /\ \A s \in Requests :
                              PublishingVersion(s, call[r].key, call[r].ver) => s = r
      BY DEF StagedVersionsFree
    <2>1. versions[call[r].key][call[r].ver] = None
      BY DEF PublishInv, RequestInv
    <2>2. \A s \in Requests : PublishingVersion(s, call[r].key, call[r].ver) => s = r
      BY <1>1, Exclusive DEF PublishingVersion, Critical
    <2> QED
      BY <2>1, <2>2
  <1> QED
    BY <1>1, PublishInvariant, PTL

-----------------------------------------------------------------------------
(* What clients can read *)

\* The rows are append-only (RulesetServiceProofs), each row names the checksum of the
\* object that is read for it (Servable), and a checksum names one document: so
\* the documents are append-only too.
LEMMA ChecksumInjective == \A d, e : Checksum(d) = Checksum(e) => d = e
  BY DEF Checksum

\* A row's checksum determines what is read under its number.
LEMMA ReadableOf ==
    ASSUME PublishInv, NEW k \in Keys, NEW v \in Versions
    PROVE  /\ versions[k][v] = None => Readable[k][v] = None
           /\ versions[k][v] # None => /\ Readable[k][v] \in Docs
                                       /\ Checksum(Readable[k][v]) = versions[k][v]
  <1>1. Readable[k][v] = IF versions[k][v] = None THEN None ELSE dsls[k][v]
    BY DEF Readable
  <1>2. CASE versions[k][v] = None
    BY <1>1, <1>2
  <1>3. CASE versions[k][v] # None
    <2>1. dsls[k][v] # None /\ versions[k][v] = Checksum(dsls[k][v])
      BY <1>3 DEF PublishInv, PublishedServable, VersionRows
    <2>2. dsls[k][v] \in Docs
      BY <2>1 DEF PublishInv, TypeOK, BlobTypeOK, Objects
    <2> QED
      BY <1>1, <1>3, <2>1, <2>2
  <1> QED
    BY <1>2, <1>3

LEMMA ReadableShape ==
    Readable = [k \in Keys |-> [v \in Versions |-> Readable[k][v]]]
  BY DEF Readable

\* Where the row stays as it is, so does the document.
LEMMA SameRowSameContent ==
    ASSUME PublishInv, PublishInv', NEW k \in Keys, NEW v \in Versions,
           versions'[k][v] = versions[k][v]
    PROVE  Readable'[k][v] = Readable[k][v]
  <1>1. /\ versions'[k][v] = None => Readable'[k][v] = None
        /\ versions'[k][v] # None => Checksum(Readable'[k][v]) = versions'[k][v]
    <2>1. Readable'[k][v] = IF versions'[k][v] = None THEN None ELSE dsls'[k][v]
      BY DEF Readable
    <2>2. versions'[k][v] # None => versions'[k][v] = Checksum(dsls'[k][v])
      BY DEF PublishInv, PublishedServable, VersionRows
    <2> QED
      BY <2>1, <2>2
  <1> QED
    BY <1>1, ReadableOf, ChecksumInjective

LEMMA ContentNext ==
    PublishInv /\ PublishInv' /\ AppendInv /\ [SvcNext]_svcVars => [Content!Next]_Readable
  <1> SUFFICES ASSUME PublishInv, PublishInv', AppendInv, [SvcNext]_svcVars
               PROVE  UNCHANGED Readable \/ Content!Next
    OBVIOUS
  <1>1. CASE UNCHANGED versions
    <2>1. \A k \in Keys, v \in Versions : Readable'[k][v] = Readable[k][v]
      BY <1>1, SameRowSameContent
    <2>2. Readable' = [k \in Keys |-> [v \in Versions |-> Readable'[k][v]]]
      BY DEF Readable
    <2> QED
      BY <2>1, <2>2, ReadableShape
  <1>2. ASSUME NEW r \in Requests, Inserts(r)
        PROVE  Content!Next
    <2> DEFINE c == call[r]
    <2>1. c.key \in Keys /\ c.ver \in Versions /\ c.doc \in Docs
      BY <1>2 DEF AppendInv, TypeOK, LocalsSet, Inserts, Staging, Critical
    <2>2. /\ versions[c.key][c.ver] = None
          /\ versions' = [versions EXCEPT ![c.key][c.ver] = Checksum(c.doc)]
      BY <1>2 DEF Inserts, InsertVersion
    <2>3. versions'[c.key][c.ver] = Checksum(c.doc) /\ Checksum(c.doc) # None
      BY <2>1, <2>2, ChecksumOK, NoneOK DEF AppendInv, TypeOK, StoreTypeOK
    <2>4. Readable'[c.key][c.ver] = c.doc
      <3>1. Readable'[c.key][c.ver] = dsls'[c.key][c.ver]
        BY <2>1, <2>3 DEF Readable
      <3>2. versions'[c.key][c.ver] = Checksum(dsls'[c.key][c.ver])
        BY <2>1, <2>3 DEF PublishInv, PublishedServable, VersionRows
      <3> QED
        BY <2>3, <3>1, <3>2, ChecksumInjective
    <2>5. \A k \in Keys, v \in Versions :
             k # c.key \/ v # c.ver => Readable'[k][v] = Readable[k][v]
      <3>1. \A k \in Keys, v \in Versions :
               k # c.key \/ v # c.ver => versions'[k][v] = versions[k][v]
        BY <2>1, <2>2 DEF AppendInv, TypeOK, StoreTypeOK
      <3> QED
        BY <3>1, SameRowSameContent
    <2>6. Readable' = [Readable EXCEPT ![c.key][c.ver] = c.doc]
      <3>1. Readable' = [k \in Keys |-> [v \in Versions |-> Readable'[k][v]]]
        BY DEF Readable
      <3>2. [Readable EXCEPT ![c.key][c.ver] = c.doc]
              = [k \in Keys |-> [v \in Versions |->
                   IF k = c.key /\ v = c.ver THEN c.doc ELSE Readable[k][v]]]
        BY <2>1 DEF Readable
      <3> QED
        BY <2>4, <2>5, <3>1, <3>2, SMTT(30)
    <2>7. Readable[c.key][c.ver] = None
      BY <2>1, <2>2, ReadableOf
    <2>8. \A w \in 1 .. c.ver - 1 : Readable[c.key][w] # None
      <3>1. LowerRows(c.key, c.ver)
        BY <1>2 DEF AppendInv, Inserts, Staging
      <3>2. \A w \in 1 .. c.ver - 1 : w \in Versions /\ w < c.ver
        BY <2>1, DataAssumption DEF Versions
      <3> QED
        BY <2>1, <3>1, <3>2, ReadableOf, NoneOK DEF LowerRows
    <2>9. Content!Append(c.key, c.ver, c.doc)
      BY <2>6, <2>7, <2>8 DEF Content!Append
    <2> QED
      BY <2>1, <2>9 DEF Content!Next, Versions
  <1> QED
    BY <1>1, <1>2, RowStep DEF AppendInv

LEMMA ContentInit == SvcInit => Content!Init
  BY DEF SvcInit, StoreInit, Readable, Content!Init, Versions

\* The document clients read under a version number never changes once the
\* version is published, and numbers are handed out without a gap.
THEOREM ContentImplement ==
    ASSUME OneProcess, CommitsAcknowledged
    PROVE  Spec => ContentAppendOnly
  BY PublishInvariant, AppendInvariant, ContentInit, ContentNext, PTL
     DEF Spec, ContentAppendOnly, Content!Spec
=============================================================================
