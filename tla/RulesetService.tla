--------------------------- MODULE RulesetService ---------------------------
(***************************************************************************)
(* The ruleset service (service.RulesetService) over the datastore and the *)
(* blob store: concurrent HTTP requests, served by one or several rulekitd *)
(* processes that share both stores.                                       *)
(*                                                                         *)
(* A request is a goroutine.  It runs one service method, and each call    *)
(* the method makes to a store, and the taking of the publish mutex, is a  *)
(* step: between two of them any other request may run.  The first store   *)
(* call of a method is the step that starts the request; a first call that *)
(* already decides the answer is an error leaves no trace and has no       *)
(* action.  Local computation joins the call before it.                    *)
(***************************************************************************)
EXTENDS RulesetStore, BlobStore

CONSTANTS
    Nodes,        \* rulekitd processes
    Requests,     \* slots for concurrent requests
    Publishable,  \* the documents that pass dsl.Validate, not only ValidateDraft
    Operations,   \* the operations clients issue
    Faults        \* the faults that occur

ASSUME ServiceAssumption ==
    /\ Publishable \subseteq Docs
    /\ None \notin Requests \cup Nodes
    /\ Operations \subseteq {"create", "delete", "rename", "upsert", "delete_draft",
                             "publish", "rollback", "get", "evaluate"}
    \* "call": a store call fails without effect; "latest": the query for the
    \* latest version fails in Publish, which drops the error; "put_applied": a
    \* put takes effect and is reported as failed; "commit_applied": the same
    \* of the INSERT of a version; "delete": a clean-up delete fails; "crash":
    \* a process stops (or is stopped) and restarts.
    /\ Faults \subseteq {"call", "latest", "put_applied", "commit_applied", "delete", "crash"}

VARIABLES
    call,  \* request -> where it is and what its locals hold
    mu     \* process -> key -> request that holds the publish mutex, or None

svcVars == <<rulesets, drafts, versions, dsls, bundles, call, mu>>

Reading == {"get_dsl", "get_bundle", "eval_dsl", "eval_draft"}
Editing == {"rb_upsert", "up_draft", "rn_tx"}
\* Publish before it has the mutex, and while it has it.
Preparing == {"pub_draft", "pub_latest", "pub_lock"}
Staging == {"pub_put_dsl", "pub_put_bundle", "pub_undo_put",
            "pub_create", "pub_undo_dsl", "pub_undo_bundle"}
Critical == {"pub_next"} \cup Staging
Steps == {"idle", "reply"} \cup Reading \cup Editing \cup Preparing \cup Critical

Calls == [pc : Steps, node : Nodes \cup {None}, key : Keys \cup {None},
          doc : Docs \cup {None}, ver : Versions \cup {None}]

Idle == [pc |-> "idle", node |-> None, key |-> None, doc |-> None, ver |-> None]

\* What the locals of a request hold when it is at a step.
LocalsSet(c) ==
    /\ c.pc # "idle" => c.node \in Nodes /\ c.key \in Keys
    /\ c.pc \in Staging \cup {"get_dsl", "get_bundle", "eval_dsl"} => c.ver \in Versions
    /\ c.pc \in Critical \cup {"pub_latest", "pub_lock", "rb_upsert", "reply"}
          => c.doc \in Docs

\* Every variable holds a value of its type, and a request's locals are set
\* where its next step reads them.
TypeOK ==
    /\ StoreTypeOK
    /\ BlobTypeOK
    /\ call \in [Requests -> Calls]
    /\ \A r \in Requests : LocalsSet(call[r])
    /\ mu \in [Nodes -> [Keys -> Requests \cup {None}]]

SvcInit ==
    /\ StoreInit
    /\ BlobInit
    /\ call = [r \in Requests |-> Idle]
    /\ mu = [n \in Nodes |-> [k \in Keys |-> None]]

-----------------------------------------------------------------------------
(* A request starts, moves on, ends *)

Start(r, n, k, c) ==
    /\ call[r].pc = "idle"
    /\ call' = [call EXCEPT ![r] = [c EXCEPT !.node = n, !.key = k]]

At(r, p) == call[r].pc = p

Goto(r, p) == call' = [call EXCEPT ![r].pc = p]

Return(r) == call' = [call EXCEPT ![r] = Idle]

\* The deferred mu.Unlock() of Publish.
Unlock(r) == mu' = [mu EXCEPT ![call[r].node][call[r].key] = None]

\* The answer goes out: a version with its content, or the document evaluated.
Reply(r) ==
    /\ At(r, "reply")
    /\ Return(r)
    /\ UNCHANGED <<storeVars, blobVars, mu>>

-----------------------------------------------------------------------------
(* Methods that are one statement *)

CreateRuleset(k) ==
    /\ "create" \in Operations
    /\ InsertRuleset(k)
    /\ UNCHANGED <<blobVars, call, mu>>

DeleteRuleset(k) ==
    /\ "delete" \in Operations
    /\ RemoveRuleset(k)
    /\ UNCHANGED <<blobVars, call, mu>>

DeleteDraft(k) ==
    /\ "delete_draft" \in Operations
    /\ RemoveDraft(k)
    /\ UNCHANGED <<blobVars, call, mu>>

-----------------------------------------------------------------------------
(* UpsertDraft: look the ruleset up, then write the draft *)

UpsertDraft(r, n, k) ==
    /\ "upsert" \in Operations
    /\ k \in rulesets
    /\ Start(r, n, k, [Idle EXCEPT !.pc = "up_draft"])
    /\ UNCHANGED <<storeVars, blobVars, mu>>

\* The request's body is first used here, so it is chosen here.
UpsertDraftWrite(r) ==
    /\ At(r, "up_draft")
    /\ \E d \in Docs : WriteDraft(call[r].key, d)
    /\ Return(r)
    /\ UNCHANGED <<blobVars, mu>>

(* Rollback: fetch a DSL object by its number, then write it to the draft.  *)
(* Neither the ruleset nor the version row is looked up.                    *)

Rollback(r, n, k) ==
    /\ "rollback" \in Operations
    /\ \E v \in Versions :
          /\ dsls[k][v] # None
          /\ Start(r, n, k, [Idle EXCEPT !.pc = "rb_upsert", !.ver = v, !.doc = dsls[k][v]])
    /\ UNCHANGED <<storeVars, blobVars, mu>>

RollbackWrite(r) ==
    /\ At(r, "rb_upsert")
    /\ WriteDraft(call[r].key, call[r].doc)
    /\ Return(r)
    /\ UNCHANGED <<blobVars, mu>>

(* RenameRuleset: count the versions outside the transaction, then move. *)

\* Mutant of RenameRuleset: published versions are not counted.
RenameUncounted(r, n, k) ==
    /\ "rename" \in Operations
    /\ Start(r, n, k, [Idle EXCEPT !.pc = "rn_tx"])
    /\ UNCHANGED <<storeVars, blobVars, mu>>

RenameRuleset(r, n, k) ==
    /\ "rename" \in Operations
    /\ VersionRows(k) = {}
    /\ Start(r, n, k, [Idle EXCEPT !.pc = "rn_tx"])
    /\ UNCHANGED <<storeVars, blobVars, mu>>

RenameCommit(r) ==
    /\ At(r, "rn_tx")
    /\ \E new \in Keys :
          \/ MoveRuleset(call[r].key, new)
          \/ ~CanRename(call[r].key, new) /\ UNCHANGED storeVars
    /\ Return(r)
    /\ UNCHANGED <<blobVars, mu>>
-----------------------------------------------------------------------------
(* Publish *)

Publish(r, n, k) ==
    /\ "publish" \in Operations
    /\ k \in rulesets
    /\ Start(r, n, k, [Idle EXCEPT !.pc = "pub_draft"])
    /\ UNCHANGED <<storeVars, blobVars, mu>>

\* Mutant of PublishGetDraft: a missing draft is not noticed.
PublishAnyDraft(r) ==
    /\ At(r, "pub_draft")
    /\ call' = [call EXCEPT ![r].pc = "pub_latest", ![r].doc = drafts[call[r].key]]
    /\ UNCHANGED <<storeVars, blobVars, mu>>

\* The draft must exist and pass the strict validation.
PublishGetDraft(r) ==
    LET d == drafts[call[r].key] IN
    /\ At(r, "pub_draft")
    /\ IF d \in Publishable
       THEN call' = [call EXCEPT ![r].pc = "pub_latest", ![r].doc = d]
       ELSE Return(r)
    /\ UNCHANGED <<storeVars, blobVars, mu>>

\* Mutant of Unchanged: ORDER BY version ASC.
UnchangedSinceFirst(r) ==
    \E v \in VersionRows(call[r].key) \cap {1} :
        versions[call[r].key][v] = Checksum(call[r].doc)

\* ErrNoChanges, decided before the mutex is taken.
Unchanged(r) ==
    \E v \in LatestVersion(call[r].key) :
        versions[call[r].key][v] = Checksum(call[r].doc)

\* Mutant of PublishCompare: a draft equal to the latest version goes on.
PublishEqual(r) ==
    /\ At(r, "pub_latest")
    /\ Goto(r, "pub_lock")
    /\ UNCHANGED <<storeVars, blobVars, mu>>

\* An error of GetLatestVersion other than "no row" is dropped too: the
\* publish then goes on as if there were no version.
PublishCompare(r) ==
    /\ At(r, "pub_latest")
    /\ \/ Unchanged(r) /\ Return(r)
       \/ ~Unchanged(r) /\ Goto(r, "pub_lock")
       \/ "latest" \in Faults /\ Goto(r, "pub_lock")
    /\ UNCHANGED <<storeVars, blobVars, mu>>

\* Mutant of PublishLock: the mutex is not waited for.
PublishNoLock(r) ==
    /\ At(r, "pub_lock")
    /\ mu' = [mu EXCEPT ![call[r].node][call[r].key] = r]
    /\ Goto(r, "pub_next")
    /\ UNCHANGED <<storeVars, blobVars>>

\* The mutex of this process and key; another process has its own.
PublishLock(r) ==
    /\ At(r, "pub_lock")
    /\ mu[call[r].node][call[r].key] = None
    /\ mu' = [mu EXCEPT ![call[r].node][call[r].key] = r]
    /\ Goto(r, "pub_next")
    /\ UNCHANGED <<storeVars, blobVars>>

\* Past MaxVersion the query is taken to fail, which is how the code leaves
\* this step too.
PublishNumber(r) ==
    /\ At(r, "pub_next")
    /\ \E v \in NextVersionNumber(call[r].key) :
          IF v \in Versions
          THEN /\ call' = [call EXCEPT ![r].pc = "pub_put_dsl", ![r].ver = v]
               /\ UNCHANGED mu
          ELSE Return(r) /\ Unlock(r)
    /\ UNCHANGED <<storeVars, blobVars>>

PublishPutDSL(r) ==
    LET c == call[r] IN
    /\ At(r, "pub_put_dsl")
    /\ \/ PutDSL(c.key, c.ver, c.doc) /\ Goto(r, "pub_put_bundle") /\ UNCHANGED mu
       \/ "call" \in Faults /\ UNCHANGED blobVars /\ Return(r) /\ Unlock(r)
       \/ /\ "put_applied" \in Faults
          /\ PutDSL(c.key, c.ver, c.doc)
          /\ Return(r)
          /\ Unlock(r)
    /\ UNCHANGED storeVars

\* Mutant of PublishPutBundle: the error of the put is dropped.
PublishPutBundleUnchecked(r) ==
    /\ At(r, "pub_put_bundle")
    /\ \/ PutBundle(call[r].key, call[r].ver, call[r].doc)
       \/ "call" \in Faults /\ UNCHANGED blobVars
    /\ Goto(r, "pub_create")
    /\ UNCHANGED <<storeVars, mu>>

PublishPutBundle(r) ==
    LET c == call[r] IN
    /\ At(r, "pub_put_bundle")
    /\ \/ PutBundle(c.key, c.ver, c.doc) /\ Goto(r, "pub_create")
       \/ "call" \in Faults /\ UNCHANGED blobVars /\ Goto(r, "pub_undo_put")
       \/ /\ "put_applied" \in Faults
          /\ PutBundle(c.key, c.ver, c.doc)
          /\ Goto(r, "pub_undo_put")
    /\ UNCHANGED <<storeVars, mu>>

\* Mutants of PublishUndoPut: the DSL object stays; the mutex stays locked.
PublishKeepDSL(r) ==
    /\ At(r, "pub_undo_put")
    /\ Return(r)
    /\ Unlock(r)
    /\ UNCHANGED <<storeVars, blobVars>>

PublishKeepLock(r) ==
    /\ At(r, "pub_undo_put")
    /\ DeleteDSL(call[r].key, call[r].ver)
    /\ Return(r)
    /\ UNCHANGED <<storeVars, mu>>

\* The bundle could not be stored: drop the DSL object, whatever the delete says.
PublishUndoPut(r) ==
    /\ At(r, "pub_undo_put")
    /\ \/ DeleteDSL(call[r].key, call[r].ver)
       \/ "delete" \in Faults /\ UNCHANGED blobVars
    /\ Return(r)
    /\ Unlock(r)
    /\ UNCHANGED storeVars

\* The version row makes the version visible; the answer carries its content.
PublishCreate(r) ==
    LET c == call[r] IN
    /\ At(r, "pub_create")
    /\ \/ /\ InsertVersion(c.key, c.ver, Checksum(c.doc))
          /\ Goto(r, "reply")
          /\ Unlock(r)
       \/ /\ versions[c.key][c.ver] # None \/ "call" \in Faults
          /\ Goto(r, "pub_undo_dsl")
          /\ UNCHANGED <<storeVars, mu>>
       \/ /\ "commit_applied" \in Faults
          /\ InsertVersion(c.key, c.ver, Checksum(c.doc))
          /\ Goto(r, "pub_undo_dsl")
          /\ UNCHANGED mu
    /\ UNCHANGED blobVars

\* The row could not be created: drop both objects, whatever the deletes say.
PublishUndoDSL(r) ==
    /\ At(r, "pub_undo_dsl")
    /\ \/ DeleteDSL(call[r].key, call[r].ver)
       \/ "delete" \in Faults /\ UNCHANGED blobVars
    /\ Goto(r, "pub_undo_bundle")
    /\ UNCHANGED <<storeVars, mu>>

PublishUndoBundle(r) ==
    /\ At(r, "pub_undo_bundle")
    /\ \/ DeleteBundle(call[r].key, call[r].ver)
       \/ "delete" \in Faults /\ UNCHANGED blobVars
    /\ Return(r)
    /\ Unlock(r)
    /\ UNCHANGED storeVars

-----------------------------------------------------------------------------
(* Reads: the version row first, then the object it names *)

StartRead(r, n, k, v, p) ==
    /\ "get" \in Operations
    /\ Start(r, n, k, [Idle EXCEPT !.pc = p, !.ver = v])
    /\ UNCHANGED <<storeVars, blobVars, mu>>

GetVersion(r, n, k) == \E v \in VersionRows(k) : StartRead(r, n, k, v, "get_dsl")

GetLatestVersion(r, n, k) == \E v \in LatestVersion(k) : StartRead(r, n, k, v, "get_dsl")

\* Mutant of GetVersionBundle: the object is served without looking for a row.
GetAnyBundle(r, n, k) == \E v \in Versions : StartRead(r, n, k, v, "get_bundle")

GetVersionBundle(r, n, k) == \E v \in VersionRows(k) : StartRead(r, n, k, v, "get_bundle")

GetLatestBundle(r, n, k) == \E v \in LatestVersion(k) : StartRead(r, n, k, v, "get_bundle")

\* Mutant of Evaluate: a draft is preferred.
EvaluateDraftFirst(r, n, k) ==
    /\ "evaluate" \in Operations
    /\ Start(r, n, k, [Idle EXCEPT !.pc = "eval_draft"])
    /\ UNCHANGED <<storeVars, blobVars, mu>>

\* The latest version if there is one, else the draft.
Evaluate(r, n, k) ==
    /\ "evaluate" \in Operations
    /\ \/ \E v \in LatestVersion(k) : Start(r, n, k, [Idle EXCEPT !.pc = "eval_dsl", !.ver = v])
       \/ LatestVersion(k) = {} /\ Start(r, n, k, [Idle EXCEPT !.pc = "eval_draft"])
    /\ UNCHANGED <<storeVars, blobVars, mu>>

\* What the second read of a request finds: a document, or None.
Found(r) ==
    LET c == call[r] IN
    CASE c.pc \in {"get_dsl", "eval_dsl"} -> dsls[c.key][c.ver]
      [] c.pc = "get_bundle" -> bundles[c.key][c.ver]
      [] OTHER -> drafts[c.key]

Fetch(r) ==
    /\ call[r].pc \in Reading
    /\ IF Found(r) = None \/ (At(r, "eval_draft") /\ Found(r) \notin Publishable)
       THEN Return(r)
       ELSE call' = [call EXCEPT ![r].pc = "reply", ![r].doc = Found(r)]
    /\ UNCHANGED <<storeVars, blobVars, mu>>

-----------------------------------------------------------------------------
(* Faults *)

\* A call whose failure only ends the request.
CallFails(r) ==
    /\ "call" \in Faults
    /\ \/ call[r].pc \in Reading \cup Editing \cup {"pub_draft"} /\ UNCHANGED mu
       \/ At(r, "pub_next") /\ Unlock(r)
    /\ Return(r)
    /\ UNCHANGED <<storeVars, blobVars>>

\* Process n stops between two steps of its requests and starts again: its
\* requests and its mutexes are gone.
Crash(n) ==
    /\ "crash" \in Faults
    /\ call' = [r \in Requests |-> IF call[r].node = n THEN Idle ELSE call[r]]
    /\ mu' = [mu EXCEPT ![n] = [k \in Keys |-> None]]
    /\ UNCHANGED <<storeVars, blobVars>>

-----------------------------------------------------------------------------
(* The service *)

Arrive(r) ==
    \E n \in Nodes, k \in Keys :
        \/ UpsertDraft(r, n, k)
        \/ Rollback(r, n, k)
        \/ RenameRuleset(r, n, k)
        \/ Publish(r, n, k)
        \/ GetVersion(r, n, k)
        \/ GetLatestVersion(r, n, k)
        \/ GetVersionBundle(r, n, k)
        \/ GetLatestBundle(r, n, k)
        \/ Evaluate(r, n, k)

\* The steps of a request that wait for no other request.
Advance(r) ==
    \/ Reply(r)
    \/ UpsertDraftWrite(r)
    \/ RollbackWrite(r)
    \/ RenameCommit(r)
    \/ PublishGetDraft(r)
    \/ PublishCompare(r)
    \/ PublishNumber(r)
    \/ PublishPutDSL(r)
    \/ PublishPutBundle(r)
    \/ PublishUndoPut(r)
    \/ PublishCreate(r)
    \/ PublishUndoDSL(r)
    \/ PublishUndoBundle(r)
    \/ Fetch(r)
    \/ CallFails(r)

Administer ==
    \E k \in Keys : CreateRuleset(k) \/ DeleteRuleset(k) \/ DeleteDraft(k)

SvcNext ==
    \/ Administer
    \/ \E r \in Requests : Arrive(r) \/ Advance(r) \/ PublishLock(r)
    \/ \E n \in Nodes : Crash(n)

Spec == SvcInit /\ [][SvcNext]_svcVars

\* A goroutine that can run does run, and Go's sync.Mutex hands the lock to the
\* longest waiter after 1 ms of starvation: a request that waits is not passed
\* over for ever.
Fairness ==
    \A r \in Requests : WF_svcVars(Advance(r)) /\ SF_svcVars(PublishLock(r))

FairSpec == Spec /\ Fairness
=============================================================================
