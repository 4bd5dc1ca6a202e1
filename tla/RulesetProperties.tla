------------------------- MODULE RulesetProperties --------------------------
(***************************************************************************)
(* What the ruleset service promises, and under which circumstances: the   *)
(* runs say which promise holds with one process, with several, with one   *)
(* client at a time, and which one the code breaks.                        *)
(***************************************************************************)
EXTENDS RulesetService, FiniteSets

PublishingVersion(r, k, v) ==
    call[r].pc \in Staging /\ call[r].key = k /\ call[r].ver = v

-----------------------------------------------------------------------------
(* Published versions *)

\* A version that has a row can be served: both of its objects are there, and
\* both hold the document whose checksum the row records.  This is what the
\* order of Publish's writes and of its clean-ups is for.
PublishedServable ==
    \A k \in Keys : \A v \in VersionRows(k) :
        /\ dsls[k][v] # None /\ versions[k][v] = Checksum(dsls[k][v])
        /\ bundles[k][v] = dsls[k][v]

\* An answer with the content of a version (Publish, GetVersion, the bundles,
\* Evaluate), put together from two reads or writes of two stores, carries the
\* content whose checksum the version's row records.
ServedIsPublished ==
    \A r \in Requests :
        LET c == call[r] IN
        At(r, "reply") /\ c.ver # None => versions[c.key][c.ver] = Checksum(c.doc)

\* While a publish writes or removes the objects of a version number, no row
\* and no other publish has that number.
StagedVersionsFree ==
    \A r \in Requests :
        LET c == call[r] IN
        c.pc \in Staging =>
            /\ versions[c.key][c.ver] = None
            /\ \A s \in Requests : PublishingVersion(s, c.key, c.ver) => s = r

\* A publish that fails leaves nothing behind: an object belongs to a version
\* row or to a publish still at work on it.
NoResidue ==
    \A k \in Keys, v \in Versions :
        dsls[k][v] # None \/ bundles[k][v] # None =>
            \/ versions[k][v] # None
            \/ \E r \in Requests : PublishingVersion(r, k, v)

\* ErrNoChanges: a version differs from the one published before it.
ConsecutiveVersionsDiffer ==
    \A k \in Keys : \A v, w \in VersionRows(k) :
        w = v + 1 => versions[k][w] # versions[k][v]

\* The comparison with the latest version may be stale when the row is
\* inserted, by as much as other requests insert meanwhile and no more: however
\* many processes share the stores, and whatever fails but the comparison's own
\* query, no content stands in more versions in a row than there are requests
\* at a time (GetLatestVersion and ErrNoChanges in Publish).
RepeatsBounded ==
    \A k \in Keys : \A v, w \in VersionRows(k) :
        (\A u \in v..w : versions[k][u] = versions[k][w]) => w - v < Cardinality(Requests)

\* The version rows, read as content by their checksums, are an append-only
\* list per key, whatever the processes, the interleaving and the faults.
Rows == INSTANCE PublishedVersions WITH registry <- versions, Contents <- Checksums

RowsAppendOnly == Rows!Spec

\* What clients can read under a version number is an append-only list too:
\* the document of every version, once published, stays what it was.
Readable == [k \in Keys |-> [v \in Versions |->
                IF versions[k][v] = None THEN None ELSE dsls[k][v]]]

Content == INSTANCE PublishedVersions WITH registry <- Readable, Contents <- Docs

ContentAppendOnly == Content!Spec

-----------------------------------------------------------------------------
(* Why version rows are an append-only list with any number of processes *)

\* Every version number below v has a row.
LowerRows(k, v) == \A w \in Versions : w < v => versions[k][w] # None

\* No gap below a row, nor below the number a publish has been given.
AppendInv ==
    /\ TypeOK
    /\ \A k \in Keys : \A v \in VersionRows(k) : LowerRows(k, v)
    /\ \A r \in Requests : call[r].pc \in Staging => LowerRows(call[r].key, call[r].ver)

\* What failed publishes leave behind, with whatever faults and processes, does
\* not pile up: every number below an object has a row, so an object without a
\* row has the number that the next publish of the key is given and overwrites.
LeftoversAreNext ==
    \A k \in Keys, v \in Versions :
        dsls[k][v] # None \/ bundles[k][v] # None => LowerRows(k, v)

-----------------------------------------------------------------------------
(* Why a failed publish leaves nothing behind when its clean-ups succeed *)

\* r has stored the object and has yet to create the row or remove the object.
HoldsDSL(r, k, v) ==
    /\ PublishingVersion(r, k, v)
    /\ call[r].pc \in {"pub_put_bundle", "pub_undo_put", "pub_create", "pub_undo_dsl"}

HoldsBundle(r, k, v) ==
    /\ PublishingVersion(r, k, v)
    /\ call[r].pc \in {"pub_create", "pub_undo_dsl", "pub_undo_bundle"}

\* An object without a row has a request that will still see to it.
ResidueInv ==
    /\ TypeOK
    /\ \A k \in Keys, v \in Versions : versions[k][v] = None =>
          /\ dsls[k][v] # None => \E r \in Requests : HoldsDSL(r, k, v)
          /\ bundles[k][v] # None => \E r \in Requests : HoldsBundle(r, k, v)

-----------------------------------------------------------------------------
(* Why published versions stay servable with one process *)

\* A publish holds its mutex from the choice of the version number on, its
\* number has no row, and the objects it has stored are still there; a reader
\* past its first read has seen a row; an answer carries what a row records.
RequestInv(r) ==
    LET c == call[r] IN
    /\ c.pc \in Critical => mu[c.node][c.key] = r
    /\ c.pc \in Staging => versions[c.key][c.ver] = None
    /\ c.pc \in {"pub_put_bundle", "pub_create"} => dsls[c.key][c.ver] = c.doc
    /\ c.pc = "pub_create" => bundles[c.key][c.ver] = c.doc
    /\ c.pc \in {"get_dsl", "get_bundle", "eval_dsl"} => versions[c.key][c.ver] # None
    /\ c.pc = "eval_draft" => c.ver = None
    /\ c.pc = "reply" /\ c.ver # None => versions[c.key][c.ver] = Checksum(c.doc)

\* The inductive invariant of one process without an unacknowledged commit.
PublishInv ==
    /\ TypeOK
    /\ \A r \in Requests : RequestInv(r)
    /\ PublishedServable

-----------------------------------------------------------------------------
(* Rulesets and drafts *)

\* A draft belongs to a ruleset: UpsertDraft refuses a key without one.
DraftHasRuleset == \A k \in Keys : drafts[k] # None => k \in rulesets

\* A ruleset that has published versions is not renamed.
RenameBlockedByVersions ==
    [][\A r \in Requests :
          At(r, "rn_tx") /\ ~At(r, "rn_tx")' /\ rulesets' # rulesets
              => VersionRows(call[r].key) = {}]_svcVars

\* A rename moves drafts and never loses one, not even a draft that a deleted
\* ruleset left under the new key.
DraftsSurviveRename ==
    [][\A r \in Requests :
          At(r, "rn_tx") /\ ~At(r, "rn_tx")' =>
              /\ \A k \in Keys : drafts[k] # None => \E j \in Keys : drafts'[j] = drafts[k]
              /\ Cardinality({k \in Keys : drafts[k] # None})
                    = Cardinality({k \in Keys : drafts'[k] # None})]_svcVars

\* A rollback fetches the content of a version, one that has a row.
RollbackTargetsVersion ==
    \A r \in Requests :
        At(r, "rb_upsert") => versions[call[r].key][call[r].ver] # None

\* Evaluate uses the draft only while the key has no published version.
DraftEvaluatedOnlyUnpublished ==
    [][\A r \in Requests :
          At(r, "eval_draft") /\ At(r, "reply")' => VersionRows(call[r].key) = {}]_svcVars

-----------------------------------------------------------------------------
(* Why writes find the ruleset that was looked up *)

\* What a request looked up and relies on when it writes: the ruleset is still
\* there, no draft and no DSL object is without one.
KeysInv ==
    /\ TypeOK
    /\ DraftHasRuleset
    /\ \A k \in Keys, v \in Versions : dsls[k][v] # None => k \in rulesets
    /\ \A r \in Requests :
          call[r].pc \in {"up_draft", "rb_upsert"} \cup Preparing \cup Critical
              => call[r].key \in rulesets

-----------------------------------------------------------------------------
(* Progress *)

\* Every request ends: none waits for ever for a publish mutex that an error
\* path or a crash left taken.
RequestsEnd == \A r \in Requests : ~At(r, "idle") ~> At(r, "idle")
=============================================================================
