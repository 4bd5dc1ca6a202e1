# Verification of rulekit-registry

TLA+ models of the registry in `src/`, TLC runs that check them on small
instances, and theorems that TLAPS proves for every instance.

- [The system](#the-system): inventory of components, state, interactions, hazards
- [The models](#the-models): which module stands for which code
- [What is checked](#what-is-checked): runs, bounds, fairness
- [What the code does otherwise](#what-the-code-does-otherwise): where code and text part
- [What is proved](#what-is-proved)
- [Limits](#limits) and [plan](#plan)

To repeat a run: `tlc -config <run>.cfg <MC module>`, with the MC module that
`PROJECT.json` names for the run; a proof: `tlapm <module>.tla`.

## The system

rulekitd is an HTTP server that stores rule documents (a JSON DSL), publishes
numbered versions of them and evaluates inputs against them.  Several
processes may share one Postgres database and one S3 bucket.

| component | source | state | operations |
|---|---|---|---|
| Ruleset service | `internal/service/ruleset.go` | a map of publish mutexes, one per workspace and key, in each process | create, rename, delete; draft upsert, delete; publish, rollback; version and bundle reads |
| Evaluation | `internal/service/evaluate.go` | none | choose the document, walk the rule graph |
| Datastore | `internal/adapter/store/{sqlite,postgres}` | tables workspaces, rulesets, drafts, versions, users, otp_codes, refresh_tokens, api_keys, user_roles | SQL statements; two transactions (rename, create version) |
| Blob store | `internal/adapter/blob/{fs,s3}` | `dsl.json` and `bundle.zip` per workspace, key and version | put, get, delete |
| Auth service | `internal/service/auth.go` | (datastore) codes, refresh tokens | login, verify, refresh, logout |
| Admin service | `internal/service/admin.go` | (datastore) users, roles, API keys | create, list, delete, revoke |
| Workspace service | `internal/service/workspace.go` | (datastore) workspaces | create, get, list, delete |
| Tokens, roles | `internal/util/jwt.go`, `internal/domain/user.go`, `internal/adapter/http/middleware.go` | none (claims travel in the token) | sign, parse, role of a workspace, authorise |
| DSL | `internal/domain/dsl` | none | parse, validate (strict and draft), canonical form, checksum |
| HTTP | `internal/adapter/http` | none | routes, decoding, status codes, paging |
| Process | `cmd/rulekitd`, `internal/config` | none | wiring, graceful stop within 10 s |
| Mailer | `internal/adapter/mailer` | none | send a code |

**Interaction.**  Every request is a goroutine that calls one service method;
the method calls the datastore and the blob store one call after the other.
Nothing ties these calls together: no transaction spans two calls, and none
spans the two stores.  The only lock is the publish mutex, and it covers the
end of `Publish` only (from `NextVersionNumber` on).

**What is hard.**  A published version is three writes in two stores (DSL
object, bundle, row), each of which may fail, be applied and reported as
failed, or never be reached because the process stops; the failures are undone
by deletes that may fail as well; other requests, of this process or another,
run between any two of them.  Around it, check-then-act pairs (lookup then
draft write, count then rename, compare then publish, row then object) each
leave a window.

The account side has windows of the same kind: a code is read and marked used
by two statements, a refresh token is revoked and its successor created by two
more, users are deleted under requests that have just looked them up, and
access tokens carry roles as they were when they were signed.  The evaluator is
sequential; what is hard there is that it and the validator repeat each other's
rules about types, operators and graphs in two places, and that nothing bounds
the walk.  `PROJECT.json` lists these hazards by line.

**What makes it correct**

| component | properties |
|---|---|
| Published versions | a gapless, append-only list per key; each one can be served, unchanged, as long as its row exists; a version differs from the one before it, or at least no content repeats without bound; a failed publish leaves nothing |
| Drafts, rulesets | a draft belongs to a ruleset; no rename loses a draft or leaves versions behind; a rollback restores a version that exists; a draft is evaluated only before the first publish |
| Service | every request ends |
| Sessions | a code opens one session, or at most as many as requests verify it together; a refresh token is exchanged once, and only after it was revoked; revoked stays revoked; rows belong to users that exist |
| Roles | an access token carries exactly the roles of its subject, as long as these stand unchanged since its request read them; the global role decides |
| DSL, evaluation | a document that validates never makes the evaluator panic, nor fail if its outputs are well typed; the outcome is the one a recursive reading of the graph gives; evaluation ends |

## The models

    RegistryData          keys, documents, version numbers, checksums
      RulesetStore        tables rulesets, drafts, versions: one operator per statement
      BlobStore           the two objects of a version
        RulesetService    requests, publish mutexes, faults; Spec and FairSpec
          RulesetProperties   the promises, the inductive invariants, refinement mappings
            MCRulesets        what the .cfg files check
            RulesetServiceProofs    types; any number of processes: the rows
              PublishProofs         one process: servable, unchanged content
              ResidueProofs         what failed publishes leave behind
                ClientProofs        look-ups, renames, drafts, rollbacks
    PublishedVersions     the abstract registry, instantiated by RulesetProperties

    Access                roles, claims, the middleware's decision
      AccountStore        users, codes, tokens, roles, keys, workspaces: one operator per statement
        AuthService       login, verify, refresh, logout as requests of several steps
          Accounts        admin and workspace services behind the middleware; Spec
            AccountProperties   the promises, the invariant of the rotation, the mapping to Sessions
              MCAccounts        what the .cfg files of the accounts check
              AccountProofs     types, the rotation, codes, rows, roles
    Sessions              refresh-token rotation, instantiated by AccountProperties

    NumberLemmas          least and greatest numbers, sets closed under + 1, for the proofs
                          of ClientProofs, AccountProofs, EvaluationProofs and MeaningProofs

    DslDocument           documents, Validate, ValidateDraft
      RuleEvaluation      the walk of evalDSL; Spec and FairSpec
        EvaluationProperties    the promises
          EvaluationReference   the recursive meaning of a document
            MCEvaluation
            EvaluationProofs    types, no panic, no failure of what is well typed
              MeaningProofs     the walk computes the meaning

The three groups share no state in the code but the role check in front of
every route: the ruleset models take their callers as authorised, and the
document a ruleset stores is, to them, a model value.

### Rulesets

**Data.**  A document (`Docs`) is a model value and stands for all JSON texts
with one canonical form; what reaches a table or an object has been through
`MarshalDeterministic`.  `Publishable` are the documents that pass `Validate`;
the others pass `ValidateDraft` only.  A checksum is an injective function of
the document (SHA-256 without collisions).  A bundle is its document: the
manifest's version and checksum follow from the path and the document.  One
workspace is modelled; keys of two workspaces never share a row, an object or
a mutex.

**State.**

| variable | code |
|---|---|
| `rulesets`, `drafts`, `versions` | the three tables, by key (`sqlite.go:25-48`) |
| `dsls`, `bundles` | the objects `<key>/v<n>/dsl.json`, `bundle.zip` |
| `call[r]` | the goroutine that serves request `r`: the step it is at (`pc`), its process, key, document (`dslBytes`, `draft`) and version number |
| `mu[n][k]` | `pubMu` of process `n`: who holds the mutex of key `k` |

**Steps.**  Each store call, and `mu.Lock()`, is one action; what a method
computes between two calls joins the call before it.  The call that starts a
method is the step that starts the request; when its answer is an error the
method has done nothing and there is no action.  `Publish`, for example:

| action | `Publish` in `ruleset.go` |
|---|---|
| `Publish` | 127-131, the ruleset exists |
| `PublishGetDraft` | 133-149, the draft exists and validates |
| `PublishCompare` | 151-155, `ErrNoChanges`; an error of the query is dropped |
| `PublishLock` | 157-159 |
| `PublishNumber` | 161-179 |
| `PublishPutDSL`, `PublishPutBundle` | 181-187 |
| `PublishUndoPut` | 188-190, the bundle was not stored |
| `PublishCreate` | 192-208, the row, or the error |
| `PublishUndoDSL`, `PublishUndoBundle` | 202-204, the row was not created |

Every path out of the steps after `PublishLock` runs the deferred `Unlock`.
`CreateRuleset`, `DeleteRuleset` and `DeleteDraft` are one statement each and
need no request slot.  Reads that return one query's result (lists,
`GetRuleset`, `GetDraft`) change nothing and feed nothing, and have no action.

**Atomicity of the transactions.**  SQLite runs on a single connection.  Under
Postgres the transactions run at READ COMMITTED: in `CreateVersion` the
primary key repeats the test of the SELECT, and in `RenameRuleset` the
primary keys of both tables decide, so each has the effect of one step.

**Faults** are chosen by the constant `Faults`: `call` (a call fails without
effect), `latest` (the query for the latest version fails in `Publish`, which
drops the error and skips the comparison), `put_applied`, `commit_applied` (a put, or the commit of
`CreateVersion`, takes effect and is reported as failed), `delete` (a clean-up
delete fails; with S3 also the case of a cancelled request, whose context the
clean-up uses), `crash` (a process stops between two steps and restarts with
empty memory; the stores keep their content).

### Accounts

| variable | code |
|---|---|
| `users`, `codes`, `tokens`, `roles`, `keys`, `workspaces` | the tables (`sqlite.go:49-87`); `keys` holds `Void` for a key that was revoked or has expired |
| `expired` | the clock, as far as it matters: the codes and tokens numbered up to these have run out |
| `call[r]` | the request: step, user, address, code, token, and the claims it has read |
| `jwts` | the access tokens in force; no table has them |
| `drawn` | how many users, codes and tokens have been numbered (a number stands for a UUID or a random value) |
| `lineage` | history: what each refresh token was issued for |
| `drawn.edits`, field `edit` of `call[r]` and of `jwts` | history: how often the roles of each user have changed, and after which change the claims of a request or a token were read |

Each store call is one action, as above: `Verify` is `Verify` (the user),
`VerifyCode`, `VerifyMark`, `VerifyRoles`, `VerifyStore`; `Refresh` is
`Refresh` (the token), `RefreshUser`, `RefreshRoles`, `RefreshRevoke`,
`RefreshStore`.  The UPDATE of `last_login_at` writes nothing modelled and
joins `VerifyMark`.  `Abandon` ends a request between two of its calls, which
stands for a failing call, a cancelled context and a stop of the process alike:
the auth service keeps nothing in memory.  `ForeignKeys` tells Postgres from
SQLite: the same schema, enforced or not.  The administrator's actions need
`AdminPresent`, a credential in force that `Admits` lets through; the first one
comes from `AdminLogin`.

A role mask is the set of its bits and `Has` the intersection, as in the code.
Hashes and signatures do not appear: a client has a code, a token or a key, or
it has not.  `Normalised` are the addresses in lower case and trimmed, the only
ones that `Login` and `Verify` work with; `CreateUser` takes any of `Emails`, as
the code does, and inserts after every error of its look-up, not only
`ErrNotFound`.

### Evaluation

A call of `evalFrom` is a frame of `stack`.  `Visit` evaluates the node of the
innermost frame; with one edge out of it the frame moves on, as the loop in
`evalFrom` does, otherwise it becomes a frame with `edges` still to follow, and
`Branch` and `Leave` are the call and the return of one branch, with a copy of
the facts and the shared output.  Conditions, strategies, defaults and edge
maps are operators with the names of the Go functions.  A value of type `any`
is a pair of kind and content; a null or absent field counts as the zero value
of its type; a type assertion that Go would panic on has the verdict "panic".
`strings.Contains`, `HasPrefix` and `HasSuffix` are relations given as a
constant (the theorems hold for all relations).  Numbers are integers: nothing
here calculates, it only compares.  `remapEdge` gives every result the random
iteration of a Go map allows.

## What is checked

All runs check for deadlock as well, except the two of the evaluator, which
stops when it is done.

| run | instance | shows |
|---|---|---|
| `single_node` | 1 process, 3 requests, 1 key, 2 documents, 2 versions; all faults but `commit_applied` | `TypeOK`, `PublishedServable`, `ServedIsPublished`, `StagedVersionsFree`, `PublishInv`; the readable content implements `PublishedVersions` (`ContentAppendOnly`) |
| `two_nodes` | 2 processes, 2 requests, 3 versions; every fault but `latest` | `AppendInv`, `LeftoversAreNext`, `RepeatsBounded`; the rows implement `PublishedVersions` (`RowsAppendOnly`) |
| `lifecycle` | 1 process, 2 requests, 2 keys, 2 documents of which 1 can be published, 2 versions; create, delete, rename, drafts, publish; calls fail cleanly; fair | `NoResidue`, `ResidueInv`, `DraftsSurviveRename`, `RequestsEnd` |
| `sequential` | 1 request, 1 process, 2 keys, 3 versions, no faults, no ruleset deleted | `ConsecutiveVersionsDiffer`, `DraftHasRuleset`, `RollbackTargetsVersion`, `RenameBlockedByVersions`, `DraftEvaluatedOnlyUnpublished`, `KeysInv` |
| `sessions` | Postgres; 2 requests, 2 addresses of which 1 is normalised, 1 user, 2 codes, 3 tokens; login, verify, refresh, logout, users created and deleted, codes and tokens run out; requests may stop anywhere | `AccountTypeOK`, `SessionInv`, `SessionsPerCode`; tokens implement `Sessions` (`RefreshTokensRotate`) |
| `access` | Postgres; 2 requests, 1 address, 1 user, 1 code, 2 tokens, 1 workspace and "*", 2 masks, 2 changes of the user's roles, 1 API key; login, verify, refresh, roles written and deleted, the user deleted, access tokens run out, the key and the workspace created and removed | `RowsHaveUsers`, `StarSupersedes`, `RolesCurrent` |
| `evaluation` | the documents and facts below; fair | `EvaluationTypeOK`, `NeverPanics`, `WellTypedNeverFails`, `PublishableIsSavable`, `OutcomeIsMeaning`, `EvaluationEnds` |

**Bounds.**  Two publishes of one key are what the mutex is for; the third
request is the reader, or the third publish that finds what the two left.  Two
documents are enough to tell right content from wrong.  Version numbers end at
`MaxVersion`, where `NextVersionNumber` is taken to fail, an exit the code has
at that step; two versions allow a failed attempt at a number, its reuse and
the number after it.  `two_nodes` has a third, because two requests can make
two equal versions in a row and must not make three.  Two processes with one
request each are the smallest instance in which the mutex does not help.  Two keys
are needed for renames only: everything else of two keys is disjoint.

`MaxUser`, `MaxCode`, `MaxToken` end the numbers of users, codes and tokens,
`MaxEdits` how often the roles of a user change; where a number would be
needed that is not there, the request waits (in `sessions` it may also give up,
which the code can do at each of these steps).  In `sessions`, three tokens are
a session, its exchange and a third token for whoever exchanges or verifies
again, and two codes leave one to the login that supersedes the other.  In
`access`, two tokens are the verification's and the refresh's, and two changes
let a role be written and then replaced, deleted or joined by one for all
workspaces, each before, between or after the two.

`evaluation` has one family of documents for conditions (one node, one
condition: every field including none, five operators, nine values of all
kinds), one for graphs, and twenty documents with one defect each of version,
entry, schema, nodes, rules or edges.  Graphs are four nodes of both strategies
that read what others put out, with every sequence of up to two of five forward
edges under three maps (none; two outputs to two fields; two outputs to one
field), and every order of three and of four different edges under the second
map: enough for chains, forks, joins, a branch below a branch, and two writers
of one key.  Facts are thirteen: all combinations of three values of two
fields, and facts that are empty or of a wrong type.  The recursive meaning is
taken to depth 4 (`Depths`), which a path through all four nodes does not exceed.

The theorems have no bounds.

**Symmetry** of request slots is used in the safety runs with several requests,
and of processes and documents in `two_nodes`; these values occur only as
indices, as mutex holders and as contents that are compared.

**Fairness.**  `RequestsEnd`: weak fairness of `Advance(r)`: a goroutine that can
run is scheduled, and a store call returns, with a result or an error (the HTTP
server's timeouts and the drivers end it).
Strong fairness of `PublishLock(r)`: `sync.Mutex` switches to starvation mode
and hands the lock to the oldest waiter after 1 ms, so a waiter is not passed
over for ever.  Restarts are left out of this run: one ends the requests of its
process and takes the mutexes with it.
`EvaluationEnds`: weak fairness of the walk, a loop that runs.  Nothing
is assumed of arrivals, faults, clients or administrators.

**Mutants.**  Every property of every passing run is accompanied by a change
of one definition, of the kind a slip in that code would make, under which the
run finds the property violated: no wait for the mutex, the error of a put
dropped, the clean-up forgotten, MAX without + 1, no primary key, and so on.
They are the definitions marked "Mutant of".

## What the code does otherwise

Each of these runs checks one sentence of the repository and ends with a
counterexample; `PROJECT.json` quotes the sentence.

| run | what happens |
|---|---|
| `two_nodes_lost_blob` | Two processes are given the same number for one key.  The slower one overwrites the objects, or loses at the primary key and deletes them: the published version is gone or holds other content. |
| `concurrent_no_changes` | Two publishes of one draft both pass the comparison, which precedes the mutex: two equal versions. |
| `rename_during_publish` | A version is created between `COUNT(*)` and the rename's transaction and stays under the old key. |
| `orphaned_rows` | SQLite is opened without foreign keys: deleting a user leaves its codes, and in the same way its refresh tokens and roles. |
| `eval_cycle` | Two nodes that point at each other pass `Validate`; the walk never ends. |

More follow from a run by changing its constants:

- `sequential` with `"delete"` among the operations: `DeleteRuleset` keeps the
  draft (`DraftHasRuleset`); the mock the tests use deletes it
  (`mock/store.go:186`).
- `sequential` with two requests and `Faults = {"call"}`: a rollback reads the
  object of a publish that then fails, so no such version ever exists
  (`RollbackTargetsVersion`).
- `sequential` with two requests: the ruleset can be renamed between
  `UpsertDraft`'s lookup and its write (`DraftHasRuleset`), and the first
  publish can complete between `Evaluate`'s two reads, so that a draft is
  evaluated although there is a version (`DraftEvaluatedOnlyUnpublished`).
- `sequential` with `Faults = {"latest"}`: one failing `GetLatestVersion` skips
  the comparison and an unchanged draft is published again
  (`ConsecutiveVersionsDiffer`).  `two_nodes` with `"latest"` among its faults:
  this can be repeated without end (`RepeatsBounded`).
- `sessions` with `Cardinality(Requests)` replaced by 1 in `SessionsPerCode`:
  `MarkOTPUsed` is an unconditional UPDATE, so two verifications that are under
  way together open two sessions with one code.

For each promise that two overlapping requests break here or in the table above, but
for that of `two_nodes_lost_blob`, a theorem says that this overlap is the only way
(see below).

Two more disagreements need no run.  `requireRole` is documented to ask for "at
least the given role", while `Has` asks for one common bit; the models follow
`Has`, and no property here is about which role a route needs.
`AdminService.CreateUser` stores an address as it is sent, `Login` and `Verify`
normalise it first, so a user with such an address is never found by it.

The first of the table also tells how far the promises reach: with several processes the
rows stay append-only (`two_nodes`, `RowsImplement`), the content does not.
The same holds with one process when a commit is applied and reported as
failed: the row is there and the clean-up deletes its objects.  This is why
the theorems on content assume `OneProcess` and `CommitsAcknowledged`.

## What is proved

| theorem | assumes | says |
|---|---|---|
| `RulesetServiceProofs!TypeCorrect` | | `Spec => []TypeOK` |
| `RulesetServiceProofs!AppendInvariant` | | `Spec => []AppendInv` |
| `RulesetServiceProofs!RowsImplement` | | `Spec => RowsAppendOnly`: the rows implement `PublishedVersions` |
| `PublishProofs!PublishInvariant` | `OneProcess`, `CommitsAcknowledged` | `Spec => []PublishInv` |
| `PublishProofs!Servable`, `Served`, `StagedFree` | the same | `Spec => []PublishedServable`, `[]ServedIsPublished`, `[]StagedVersionsFree` |
| `PublishProofs!ContentImplement` | the same | `Spec => ContentAppendOnly`: the readable content implements `PublishedVersions` |
| `ResidueProofs!ResidueInvariant` | `CleanFaults` | `Spec => []ResidueInv` |
| `ResidueProofs!NothingLeftBehind` | the same | `Spec => []NoResidue` |
| `ResidueProofs!LeftoversReached` | | `Spec => []LeftoversAreNext` |
| `ResidueProofs!LeftoversReplaced` | | an object without a row always has the number that `NextVersionNumber` gives |
| `ClientProofs!DraftsSurvive` | | `Spec => DraftsSurviveRename` |
| `ClientProofs!UnpublishedInvariant` | | `Spec /\ []LookupsStand => []UnpublishedInv` |
| `ClientProofs!RenamesBlocked`, `DraftsYield` | | `Spec /\ []LookupsStand =>` `RenameBlockedByVersions`, `DraftEvaluatedOnlyUnpublished` |
| `ClientProofs!RollbacksTarget` | `CleanFaults` | `Spec /\ []RollbacksStand => []RollbackTargetsVersion` |
| `ClientProofs!KeysInvariant`, `DraftsBelong` | | `Spec /\ RemovalsStand =>` `[]KeysInv`, `[]DraftHasRuleset` |
| `ClientProofs!DifferInvariant`, `VersionsDiffer` | no fault `latest` | `Spec /\ []ComparisonsStand =>` `[]DifferInv`, `[]ConsecutiveVersionsDiffer` |
| `ClientProofs!RepeatsLimited` | no fault `latest`, finite `Requests` | `Spec => []RepeatsBounded` |
| `ClientProofs!TurnsSuffice` | `ClientsTakeTurns` | `RenamesBlocked`, `DraftsYield`, `RollbacksTarget` and `VersionsDiffer` without their temporal hypotheses |
| `AccountProofs!AccountTypeCorrect` | | `Spec => []AccountTypeOK` |
| `AccountProofs!SessionInvariant` | | `Spec => []SessionInv` |
| `AccountProofs!RotationImplemented` | | `Spec => RefreshTokensRotate`: the tokens implement `Sessions` |
| `AccountProofs!OwnersExist` | `ForeignKeys` | `Spec => []RowsHaveUsers` |
| `AccountProofs!TokensCarryRoles` | | `Spec => []RolesCurrent` |
| `AccountProofs!SessionsByOverlap` | finite `Requests` | `Spec /\ []MarksOverlap(n) => []SessionsWithin(n)` for every `n` |
| `AccountProofs!SessionsLimited` | finite `Requests` | `Spec => []SessionsPerCode` |
| `AccountProofs!StarsSupersede` | | `Spec => []StarSupersedes` |
| `EvaluationProofs!TypeCorrect` | | `Spec => []EvaluationTypeOK` |
| `EvaluationProofs!PanicFree` | | `Spec => []NeverPanics` |
| `EvaluationProofs!TypedSucceeds` | | `Spec => []WellTypedNeverFails` |
| `EvaluationProofs!PublishableSavable` | | `Spec => []PublishableIsSavable` |
| `MeaningProofs!MeaningInvariant` | | `Spec => []MeaningInv` |
| `MeaningProofs!WalkIsRecursion` | `Depths` has no bound | `Spec => []OutcomeIsMeaning`: the walk computes the recursive meaning, one outcome unless an edge maps two outputs to one field |

All hold for any sets of nodes, requests, keys, documents, addresses,
workspaces, masks and facts, any bounds, any set of operations, and any set of
faults within the hypotheses; those of the evaluator for any graph, cyclic ones
included.  The constants are subject to the named assumptions of the modules
that declare them (None is none of the values it stands beside, publishable
documents are documents, documents are what the decoder yields).

**Hypotheses.**  All are stated in the theorems, none is assumed of the
constants.  Those of the second column say which instances are meant:
`OneProcess`; `CommitsAcknowledged` (no commit that is reported as failed);
`CleanFaults` (faults at most `call`, `latest` and `commit_applied`: puts and
deletes tell the truth and no process stops); `ClientsTakeTurns` (one request);
finite `Requests`, which a server's goroutines are and which counting them needs.
The temporal ones, on the left of the implication, each exclude one overlap of
two requests, at the lines where the code leaves the window open:

| hypothesis | excludes |
|---|---|
| `LookupsStand` | a publish about to insert a row of the key between a rename's COUNT, or an evaluation's look-up, and its use |
| `RollbacksStand` | a publish at work on the very number that a rollback has read |
| `ComparisonsStand` | a publish about to insert a row of the key while another one relies on its comparison with the latest version |
| `RemovalsStand` | a deletion or a rename that takes a ruleset away and leaves a draft, an object or a request that has looked it up under its key |
| `MarksOverlap(n)` | more than `n` requests between the look-up of one code and its `MarkOTPUsed` |

The first three are met whenever clients take turns (`TurnsSuffice`), and by any
number of concurrent requests of other keys; so is the last, with `n` = 1, by
those of other codes.  `RemovalsStand` is not an overlap only: `DeleteRuleset`
leaves the draft of its key whoever else is there.  The runs of the previous
section, and the changes of constants listed there, show what each of them does.
So these theorems tell what is to blame: this and nothing else.

**Append-only rows.**  That rows are never overwritten follows from
`InsertVersion`; that there is no gap does not, because a number is chosen
one step and used several steps later, possibly after other processes have
inserted rows.  `AppendInv` adds to "no gap below a row" the same for every
number handed out; since rows are never removed, it stays true.

**Servable content.**  `PublishedServable` is not inductive: whether a
clean-up hurts depends on who else may hold that number.  `PublishInv` adds,
per request (`RequestInv`): it holds its mutex from the choice of the number
on; the number it works on has no row; the objects it has put are still
there.  Two requests at work on one key would both hold one mutex, so whatever
a publish writes or deletes is no published version and no other publish's.
The number has no row when it is handed out because it lies above the largest
one, and gets none because only the holder of the mutex inserts.  With two
processes the first conjunct no longer excludes anybody, and with
`commit_applied` the second fails at the clean-up: exactly the two hypotheses.
The proof has one step per action and one below it per conjunct.

**Leftovers.**  `NoResidue` is not inductive: that a publish is at work on a
number says nothing of whether it knows of the object.  `ResidueInv` follows the
program counter: who stored the DSL object is between its put and the row or the
delete (`HoldsDSL`), likewise the bundle (`HoldsBundle`).  It needs no mutex and
holds for any number of processes, since two publishes of one number only make
for two that will see to the object.  With the other faults objects do stay, but
`LeftoversAreNext` bounds where: a number handed out has every lower number
below it (`AppendInv`), rows are never removed, so whatever was stored under it
is what `NextVersionNumber` gives to the next publish, which overwrites it.

**Look-ups used later.**  `UnpublishedInv` and `DifferInv` (in `ClientProofs`) and
`KeysInv` each say of
the steps between a look-up and its use that what was found is still so; a
rollback's look-up is answered by `ResidueInv`: an object whose number nobody is
publishing has a row.  Every other step leaves what was found alone, which is
what the proofs consist of, and the temporal hypothesis removes the one that
does not.  `DifferInv` contains `AppendInv`, for the row inserted must be the one
after the latest for "differs from the latest" to mean "differs from the one
before".  `KeysInv` also keeps objects within existing rulesets: `Rollback`
looks up no ruleset, it is the object that tells.

**Repeated versions.**  A comparison that has gone stale lets a publish repeat the
latest version; `RepeatsBounded` says how often.  A request that relies on its
comparison found another content latest, so it belongs to the last run of equal
rows only if that run began after it compared.  `RepeatsInv` counts, per key and
content: the rows at the end of the list that have it and the requests that may
still add one are together no more than the requests there are.  An insertion
turns a request into a row, and whoever compares while the content is latest is
refused.

**Renames.**  `DraftsSurviveRename` needs that the draft of the old key lands
where there was none; the primary key of drafts sees to that (`CanRename`), and
the count of drafts stays because one key left and one joined the finite set of
keys that have one.

**One-time codes.**  `SessionsPerCode` is about sessions already opened.  `CodeOK`
adds the requests on their way: sessions and requests that hold the code are
together at most `n`.  Only the look-up adds to that sum, and it finds a code only
while nobody has marked it; until then there is no session and whoever holds the
code is at the mark, and of those `MarksOverlap(n)` allows `n`.  A code that is
drawn and not stored has nobody but its login, so that storing it cannot bring a
code back that was used.  `SessionsLimited` is the case where `n` is the number of
requests.

**The loop over the claims.**  `RoleForWorkspace` is the loop's state after each
claim.  What it has after `i` claims, the role of the last claim for the
workspace unless "*" came before, is an invariant of the loop, proved by taking
the least `i` where it fails.  `NumberLemmas` derives that a set of numbers has
a least element from the well-foundedness of `<`.

**Rotation.**  `RefreshTokensRotate` demands of an exchange that the old token
is no longer live and has no heir.  Neither follows from the step that issues
the new one, which reads nothing: it is the revocation, one step earlier, that
succeeded for this request only.  `SessionInv` carries that over the gap
(`RevokedHeld`: from its revocation on, one request holds the token, it is not
live and has no heir), together with the freshness of numbers that nobody has
drawn.  Deletions of users in the gap only retire tokens.

**Rows have users.**  With foreign keys an INSERT is refused when the user is
gone and the cascade takes what is there; the theorem has `ForeignKeys` as its
hypothesis, and `orphaned_rows` is what happens without.

**Roles in tokens.**  `Agrees` adds to `RolesCurrent` that claims are never newer
than the last change of their user's roles; otherwise a later change could make old
claims count as fresh.  It holds of the tokens (`TokensCurrent`) and of the requests
that have read the roles and not yet answered (`CallsCurrent`), which is what
`VerifyStore` and `RefreshStore` put into the token.  Every step that changes roles
counts (`EditsCounted`), the cascade of a deletion included.  That the claims are
neither fewer nor more than the rows comes from the reading step, whose list has
every row of the user once (`ListHasAll`).

**Evaluation.**  `PanicInv` says that a walk is under way only in a document
that validated.  Then every "in" has an array of strings and every other
operator of an enum a string, so none of the three assertions in `evalEnum` can
fail.  `SoundInv` adds what a frame must be for no error to occur: its node
exists, and facts and outputs fit the schema; it survives every edge because
well-typed edges connect fields of one kind, and every branch because the
caller's facts are its own.

**The meaning of a walk.**  `EvaluationReference` says what a document means
without frames and steps: the outcomes of a place, a node and the facts it sees,
are those of its own rules, followed by what its branches put out together.
`Meanings[n]` are the outcomes to depth `n` of that recursion; a cycle has no
depth that would do, so the theorem is about evaluations that end, and assumes
that `Depths`, which TLC needs finite, has no bound.  That there is a function
with the recursive equation is proved (`MeaningsAre`, by the least depth at
which it would fail), and so is that more depth gives more outcomes.

`OutcomeIsMeaning` speaks of the end of a walk.  `MeaningInv` speaks of every
step: each frame of the stack has an origin, the place where its call began,
such that whatever the call can still return (`Yields`) is an outcome of that
place, and whatever it returns once the branch above it has returned `b`
(`Resumes`) is one if `b` is an outcome of the branch's origin.  The walk
follows the edges one by one and overwrites one output map, the reference looks
for the last branch that has a key: that they agree is shown edge by edge
(`TogetherFirst`, `FirstSucceeds`, `FirstFails`).  An only edge is not called
but continued in the same frame; its origin stays, and what was put out so far
is put before what comes.  That there is one outcome comes from the reference
alone (`MeansOne`): node ids are unique in a valid document, and a map without
two outputs for one field brings one set of facts.

**Only model-checked.**  `RequestsEnd` and `EvaluationEnds`: liveness and ENABLED are beyond the proof system.  And the
promises under concurrency that the code does not keep: those the runs refute.

## Limits

Not modelled: names, descriptions, timestamps and paging (no property is about
them); JSON parsing (`IsDSL` says what it yields) and the canonical form behind
the checksum; the trace of an evaluation; HTTP decoding and status codes;
cryptography; the text form in which SQLite compares expiry times;
`DeleteExpiredOTPs` and `GetUserRole`, which nothing calls; configuration,
logging and mail.  Rulesets and accounts are separate models: no statement on
rulesets reads an account table, not even table workspaces, and the role check
runs before the handler and is not repeated.
The file system's durability across power loss is not modelled: a crash loses
a process's memory, never a store's content.  A call that never returns is not
modelled: `RequestsEnd` assumes that it returns.  Nor is a put or a delete that
takes effect only after its timeout was reported and the request went on: in the
models a call that is reported as failed has had its effect by then or never has.
No property says which role a route should ask for, or who wrote a role.

## Plan

Done: the publishing core with its stores, its promises and their proofs; the
account side with sessions, roles, keys and workspaces, its abstract sessions
and their proofs; validation and evaluation of documents, with a reference
definition and the proof that the walk computes it.  Every invariant that a
passing run checks is a theorem, under the hypotheses above; so are all action
properties and refinements.

Left: the order of SQLite's timestamp texts, as an operator on small fractions.
