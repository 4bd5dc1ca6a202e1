---------------------------- MODULE RulesetStore ----------------------------
(***************************************************************************)
(* The ruleset tables of the relational datastore (port.Datastore), as the *)
(* SQLite and the Postgres adapters keep them for one workspace: rulesets, *)
(* drafts and versions.  One operator per SQL statement or transaction.    *)
(*                                                                         *)
(* Each operator is atomic.  SQLite runs on one connection                 *)
(* (SetMaxOpenConns(1)), so a transaction excludes every other statement.  *)
(* Under Postgres' READ COMMITTED the two-statement transactions leave the *)
(* same tables as an atomic one: CreateVersion's INSERT repeats, through   *)
(* the primary key, the test its SELECT COUNT makes, and RenameRuleset's   *)
(* UPDATEs are undone together when one of them breaks a primary key.      *)
(***************************************************************************)
EXTENDS RegistryData

VARIABLES
    rulesets,    \* the keys that have a row in table rulesets
    drafts,      \* key -> the document of its draft row, or None
    versions     \* key -> version number -> checksum of the row, or None

storeVars == <<rulesets, drafts, versions>>

StoreTypeOK ==
    /\ rulesets \subseteq Keys
    /\ drafts \in [Keys -> Docs \cup {None}]
    /\ versions \in [Keys -> [Versions -> Checksums \cup {None}]]

\* Empty tables: what CREATE TABLE IF NOT EXISTS leaves in a new database.
StoreInit ==
    /\ rulesets = {}
    /\ drafts = [k \in Keys |-> None]
    /\ versions = [k \in Keys |-> [v \in Versions |-> None]]

-----------------------------------------------------------------------------
(* Queries *)

\* SELECT ... WHERE ruleset_key = k: the version numbers of the key's rows.
VersionRows(k) == {v \in Versions : versions[k][v] # None}

\* ORDER BY version DESC LIMIT 1: no element (ErrNotFound) or one.
LatestVersion(k) == {v \in VersionRows(k) : \A w \in VersionRows(k) : w <= v}

\* Mutants of NextVersionNumber: MAX(version), without the increment; NULL
\* taken for 1, so that the first version is 2.
NextIsLatest(k) == IF VersionRows(k) = {} THEN {1} ELSE LatestVersion(k)

NextFromTwo(k) == IF VersionRows(k) = {} THEN {2} ELSE {v + 1 : v \in LatestVersion(k)}

\* MAX(version) + 1, or 1 when MAX is NULL.
NextVersionNumber(k) ==
    IF VersionRows(k) = {} THEN {1} ELSE {v + 1 : v \in LatestVersion(k)}

-----------------------------------------------------------------------------
(* Statements that write *)

InsertRuleset(k) ==
    /\ k \notin rulesets
    /\ rulesets' = rulesets \cup {k}
    /\ UNCHANGED <<drafts, versions>>

\* Only the rulesets row goes: the key's draft and version rows stay.
RemoveRuleset(k) ==
    /\ k \in rulesets
    /\ rulesets' = rulesets \ {k}
    /\ UNCHANGED <<drafts, versions>>

\* INSERT OR REPLACE: nothing ties a draft to a rulesets row.
WriteDraft(k, d) ==
    /\ drafts' = [drafts EXCEPT ![k] = d]
    /\ UNCHANGED <<rulesets, versions>>

RemoveDraft(k) ==
    /\ drafts[k] # None
    /\ drafts' = [drafts EXCEPT ![k] = None]
    /\ UNCHANGED <<rulesets, versions>>

\* Mutant of CanRename: a draft under the new key is overwritten.
CanRenameOverDraft(k, new) == k \in rulesets /\ (new = k \/ new \notin rulesets)

\* The UPDATE of rulesets moves one row and meets no row under the new key,
\* and the UPDATE of drafts meets no draft there.
CanRename(k, new) ==
    /\ k \in rulesets
    /\ new = k \/ new \notin rulesets
    /\ new = k \/ drafts[k] = None \/ drafts[new] = None

\* Mutant of MoveRuleset: the UPDATE of drafts is forgotten.
MoveRulesetOnly(k, new) ==
    /\ CanRename(k, new)
    /\ rulesets' = (rulesets \ {k}) \cup {new}
    /\ UNCHANGED <<drafts, versions>>

\* The rename transaction.  With no draft under k, the new key keeps whatever
\* draft an earlier ruleset of that name left there.
MoveRuleset(k, new) ==
    /\ CanRename(k, new)
    /\ rulesets' = (rulesets \ {k}) \cup {new}
    /\ drafts' = IF new = k \/ drafts[k] = None THEN drafts
                 ELSE [drafts EXCEPT ![k] = None, ![new] = drafts[k]]
    /\ UNCHANGED versions

\* Mutants of InsertVersion: no primary key, no COUNT; no tx.Commit().
ReplaceVersion(k, v, c) ==
    /\ versions' = [versions EXCEPT ![k][v] = c]
    /\ UNCHANGED <<rulesets, drafts>>

InsertVersionUncommitted(k, v, c) ==
    /\ versions[k][v] = None
    /\ UNCHANGED storeVars

\* CreateVersion commits only if (key, version) has no row.
InsertVersion(k, v, c) ==
    /\ versions[k][v] = None
    /\ versions' = [versions EXCEPT ![k][v] = c]
    /\ UNCHANGED <<rulesets, drafts>>
=============================================================================
