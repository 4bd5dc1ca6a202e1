---------------------------- MODULE RegistryData ----------------------------
(***************************************************************************)
(* The data that the datastore and the blob store of one workspace share.  *)
(*                                                                         *)
(* A document stands for the class of JSON texts with one canonical form   *)
(* (dsl.MarshalDeterministic); the tables and the blobs hold only the      *)
(* canonical form.                                                         *)
(***************************************************************************)
EXTENDS Integers

CONSTANTS
    Keys,        \* ruleset keys of the workspace
    Docs,        \* canonical DSL documents that pass draft validation
    MaxVersion,  \* bound: the highest version number a key reaches
    None         \* no row, no blob, no holder

Versions == 1 .. MaxVersion

\* SHA-256 of the canonical form, assumed free of collisions.
Checksum(d) == <<"sha256", d>>

Checksums == {Checksum(d) : d \in Docs}

ASSUME DataAssumption ==
    /\ MaxVersion \in Nat \ {0}
    /\ None \notin Keys \cup Docs \cup Checksums \cup Nat
=============================================================================
