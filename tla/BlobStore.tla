----------------------------- MODULE BlobStore ------------------------------
(***************************************************************************)
(* The blob store (port.BlobStore): two objects per published version,     *)
(* <key>/v<n>/dsl.json and <key>/v<n>/bundle.zip.  A put replaces the      *)
(* object atomically (the fs adapter renames a finished temporary file, S3 *)
(* replaces the object), a delete of a missing object succeeds.  Nothing   *)
(* protects an object that a version row refers to.                        *)
(*                                                                         *)
(* A bundle holds a manifest and the document; the manifest's version and  *)
(* checksum are functions of the object's path and of the document, so the *)
(* document stands for the bundle.                                         *)
(***************************************************************************)
EXTENDS RegistryData

VARIABLES
    dsls,        \* key -> version number -> document of dsl.json, or None
    bundles      \* key -> version number -> document in bundle.zip, or None

blobVars == <<dsls, bundles>>

Objects == [Keys -> [Versions -> Docs \cup {None}]]

BlobTypeOK == dsls \in Objects /\ bundles \in Objects

BlobInit ==
    /\ dsls = [k \in Keys |-> [v \in Versions |-> None]]
    /\ bundles = dsls

PutDSL(k, v, d) ==
    /\ dsls' = [dsls EXCEPT ![k][v] = d]
    /\ UNCHANGED bundles

DeleteDSL(k, v) == PutDSL(k, v, None)

PutBundle(k, v, d) ==
    /\ bundles' = [bundles EXCEPT ![k][v] = d]
    /\ UNCHANGED dsls

DeleteBundle(k, v) == PutBundle(k, v, None)
=============================================================================
