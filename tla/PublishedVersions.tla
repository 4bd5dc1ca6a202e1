------------------------- MODULE PublishedVersions --------------------------
(***************************************************************************)
(* What the registry promises of published versions (README: "Publish      *)
(* immutable version"): per ruleset key a list of contents, numbered from  *)
(* 1 without a gap, to which a publish appends and from which nothing is   *)
(* ever taken or changed.  No requests, stores, locks or failures.         *)
(***************************************************************************)
EXTENDS Integers

CONSTANTS Keys, MaxVersion, Contents, None

VARIABLE registry   \* key -> version number -> content, or None

Init == registry = [k \in Keys |-> [v \in 1 .. MaxVersion |-> None]]

Append(k, v, c) ==
    /\ registry[k][v] = None
    /\ \A w \in 1 .. v - 1 : registry[k][w] # None
    /\ registry' = [registry EXCEPT ![k][v] = c]

Next == \E k \in Keys, v \in 1 .. MaxVersion, c \in Contents : Append(k, v, c)

Spec == Init /\ [][Next]_registry
=============================================================================
