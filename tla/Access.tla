------------------------------- MODULE Access -------------------------------
(***************************************************************************)
(* Roles, the claims an access token carries, and the decision of the role *)
(* middleware.  A role mask is the set of its bits, a workspace is a model *)
(* value, and Star is the workspace "*".                                   *)
(***************************************************************************)
EXTENDS Integers, FiniteSets, SequencesExt

CONSTANTS
    Workspaces,  \* workspace names that clients use
    Star,        \* "*": every workspace
    Masks        \* the role masks administrators write

RoleViewer == {0}
RoleEditor == RoleViewer \cup {1}
RoleAdmin == RoleEditor \cup {2}

Scopes == Workspaces \cup {Star}

ASSUME AccessAssumption ==
    /\ IsFiniteSet(Workspaces)
    /\ Star \notin Workspaces
    /\ RoleAdmin \in Masks
    /\ \A m \in Masks : m \subseteq {0, 1, 2}

\* r & mask # 0: one common bit is enough.
Has(r, mask) == r \cap mask # {}

Claims == [workspace : Scopes, role : Masks]

\* The claims of the virtual administrator.
AdminClaims == <<[workspace |-> Star, role |-> RoleAdmin]>>

\* Mutant of RoleStep: no early return on "*".
RoleStepOn(seen, claim, ws) ==
    IF claim.workspace \in {ws, Star}
    THEN [seen EXCEPT !.role = claim.role]
    ELSE seen

\* One turn of the loop over the claims; "done" is the early return.
RoleStep(seen, claim, ws) ==
    IF seen.done \/ claim.workspace \notin {ws, Star}
    THEN seen
    ELSE [done |-> claim.workspace = Star, role |-> claim.role]

\* No claim for ws, and none for "*": the zero mask.
RoleForWorkspace(claims, ws) ==
    LET seen[i \in 0..Len(claims)] ==
            IF i = 0 THEN [done |-> FALSE, role |-> {}]
                     ELSE RoleStep(seen[i - 1], claims[i], ws)
    IN seen[Len(claims)].role

\* requireRole: ws is the request's own "workspace" parameter.
Admits(claims, ws, required) == Has(RoleForWorkspace(claims, ws), required)
=============================================================================
