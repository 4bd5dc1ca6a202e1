----------------------------- MODULE MCAccounts -----------------------------
(***************************************************************************)
(* Instances of the account side for TLC.                                  *)
(***************************************************************************)
EXTENDS AccountProperties, TLC

RequestSymmetry == Permutations(Requests)

\* A mask a viewer has and the one of an administrator.
SomeMasks == {RoleViewer, RoleAdmin}

AdminMask == {RoleAdmin}
=============================================================================
