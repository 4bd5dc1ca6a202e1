---------------------------- MODULE AccountStore ----------------------------
(***************************************************************************)
(* The account tables of the datastore: users, one-time codes, refresh     *)
(* tokens, roles, API keys and workspaces.  One operator per statement.    *)
(*                                                                         *)
(* Both adapters declare user_id REFERENCES users(id) ON DELETE CASCADE.   *)
(* Postgres enforces it; SQLite does so only on a connection that switched *)
(* foreign keys on, and the adapter's does not.  ForeignKeys says which    *)
(* store it is.                                                            *)
(*                                                                         *)
(* Users, codes and tokens are numbered in the order in which they are     *)
(* made; a number is never used twice, as a UUID is not.  All codes live   *)
(* equally long, and so do all tokens, so "expired" is "numbered up to".   *)
(***************************************************************************)
EXTENDS Access

CONSTANTS
    Emails,       \* addresses as they are stored
    MaxUser,      \* bound: users ever created
    MaxCode,      \* bound: codes ever drawn
    MaxToken,     \* bound: refresh tokens ever issued
    KeyIds,       \* API keys ever created
    ForeignKeys,  \* TRUE: Postgres; FALSE: SQLite as it is opened
    Void,         \* what is left of an API key that is revoked or has expired
    None

Users == 1..MaxUser
Codes == 1..MaxCode
Tokens == 1..MaxToken

CodeRows == [user : Users, used : BOOLEAN]
TokenRows == [user : Users, revoked : BOOLEAN]
\* The row of a key that was revoked or has expired stays and is of no use.
KeyRows == Claims \cup {Void}

ASSUME StoreAssumption ==
    /\ MaxUser \in Nat
    /\ MaxCode \in Nat
    /\ MaxToken \in Nat
    /\ ForeignKeys \in BOOLEAN
    /\ None \notin Emails \cup Masks \cup CodeRows \cup TokenRows

VARIABLES
    users,      \* user -> the address of its row, or None
    codes,      \* code -> its row, or None
    tokens,     \* refresh token -> its row, or None
    roles,      \* user -> workspace or "*" -> mask, or None
    keys,       \* API key -> its row, or None
    workspaces, \* the workspaces that have a row
    expired     \* numbers up to which codes and tokens have expired

storeVars == <<users, codes, tokens, roles, keys, workspaces, expired>>

StoreTypeOK ==
    /\ users \in [Users -> Emails \cup {None}]
    /\ codes \in [Codes -> CodeRows \cup {None}]
    /\ tokens \in [Tokens -> TokenRows \cup {None}]
    /\ roles \in [Users -> [Scopes -> Masks \cup {None}]]
    /\ keys \in [KeyIds -> KeyRows \cup {None}]
    /\ workspaces \subseteq Workspaces
    /\ expired \in [code : 0..MaxCode, token : 0..MaxToken]

StoreInit ==
    /\ users = [u \in Users |-> None]
    /\ codes = [c \in Codes |-> None]
    /\ tokens = [t \in Tokens |-> None]
    /\ roles = [u \in Users |-> [w \in Scopes |-> None]]
    /\ keys = [i \in KeyIds |-> None]
    /\ workspaces = {}
    /\ expired = [code |-> 0, token |-> 0]

-----------------------------------------------------------------------------
(* Queries *)

\* No element (ErrNotFound) or one.
UserByEmail(e) == {u \in Users : users[u] = e}

UserExists(u) == users[u] # None

UsableCodes(u) ==
    {c \in Codes : codes[c] = [user |-> u, used |-> FALSE] /\ c > expired.code}

\* ORDER BY expires_at DESC LIMIT 1: no element or one.
UnusedCode(u) == {c \in UsableCodes(u) : \A d \in UsableCodes(u) : d <= c}

\* The role rows of a user, as claims; the query orders them in no way.
RolesOf(u) ==
    {[workspace |-> w, role |-> roles[u][w]] : w \in {x \in Scopes : roles[u][x] # None}}

\* WHERE revoked_at IS NULL.
Live == {t \in Tokens : tokens[t] # None /\ ~tokens[t].revoked}

-----------------------------------------------------------------------------
(* Statements that write; one that is not enabled is an error *)

InsertUser(u, e) ==
    /\ UserByEmail(e) = {}
    /\ users' = [users EXCEPT ![u] = e]
    /\ UNCHANGED <<codes, tokens, roles, keys, workspaces, expired>>

\* A row that names user u can be inserted.
References(u) == ForeignKeys => UserExists(u)

\* Mutant of RemoveUser: no cascade, whatever the store.
RemoveUserOnly(u) ==
    /\ UserExists(u)
    /\ users' = [users EXCEPT ![u] = None]
    /\ UNCHANGED <<codes, tokens, roles, keys, workspaces, expired>>

\* DELETE FROM users, with the cascade where the store has it.
RemoveUser(u) ==
    /\ UserExists(u)
    /\ users' = [users EXCEPT ![u] = None]
    /\ IF ForeignKeys
       THEN /\ codes' = [c \in Codes |-> IF codes[c] # None /\ codes[c].user = u
                                         THEN None ELSE codes[c]]
            /\ tokens' = [t \in Tokens |-> IF tokens[t] # None /\ tokens[t].user = u
                                           THEN None ELSE tokens[t]]
            /\ roles' = [roles EXCEPT ![u] = [w \in Scopes |-> None]]
       ELSE UNCHANGED <<codes, tokens, roles>>
    /\ UNCHANGED <<keys, workspaces, expired>>

InsertCode(c, u) ==
    /\ References(u)
    /\ codes' = [codes EXCEPT ![c] = [user |-> u, used |-> FALSE]]
    /\ UNCHANGED <<users, tokens, roles, keys, workspaces, expired>>

\* Mutant of MarkCodeUsed: the UPDATE is forgotten.
LeaveCode(c) == UNCHANGED storeVars

\* WHERE id = c and nothing else: a used code is marked again, a missing one
\* is no error.
MarkCodeUsed(c) ==
    /\ codes' = [codes EXCEPT ![c] = IF @ = None THEN None ELSE [@ EXCEPT !.used = TRUE]]
    /\ UNCHANGED <<users, tokens, roles, keys, workspaces, expired>>

InsertToken(t, u) ==
    /\ References(u)
    /\ tokens' = [tokens EXCEPT ![t] = [user |-> u, revoked |-> FALSE]]
    /\ UNCHANGED <<users, codes, roles, keys, workspaces, expired>>

\* Mutant of RevokeToken: without AND revoked_at IS NULL.
RevokeTokenAgain(t) ==
    /\ tokens[t] # None
    /\ tokens' = [tokens EXCEPT ![t].revoked = TRUE]
    /\ UNCHANGED <<users, codes, roles, keys, workspaces, expired>>

\* One row that was not revoked, or ErrNotFound.
RevokeToken(t) ==
    /\ t \in Live
    /\ tokens' = [tokens EXCEPT ![t].revoked = TRUE]
    /\ UNCHANGED <<users, codes, roles, keys, workspaces, expired>>

WriteRole(u, w, m) ==
    /\ References(u)
    /\ roles' = [roles EXCEPT ![u][w] = m]
    /\ UNCHANGED <<users, codes, tokens, keys, workspaces, expired>>

RemoveRole(u, w) ==
    /\ roles[u][w] # None
    /\ roles' = [roles EXCEPT ![u][w] = None]
    /\ UNCHANGED <<users, codes, tokens, keys, workspaces, expired>>

InsertKey(i, claim) ==
    /\ keys[i] = None
    /\ keys' = [keys EXCEPT ![i] = claim]
    /\ UNCHANGED <<users, codes, tokens, roles, workspaces, expired>>

ActiveKeys == {i \in KeyIds : keys[i] \notin {None, Void}}

\* WHERE revoked_at IS NULL; to revoke an expired key changes nothing here.
RevokeKey(i) ==
    /\ i \in ActiveKeys
    /\ keys' = [keys EXCEPT ![i] = Void]
    /\ UNCHANGED <<users, codes, tokens, roles, workspaces, expired>>

InsertWorkspace(w) ==
    /\ w \notin workspaces
    /\ workspaces' = workspaces \cup {w}
    /\ UNCHANGED <<users, codes, tokens, roles, keys, expired>>

\* Roles, keys and rulesets that name the workspace stay.
RemoveWorkspace(w) ==
    /\ w \in workspaces
    /\ workspaces' = workspaces \ {w}
    /\ UNCHANGED <<users, codes, tokens, roles, keys, expired>>
=============================================================================
