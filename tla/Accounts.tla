------------------------------ MODULE Accounts ------------------------------
(***************************************************************************)
(* The admin and workspace services behind the access middleware, and the  *)
(* whole account side of the server: what an administrator changes while   *)
(* logins, refreshes and logouts are under way.                            *)
(***************************************************************************)
EXTENDS AuthService

\* What a client can present: an access token in force, or an active API key,
\* whose claim the middleware puts together.
Credentials == {j.claims : j \in jwts} \cup {<<keys[i]>> : i \in ActiveKeys}

\* apiTokenMiddleware alone guards logout.
Authenticated == Credentials # {}

\* requireAdmin: the workspace parameter is the client's choice.
AdminPresent ==
    {cs \in Credentials : \E ws \in Scopes : Admits(cs, ws, RoleAdmin)} # {}

-----------------------------------------------------------------------------
(* Users and roles *)

\* History: this step may change the roles of u.
CountEdit(u) ==
    /\ drawn' = [drawn EXCEPT !.edits[u] = IF roles'[u] = roles[u] THEN @ ELSE @ + 1]
    /\ drawn'.edits[u] <= MaxEdits

\* Any error of the look-up, not only ErrNotFound, leads to the insertion.
CreateUser(r, e) ==
    /\ "create_user" \in Operations
    /\ AdminPresent
    /\ UserByEmail(e) = {} \/ Failures
    /\ Start(r, [Idle EXCEPT !.pc = "ad_create", !.email = e])
    /\ UNCHANGED <<storeVars, outcomes>>

CreateUserInsert(r) ==
    LET u == drawn.user + 1 IN
    /\ At(r, "ad_create")
    /\ u \in Users
    /\ \/ InsertUser(u, call[r].email) /\ drawn' = [drawn EXCEPT !.user = u]
       \/ UserByEmail(call[r].email) # {} /\ UNCHANGED <<storeVars, drawn>>
    /\ Return(r)
    /\ UNCHANGED <<jwts, lineage>>

DeleteUser(u) ==
    /\ "delete_user" \in Operations
    /\ AdminPresent
    /\ RemoveUser(u)
    /\ CountEdit(u)
    /\ UNCHANGED <<call, jwts, lineage>>

UpsertUserRole(r, u) ==
    /\ "roles" \in Operations
    /\ AdminPresent
    /\ UserExists(u)
    /\ Start(r, [Idle EXCEPT !.pc = "ad_role", !.user = u])
    /\ UNCHANGED <<storeVars, outcomes>>

\* The request's workspace and mask are first used here, so they are chosen here.
UpsertUserRoleWrite(r) ==
    /\ At(r, "ad_role")
    /\ \/ \E w \in Scopes, m \in Masks : WriteRole(call[r].user, w, m)
       \/ ~References(call[r].user) /\ UNCHANGED storeVars
    /\ CountEdit(call[r].user)
    /\ Return(r)
    /\ UNCHANGED <<jwts, lineage>>

DeleteUserRole(u, w) ==
    /\ "roles" \in Operations
    /\ AdminPresent
    /\ RemoveRole(u, w)
    /\ CountEdit(u)
    /\ UNCHANGED <<call, jwts, lineage>>

-----------------------------------------------------------------------------
(* API keys and workspaces *)

CreateAPIKey(i) ==
    /\ "keys" \in Operations
    /\ AdminPresent
    /\ \E claim \in Claims : InsertKey(i, claim)
    /\ UNCHANGED <<call, outcomes>>

RevokeAPIKey(i) ==
    /\ "keys" \in Operations
    /\ AdminPresent
    /\ RevokeKey(i)
    /\ UNCHANGED <<call, outcomes>>

\* The key was created with expires_in_days > 0, and the days have passed.
ExpireAPIKey(i) ==
    /\ "keys" \in Operations
    /\ RevokeKey(i)
    /\ UNCHANGED <<call, outcomes>>

CreateWorkspace(w) ==
    /\ "workspaces" \in Operations
    /\ AdminPresent
    /\ InsertWorkspace(w)
    /\ UNCHANGED <<call, outcomes>>

DeleteWorkspace(w) ==
    /\ "workspaces" \in Operations
    /\ AdminPresent
    /\ RemoveWorkspace(w)
    /\ UNCHANGED <<call, outcomes>>

-----------------------------------------------------------------------------
(* The account side of the server *)

\* Login and Verify bring the address into lower case and trim it first; the
\* administrator's CreateUser takes it as it is.
Arrive(r) ==
    \/ \E e \in Normalised : Login(r, e) \/ Verify(r, e)
    \/ \E e \in Emails : CreateUser(r, e)
    \/ \E t \in Tokens : Refresh(r, t) \/ (Authenticated /\ Logout(r, t))
    \/ \E u \in Users : UpsertUserRole(r, u)

Advance(r) ==
    \/ LoginCreateUser(r)
    \/ LoginCreateLost(r)
    \/ LoginStore(r)
    \/ VerifyCode(r)
    \/ VerifyMark(r)
    \/ VerifyRoles(r)
    \/ VerifyStore(r)
    \/ RefreshUser(r)
    \/ RefreshRoles(r)
    \/ RefreshRevoke(r)
    \/ RefreshStore(r)
    \/ LogoutRevoke(r)
    \/ CreateUserInsert(r)
    \/ UpsertUserRoleWrite(r)
    \/ Abandon(r)

Administer ==
    \/ \E u \in Users : DeleteUser(u) \/ \E w \in Scopes : DeleteUserRole(u, w)
    \/ \E i \in KeyIds : CreateAPIKey(i) \/ RevokeAPIKey(i) \/ ExpireAPIKey(i)
    \/ \E w \in Workspaces : CreateWorkspace(w) \/ DeleteWorkspace(w)

Next ==
    \/ AdminLogin
    \/ Administer
    \/ ExpireStored
    \/ \E s \in Subjects : ExpireAccess(s)
    \/ \E r \in Requests : Arrive(r) \/ Advance(r)

Spec == AuthInit /\ [][Next]_authVars
=============================================================================
