---------------------------- MODULE AuthService ----------------------------
(***************************************************************************)
(* The auth service (service.AuthService) over the account tables:         *)
(* passwordless login, refresh-token rotation and logout, as concurrent    *)
(* requests.  Nothing is kept in the process between requests, so it does  *)
(* not matter which process serves which.                                  *)
(*                                                                         *)
(* As in RulesetService, each call to the store is a step, a first call    *)
(* that already decides the answer is an error has no action, and local    *)
(* computation joins the call before it.  So does the UPDATE of            *)
(* last_login_at, which writes nothing modelled here.                      *)
(***************************************************************************)
EXTENDS AccountStore

CONSTANTS
    Requests,    \* slots for concurrent requests
    Normalised,  \* the addresses that are lower case and trimmed
    Operations,  \* the operations clients issue; "expire", "lapse": time passes
    Failures,    \* TRUE: a request may stop between two calls
    MaxEdits     \* bound: how often the roles of a user change

FromCode(c) == [from |-> "code", number |-> c]
FromToken(t) == [from |-> "token", number |-> t]
Origins == [from : {"code"}, number : Codes] \cup [from : {"token"}, number : Tokens]

ASSUME ServiceAssumption ==
    /\ Normalised \subseteq Emails
    /\ Operations \subseteq {"login", "verify", "refresh", "logout", "expire", "lapse",
                             "create_user", "delete_user", "roles", "keys", "workspaces"}
    /\ Failures \in BOOLEAN
    /\ MaxEdits \in Nat
    /\ None \notin Origins

VARIABLES
    call,     \* request -> where it is and what its locals hold
    jwts,     \* access tokens handed out that have not expired
    drawn,    \* how many users, codes and tokens have been numbered; history: the
              \* number of the last change of each user's roles
    lineage   \* history: token -> the code or the token it was issued for

outcomes == <<jwts, drawn, lineage>>

authVars == <<storeVars, call, outcomes>>

Verifying == {"vf_code", "vf_mark", "vf_roles", "vf_store"}
Refreshing == {"rf_user", "rf_roles", "rf_revoke", "rf_store"}
LoggingIn == {"lg_create", "lg_store"}
Administering == {"ad_create", "ad_role"}
Steps == {"idle", "lo_revoke"} \cup LoggingIn \cup Verifying \cup Refreshing \cup Administering

Subjects == Users \cup {0}  \* 0: the virtual administrator

Calls == [pc : Steps, user : Users \cup {None}, email : Emails \cup {None},
          code : Codes \cup {None}, token : Tokens \cup {None},
          claims : Seq(Claims), edit : 0..MaxEdits]

\* An access token; history: after which change of its subject's roles the
\* claims were read.
Jwts == [sub : Subjects, claims : Seq(Claims), edit : 0..MaxEdits]

Idle == [pc |-> "idle", user |-> None, email |-> None,
         code |-> None, token |-> None, claims |-> <<>>, edit |-> 0]

Counts == [user : 0..MaxUser, code : 0..MaxCode, token : 0..MaxToken,
           edits : [Users -> 0..MaxEdits]]

\* What the locals of a request hold when it is at a step.
LocalsSet(c) ==
    /\ c.pc \in Verifying \cup Refreshing \cup {"lg_store", "ad_role"} => c.user \in Users
    /\ c.pc \in {"lg_create", "ad_create"} => c.email \in Emails
    /\ c.pc \in {"lg_store", "vf_mark", "vf_roles", "vf_store"} => c.code \in Codes
    /\ c.pc \in Refreshing \cup {"lo_revoke"} => c.token \in Tokens

\* Every variable holds a value of its type, and a request's locals are set
\* where its next step reads them.
AccountTypeOK ==
    /\ StoreTypeOK
    /\ call \in [Requests -> Calls]
    /\ \A r \in Requests : LocalsSet(call[r])
    /\ jwts \subseteq Jwts
    /\ drawn \in Counts
    /\ lineage \in [Tokens -> Origins \cup {None}]

AuthInit ==
    /\ StoreInit
    /\ call = [r \in Requests |-> Idle]
    /\ jwts = {}
    /\ drawn = [user |-> 0, code |-> 0, token |-> 0, edits |-> [u \in Users |-> 0]]
    /\ lineage = [t \in Tokens |-> None]

-----------------------------------------------------------------------------
(* A request starts, moves on, ends *)

At(r, p) == call[r].pc = p

Start(r, c) == At(r, "idle") /\ call' = [call EXCEPT ![r] = c]

Goto(r, p) == call' = [call EXCEPT ![r].pc = p]

Return(r) == call' = [call EXCEPT ![r] = Idle]

\* A store call that returns an error, or a decision not to go on.
GiveUp(r) == Return(r) /\ UNCHANGED <<storeVars, outcomes>>

\* Every order in which ListUserRoles may return the rows of u.
ListUserRoles(u) == SetToSeqs(RolesOf(u))

\* r takes the claims cs for what the table says of its user now.
Take(r, cs, p) ==
    call' = [call EXCEPT ![r].pc = p, ![r].claims = cs, ![r].edit = drawn.edits[call[r].user]]

\* The last step of Verify and Refresh: store the new refresh token, and
\* answer with it and with the access token signed before.
IssueTokens(r, origin) ==
    LET u == call[r].user
        t == drawn.token + 1
    IN /\ t \in Tokens
       /\ InsertToken(t, u)
       /\ drawn' = [drawn EXCEPT !.token = t]
       /\ lineage' = [lineage EXCEPT ![t] = origin]
       /\ jwts' = jwts \cup {[sub |-> u, claims |-> call[r].claims, edit |-> call[r].edit]}
       /\ Return(r)

\* The INSERT is refused because the user is gone.
IssueRefused(r) ==
    /\ ~References(call[r].user)
    /\ GiveUp(r)

-----------------------------------------------------------------------------
(* Login: the user, created if need be, and a new code *)

\* The code is numbered when it is drawn, which is before it is stored.
DrawCode(r, u) ==
    LET c == drawn.code + 1 IN
    /\ c \in Codes
    /\ drawn' = [drawn EXCEPT !.code = c]
    /\ call' = [call EXCEPT ![r] = [Idle EXCEPT !.pc = "lg_store", !.user = u, !.code = c]]

Login(r, e) ==
    /\ "login" \in Operations
    /\ At(r, "idle")
    /\ \/ \E u \in UserByEmail(e) : DrawCode(r, u)
       \/ /\ UserByEmail(e) = {}
          /\ Start(r, [Idle EXCEPT !.pc = "lg_create", !.email = e])
          /\ UNCHANGED drawn
    /\ UNCHANGED <<storeVars, jwts, lineage>>

\* The first login of an address creates its user.
LoginCreateUser(r) ==
    LET u == drawn.user + 1
        c == drawn.code + 1
        e == call[r].email
    IN /\ At(r, "lg_create")
       /\ u \in Users
       /\ c \in Codes
       /\ InsertUser(u, e)
       /\ drawn' = [drawn EXCEPT !.user = u, !.code = c]
       /\ call' = [call EXCEPT ![r] = [Idle EXCEPT !.pc = "lg_store", !.user = u, !.code = c]]
       /\ UNCHANGED <<jwts, lineage>>

\* Another request created the user since the look-up: this login fails.
LoginCreateLost(r) ==
    /\ At(r, "lg_create")
    /\ UserByEmail(call[r].email) # {}
    /\ GiveUp(r)

\* The code goes into the table and out by mail.
LoginStore(r) ==
    /\ At(r, "lg_store")
    /\ \/ /\ InsertCode(call[r].code, call[r].user)
          /\ Return(r)
          /\ UNCHANGED outcomes
       \/ ~References(call[r].user) /\ GiveUp(r)

-----------------------------------------------------------------------------
(* Verify: a code for a pair of tokens *)

Verify(r, e) ==
    /\ "verify" \in Operations
    /\ \E u \in UserByEmail(e) : Start(r, [Idle EXCEPT !.pc = "vf_code", !.user = u])
    /\ UNCHANGED <<storeVars, outcomes>>

\* Mutant of VerifyCode: a query that finds no row is taken for one that did.
VerifyCodeUnchecked(r) ==
    /\ At(r, "vf_code")
    /\ \/ \E c \in UnusedCode(call[r].user) :
             call' = [call EXCEPT ![r].pc = "vf_mark", ![r].code = c]
       \/ /\ UnusedCode(call[r].user) = {}
          /\ Goto(r, "vf_mark")
       \/ Return(r)
    /\ UNCHANGED <<storeVars, outcomes>>

\* The newest code in force is the one the client sent, or the request ends.
VerifyCode(r) ==
    /\ At(r, "vf_code")
    /\ \/ \E c \in UnusedCode(call[r].user) :
             call' = [call EXCEPT ![r].pc = "vf_mark", ![r].code = c]
       \/ Return(r)
    /\ UNCHANGED <<storeVars, outcomes>>

VerifyMark(r) ==
    /\ At(r, "vf_mark")
    /\ MarkCodeUsed(call[r].code)
    /\ Goto(r, "vf_roles")
    /\ UNCHANGED outcomes

\* The claims of the access token are what the table says now.
VerifyRoles(r) ==
    /\ At(r, "vf_roles")
    /\ \E cs \in ListUserRoles(call[r].user) : Take(r, cs, "vf_store")
    /\ UNCHANGED <<storeVars, outcomes>>

VerifyStore(r) ==
    /\ At(r, "vf_store")
    /\ IssueTokens(r, FromCode(call[r].code)) \/ IssueRefused(r)

-----------------------------------------------------------------------------
(* Refresh: a refresh token for a new pair *)

Refresh(r, t) ==
    /\ "refresh" \in Operations
    /\ t \in Live
    /\ t > expired.token
    /\ Start(r, [Idle EXCEPT !.pc = "rf_user", !.user = tokens[t].user, !.token = t])
    /\ UNCHANGED <<storeVars, outcomes>>

RefreshUser(r) ==
    /\ At(r, "rf_user")
    /\ IF UserExists(call[r].user) THEN Goto(r, "rf_roles") ELSE Return(r)
    /\ UNCHANGED <<storeVars, outcomes>>

\* Mutant of RefreshRoles: the claims of an access token of the user are kept.
RefreshRolesKept(r) ==
    /\ At(r, "rf_roles")
    /\ \E j \in jwts : j.sub = call[r].user /\ Take(r, j.claims, "rf_revoke")
    /\ UNCHANGED <<storeVars, outcomes>>

RefreshRoles(r) ==
    /\ At(r, "rf_roles")
    /\ \E cs \in ListUserRoles(call[r].user) : Take(r, cs, "rf_revoke")
    /\ UNCHANGED <<storeVars, outcomes>>

\* Mutant of RefreshRevoke: ErrNotFound is taken for success, as in Logout.
RefreshRevokeTolerant(r) ==
    /\ At(r, "rf_revoke")
    /\ \/ RevokeToken(call[r].token)
       \/ call[r].token \notin Live /\ UNCHANGED storeVars
    /\ Goto(r, "rf_store")
    /\ UNCHANGED outcomes

\* Of several requests with one token, one revokes it; the others fail here.
RefreshRevoke(r) ==
    LET t == call[r].token IN
    /\ At(r, "rf_revoke")
    /\ \/ RevokeToken(t) /\ Goto(r, "rf_store") /\ UNCHANGED outcomes
       \/ t \notin Live /\ GiveUp(r)

RefreshStore(r) ==
    /\ At(r, "rf_store")
    /\ IssueTokens(r, FromToken(call[r].token)) \/ IssueRefused(r)

-----------------------------------------------------------------------------
(* Logout *)

Logout(r, t) ==
    /\ "logout" \in Operations
    /\ tokens[t] # None
    /\ Start(r, [Idle EXCEPT !.pc = "lo_revoke", !.token = t])
    /\ UNCHANGED <<storeVars, outcomes>>

\* A token that is already revoked, or gone, is no error.
LogoutRevoke(r) ==
    LET t == call[r].token IN
    /\ At(r, "lo_revoke")
    /\ \/ RevokeToken(t)
       \/ t \notin Live /\ UNCHANGED storeVars
    /\ Return(r)
    /\ UNCHANGED outcomes

-----------------------------------------------------------------------------
(* The password of the virtual administrator; the passing of time *)

AdminLogin ==
    /\ jwts' = jwts \cup {[sub |-> 0, claims |-> AdminClaims, edit |-> 0]}
    /\ UNCHANGED <<storeVars, call, drawn, lineage>>

\* An access token of s expires.
ExpireAccess(s) ==
    /\ "expire" \in Operations
    /\ \E j \in jwts : j.sub = s /\ jwts' = jwts \ {j}
    /\ UNCHANGED <<storeVars, call, drawn, lineage>>

ExpireStored ==
    /\ "lapse" \in Operations
    /\ \/ expired.code < drawn.code /\ expired' = [expired EXCEPT !.code = @ + 1]
       \/ expired.token < drawn.token /\ expired' = [expired EXCEPT !.token = @ + 1]
    /\ UNCHANGED <<users, codes, tokens, roles, keys, workspaces, call, outcomes>>

\* A call fails, its context is cancelled, or the process stops: the request
\* ends with what it has written so far, and without an answer.
Abandon(r) ==
    /\ Failures
    /\ ~At(r, "idle")
    /\ GiveUp(r)
=============================================================================
