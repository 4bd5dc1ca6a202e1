---------------------------- MODULE AccountProofs ----------------------------
(***************************************************************************)
(* Theorems about the account side of the server, for any addresses,       *)
(* workspaces, request slots and bounds, with requests that stop anywhere. *)
(***************************************************************************)
EXTENDS AccountProperties, NumberLemmas, FiniteSetTheorems, FunctionTheorems, TLAPS

-----------------------------------------------------------------------------
(* Single updates *)

CallsOK == call \in [Requests -> Calls] /\ \A r \in Requests : LocalsSet(call[r])

HistoryOK ==
    /\ jwts \subseteq Jwts
    /\ drawn \in Counts
    /\ lineage \in [Tokens -> Origins \cup {None}]

LEMMA TypeParts ==
    /\ AccountTypeOK <=> StoreTypeOK /\ CallsOK /\ HistoryOK
    /\ AccountTypeOK' <=> StoreTypeOK' /\ CallsOK' /\ HistoryOK'
  BY DEF AccountTypeOK, CallsOK, HistoryOK

LEMMA UnchangedParts ==
    /\ StoreTypeOK /\ UNCHANGED storeVars => StoreTypeOK'
    /\ CallsOK /\ UNCHANGED call => CallsOK'
    /\ HistoryOK /\ UNCHANGED outcomes => HistoryOK'
  BY DEF StoreTypeOK, CallsOK, HistoryOK, storeVars, outcomes

LEMMA IdleOK == Idle \in Calls /\ LocalsSet(Idle)
  BY ServiceAssumption DEF Idle, Calls, LocalsSet, Steps, Verifying, Refreshing, LoggingIn, Administering

\* A request that ends leaves the requests well-formed.
LEMMA ReturnOK ==
    ASSUME CallsOK, NEW r \in Requests, Return(r)
    PROVE  CallsOK'
  BY IdleOK DEF CallsOK, Return

\* So does one that moves to a step whose locals are set.
LEMMA UpdateOK ==
    ASSUME CallsOK, NEW r \in Requests, NEW c \in Calls, LocalsSet(c),
           call' = [call EXCEPT ![r] = c]
    PROVE  CallsOK'
  BY DEF CallsOK

LEMMA GotoOK ==
    ASSUME CallsOK, NEW r \in Requests, NEW p \in Steps, Goto(r, p),
           LocalsSet([call[r] EXCEPT !.pc = p])
    PROVE  CallsOK'
  <1>1. call' = [call EXCEPT ![r] = [call[r] EXCEPT !.pc = p]]
    BY DEF Goto
  <1>2. [call[r] EXCEPT !.pc = p] \in Calls
    BY DEF CallsOK, Calls
  <1> QED
    BY <1>1, <1>2, UpdateOK

\* Reading the roles changes nothing else of a request.
LEMMA TakeStep ==
    ASSUME CallsOK, NEW r \in Requests, NEW cs, NEW p, Take(r, cs, p)
    PROVE  /\ call'[r].pc = p /\ call'[r].claims = cs
           /\ call'[r].edit = drawn.edits[call[r].user]
           /\ call'[r].user = call[r].user
           /\ call'[r].code = call[r].code
           /\ call'[r].token = call[r].token
           /\ \A s \in Requests \ {r} : call'[s] = call[s]
  <1>1. call[r] \in Calls /\ call \in [Requests -> Calls]
    BY DEF CallsOK
  <1>2. call' = [call EXCEPT ![r] = [call[r] EXCEPT !.pc = p, !.claims = cs,
                                                    !.edit = drawn.edits[call[r].user]]]
    BY DEF Take
  <1>3. /\ call'[r] = [call[r] EXCEPT !.pc = p, !.claims = cs, !.edit = drawn.edits[call[r].user]]
        /\ \A s \in Requests \ {r} : call'[s] = call[s]
    BY <1>1, <1>2
  <1> QED
    BY <1>1, <1>3 DEF Calls

LEMMA RolesFinite ==
    ASSUME NEW u
    PROVE  IsFiniteSet(RolesOf(u))
  <1> DEFINE S == {w \in Scopes : roles[u][w] # None}
             f == [w \in S |-> [workspace |-> w, role |-> roles[u][w]]]
  <1>1. IsFiniteSet(Scopes)
    BY AccessAssumption, FS_AddElement DEF Scopes
  <1>2. IsFiniteSet(S)
    BY <1>1, FS_Subset
  <1>3. f \in [S -> RolesOf(u)] /\ \A c \in RolesOf(u) : \E w \in S : f[w] = c
    BY DEF RolesOf
  <1>4. f \in Surjection(S, RolesOf(u))
    BY <1>3, Fun_IsSurj
  <1> HIDE DEF f, S
  <1> QED
    BY <1>2, <1>4, FS_Surjection

\* ListUserRoles lists claims, in any order.
LEMMA ListUserRolesOK ==
    ASSUME StoreTypeOK, NEW u \in Users
    PROVE  ListUserRoles(u) \subseteq Seq(Claims)
  <1>1. RolesOf(u) \subseteq Claims
    BY DEF StoreTypeOK, RolesOf, Claims
  <1>2. Cardinality(RolesOf(u)) \in Nat
    BY RolesFinite, FS_CardinalityType
  <1> QED
    BY <1>1, <1>2 DEF ListUserRoles, SetToSeqs

\* What the statements that write leave in the tables.
LEMMA StatementsOK ==
    ASSUME StoreTypeOK, NEW u \in Users
    PROVE  /\ \A e \in Emails : InsertUser(u, e) => StoreTypeOK'
           /\ RemoveUser(u) => StoreTypeOK'
           /\ \A c \in Codes : InsertCode(c, u) => StoreTypeOK'
           /\ \A t \in Tokens : InsertToken(t, u) => StoreTypeOK'
           /\ \A w \in Scopes, m \in Masks : WriteRole(u, w, m) => StoreTypeOK'
           /\ \A w \in Scopes : RemoveRole(u, w) => StoreTypeOK'
  <1>1. \A e \in Emails : InsertUser(u, e) => StoreTypeOK'
    BY DEF StoreTypeOK, InsertUser
  <1>2. RemoveUser(u) => StoreTypeOK'
    <2> SUFFICES ASSUME RemoveUser(u)
                 PROVE  StoreTypeOK'
      OBVIOUS
    <2>1. CASE ForeignKeys
      BY <2>1 DEF StoreTypeOK, RemoveUser
    <2>2. CASE ~ForeignKeys
      BY <2>2 DEF StoreTypeOK, RemoveUser
    <2> QED
      BY <2>1, <2>2
  <1>3. \A c \in Codes : InsertCode(c, u) => StoreTypeOK'
    BY DEF StoreTypeOK, InsertCode, CodeRows
  <1>4. \A t \in Tokens : InsertToken(t, u) => StoreTypeOK'
    BY DEF StoreTypeOK, InsertToken, TokenRows
  <1>5. \A w \in Scopes, m \in Masks : WriteRole(u, w, m) => StoreTypeOK'
    BY DEF StoreTypeOK, WriteRole
  <1>6. \A w \in Scopes : RemoveRole(u, w) => StoreTypeOK'
    BY DEF StoreTypeOK, RemoveRole
  <1> QED
    BY <1>1, <1>2, <1>3, <1>4, <1>5, <1>6

LEMMA OtherStatementsOK ==
    ASSUME StoreTypeOK
    PROVE  /\ \A c \in Codes : MarkCodeUsed(c) => StoreTypeOK'
           /\ \A t \in Tokens : RevokeToken(t) => StoreTypeOK'
           /\ \A i \in KeyIds, k \in Claims : InsertKey(i, k) => StoreTypeOK'
           /\ \A i \in KeyIds : RevokeKey(i) => StoreTypeOK'
           /\ \A w \in Workspaces : InsertWorkspace(w) => StoreTypeOK'
           /\ \A w \in Workspaces : RemoveWorkspace(w) => StoreTypeOK'
  <1>1. \A c \in Codes : MarkCodeUsed(c) => StoreTypeOK'
    <2> SUFFICES ASSUME NEW c \in Codes, MarkCodeUsed(c)
                 PROVE  StoreTypeOK'
      OBVIOUS
    <2>1. CASE codes[c] = None
      BY <2>1 DEF StoreTypeOK, MarkCodeUsed
    <2>2. CASE codes[c] # None
      BY <2>2 DEF StoreTypeOK, MarkCodeUsed, CodeRows
    <2> QED
      BY <2>1, <2>2
  <1>2. \A t \in Tokens : RevokeToken(t) => StoreTypeOK'
    BY ZenonT(30) DEF StoreTypeOK, RevokeToken, TokenRows, Live
  <1>3. \A i \in KeyIds, k \in Claims : InsertKey(i, k) => StoreTypeOK'
    BY DEF StoreTypeOK, InsertKey, KeyRows
  <1>4. \A i \in KeyIds : RevokeKey(i) => StoreTypeOK'
    BY DEF StoreTypeOK, RevokeKey, KeyRows
  <1>5. \A w \in Workspaces : InsertWorkspace(w) => StoreTypeOK'
    BY DEF StoreTypeOK, InsertWorkspace
  <1>6. \A w \in Workspaces : RemoveWorkspace(w) => StoreTypeOK'
    BY DEF StoreTypeOK, RemoveWorkspace
  <1> QED
    BY <1>1, <1>2, <1>3, <1>4, <1>5, <1>6

-----------------------------------------------------------------------------
(* Type correctness, by groups of actions *)

LEMMA HistoriesOK ==
    ASSUME StoreTypeOK, CallsOK, HistoryOK, NEW r \in Requests, NEW origin \in Origins,
           call[r].user \in Users, IssueTokens(r, origin)
    PROVE  StoreTypeOK' /\ CallsOK' /\ HistoryOK'
  <1> DEFINE u == call[r].user
             t == drawn.token + 1
  <1>1. t \in Tokens /\ InsertToken(t, u) /\ Return(r)
    BY DEF IssueTokens
  <1>2. [sub |-> u, claims |-> call[r].claims, edit |-> call[r].edit] \in Jwts
    BY DEF Jwts, Subjects, CallsOK, Calls
  <1>3. HistoryOK'
    <2>1. jwts' \subseteq Jwts
      BY <1>2 DEF IssueTokens, HistoryOK
    <2>2. drawn' \in Counts
      BY <1>1 DEF IssueTokens, HistoryOK, Tokens, Counts
    <2>3. lineage' \in [Tokens -> Origins \cup {None}]
      BY DEF IssueTokens, HistoryOK
    <2> QED
      BY <2>1, <2>2, <2>3 DEF HistoryOK
  <1> QED
    BY <1>1, <1>3, StatementsOK, ReturnOK

\* A change of a user's roles is counted and numbers nothing else.
LEMMA CountsOK ==
    ASSUME HistoryOK, NEW u \in Users, CountEdit(u)
    PROVE  /\ drawn' \in Counts
           /\ drawn'.user = drawn.user /\ drawn'.code = drawn.code /\ drawn'.token = drawn.token
  <1> DEFINE n == IF roles'[u] = roles[u] THEN drawn.edits[u] ELSE drawn.edits[u] + 1
  <1>1. drawn' = [drawn EXCEPT !.edits = [drawn.edits EXCEPT ![u] = n]] /\ n <= MaxEdits
    BY DEF HistoryOK, Counts, CountEdit
  <1>2. n \in 0..MaxEdits
    BY <1>1, ServiceAssumption DEF HistoryOK, Counts
  <1> QED
    BY <1>1, <1>2 DEF HistoryOK, Counts

\* Requests that start, and the answers that are drawn at once.
LEMMA ArriveType ==
    ASSUME AccountTypeOK, NEW r \in Requests, Arrive(r)
    PROVE  AccountTypeOK'
  <1>0. StoreTypeOK /\ CallsOK /\ HistoryOK
    BY TypeParts
  <1>1. ASSUME NEW e \in Emails, Login(r, e)
        PROVE  AccountTypeOK'
    <2>1. CASE \E u \in UserByEmail(e) : DrawCode(r, u)
      <3> PICK u \in UserByEmail(e) : DrawCode(r, u)
        BY <2>1
      <3> DEFINE c == [Idle EXCEPT !.pc = "lg_store", !.user = u, !.code = drawn.code + 1]
      <3>1. u \in Users /\ drawn.code + 1 \in Codes
        BY DEF UserByEmail, DrawCode
      <3>2. c \in Calls /\ LocalsSet(c)
        BY <3>1, IdleOK DEF Calls, LocalsSet, Steps, Verifying, Refreshing, LoggingIn, Administering
      <3>3. CallsOK'
        BY <1>0, <3>2, UpdateOK DEF DrawCode
      <3>4. HistoryOK'
        <4>1. drawn' \in Counts
          BY <1>0, <3>1 DEF HistoryOK, DrawCode, Codes, Counts
        <4> QED
          BY <1>0, <1>1, <4>1 DEF HistoryOK, Login
      <3> QED
        BY <1>0, <1>1, <3>3, <3>4, TypeParts, UnchangedParts DEF Login
    <2>2. CASE Start(r, [Idle EXCEPT !.pc = "lg_create", !.email = e]) /\ UNCHANGED drawn
      <3>1. CallsOK'
        BY <1>0, <2>2, IdleOK, UpdateOK DEF Start, Calls, LocalsSet, Steps, Verifying, Refreshing,
                                   LoggingIn, Administering
      <3> QED
        BY <1>0, <1>1, <2>2, <3>1, TypeParts, UnchangedParts DEF Login, outcomes
    <2> QED
      BY <1>1, <2>1, <2>2 DEF Login
  <1>2. ASSUME NEW c \in Calls, LocalsSet(c), Start(r, c), UNCHANGED <<storeVars, outcomes>>
        PROVE  AccountTypeOK'
    BY <1>0, <1>2, UpdateOK, TypeParts, UnchangedParts DEF Start
  <1>3. ASSUME NEW e \in Emails, Verify(r, e)
        PROVE  AccountTypeOK'
    <2> PICK u \in UserByEmail(e) : Start(r, [Idle EXCEPT !.pc = "vf_code", !.user = u])
      BY <1>3 DEF Verify
    <2> DEFINE c == [Idle EXCEPT !.pc = "vf_code", !.user = u]
    <2>1. c \in Calls /\ LocalsSet(c)
      BY IdleOK DEF UserByEmail, Calls, LocalsSet, Steps, Verifying, Refreshing, LoggingIn,
             Administering
    <2> QED
      BY <1>2, <1>3, <2>1 DEF Verify
  <1>4. ASSUME NEW e \in Emails, CreateUser(r, e)
        PROVE  AccountTypeOK'
    <2> DEFINE c == [Idle EXCEPT !.pc = "ad_create", !.email = e]
    <2>1. c \in Calls /\ LocalsSet(c)
      BY IdleOK DEF Calls, LocalsSet, Steps, Verifying, Refreshing, LoggingIn, Administering
    <2> QED
      BY <1>2, <1>4, <2>1 DEF CreateUser
  <1>5. ASSUME NEW t \in Tokens, Refresh(r, t)
        PROVE  AccountTypeOK'
    <2> DEFINE c == [Idle EXCEPT !.pc = "rf_user", !.user = tokens[t].user, !.token = t]
    <2>1. tokens[t].user \in Users
      BY <1>0, <1>5 DEF Refresh, Live, StoreTypeOK, TokenRows
    <2>2. c \in Calls /\ LocalsSet(c)
      BY <2>1, IdleOK DEF Calls, LocalsSet, Steps, Verifying, Refreshing, LoggingIn, Administering
    <2> QED
      BY <1>2, <1>5, <2>2 DEF Refresh
  <1>6. ASSUME NEW t \in Tokens, Logout(r, t)
        PROVE  AccountTypeOK'
    <2> DEFINE c == [Idle EXCEPT !.pc = "lo_revoke", !.token = t]
    <2>1. c \in Calls /\ LocalsSet(c)
      BY IdleOK DEF Calls, LocalsSet, Steps, Verifying, Refreshing, LoggingIn, Administering
    <2> QED
      BY <1>2, <1>6, <2>1 DEF Logout
  <1>7. ASSUME NEW u \in Users, UpsertUserRole(r, u)
        PROVE  AccountTypeOK'
    <2> DEFINE c == [Idle EXCEPT !.pc = "ad_role", !.user = u]
    <2>1. c \in Calls /\ LocalsSet(c)
      BY IdleOK DEF Calls, LocalsSet, Steps, Verifying, Refreshing, LoggingIn, Administering
    <2> QED
      BY <1>2, <1>7, <2>1 DEF UpsertUserRole
  <1> QED
    BY <1>1, <1>3, <1>4, <1>5, <1>6, <1>7, ServiceAssumption DEF Arrive

\* Login and Verify, until the tokens are issued.
LEMMA LoginType ==
    ASSUME AccountTypeOK, NEW r \in Requests,
           \/ LoginCreateUser(r) \/ LoginCreateLost(r) \/ LoginStore(r)
           \/ VerifyCode(r) \/ VerifyMark(r) \/ VerifyRoles(r)
    PROVE  AccountTypeOK'
  <1>0. StoreTypeOK /\ CallsOK /\ HistoryOK /\ call[r] \in Calls /\ LocalsSet(call[r])
    BY TypeParts DEF CallsOK
  <1>1. CASE LoginCreateUser(r)
    <2> DEFINE u == drawn.user + 1
               d == drawn.code + 1
               c == [Idle EXCEPT !.pc = "lg_store", !.user = u, !.code = d]
    <2>1. u \in Users /\ d \in Codes /\ call[r].email \in Emails
      BY <1>0, <1>1 DEF LoginCreateUser, At, LocalsSet
    <2>2. c \in Calls /\ LocalsSet(c)
      BY <2>1, IdleOK DEF Calls, LocalsSet, Steps, Verifying, Refreshing, LoggingIn,
                          Administering
    <2>3. CallsOK'
      BY <1>0, <1>1, <2>2, UpdateOK DEF LoginCreateUser
    <2>4. StoreTypeOK'
      BY <1>0, <1>1, <2>1, StatementsOK DEF LoginCreateUser
    <2>5. drawn' \in Counts
      <3>1. u \in 0..MaxUser /\ d \in 0..MaxCode
        BY <2>1 DEF Users, Codes
      <3>2. drawn' = [drawn EXCEPT !.user = u, !.code = d]
        BY <1>1 DEF LoginCreateUser
      <3> HIDE DEF u, d
      <3> QED
        BY <1>0, <3>1, <3>2 DEF HistoryOK, Counts
    <2> QED
      BY <1>0, <1>1, <2>3, <2>4, <2>5, TypeParts DEF LoginCreateUser, HistoryOK
  <1>2. CASE GiveUp(r)
    BY <1>0, <1>2, ReturnOK, TypeParts, UnchangedParts DEF GiveUp
  <1>3. CASE LoginStore(r) /\ InsertCode(call[r].code, call[r].user) /\ Return(r)
             /\ UNCHANGED outcomes
    <2>1. call[r].code \in Codes /\ call[r].user \in Users
      BY <1>0, <1>3 DEF LoginStore, At, LocalsSet
    <2> QED
      BY <1>0, <1>3, <2>1, StatementsOK, ReturnOK, TypeParts, UnchangedParts
  <1>4. CASE VerifyCode(r)
    <2>1. CASE Return(r)
      BY <1>0, <1>4, <2>1, ReturnOK, TypeParts, UnchangedParts DEF VerifyCode
    <2>2. ASSUME NEW d \in UnusedCode(call[r].user),
                 call' = [call EXCEPT ![r].pc = "vf_mark", ![r].code = d]
          PROVE  AccountTypeOK'
      <3> DEFINE c == [call[r] EXCEPT !.pc = "vf_mark", !.code = d]
      <3>1. d \in Codes
        BY DEF UnusedCode, UsableCodes
      <3>2. c \in Calls /\ LocalsSet(c)
        BY <1>0, <1>4, <3>1 DEF VerifyCode, At, Calls, LocalsSet, Steps, Verifying, Refreshing
      <3>3. CallsOK'
        BY <1>0, <2>2, <3>2, UpdateOK
      <3> QED
        BY <1>0, <1>4, <3>3, TypeParts, UnchangedParts DEF VerifyCode
    <2> QED
      BY <1>4, <2>1, <2>2 DEF VerifyCode
  <1>5. CASE VerifyMark(r)
    <2>1. call[r].code \in Codes
      BY <1>0, <1>5 DEF VerifyMark, At, LocalsSet
    <2>2. LocalsSet([call[r] EXCEPT !.pc = "vf_roles"])
      BY <1>0, <1>5 DEF VerifyMark, At, Calls, LocalsSet, Verifying, Refreshing
    <2>3. CallsOK'
      BY <1>0, <1>5, <2>2, GotoOK DEF VerifyMark, Steps, Verifying
    <2> QED
      BY <1>0, <1>5, <2>1, <2>3, OtherStatementsOK, TypeParts, UnchangedParts DEF VerifyMark
  <1>6. CASE VerifyRoles(r)
    <2> PICK cs \in ListUserRoles(call[r].user) : Take(r, cs, "vf_store")
      BY <1>6 DEF VerifyRoles
    <2> DEFINE n == drawn.edits[call[r].user]
               c == [call[r] EXCEPT !.pc = "vf_store", !.claims = cs, !.edit = n]
    <2>1. call[r].user \in Users
      BY <1>0, <1>6 DEF VerifyRoles, At, LocalsSet, Verifying
    <2>2. cs \in Seq(Claims) /\ n \in 0..MaxEdits
      BY <1>0, <2>1, ListUserRolesOK DEF HistoryOK, Counts
    <2>3. c \in Calls /\ LocalsSet(c)
      BY <1>0, <1>6, <2>2 DEF VerifyRoles, At, Calls, LocalsSet, Steps, Verifying, Refreshing
    <2>4. call' = [call EXCEPT ![r] = c]
      BY DEF Take
    <2>5. CallsOK'
      BY <1>0, <2>3, <2>4, UpdateOK
    <2> QED
      BY <1>0, <1>6, <2>5, TypeParts, UnchangedParts DEF VerifyRoles
  <1> QED
    BY <1>1, <1>2, <1>3, <1>4, <1>5, <1>6 DEF LoginCreateLost, LoginStore

\* Refresh and Logout, and the answers with tokens.
LEMMA RefreshType ==
    ASSUME AccountTypeOK, NEW r \in Requests,
           \/ VerifyStore(r) \/ RefreshUser(r) \/ RefreshRoles(r) \/ RefreshRevoke(r)
           \/ RefreshStore(r) \/ LogoutRevoke(r)
    PROVE  AccountTypeOK'
  <1>0. StoreTypeOK /\ CallsOK /\ HistoryOK /\ call[r] \in Calls /\ LocalsSet(call[r])
    BY TypeParts DEF CallsOK
  <1>1. CASE GiveUp(r)
    BY <1>0, <1>1, ReturnOK, TypeParts, UnchangedParts DEF GiveUp
  <1>2. CASE VerifyStore(r) /\ IssueTokens(r, FromCode(call[r].code))
    <2>1. call[r].user \in Users /\ FromCode(call[r].code) \in Origins
      BY <1>0, <1>2 DEF VerifyStore, At, LocalsSet, Verifying, FromCode, Origins
    <2> QED
      BY <1>0, <1>2, <2>1, HistoriesOK, TypeParts
  <1>3. CASE RefreshStore(r) /\ IssueTokens(r, FromToken(call[r].token))
    <2>1. call[r].user \in Users /\ FromToken(call[r].token) \in Origins
      BY <1>0, <1>3 DEF RefreshStore, At, LocalsSet, Refreshing, FromToken, Origins
    <2> QED
      BY <1>0, <1>3, <2>1, HistoriesOK, TypeParts
  <1>4. CASE RefreshUser(r)
    <2>1. LocalsSet([call[r] EXCEPT !.pc = "rf_roles"])
      BY <1>0, <1>4 DEF RefreshUser, At, Calls, LocalsSet, Verifying, Refreshing
    <2>2. CallsOK'
      BY <1>0, <1>4, <2>1, GotoOK, ReturnOK DEF RefreshUser, Steps, Refreshing
    <2> QED
      BY <1>0, <1>4, <2>2, TypeParts, UnchangedParts DEF RefreshUser
  <1>5. CASE RefreshRoles(r)
    <2> PICK cs \in ListUserRoles(call[r].user) : Take(r, cs, "rf_revoke")
      BY <1>5 DEF RefreshRoles
    <2> DEFINE n == drawn.edits[call[r].user]
               c == [call[r] EXCEPT !.pc = "rf_revoke", !.claims = cs, !.edit = n]
    <2>1. call[r].user \in Users
      BY <1>0, <1>5 DEF RefreshRoles, At, LocalsSet, Refreshing
    <2>2. cs \in Seq(Claims) /\ n \in 0..MaxEdits
      BY <1>0, <2>1, ListUserRolesOK DEF HistoryOK, Counts
    <2>3. c \in Calls /\ LocalsSet(c)
      BY <1>0, <1>5, <2>2 DEF RefreshRoles, At, Calls, LocalsSet, Steps, Verifying, Refreshing
    <2>4. call' = [call EXCEPT ![r] = c]
      BY DEF Take
    <2>5. CallsOK'
      BY <1>0, <2>3, <2>4, UpdateOK
    <2> QED
      BY <1>0, <1>5, <2>5, TypeParts, UnchangedParts DEF RefreshRoles
  <1>6. CASE RefreshRevoke(r) /\ RevokeToken(call[r].token) /\ Goto(r, "rf_store")
             /\ UNCHANGED outcomes
    <2>1. call[r].token \in Tokens
      BY <1>0, <1>6 DEF RefreshRevoke, At, LocalsSet, Refreshing
    <2>2. LocalsSet([call[r] EXCEPT !.pc = "rf_store"])
      BY <1>0, <1>6 DEF RefreshRevoke, At, Calls, LocalsSet, Verifying, Refreshing
    <2>3. CallsOK'
      BY <1>0, <1>6, <2>2, GotoOK DEF Steps, Refreshing
    <2> QED
      BY <1>0, <1>6, <2>1, <2>3, OtherStatementsOK, TypeParts, UnchangedParts
  <1>7. CASE LogoutRevoke(r)
    <2>1. call[r].token \in Tokens
      BY <1>0, <1>7 DEF LogoutRevoke, At, LocalsSet
    <2>2. StoreTypeOK'
      BY <1>0, <1>7, <2>1, OtherStatementsOK, UnchangedParts DEF LogoutRevoke
    <2> QED
      BY <1>0, <1>7, <2>2, ReturnOK, TypeParts, UnchangedParts DEF LogoutRevoke
  <1> QED
    BY <1>1, <1>2, <1>3, <1>4, <1>5, <1>6, <1>7
    DEF VerifyStore, RefreshStore, RefreshRevoke, IssueRefused

\* What an administrator does, and the clock.
LEMMA AdminType ==
    ASSUME AccountTypeOK
    PROVE  /\ \A r \in Requests : CreateUserInsert(r) => AccountTypeOK'
           /\ \A r \in Requests : UpsertUserRoleWrite(r) => AccountTypeOK'
           /\ \A r \in Requests : Abandon(r) => AccountTypeOK'
           /\ Administer => AccountTypeOK'
           /\ AdminLogin => AccountTypeOK'
           /\ ExpireStored => AccountTypeOK'
           /\ \A s \in Subjects : ExpireAccess(s) => AccountTypeOK'
  <1>0. StoreTypeOK /\ CallsOK /\ HistoryOK
    BY TypeParts
  <1>1. ASSUME NEW r \in Requests, CreateUserInsert(r)
        PROVE  AccountTypeOK'
    <2>1. call[r].email \in Emails /\ drawn.user + 1 \in Users
      BY <1>0, <1>1 DEF CreateUserInsert, At, CallsOK, LocalsSet
    <2>2. StoreTypeOK'
      BY <1>0, <1>1, <2>1, StatementsOK, UnchangedParts DEF CreateUserInsert
    <2>3. drawn' \in Counts
      BY <1>0, <1>1, <2>1 DEF CreateUserInsert, HistoryOK, Users, Counts
    <2>4. CallsOK'
      BY <1>0, <1>1, ReturnOK DEF CreateUserInsert
    <2> QED
      BY <1>0, <1>1, <2>2, <2>3, <2>4, TypeParts DEF CreateUserInsert, HistoryOK
  <1>2. ASSUME NEW r \in Requests, UpsertUserRoleWrite(r)
        PROVE  AccountTypeOK'
    <2>1. call[r].user \in Users
      BY <1>0, <1>2 DEF UpsertUserRoleWrite, At, CallsOK, LocalsSet
    <2>2. StoreTypeOK'
      BY <1>0, <1>2, <2>1, StatementsOK, UnchangedParts DEF UpsertUserRoleWrite
    <2>3. CallsOK'
      BY <1>0, <1>2, ReturnOK DEF UpsertUserRoleWrite
    <2>4. HistoryOK'
      BY <1>0, <1>2, <2>1, CountsOK DEF UpsertUserRoleWrite, HistoryOK
    <2> QED
      BY <2>2, <2>3, <2>4, TypeParts
  <1>3. ASSUME NEW r \in Requests, Abandon(r)
        PROVE  AccountTypeOK'
    BY <1>0, <1>3, ReturnOK, TypeParts, UnchangedParts DEF Abandon, GiveUp
  <1>4. ASSUME Administer
        PROVE  AccountTypeOK'
    <2>1. StoreTypeOK'
      <3>1. ASSUME NEW u \in Users, DeleteUser(u) \/ \E w \in Scopes : DeleteUserRole(u, w)
            PROVE  StoreTypeOK'
        BY <1>0, <3>1, StatementsOK DEF DeleteUser, DeleteUserRole
      <3>2. ASSUME NEW i \in KeyIds, CreateAPIKey(i) \/ RevokeAPIKey(i) \/ ExpireAPIKey(i)
            PROVE  StoreTypeOK'
        BY <1>0, <3>2, OtherStatementsOK DEF CreateAPIKey, RevokeAPIKey, ExpireAPIKey
      <3>3. ASSUME NEW w \in Workspaces, CreateWorkspace(w) \/ DeleteWorkspace(w)
            PROVE  StoreTypeOK'
        BY <1>0, <3>3, OtherStatementsOK DEF CreateWorkspace, DeleteWorkspace
      <3> QED
        BY <1>4, <3>1, <3>2, <3>3 DEF Administer
    <2>2. /\ UNCHANGED <<call, jwts, lineage>>
          /\ UNCHANGED drawn \/ \E u \in Users : CountEdit(u)
      BY <1>4 DEF Administer, DeleteUser, DeleteUserRole, CreateAPIKey, RevokeAPIKey,
                  ExpireAPIKey, CreateWorkspace, DeleteWorkspace, outcomes
    <2>3. HistoryOK'
      BY <1>0, <2>2, CountsOK DEF HistoryOK
    <2> QED
      BY <1>0, <2>1, <2>2, <2>3, TypeParts, UnchangedParts
  <1>5. ASSUME AdminLogin
        PROVE  AccountTypeOK'
    <2>1. AdminClaims \in Seq(Claims)
      BY AccessAssumption DEF AdminClaims, Claims, Scopes
    <2>2. jwts' \subseteq Jwts
      BY <1>0, <1>5, <2>1, ServiceAssumption DEF AdminLogin, HistoryOK, Jwts, Subjects
    <2> QED
      BY <1>0, <1>5, <2>2, TypeParts, UnchangedParts DEF AdminLogin, HistoryOK
  <1>6. ASSUME ExpireStored
        PROVE  AccountTypeOK'
    <2>1. expired' \in [code : 0..MaxCode, token : 0..MaxToken]
      BY <1>0, <1>6, StoreAssumption DEF ExpireStored, StoreTypeOK, HistoryOK, Counts
    <2> QED
      BY <1>0, <1>6, <2>1, TypeParts, UnchangedParts DEF ExpireStored, StoreTypeOK
  <1>7. ASSUME NEW s \in Subjects, ExpireAccess(s)
        PROVE  AccountTypeOK'
    <2>1. jwts' \subseteq Jwts
      BY <1>0, <1>7 DEF ExpireAccess, HistoryOK
    <2> QED
      BY <1>0, <1>7, <2>1, TypeParts, UnchangedParts DEF ExpireAccess, HistoryOK
  <1> QED
    BY <1>1, <1>2, <1>3, <1>4, <1>5, <1>6, <1>7

LEMMA InitType == AuthInit => AccountTypeOK
  <1>1. AuthInit => StoreTypeOK
    BY StoreAssumption DEF AuthInit, StoreInit, StoreTypeOK
  <1>2. AuthInit => CallsOK
    BY IdleOK DEF AuthInit, CallsOK
  <1>3. AuthInit => HistoryOK
    BY StoreAssumption, ServiceAssumption DEF AuthInit, HistoryOK, Counts
  <1> QED
    BY <1>1, <1>2, <1>3, TypeParts

LEMMA NextType == AccountTypeOK /\ [Next]_authVars => AccountTypeOK'
  <1> SUFFICES ASSUME AccountTypeOK, [Next]_authVars
               PROVE  AccountTypeOK'
    OBVIOUS
  <1>1. CASE UNCHANGED authVars
    <2>1. UNCHANGED storeVars /\ UNCHANGED call /\ UNCHANGED outcomes
      BY <1>1 DEF authVars
    <2> QED
      BY <2>1, TypeParts, UnchangedParts
  <1>2. ASSUME NEW r \in Requests, Advance(r)
        PROVE  AccountTypeOK'
    BY <1>2, LoginType, RefreshType, AdminType DEF Advance
  <1> QED
    BY <1>1, <1>2, ArriveType, AdminType DEF Next

\* Every variable keeps its type, and a request's locals are set where its
\* next step reads them, in every interleaving and wherever requests stop.
THEOREM AccountTypeCorrect == Spec => []AccountTypeOK
  BY InitType, NextType, PTL DEF Spec

-----------------------------------------------------------------------------
(* The rotation *)

\* The facts about a step that issues no token and revokes none for Refresh.
Quiet ==
    /\ Live' \subseteq Live
    /\ \A t \in Tokens : tokens'[t] # None => tokens[t] # None
    /\ lineage' = lineage
    /\ drawn'.token = drawn.token
    /\ \A r \in Requests :
          /\ call'[r].pc \in Refreshing =>
                \/ call[r].pc \in Refreshing /\ call'[r].token = call[r].token
                \/ call'[r].token \in Live
          /\ call'[r].pc = "rf_store" =>
                call[r].pc = "rf_store" /\ call'[r].token = call[r].token

LEMMA QuietKeeps ==
    ASSUME AccountTypeOK, AccountTypeOK', SessionInv, Quiet
    PROVE  SessionInv'
  <1>1. NumbersFresh'
    BY DEF SessionInv, NumbersFresh, Quiet
  <1>2. RowsIssued'
    BY DEF SessionInv, RowsIssued, Quiet
  <1>3. RefreshesIssued'
    BY DEF SessionInv, RefreshesIssued, RowsIssued, Quiet, Live
  <1>4. RevokedHeld'
    BY DEF SessionInv, RevokedHeld, Quiet, At
  <1>5. ExchangedRetired'
    BY DEF SessionInv, ExchangedRetired, Quiet
  <1> QED
    BY <1>1, <1>2, <1>3, <1>4, <1>5 DEF SessionInv

\* No statement but the INSERT of a token makes one live.
LEMMA StatementsQuiet ==
    ASSUME StoreTypeOK
    PROVE  /\ UNCHANGED tokens \/ (\E t \in Tokens : RevokeToken(t)) \/ (\E u \in Users : RemoveUser(u))
              => /\ Live' \subseteq Live
                 /\ \A t \in Tokens : tokens'[t] # None => tokens[t] # None
  <1>1. CASE UNCHANGED tokens
    BY <1>1 DEF Live
  <1>2. ASSUME NEW t \in Tokens, RevokeToken(t)
        PROVE  /\ Live' \subseteq Live
               /\ \A s \in Tokens : tokens'[s] # None => tokens[s] # None
    BY <1>2 DEF Live, RevokeToken, StoreTypeOK, TokenRows
  <1>3. ASSUME NEW u \in Users, RemoveUser(u)
        PROVE  /\ Live' \subseteq Live
               /\ \A s \in Tokens : tokens'[s] # None => tokens[s] # None
    <2>1. CASE ForeignKeys
      BY <1>3, <2>1 DEF Live, RemoveUser, StoreTypeOK, TokenRows
    <2>2. CASE ~ForeignKeys
      BY <1>3, <2>2 DEF Live, RemoveUser, StoreTypeOK, TokenRows
    <2> QED
      BY <2>1, <2>2
  <1> QED
    BY <1>1, <1>2, <1>3

\* Requests that start, and those that do not touch refresh tokens.
LEMMA RequestsQuiet ==
    ASSUME AccountTypeOK, NEW r \in Requests,
           \/ Arrive(r) \/ LoginCreateUser(r) \/ LoginCreateLost(r) \/ LoginStore(r)
           \/ VerifyCode(r) \/ VerifyMark(r) \/ VerifyRoles(r)
           \/ RefreshUser(r) \/ RefreshRoles(r)
           \/ CreateUserInsert(r) \/ UpsertUserRoleWrite(r) \/ GiveUp(r)
    PROVE  Quiet
  <1>1. UNCHANGED tokens /\ UNCHANGED lineage /\ drawn'.token = drawn.token
    <2>1. CASE Arrive(r)
      BY <2>1, TypeParts DEF Arrive, Login, DrawCode, Verify, CreateUser, Refresh, Logout,
           UpsertUserRole, storeVars, outcomes, HistoryOK, Counts
    <2>2. CASE LoginCreateUser(r) \/ CreateUserInsert(r)
      BY <2>2, TypeParts DEF LoginCreateUser, CreateUserInsert, InsertUser, storeVars, HistoryOK, Counts
    <2>3. CASE LoginStore(r) \/ VerifyMark(r)
      BY <2>3 DEF LoginStore, InsertCode, VerifyMark, MarkCodeUsed, GiveUp, storeVars, outcomes
    <2>5. CASE UpsertUserRoleWrite(r)
      <3>1. call[r].user \in Users /\ CountEdit(call[r].user)
        BY <2>5, TypeParts DEF UpsertUserRoleWrite, At, CallsOK, LocalsSet
      <3> QED
        BY <2>5, <3>1, CountsOK, TypeParts DEF UpsertUserRoleWrite, WriteRole, storeVars
    <2>4. CASE VerifyCode(r) \/ VerifyRoles(r) \/ RefreshUser(r) \/ RefreshRoles(r)
               \/ LoginCreateLost(r) \/ GiveUp(r)
      BY <2>4 DEF VerifyCode, VerifyRoles, RefreshUser, RefreshRoles, LoginCreateLost, GiveUp,
                  storeVars, outcomes
    <2> QED
      BY <2>1, <2>2, <2>3, <2>4, <2>5
  <1>2. CallsOK /\ call[r] \in Calls
    BY TypeParts DEF CallsOK
  <1>3. ASSUME \A s \in Requests \ {r} : call'[s] = call[s],
               \/ call'[r].pc \notin Refreshing
               \/ call'[r].pc = "rf_user" /\ call'[r].token \in Live
               \/ /\ call[r].pc \in Refreshing
                  /\ call'[r].pc \in Refreshing \ {"rf_store"}
                  /\ call'[r].token = call[r].token
        PROVE  Quiet
    <2>1. Live' \subseteq Live /\ \A t \in Tokens : tokens'[t] # None => tokens[t] # None
      BY <1>1, StatementsQuiet, TypeParts
    <2>2. ASSUME NEW s \in Requests
          PROVE  /\ call'[s].pc \in Refreshing =>
                       \/ call[s].pc \in Refreshing /\ call'[s].token = call[s].token
                       \/ call'[s].token \in Live
                 /\ call'[s].pc = "rf_store" =>
                       call[s].pc = "rf_store" /\ call'[s].token = call[s].token
      <3>1. CASE s = r
        BY <1>3, <3>1 DEF Refreshing
      <3>2. CASE s # r
        BY <1>3, <3>2
      <3> QED
        BY <3>1, <3>2
    <2> QED
      BY <1>1, <2>1, <2>2 DEF Quiet
  <1>4. ASSUME Return(r)
        PROVE  Quiet
    BY <1>2, <1>3, <1>4 DEF CallsOK, Return, Idle, Refreshing
  <1>5. CASE Arrive(r)
    <2>1. ASSUME NEW e \in Emails, Login(r, e) \/ Verify(r, e) \/ CreateUser(r, e)
          PROVE  Quiet
      BY <1>2, <1>3, <2>1, ZenonT(30) DEF Login, DrawCode, Verify, CreateUser, Start, Idle, CallsOK, Refreshing
    <2>2. ASSUME NEW t \in Tokens, Refresh(r, t)
          PROVE  Quiet
      BY <1>2, <1>3, <2>2 DEF Refresh, Start, Idle, CallsOK, Refreshing
    <2>3. ASSUME NEW t \in Tokens, Logout(r, t)
          PROVE  Quiet
      BY <1>2, <1>3, <2>3 DEF Logout, Start, Idle, CallsOK, Refreshing
    <2>4. ASSUME NEW u \in Users, UpsertUserRole(r, u)
          PROVE  Quiet
      BY <1>2, <1>3, <2>4 DEF UpsertUserRole, Start, Idle, CallsOK, Refreshing
    <2> QED
      BY <1>5, <2>1, <2>2, <2>3, <2>4, ServiceAssumption DEF Arrive
  <1>6. CASE LoginCreateUser(r)
    BY <1>2, <1>3, <1>6 DEF LoginCreateUser, Idle, CallsOK, Refreshing
  <1>7. CASE VerifyCode(r) \/ VerifyMark(r) \/ VerifyRoles(r)
    <2>1. CASE ~Return(r) /\ ~VerifyRoles(r)
      BY <1>2, <1>3, <1>7, <2>1
      DEF VerifyCode, VerifyMark, Goto, Calls, CallsOK, Refreshing
    <2>2. CASE VerifyRoles(r)
      BY <1>2, <1>3, <2>2, TakeStep DEF VerifyRoles, Refreshing
    <2> QED
      BY <1>4, <2>1, <2>2
  <1>8. CASE RefreshUser(r) \/ RefreshRoles(r)
    <2>1. CASE ~Return(r) /\ ~RefreshRoles(r)
      BY <1>2, <1>3, <1>8, <2>1 DEF RefreshUser, At, Goto, Calls, CallsOK, Refreshing
    <2>2. CASE RefreshRoles(r)
      BY <1>2, <1>3, <2>2, TakeStep DEF RefreshRoles, At, Refreshing
    <2> QED
      BY <1>4, <2>1, <2>2
  <1>9. CASE LoginCreateLost(r) \/ LoginStore(r) \/ CreateUserInsert(r)
             \/ UpsertUserRoleWrite(r) \/ GiveUp(r)
    BY <1>4, <1>9 DEF LoginCreateLost, LoginStore, CreateUserInsert, UpsertUserRoleWrite, GiveUp
  <1> QED
    BY <1>5, <1>6, <1>7, <1>8, <1>9

\* What an administrator does numbers nothing.
LEMMA AdminCounts ==
    ASSUME HistoryOK, Administer
    PROVE  /\ UNCHANGED <<call, lineage>>
           /\ drawn'.code = drawn.code /\ drawn'.token = drawn.token
  <1>1. /\ UNCHANGED <<call, lineage>>
        /\ UNCHANGED drawn \/ \E u \in Users : CountEdit(u)
    BY DEF Administer, DeleteUser, DeleteUserRole, CreateAPIKey, RevokeAPIKey,
           ExpireAPIKey, CreateWorkspace, DeleteWorkspace, outcomes
  <1> QED
    BY <1>1, CountsOK

\* The steps that no request takes, and the two that revoke for another end.
LEMMA OthersQuiet ==
    ASSUME AccountTypeOK
    PROVE  /\ Administer => Quiet
           /\ AdminLogin => Quiet
           /\ ExpireStored => Quiet
           /\ \A s \in Subjects : ExpireAccess(s) => Quiet
           /\ \A r \in Requests : LogoutRevoke(r) => Quiet
           /\ UNCHANGED authVars => Quiet
  <1>0. StoreTypeOK /\ CallsOK /\ HistoryOK
    BY TypeParts
  <1>1. ASSUME UNCHANGED <<call, lineage>>, drawn'.token = drawn.token,
               UNCHANGED tokens \/ \E u \in Users : RemoveUser(u)
        PROVE  Quiet
    BY <1>0, <1>1, StatementsQuiet DEF Quiet
  <1>2. Administer => Quiet
    <2>1. Administer => UNCHANGED <<call, lineage>> /\ drawn'.token = drawn.token
      BY <1>0, AdminCounts
    <2>2. Administer => UNCHANGED tokens \/ \E u \in Users : RemoveUser(u)
      BY DEF Administer, DeleteUser, DeleteUserRole, CreateAPIKey, RevokeAPIKey, ExpireAPIKey,
             CreateWorkspace, DeleteWorkspace, RemoveRole, InsertKey, RevokeKey, InsertWorkspace,
             RemoveWorkspace
    <2> QED
      BY <1>1, <2>1, <2>2
  <1>3. /\ AdminLogin => Quiet
        /\ ExpireStored => Quiet
        /\ \A s \in Subjects : ExpireAccess(s) => Quiet
        /\ UNCHANGED authVars => Quiet
    BY <1>1 DEF AdminLogin, ExpireStored, ExpireAccess, authVars, outcomes, storeVars
  <1>4. ASSUME NEW r \in Requests, LogoutRevoke(r)
        PROVE  Quiet
    <2>1. UNCHANGED <<lineage, drawn>> /\ Return(r)
      BY <1>4 DEF LogoutRevoke, outcomes
    <2>2. call[r].token \in Tokens
      BY <1>0, <1>4 DEF LogoutRevoke, At, CallsOK, LocalsSet
    <2>3. Live' \subseteq Live /\ \A t \in Tokens : tokens'[t] # None => tokens[t] # None
      BY <1>0, <1>4, <2>2, StatementsQuiet DEF LogoutRevoke, storeVars
    <2> QED
      BY <1>0, <2>1, <2>3 DEF Quiet, CallsOK, Return, Idle, Refreshing
  <1> QED
    BY <1>2, <1>3, <1>4

\* The revocation by which one of several refreshes wins.
Exchange(r) ==
    /\ At(r, "rf_revoke")
    /\ RevokeToken(call[r].token)
    /\ Goto(r, "rf_store")
    /\ UNCHANGED outcomes

LEMMA ExchangeKeeps ==
    ASSUME AccountTypeOK, AccountTypeOK', SessionInv, NEW r \in Requests, Exchange(r)
    PROVE  SessionInv' /\ Live' \subseteq Live /\ lineage' = lineage
  <1> DEFINE old == call[r].token
  <1>0. StoreTypeOK /\ CallsOK /\ call[r] \in Calls
    BY TypeParts DEF CallsOK
  <1>1. old \in Tokens /\ old \in Live
    BY <1>0 DEF Exchange, At, CallsOK, LocalsSet, Refreshing, RevokeToken
  <1>2. /\ Live' \subseteq Live
        /\ \A t \in Tokens : tokens'[t] # None => tokens[t] # None
        /\ lineage' = lineage /\ drawn' = drawn
    BY <1>0, <1>1, StatementsQuiet DEF Exchange, outcomes
  <1>3. old \notin Live'
    BY <1>0, <1>1 DEF Exchange, RevokeToken, Live, StoreTypeOK, TokenRows
  <1>4. /\ call'[r].pc = "rf_store" /\ call'[r].token = old
        /\ \A s \in Requests \ {r} : call'[s] = call[s]
    BY <1>0 DEF Exchange, Goto, CallsOK, Calls
  <1>5. NumbersFresh' /\ RowsIssued' /\ ExchangedRetired'
    BY <1>2 DEF SessionInv, NumbersFresh, RowsIssued, ExchangedRetired
  <1>6. RefreshesIssued'
    BY <1>1, <1>2, <1>4 DEF SessionInv, RefreshesIssued, RowsIssued, Live
  <1>7. RevokedHeld'
    <2> SUFFICES ASSUME NEW q \in Requests, call'[q].pc = "rf_store"
                 PROVE  /\ call'[q].token \notin Live'
                        /\ \A t \in Tokens : lineage'[t] # FromToken(call'[q].token)
                        /\ \A s \in Requests \ {q} :
                              call'[s].pc = "rf_store" => call'[s].token # call'[q].token
      BY DEF RevokedHeld, At
    <2>1. \A s \in Requests \ {r} : At(s, "rf_store") => call[s].token # old
      BY <1>1 DEF SessionInv, RevokedHeld
    <2>2. CASE q = r
      BY <1>1, <1>2, <1>3, <1>4, <2>1, <2>2 DEF SessionInv, ExchangedRetired, At
    <2>3. CASE q # r
      BY <1>2, <1>4, <2>1, <2>3 DEF SessionInv, RevokedHeld, At
    <2> QED
      BY <2>2, <2>3
  <1> QED
    BY <1>2, <1>5, <1>6, <1>7 DEF SessionInv

\* The answer of Verify or of Refresh.
Answer(r, origin) ==
    /\ \/ At(r, "vf_store") /\ origin = FromCode(call[r].code)
       \/ At(r, "rf_store") /\ origin = FromToken(call[r].token)
    /\ IssueTokens(r, origin)

LEMMA AnswerKeeps ==
    ASSUME AccountTypeOK, AccountTypeOK', SessionInv, NEW r \in Requests, NEW origin,
           Answer(r, origin)
    PROVE  SessionInv'
  <1> DEFINE n == drawn.token + 1
  <1>0. StoreTypeOK /\ CallsOK /\ HistoryOK
    BY TypeParts
  <1>1. /\ n \in Tokens
        /\ tokens' = [tokens EXCEPT ![n] = [user |-> call[r].user, revoked |-> FALSE]]
        /\ lineage' = [lineage EXCEPT ![n] = origin]
        /\ drawn' = [drawn EXCEPT !.token = n]
        /\ Return(r)
    BY DEF Answer, IssueTokens, InsertToken
  <1>2. drawn.token \in Nat /\ n > drawn.token /\ drawn'.token = n
    BY <1>0, <1>1, StoreAssumption DEF HistoryOK, Counts
  <1>3. tokens[n] = None /\ lineage[n] = None
    BY <1>1, <1>2 DEF SessionInv, NumbersFresh
  <1>4. origin # None /\ lineage'[n] = origin /\ \A t \in Tokens \ {n} : lineage'[t] = lineage[t]
    <2>1. origin \in Origins
      BY <1>0 DEF Answer, At, CallsOK, LocalsSet, Verifying, Refreshing, Origins, FromCode, FromToken
    <2> QED
      BY <1>0, <1>1, <2>1, ServiceAssumption DEF HistoryOK
  <1>5. Live' = Live \cup {n} /\ n \notin Live
    <2>1. [user |-> call[r].user, revoked |-> FALSE] # None
      <3>1. call[r].user \in Users
        BY <1>0 DEF Answer, At, CallsOK, LocalsSet, Verifying, Refreshing
      <3>2. [user |-> call[r].user, revoked |-> FALSE] \in TokenRows
        BY <3>1 DEF TokenRows
      <3> QED
        BY <3>2, StoreAssumption
    <2> QED
      BY <1>0, <1>1, <1>3, <2>1 DEF Live, StoreTypeOK
  <1>6. /\ call'[r].pc = "idle"
        /\ \A s \in Requests \ {r} : call'[s] = call[s]
    BY <1>0, <1>1 DEF Return, Idle, CallsOK
  <1>7. \A s, t \in Tokens : FromToken(s) = FromToken(t) => s = t
    BY DEF FromToken
  <1>8. \A s \in Tokens, c \in Codes : FromCode(c) # FromToken(s)
    BY DEF FromCode, FromToken
  <1>9. \A s \in Requests : call[s].pc \in Refreshing => call[s].token \in Tokens \ {n}
    BY <1>0, <1>3 DEF SessionInv, RefreshesIssued, CallsOK, LocalsSet
  <1>10. NumbersFresh'
    BY <1>1, <1>2, <1>4 DEF SessionInv, NumbersFresh, Tokens
  <1>11. RowsIssued'
    BY <1>0, <1>1, <1>4 DEF SessionInv, RowsIssued, StoreTypeOK
  <1>12. RefreshesIssued'
    BY <1>4, <1>6, <1>9 DEF SessionInv, RefreshesIssued, Refreshing
  <1>13. RevokedHeld'
    <2> SUFFICES ASSUME NEW q \in Requests \ {r}, At(q, "rf_store")
                 PROVE  /\ call[q].token \notin Live'
                        /\ \A t \in Tokens : lineage'[t] # FromToken(call[q].token)
                        /\ \A s \in Requests \ {q, r} :
                              At(s, "rf_store") => call[s].token # call[q].token
      BY <1>6 DEF RevokedHeld, At
    <2>1. call[q].token \in Tokens \ {n}
      BY <1>9 DEF At, Refreshing
    <2>2. origin # FromToken(call[q].token)
      <3>1. CASE At(r, "vf_store") /\ origin = FromCode(call[r].code)
        BY <1>0, <1>8, <2>1, <3>1 DEF At, CallsOK, LocalsSet
      <3>2. CASE At(r, "rf_store") /\ origin = FromToken(call[r].token)
        <4>1. call[r].token \in Tokens /\ call[r].token # call[q].token
          BY <1>9, <3>2 DEF SessionInv, RevokedHeld, At, Refreshing
        <4> QED
          BY <1>7, <2>1, <3>2, <4>1
      <3> QED
        BY <3>1, <3>2 DEF Answer
    <2> QED
      BY <1>4, <1>5, <2>1, <2>2 DEF SessionInv, RevokedHeld
  <1>14. ExchangedRetired'
    <2> SUFFICES ASSUME NEW s \in Tokens, NEW t \in Tokens, lineage'[t] = FromToken(s)
                 PROVE  lineage'[s] # None /\ s \notin Live'
      BY DEF ExchangedRetired
    <2>1. lineage[s] # None /\ s \notin Live
      <3>1. CASE t = n
        <4>1. At(r, "rf_store") /\ origin = FromToken(call[r].token)
          BY <1>0, <1>4, <1>8, <3>1 DEF Answer, At, CallsOK, LocalsSet
        <4>2. s = call[r].token
          BY <1>4, <1>7, <1>9, <3>1, <4>1 DEF At, Refreshing
        <4> QED
          BY <4>1, <4>2 DEF SessionInv, RefreshesIssued, RevokedHeld, At, Refreshing
      <3>2. CASE t # n
        BY <1>4, <3>2 DEF SessionInv, ExchangedRetired
      <3> QED
        BY <3>1, <3>2
    <2> QED
      BY <1>3, <1>4, <1>5, <2>1
  <1> QED
    BY <1>10, <1>11, <1>12, <1>13, <1>14 DEF SessionInv

\* Every step is quiet, an exchange or an answer.
LEMMA StepKinds ==
    ASSUME AccountTypeOK, [Next]_authVars
    PROVE  \/ Quiet
           \/ \E r \in Requests : Exchange(r) \/ \E origin : Answer(r, origin)
  <1>1. ASSUME NEW r \in Requests, Advance(r)
        PROVE  Quiet \/ Exchange(r) \/ \E origin : Answer(r, origin)
    <2>1. CASE VerifyStore(r) \/ RefreshStore(r)
      BY <2>1, RequestsQuiet DEF VerifyStore, RefreshStore, IssueRefused, Answer
    <2>2. CASE RefreshRevoke(r)
      BY <2>2, RequestsQuiet DEF RefreshRevoke, Exchange
    <2>3. CASE LogoutRevoke(r)
      BY <2>3, OthersQuiet
    <2>4. CASE Abandon(r)
      BY <2>4, RequestsQuiet DEF Abandon
    <2> QED
      BY <1>1, <2>1, <2>2, <2>3, <2>4, RequestsQuiet DEF Advance
  <1>2. ASSUME NEW r \in Requests, Arrive(r)
        PROVE  Quiet
    BY <1>2, RequestsQuiet
  <1> QED
    BY <1>1, <1>2, OthersQuiet DEF Next

LEMMA InitSession == AuthInit => SessionInv
  <1> SUFFICES ASSUME AuthInit
               PROVE  SessionInv
    OBVIOUS
  <1>1. \A t \in Tokens : tokens[t] = None /\ lineage[t] = None
    BY DEF AuthInit, StoreInit
  <1>2. \A r \in Requests : call[r].pc = "idle"
    BY DEF AuthInit, Idle
  <1>3. \A s \in Tokens : FromToken(s) # None
    BY ServiceAssumption DEF FromToken, Origins
  <1> QED
    BY <1>1, <1>2, <1>3 DEF SessionInv, NumbersFresh, RowsIssued, RefreshesIssued, RevokedHeld,
                            ExchangedRetired, At, Refreshing

LEMMA NextSession ==
    ASSUME AccountTypeOK, SessionInv, [Next]_authVars
    PROVE  SessionInv'
  BY NextType, StepKinds, QuietKeeps, ExchangeKeeps, AnswerKeeps

\* Between the revocation of a token and the issue of its heir one request
\* holds it, and a token that has an heir stays revoked: however refreshes,
\* logouts and deletions of users interleave, and wherever they stop.
THEOREM SessionInvariant == Spec => []SessionInv
  <1>1. Spec => []AccountTypeOK
    BY AccountTypeCorrect
  <1>2. SessionInv /\ AccountTypeOK /\ [Next]_authVars => SessionInv'
    BY NextSession
  <1> QED
    BY <1>1, <1>2, InitSession, PTL DEF Spec

\* An answer opens a session or renews one.
LEMMA AnswerIssues ==
    ASSUME AccountTypeOK, SessionInv, NEW r \in Requests, NEW origin, Answer(r, origin)
    PROVE  Rotation!Next
  <1> DEFINE n == drawn.token + 1
  <1>0. StoreTypeOK /\ CallsOK /\ HistoryOK
    BY TypeParts
  <1>1. /\ n \in Tokens
        /\ tokens' = [tokens EXCEPT ![n] = [user |-> call[r].user, revoked |-> FALSE]]
        /\ lineage' = [lineage EXCEPT ![n] = origin]
    BY DEF Answer, IssueTokens, InsertToken
  <1>2. drawn.token \in Nat /\ n > drawn.token
    BY <1>0, <1>1, StoreAssumption DEF HistoryOK, Counts
  <1>3. lineage[n] = None
    BY <1>1, <1>2 DEF SessionInv, NumbersFresh
  <1>4. Live' = Live \cup {n}
    <2>1. call[r].user \in Users
      BY <1>0 DEF Answer, At, CallsOK, LocalsSet, Verifying, Refreshing
    <2>2. [user |-> call[r].user, revoked |-> FALSE] \in TokenRows
      BY <2>1 DEF TokenRows
    <2>3. [user |-> call[r].user, revoked |-> FALSE] # None
      BY <2>2, StoreAssumption
    <2> QED
      BY <1>0, <1>1, <2>3 DEF Live, StoreTypeOK
  <1>5. Rotation!Issue(n, origin)
    BY <1>1, <1>3, <1>4 DEF Rotation!Issue
  <1>6. CASE At(r, "vf_store") /\ origin = FromCode(call[r].code)
    <2>1. call[r].code \in Codes
      BY <1>0, <1>6 DEF At, CallsOK, LocalsSet
    <2>2. Rotation!Open(n)
      BY <1>5, <1>6, <2>1 DEF Rotation!Open, FromCode
    <2> QED
      BY <1>1, <2>2 DEF Rotation!Next
  <1>7. CASE At(r, "rf_store") /\ origin = FromToken(call[r].token)
    <2> DEFINE old == call[r].token
    <2>1. /\ old \in Tokens
          /\ lineage[old] # None
          /\ old \notin Live
          /\ \A s \in Tokens : lineage[s] # FromToken(old)
      BY <1>0, <1>7 DEF At, CallsOK, LocalsSet, Refreshing, SessionInv, RefreshesIssued, RevokedHeld
    <2>2. Rotation!Renew(old, n)
      BY <1>5, <1>7, <2>1 DEF Rotation!Renew, FromToken
    <2> QED
      BY <1>1, <2>1, <2>2 DEF Rotation!Next
  <1> QED
    BY <1>6, <1>7 DEF Answer

\* Each refresh token is exchanged at most once, and only when it can no
\* longer be used: the service implements the chains of Sessions.
THEOREM RotationImplemented == Spec => RefreshTokensRotate
  <1>1. AuthInit => Rotation!Init
    <2> SUFFICES ASSUME AuthInit
                 PROVE  Rotation!Init
      OBVIOUS
    <2>1. \A t \in Tokens : tokens[t] = None
      BY DEF AuthInit, StoreInit
    <2>2. Live = {}
      BY <2>1 DEF Live
    <2> QED
      BY <2>2 DEF AuthInit, Rotation!Init
  <1>2. AccountTypeOK /\ SessionInv /\ [Next]_authVars
           => [Rotation!Next]_<<Live, lineage>>
    <2> SUFFICES ASSUME AccountTypeOK, SessionInv, [Next]_authVars
                 PROVE  Rotation!Next
      OBVIOUS
    <2>1. AccountTypeOK'
      BY NextType
    <2>2. CASE Live' \subseteq Live /\ lineage' = lineage
      BY <2>2 DEF Rotation!Next, Rotation!Retire
    <2> QED
      BY <2>1, <2>2, StepKinds, ExchangeKeeps, AnswerIssues DEF Quiet
  <1>3. Spec => []AccountTypeOK /\ []SessionInv
    BY AccountTypeCorrect, SessionInvariant
  <1> QED
    BY <1>1, <1>2, <1>3, PTL DEF Spec, RefreshTokensRotate, Rotation!Spec

-----------------------------------------------------------------------------
(* Owners of rows *)

\* What a step may do to the tables that belong to users.
LEMMA StepStatements ==
    ASSUME AccountTypeOK, [Next]_authVars
    PROVE  \/ UNCHANGED <<users, codes, tokens, roles>>
           \/ \E c \in Codes : MarkCodeUsed(c)
           \/ \E t \in Tokens : RevokeToken(t)
           \/ \E u \in Users :
                 \/ \E e \in Emails : InsertUser(u, e)
                 \/ RemoveUser(u)
                 \/ \E c \in Codes : InsertCode(c, u)
                 \/ \E t \in Tokens : InsertToken(t, u)
                 \/ \E w \in Scopes, m \in Masks : WriteRole(u, w, m)
                 \/ \E w \in Scopes : RemoveRole(u, w)
  <1> DEFINE Goal ==
           \/ UNCHANGED <<users, codes, tokens, roles>>
           \/ \E c \in Codes : MarkCodeUsed(c)
           \/ \E t \in Tokens : RevokeToken(t)
           \/ \E u \in Users :
                 \/ \E e \in Emails : InsertUser(u, e)
                 \/ RemoveUser(u)
                 \/ \E c \in Codes : InsertCode(c, u)
                 \/ \E t \in Tokens : InsertToken(t, u)
                 \/ \E w \in Scopes, m \in Masks : WriteRole(u, w, m)
                 \/ \E w \in Scopes : RemoveRole(u, w)
  <1>1. ASSUME NEW r \in Requests, Advance(r)
        PROVE  Goal
    <2>1. call[r] \in Calls /\ LocalsSet(call[r])
      BY TypeParts DEF CallsOK
    <2>2. CASE VerifyStore(r) \/ RefreshStore(r)
      BY <2>1, <2>2 DEF VerifyStore, RefreshStore, IssueTokens, IssueRefused, GiveUp, storeVars,
                        At, LocalsSet, Verifying, Refreshing
    <2>3. CASE RefreshRevoke(r) \/ LogoutRevoke(r) \/ VerifyMark(r)
      BY <2>1, <2>3 DEF RefreshRevoke, LogoutRevoke, VerifyMark, GiveUp, storeVars, At, LocalsSet,
                        Refreshing
    <2>4. CASE LoginCreateUser(r) \/ LoginStore(r) \/ CreateUserInsert(r)
      BY <2>1, <2>4 DEF LoginCreateUser, LoginStore, CreateUserInsert, GiveUp, storeVars, At,
                        LocalsSet
    <2>5. CASE UpsertUserRoleWrite(r)
      BY <2>1, <2>5 DEF UpsertUserRoleWrite, storeVars, At, LocalsSet
    <2>6. CASE LoginCreateLost(r) \/ VerifyCode(r) \/ VerifyRoles(r) \/ RefreshUser(r)
               \/ RefreshRoles(r) \/ Abandon(r)
      BY <2>6 DEF LoginCreateLost, VerifyCode, VerifyRoles, RefreshUser, RefreshRoles, Abandon,
                  GiveUp, storeVars
    <2> QED
      BY <1>1, <2>2, <2>3, <2>4, <2>5, <2>6 DEF Advance
  <1>2. ASSUME NEW r \in Requests, Arrive(r)
        PROVE  Goal
    BY <1>2 DEF Arrive, Login, Verify, CreateUser, Refresh, Logout, UpsertUserRole, storeVars
  <1>3. ASSUME Administer
        PROVE  Goal
    BY <1>3 DEF Administer, DeleteUser, DeleteUserRole, CreateAPIKey, RevokeAPIKey, ExpireAPIKey,
                CreateWorkspace, DeleteWorkspace, InsertKey, RevokeKey, InsertWorkspace,
                RemoveWorkspace
  <1>4. ASSUME AdminLogin \/ ExpireStored \/ UNCHANGED authVars
               \/ \E s \in Subjects : ExpireAccess(s)
        PROVE  Goal
    BY <1>4 DEF AdminLogin, ExpireStored, ExpireAccess, authVars, storeVars
  <1> QED
    BY <1>1, <1>2, <1>3, <1>4 DEF Next

LEMMA OwnersKept ==
    ASSUME AccountTypeOK, ForeignKeys, RowsHaveUsers, [Next]_authVars
    PROVE  RowsHaveUsers'
  <1>0. StoreTypeOK
    BY TypeParts
  <1>1. CASE UNCHANGED <<users, codes, tokens, roles>>
    BY <1>1 DEF RowsHaveUsers, UserExists
  <1>2. ASSUME NEW c \in Codes, MarkCodeUsed(c)
        PROVE  RowsHaveUsers'
    <2>1. CASE codes[c] = None
      BY <1>0, <1>2, <2>1 DEF MarkCodeUsed, RowsHaveUsers, UserExists, StoreTypeOK
    <2>2. CASE codes[c] # None
      BY <1>0, <1>2, <2>2 DEF MarkCodeUsed, RowsHaveUsers, UserExists, StoreTypeOK, CodeRows
    <2> QED
      BY <2>1, <2>2
  <1>3. ASSUME NEW t \in Tokens, RevokeToken(t)
        PROVE  RowsHaveUsers'
    BY <1>0, <1>3 DEF RevokeToken, Live, RowsHaveUsers, UserExists, StoreTypeOK, TokenRows
  <1>4. ASSUME NEW u \in Users, NEW e \in Emails, InsertUser(u, e)
        PROVE  RowsHaveUsers'
    BY <1>0, <1>4, StoreAssumption
    DEF InsertUser, RowsHaveUsers, UserExists, StoreTypeOK, CodeRows, TokenRows
  <1>5. ASSUME NEW u \in Users, RemoveUser(u)
        PROVE  RowsHaveUsers'
    <2>1. \A v \in Users \ {u} : users'[v] = users[v]
      BY <1>0, <1>5 DEF RemoveUser, StoreTypeOK
    <2>2. \A c \in Codes : codes'[c] # None => codes'[c] = codes[c] /\ codes[c].user \in Users \ {u}
      BY <1>0, <1>5 DEF RemoveUser, StoreTypeOK, CodeRows
    <2>3. \A t \in Tokens : tokens'[t] # None => tokens'[t] = tokens[t] /\ tokens[t].user \in Users \ {u}
      BY <1>0, <1>5 DEF RemoveUser, StoreTypeOK, TokenRows
    <2>4. \A v \in Users, w \in Scopes : roles'[v][w] # None => v # u /\ roles'[v][w] = roles[v][w]
      BY <1>0, <1>5 DEF RemoveUser, StoreTypeOK
    <2> QED
      BY <2>1, <2>2, <2>3, <2>4 DEF RowsHaveUsers, UserExists
  <1>6. ASSUME NEW u \in Users, References(u),
               \/ \E c \in Codes : InsertCode(c, u)
               \/ \E t \in Tokens : InsertToken(t, u)
               \/ \E w \in Scopes, m \in Masks : WriteRole(u, w, m)
        PROVE  RowsHaveUsers'
    <2>1. UserExists(u)
      BY <1>6 DEF References
    <2>2. ASSUME NEW c \in Codes, InsertCode(c, u)
          PROVE  RowsHaveUsers'
      BY <1>0, <2>1, <2>2 DEF InsertCode, RowsHaveUsers, UserExists, StoreTypeOK
    <2>3. ASSUME NEW t \in Tokens, InsertToken(t, u)
          PROVE  RowsHaveUsers'
      BY <1>0, <2>1, <2>3 DEF InsertToken, RowsHaveUsers, UserExists, StoreTypeOK
    <2>4. ASSUME NEW w \in Scopes, NEW m \in Masks, WriteRole(u, w, m)
          PROVE  RowsHaveUsers'
      BY <1>0, <2>1, <2>4 DEF WriteRole, RowsHaveUsers, UserExists, StoreTypeOK
    <2> QED
      BY <1>6, <2>2, <2>3, <2>4
  <1>7. ASSUME NEW u \in Users, NEW w \in Scopes, RemoveRole(u, w)
        PROVE  RowsHaveUsers'
    BY <1>0, <1>7 DEF RemoveRole, RowsHaveUsers, UserExists, StoreTypeOK
  <1> QED
    BY <1>1, <1>2, <1>3, <1>4, <1>5, <1>6, <1>7, StepStatements DEF InsertCode, InsertToken, WriteRole

\* With foreign keys enforced, as Postgres does, no interleaving of a deletion
\* with the requests of the deleted user leaves a row behind.
THEOREM OwnersExist == ForeignKeys /\ Spec => []RowsHaveUsers
  <1>1. AuthInit => RowsHaveUsers
    BY DEF AuthInit, StoreInit, RowsHaveUsers
  <1>2. ForeignKeys /\ RowsHaveUsers /\ AccountTypeOK /\ [Next]_authVars => RowsHaveUsers'
    BY OwnersKept
  <1>3. Spec => []AccountTypeOK
    BY AccountTypeCorrect
  <1>4. CASE ForeignKeys
    BY <1>1, <1>2, <1>3, <1>4, PTL DEF Spec
  <1> QED
    BY <1>4

-----------------------------------------------------------------------------
(* One-time codes *)

\* The sessions that were opened with a code.
Opens(c) == {t \in Tokens : lineage[t] = FromCode(c)}

\* The login that has drawn a code and not yet stored it.
Storing(r, c) == At(r, "lg_store") /\ call[r].code = c

\* The verifications that have found a code, and those that have yet to mark it.
Bearers(c) ==
    {r \in Requests : call[r].pc \in {"vf_mark", "vf_roles", "vf_store"} /\ call[r].code = c}

Markers(c) == {r \in Bearers(c) : At(r, "vf_mark")}

Usable(c) == codes[c] # None /\ ~codes[c].used

\* A code that no login has stored yet has nobody but its login. As long as it
\* can be found nobody is past MarkOTPUsed, and from then on those who hold it
\* become sessions one by one.
CodeOK(c, n) ==
    /\ c > drawn.code => \A r \in Requests : ~Storing(r, c)
    /\ c > drawn.code \/ (\E r \in Requests : Storing(r, c)) =>
          codes[c] = None /\ Opens(c) = {} /\ Bearers(c) = {}
    /\ \A r, s \in Requests : Storing(r, c) /\ Storing(s, c) => r = s
    /\ Usable(c) => Opens(c) = {} /\ Bearers(c) = Markers(c)
    /\ Cardinality(Opens(c)) + Cardinality(Bearers(c)) <= n

CodeInv(n) == \A c \in Codes : CodeOK(c, n)

\* At most n requests at a time have looked a code up and not marked it.
MarksOverlap(n) == \A c \in Codes : Cardinality(Markers(c)) <= n

SessionsWithin(n) == \A c \in Codes : Cardinality(Opens(c)) <= n

LEMMA CodeCounts ==
    ASSUME IsFiniteSet(Requests)
    PROVE  /\ \A T \in SUBSET Tokens : IsFiniteSet(T) /\ Cardinality(T) \in Nat
           /\ \A R \in SUBSET Requests :
                 /\ IsFiniteSet(R) /\ Cardinality(R) \in Nat
                 /\ \A Q \in SUBSET R : Cardinality(Q) <= Cardinality(R)
  <1>1. IsFiniteSet(Tokens)
    BY StoreAssumption, FS_Interval DEF Tokens
  <1> QED
    BY <1>1, FS_Subset, FS_CardinalityType

LEMMA CodeSets ==
    /\ \A c : Opens(c) \in SUBSET Tokens /\ Bearers(c) \in SUBSET Requests
    /\ \A c : Opens(c)' \in SUBSET Tokens /\ Bearers(c)' \in SUBSET Requests
    /\ \A c : Markers(c) \in SUBSET Bearers(c) /\ Markers(c)' \in SUBSET Bearers(c)'
  BY DEF Opens, Bearers, Markers

\* A step after which nobody new has c in hand, and no login or look-up finds it
\* who would not have found it before.
Shrinks(c) ==
    /\ c > drawn'.code => c > drawn.code
    /\ \A r \in Requests : Storing(r, c)' => Storing(r, c)
    /\ codes[c] = None => codes'[c] = None
    /\ Opens(c)' = Opens(c)
    /\ Bearers(c)' \subseteq Bearers(c)
    /\ Usable(c)' => Usable(c) /\ (Bearers(c) = Markers(c) => Bearers(c)' = Markers(c)')

LEMMA ShrinkKeeps ==
    ASSUME IsFiniteSet(Requests), NEW n \in Nat, NEW c \in Codes, CodeOK(c, n), Shrinks(c)
    PROVE  CodeOK(c, n)'
  <1>1. Cardinality(Bearers(c)') <= Cardinality(Bearers(c))
    BY CodeCounts, CodeSets DEF Shrinks
  <1>2. Cardinality(Opens(c)') + Cardinality(Bearers(c)') <= n
    <2>1. /\ Cardinality(Opens(c)) \in Nat /\ Cardinality(Bearers(c)) \in Nat
          /\ Cardinality(Bearers(c)') \in Nat
      BY CodeCounts, CodeSets
    <2>2. Cardinality(Opens(c)) + Cardinality(Bearers(c)) <= n /\ Opens(c)' = Opens(c)
      BY DEF CodeOK, Shrinks
    <2> QED
      BY <1>1, <2>1, <2>2
  <1>3. c > drawn'.code => \A r \in Requests : ~Storing(r, c)'
    BY DEF CodeOK, Shrinks
  <1>4. c > drawn'.code \/ (\E r \in Requests : Storing(r, c)') =>
           codes'[c] = None /\ Opens(c)' = {} /\ Bearers(c)' = {}
    BY DEF CodeOK, Shrinks
  <1>5. \A r, s \in Requests : Storing(r, c)' /\ Storing(s, c)' => r = s
    BY DEF CodeOK, Shrinks
  <1>6. Usable(c)' => Opens(c)' = {} /\ Bearers(c)' = Markers(c)'
    BY DEF CodeOK, Shrinks
  <1> QED
    BY <1>2, <1>3, <1>4, <1>5, <1>6 DEF CodeOK

\* The facts about a step that hands no code out, stores none, finds none,
\* marks none and opens no session with one.
CodeQuiet ==
    /\ drawn'.code = drawn.code
    /\ \A t \in Tokens, c \in Codes : lineage'[t] = FromCode(c) <=> lineage[t] = FromCode(c)
    /\ \A c \in Codes :
          /\ codes[c] = None => codes'[c] = None
          /\ Usable(c)' => Usable(c)
    /\ \A r \in Requests :
          /\ call'[r].pc \in {"lg_store", "vf_mark"} =>
                call'[r].pc = call[r].pc /\ call'[r].code = call[r].code
          /\ call'[r].pc \in {"vf_roles", "vf_store"} =>
                call[r].pc \in {"vf_roles", "vf_store"} /\ call'[r].code = call[r].code

LEMMA QuietShrinks ==
    ASSUME CodeQuiet, NEW c \in Codes
    PROVE  Shrinks(c)
  <1>1. Opens(c)' = Opens(c)
    BY DEF Opens, CodeQuiet
  <1>2. Bearers(c)' \subseteq Bearers(c)
    BY DEF Bearers, CodeQuiet
  <1>3. \A r \in Requests : Storing(r, c)' => Storing(r, c)
    BY DEF Storing, At, CodeQuiet
  <1>4. ASSUME Bearers(c) = Markers(c)
        PROVE  Bearers(c)' = Markers(c)'
    <2> SUFFICES ASSUME NEW r \in Bearers(c)'
                 PROVE  call'[r].pc = "vf_mark"
      BY DEF Markers, At
    <2>1. r \in Requests /\ r \in Bearers(c) /\ call[r].pc = "vf_mark"
      BY <1>2, <1>4 DEF Markers, Bearers, At
    <2> QED
      BY <2>1 DEF CodeQuiet, Bearers
  <1> QED
    BY <1>1, <1>2, <1>3, <1>4 DEF Shrinks, CodeQuiet

\* A login numbers a code.
DrawsCode(r) ==
    /\ drawn.code + 1 \in Codes
    /\ drawn'.code = drawn.code + 1
    /\ call'[r].pc = "lg_store" /\ call'[r].code = drawn.code + 1
    /\ \A s \in Requests \ {r} : call'[s] = call[s]
    /\ UNCHANGED <<codes, lineage>>

\* A step of r alone, after which r has no code but d, in what it did and what
\* it touched.
OnlyOne(r, d) ==
    /\ \A s \in Requests \ {r} : call'[s] = call[s]
    /\ \A c \in Codes \ {d} :
          /\ ~Storing(r, c)' /\ r \notin Bearers(c)'
          /\ Opens(c)' = Opens(c) /\ codes'[c] = codes[c]
          /\ c > drawn'.code => c > drawn.code

LEMMA OthersShrink ==
    ASSUME NEW r \in Requests, NEW d, OnlyOne(r, d), NEW c \in Codes, c # d
    PROVE  Shrinks(c)
  <1>1. /\ \A s \in Requests : Storing(s, c)' => Storing(s, c)
        /\ Bearers(c)' \subseteq Bearers(c)
        /\ Usable(c)' => Usable(c)
    BY DEF OnlyOne, Storing, Bearers, At, Usable
  <1>2. Bearers(c) = Markers(c) => Bearers(c)' = Markers(c)'
    BY DEF OnlyOne, Bearers, Markers, At
  <1> QED
    BY <1>1, <1>2 DEF Shrinks, OnlyOne

LEMMA DrawKeeps ==
    ASSUME IsFiniteSet(Requests), AccountTypeOK, NEW n \in Nat, CodeInv(n),
           NEW r \in Requests, DrawsCode(r)
    PROVE  CodeInv(n)'
  <1> DEFINE d == drawn.code + 1
  <1>0. drawn.code \in Nat
    BY TypeParts, StoreAssumption DEF HistoryOK, Counts
  <1> PICK k \in Codes : k = d
    BY DEF DrawsCode
  <1>1. k > drawn.code /\ k = drawn'.code
    BY <1>0 DEF DrawsCode
  <1>2. /\ call'[r].pc = "lg_store" /\ call'[r].code = k
        /\ \A s \in Requests \ {r} : call'[s] = call[s]
        /\ UNCHANGED <<codes, lineage>>
    BY DEF DrawsCode
  <1>3. OnlyOne(r, k)
    BY <1>0, <1>1, <1>2 DEF OnlyOne, Storing, Bearers, Opens, At, Codes
  <1>4. CodeOK(k, n)'
    <2>1. /\ codes[k] = None /\ Opens(k) = {} /\ Bearers(k) = {}
          /\ \A s \in Requests : ~Storing(s, k)
      BY <1>1 DEF CodeInv, CodeOK
    <2>2. codes'[k] = None /\ Opens(k)' = {} /\ Bearers(k)' = {}
      BY <1>2, <2>1 DEF Opens, Bearers
    <2>3. \A s \in Requests : Storing(s, k)' => s = r
      BY <1>2, <2>1 DEF Storing, At
    <2>4. ~(k > drawn'.code)
      BY <1>0, <1>1
    <2> QED
      BY <2>2, <2>3, <2>4, FS_EmptySet DEF CodeOK, Usable
  <1> QED
    BY <1>3, <1>4, OthersShrink, ShrinkKeeps DEF CodeInv

\* Login stores its code.
LEMMA StoreKeeps ==
    ASSUME IsFiniteSet(Requests), AccountTypeOK, NEW n \in Nat, CodeInv(n),
           NEW r \in Requests, At(r, "lg_store"), Return(r), UNCHANGED outcomes,
           InsertCode(call[r].code, call[r].user)
    PROVE  CodeInv(n)'
  <1>0. StoreTypeOK /\ CallsOK /\ HistoryOK
    BY TypeParts
  <1> PICK d \in Codes : d = call[r].code
    BY <1>0 DEF CallsOK, LocalsSet, At
  <1>1. Storing(r, d)
    BY DEF Storing
  <1>2. /\ call'[r].pc = "idle" /\ \A s \in Requests \ {r} : call'[s] = call[s]
        /\ UNCHANGED <<drawn, lineage>>
        /\ \A c \in Codes \ {d} : codes'[c] = codes[c]
    BY <1>0 DEF Return, Idle, CallsOK, outcomes, InsertCode, StoreTypeOK
  <1>3. OnlyOne(r, d)
    BY <1>2 DEF OnlyOne, Storing, Bearers, Opens, At
  <1>4. CodeOK(d, n)'
    <2>1. /\ Opens(d) = {} /\ Bearers(d) = {} /\ ~(d > drawn.code)
          /\ \A s \in Requests : Storing(s, d) => s = r
      BY <1>1 DEF CodeInv, CodeOK
    <2>2. Opens(d)' = {} /\ Bearers(d)' = {} /\ Markers(d)' = {}
      BY <1>2, <2>1 DEF Opens, Bearers, Markers
    <2>3. \A s \in Requests : ~Storing(s, d)'
      BY <1>2, <2>1 DEF Storing, At
    <2>4. ~(d > drawn'.code)
      BY <1>2, <2>1
    <2> QED
      BY <2>2, <2>3, <2>4, FS_EmptySet DEF CodeOK
  <1> QED
    BY <1>3, <1>4, OthersShrink, ShrinkKeeps DEF CodeInv

\* Verify finds a code: it is in the table and was not used.
LEMMA FindKeeps ==
    ASSUME IsFiniteSet(Requests), AccountTypeOK, NEW n \in Nat, CodeInv(n), MarksOverlap(n)',
           NEW r \in Requests, At(r, "vf_code"),
           NEW d \in UnusedCode(call[r].user), UNCHANGED <<storeVars, outcomes>>,
           call' = [call EXCEPT ![r].pc = "vf_mark", ![r].code = d]
    PROVE  CodeInv(n)'
  <1>0. CallsOK
    BY TypeParts
  <1> PICK k \in Codes : k = d
    BY DEF UnusedCode, UsableCodes
  <1>1. Usable(k)
    <2>1. call[r].user \in Users
      BY <1>0 DEF CallsOK, LocalsSet, At, Verifying
    <2>2. [user |-> call[r].user, used |-> FALSE] \in CodeRows
      BY <2>1 DEF CodeRows
    <2> QED
      BY <2>2, StoreAssumption DEF UnusedCode, UsableCodes, Usable
  <1>2. /\ call'[r].pc = "vf_mark" /\ call'[r].code = k
        /\ \A s \in Requests \ {r} : call'[s] = call[s]
        /\ UNCHANGED <<codes, drawn, lineage>>
    BY <1>0 DEF CallsOK, Calls, storeVars, outcomes
  <1>3. OnlyOne(r, k)
    BY <1>2 DEF OnlyOne, Storing, Bearers, Opens, At
  <1>4. CodeOK(k, n)'
    <2>1. codes[k] # None
      BY <1>1 DEF Usable
    <2>2. /\ Opens(k) = {} /\ Bearers(k) = Markers(k)
          /\ ~(k > drawn.code) /\ \A s \in Requests : ~Storing(s, k)
      BY <1>1, <2>1 DEF CodeInv, CodeOK
    <2>3. Opens(k)' = {} /\ ~(k > drawn'.code) /\ \A s \in Requests : ~Storing(s, k)'
      BY <1>2, <2>2 DEF Opens, Storing, At
    <2>4. Bearers(k)' = Markers(k)'
      <3> SUFFICES ASSUME NEW s \in Bearers(k)'
                   PROVE  call'[s].pc = "vf_mark"
        BY DEF Markers, At
      <3>1. CASE s = r
        BY <1>2, <3>1
      <3>2. CASE s # r
        <4>1. s \in Bearers(k) /\ call'[s] = call[s]
          BY <1>2, <3>2 DEF Bearers
        <4> QED
          BY <2>2, <4>1 DEF Markers, At
      <3> QED
        BY <3>1, <3>2
    <2>5. Cardinality(Markers(k)') <= n /\ Cardinality(Markers(k)') \in Nat
      BY <2>4, CodeCounts, CodeSets DEF MarksOverlap
    <2> QED
      BY <2>3, <2>4, <2>5, FS_EmptySet DEF CodeOK
  <1> QED
    BY <1>3, <1>4, OthersShrink, ShrinkKeeps DEF CodeInv

\* MarkOTPUsed: from here on nobody finds the code.
LEMMA MarkKeeps ==
    ASSUME IsFiniteSet(Requests), AccountTypeOK, NEW n \in Nat, CodeInv(n),
           NEW r \in Requests, VerifyMark(r)
    PROVE  CodeInv(n)'
  <1>0. StoreTypeOK /\ CallsOK
    BY TypeParts
  <1> PICK d \in Codes : d = call[r].code
    BY <1>0 DEF CallsOK, LocalsSet, VerifyMark, At
  <1>1. /\ call[r].pc = "vf_mark" /\ call'[r].pc = "vf_roles" /\ call'[r].code = d
        /\ \A s \in Requests \ {r} : call'[s] = call[s]
        /\ UNCHANGED <<drawn, lineage>>
    BY <1>0 DEF CallsOK, Calls, Goto, VerifyMark, At, outcomes
  <1>2. \A c \in Codes \ {d} : codes'[c] = codes[c]
    BY <1>0 DEF VerifyMark, MarkCodeUsed, StoreTypeOK
  <1>3. (codes[d] = None => codes'[d] = None) /\ ~Usable(d)'
    <2>1. CASE codes[d] = None
      BY <1>0, <2>1 DEF Usable, VerifyMark, MarkCodeUsed, StoreTypeOK
    <2>2. CASE codes[d] # None
      BY <1>0, <2>2 DEF Usable, VerifyMark, MarkCodeUsed, StoreTypeOK, CodeRows
    <2> QED
      BY <2>1, <2>2
  <1>4. OnlyOne(r, d)
    BY <1>1, <1>2 DEF OnlyOne, Storing, Bearers, Opens, At
  <1>5. Shrinks(d)
    BY <1>1, <1>3 DEF Shrinks, Storing, Bearers, Opens, At
  <1> QED
    BY <1>4, <1>5, OthersShrink, ShrinkKeeps DEF CodeInv

\* Verify opens the session.
LEMMA OpenKeeps ==
    ASSUME IsFiniteSet(Requests), AccountTypeOK, SessionInv, NEW n \in Nat, CodeInv(n),
           NEW r \in Requests, At(r, "vf_store"), IssueTokens(r, FromCode(call[r].code))
    PROVE  CodeInv(n)'
  <1>0. StoreTypeOK /\ CallsOK /\ HistoryOK
    BY TypeParts
  <1> PICK d \in Codes : d = call[r].code
    BY <1>0 DEF CallsOK, LocalsSet, At
  <1> PICK t \in Tokens : t = drawn.token + 1
    BY DEF IssueTokens
  <1>1. /\ call'[r].pc = "idle" /\ \A s \in Requests \ {r} : call'[s] = call[s]
        /\ UNCHANGED codes /\ drawn'.code = drawn.code
    BY <1>0 DEF IssueTokens, Return, Idle, CallsOK, InsertToken, HistoryOK, Counts
  <1>2. /\ lineage[t] = None /\ lineage'[t] = FromCode(d)
        /\ \A s \in Tokens \ {t} : lineage'[s] = lineage[s]
    BY <1>0, StoreAssumption
    DEF IssueTokens, HistoryOK, Counts, SessionInv, NumbersFresh, Tokens
  <1>3. \A c \in Codes : FromCode(c) # None /\ (c # d => FromCode(c) # FromCode(d))
    BY ServiceAssumption DEF FromCode, Origins
  <1>4. /\ Opens(d)' = Opens(d) \cup {t} /\ t \notin Opens(d)
        /\ \A c \in Codes \ {d} : Opens(c)' = Opens(c)
    BY <1>2, <1>3 DEF Opens
  <1>5. r \in Bearers(d) /\ r \notin Markers(d) /\ Bearers(d)' = Bearers(d) \ {r}
    BY <1>1 DEF Bearers, Markers, At
  <1>6. OnlyOne(r, d)
    BY <1>1, <1>4 DEF OnlyOne, Storing, Bearers, At
  <1>7. CodeOK(d, n)'
    <2>1. ~Usable(d) /\ ~(d > drawn.code) /\ \A s \in Requests : ~Storing(s, d)
      BY <1>5 DEF CodeInv, CodeOK
    <2>2. ~Usable(d)' /\ ~(d > drawn'.code) /\ \A s \in Requests : ~Storing(s, d)'
      BY <1>1, <2>1 DEF Usable, Storing, At
    <2>3. /\ Cardinality(Opens(d)') = Cardinality(Opens(d)) + 1
          /\ Cardinality(Bearers(d)') = Cardinality(Bearers(d)) - 1
      <3>1. IsFiniteSet(Opens(d)) /\ IsFiniteSet(Bearers(d))
        BY CodeCounts, CodeSets
      <3>2. Cardinality(Opens(d) \cup {t}) = Cardinality(Opens(d)) + 1
        BY <1>4, <3>1, FS_AddElement
      <3>3. Cardinality(Bearers(d) \ {r}) = Cardinality(Bearers(d)) - 1
        BY <1>5, <3>1, FS_RemoveElement
      <3> QED
        BY <1>4, <1>5, <3>2, <3>3
    <2>4. /\ Cardinality(Opens(d)) + Cardinality(Bearers(d)) <= n
          /\ Cardinality(Opens(d)) \in Nat /\ Cardinality(Bearers(d)) \in Nat
      BY CodeCounts, CodeSets DEF CodeInv, CodeOK
    <2>5. Cardinality(Opens(d)') + Cardinality(Bearers(d)') <= n
      BY <2>3, <2>4
    <2> QED
      BY <2>2, <2>5 DEF CodeOK
  <1> QED
    BY <1>6, <1>7, OthersShrink, ShrinkKeeps DEF CodeInv

\* A step that only a request r takes, and that gives r no code.
LEMMA CodeQuietCall ==
    ASSUME AccountTypeOK, NEW r \in Requests, UNCHANGED <<codes, lineage>>,
           drawn'.code = drawn.code,
           \A s \in Requests \ {r} : call'[s] = call[s],
           \/ call'[r].pc \notin {"lg_store", "vf_mark", "vf_roles", "vf_store"}
           \/ /\ call[r].pc = "vf_roles"
              /\ call'[r].pc = "vf_store"
              /\ call'[r].code = call[r].code
    PROVE  CodeQuiet
  <1>1. \A s \in Requests :
          /\ call'[s].pc \in {"lg_store", "vf_mark"} =>
                call'[s].pc = call[s].pc /\ call'[s].code = call[s].code
          /\ call'[s].pc \in {"vf_roles", "vf_store"} =>
                call[s].pc \in {"vf_roles", "vf_store"} /\ call'[s].code = call[s].code
    <2> TAKE s \in Requests
    <2>1. CASE s = r
      BY <2>1
    <2>2. CASE s # r
      BY <2>2
    <2> QED
      BY <2>1, <2>2
  <1> QED
    BY <1>1 DEF CodeQuiet, Usable

\* A request that starts has no code, unless it is a login that draws one.
LEMMA ArriveCodes ==
    ASSUME AccountTypeOK, NEW r \in Requests, Arrive(r)
    PROVE  CodeQuiet \/ DrawsCode(r)
  <1>0. CallsOK /\ HistoryOK
    BY TypeParts
  <1>1. ASSUME NEW c, Start(r, c), UNCHANGED <<codes, lineage, drawn>>,
               c.pc \notin {"lg_store", "vf_mark", "vf_roles", "vf_store"}
        PROVE  CodeQuiet
    <2>1. call'[r] = c /\ \A s \in Requests \ {r} : call'[s] = call[s]
      BY <1>0, <1>1 DEF Start, CallsOK
    <2> QED
      BY <1>1, <2>1, CodeQuietCall
  <1>2. ASSUME NEW e \in Emails, Login(r, e)
        PROVE  CodeQuiet \/ DrawsCode(r)
    <2>1. CASE \E u \in UserByEmail(e) : DrawCode(r, u)
      <3> PICK u \in UserByEmail(e) : DrawCode(r, u)
        BY <2>1
      <3>1. drawn'.code = drawn.code + 1
        BY <1>0 DEF DrawCode, HistoryOK, Counts
      <3> QED
        BY <1>0, <1>2, <3>1 DEF DrawCode, DrawsCode, Idle, CallsOK, Login, storeVars
    <2>2. CASE Start(r, [Idle EXCEPT !.pc = "lg_create", !.email = e]) /\ UNCHANGED drawn
      BY <1>1, <1>2, <2>2 DEF Login, Idle, storeVars
    <2> QED
      BY <1>2, <2>1, <2>2 DEF Login
  <1>3. ASSUME NEW e \in Emails, Verify(r, e) \/ CreateUser(r, e)
        PROVE  CodeQuiet
    BY <1>1, <1>3 DEF Verify, CreateUser, Idle, storeVars, outcomes
  <1>4. ASSUME NEW t \in Tokens, Refresh(r, t) \/ Logout(r, t)
        PROVE  CodeQuiet
    BY <1>1, <1>4 DEF Refresh, Logout, Idle, storeVars, outcomes
  <1>5. ASSUME NEW u \in Users, UpsertUserRole(r, u)
        PROVE  CodeQuiet
    BY <1>1, <1>5 DEF UpsertUserRole, Idle, storeVars, outcomes
  <1> QED
    BY <1>2, <1>3, <1>4, <1>5, ServiceAssumption DEF Arrive

\* What a request under way does about codes.
LEMMA AdvanceCodes ==
    ASSUME AccountTypeOK, SessionInv, NEW r \in Requests, Advance(r)
    PROVE  \/ CodeQuiet
           \/ DrawsCode(r)
           \/ /\ At(r, "lg_store") /\ Return(r) /\ UNCHANGED outcomes
              /\ InsertCode(call[r].code, call[r].user)
           \/ /\ At(r, "vf_code") /\ UNCHANGED <<storeVars, outcomes>>
              /\ \E d \in UnusedCode(call[r].user) :
                    call' = [call EXCEPT ![r].pc = "vf_mark", ![r].code = d]
           \/ VerifyMark(r)
           \/ At(r, "vf_store") /\ IssueTokens(r, FromCode(call[r].code))
  <1>0. StoreTypeOK /\ CallsOK /\ HistoryOK /\ call[r] \in Calls /\ LocalsSet(call[r])
    BY TypeParts DEF CallsOK
  <1>1. ASSUME Return(r)
        PROVE  call'[r].pc = "idle" /\ \A s \in Requests \ {r} : call'[s] = call[s]
    BY <1>0, <1>1 DEF Return, Idle, CallsOK
  <1>2. CASE GiveUp(r)
    BY <1>1, <1>2, CodeQuietCall DEF GiveUp, storeVars, outcomes
  <1>3. CASE LoginCreateUser(r)
    <2>1. drawn'.code = drawn.code + 1
      BY <1>0, <1>3 DEF LoginCreateUser, HistoryOK, Counts
    <2> QED
      BY <1>0, <1>3, <2>1 DEF LoginCreateUser, DrawsCode, InsertUser, Idle, CallsOK
  <1>4. CASE VerifyCode(r) /\ Return(r)
    BY <1>1, <1>4, CodeQuietCall DEF VerifyCode, storeVars, outcomes
  <1>5. CASE VerifyRoles(r)
    BY <1>0, <1>5, TakeStep, CodeQuietCall DEF VerifyRoles, At, storeVars, outcomes
  <1>6. CASE RefreshUser(r) \/ RefreshRoles(r)
    <2>1. CASE Return(r)
      BY <1>1, <1>6, <2>1, CodeQuietCall DEF RefreshUser, RefreshRoles, storeVars, outcomes
    <2>2. CASE ~Return(r)
      <3>1. call'[r].pc \in {"rf_roles", "rf_revoke"} /\ \A s \in Requests \ {r} : call'[s] = call[s]
        BY <1>0, <1>6, <2>2, TakeStep DEF RefreshUser, RefreshRoles, Goto, Calls, CallsOK
      <3>2. UNCHANGED <<storeVars, outcomes>>
        BY <1>6, <2>2 DEF RefreshUser, RefreshRoles, Goto
      <3> QED
        BY <3>1, <3>2, CodeQuietCall DEF storeVars, outcomes
    <2> QED
      BY <2>1, <2>2
  <1>7. CASE Exchange(r)
    <2>1. call'[r].pc = "rf_store" /\ \A s \in Requests \ {r} : call'[s] = call[s]
      BY <1>0, <1>7 DEF Exchange, Goto, Calls, CallsOK
    <2> QED
      BY <1>7, <2>1, CodeQuietCall DEF Exchange, RevokeToken, outcomes
  <1>8. CASE LogoutRevoke(r)
    BY <1>1, <1>8, CodeQuietCall DEF LogoutRevoke, RevokeToken, storeVars, outcomes
  <1>9. CASE CreateUserInsert(r) \/ UpsertUserRoleWrite(r)
    <2>1. drawn'.code = drawn.code
      <3>1. CASE CreateUserInsert(r)
        BY <1>0, <3>1 DEF CreateUserInsert, HistoryOK, Counts
      <3>2. CASE UpsertUserRoleWrite(r)
        BY <1>0, <3>2, CountsOK DEF UpsertUserRoleWrite, At, LocalsSet
      <3> QED
        BY <1>9, <3>1, <3>2
    <2> QED
      BY <1>1, <1>9, <2>1, CodeQuietCall
      DEF CreateUserInsert, UpsertUserRoleWrite, InsertUser, WriteRole, storeVars, outcomes
  <1>10. CASE At(r, "rf_store") /\ IssueTokens(r, FromToken(call[r].token))
    <2> DEFINE n == drawn.token + 1
    <2>1. /\ n \in Tokens /\ lineage[n] = None
          /\ lineage'[n] = FromToken(call[r].token)
          /\ \A t \in Tokens \ {n} : lineage'[t] = lineage[t]
      BY <1>0, <1>10, StoreAssumption
      DEF IssueTokens, HistoryOK, Counts, SessionInv, NumbersFresh, Tokens
    <2>2. \A c \in Codes : FromCode(c) # FromToken(call[r].token) /\ FromCode(c) # None
      BY ServiceAssumption DEF FromCode, FromToken, Origins
    <2>3. drawn'.code = drawn.code /\ codes' = codes
      BY <1>0, <1>10 DEF IssueTokens, InsertToken, HistoryOK, Counts
    <2> HIDE DEF n
    <2>4. \A t \in Tokens, c \in Codes : lineage'[t] = FromCode(c) <=> lineage[t] = FromCode(c)
      BY <2>1, <2>2
    <2>5. call'[r].pc = "idle" /\ \A s \in Requests \ {r} : call'[s] = call[s]
      BY <1>1, <1>10 DEF IssueTokens
    <2> QED
      BY <2>3, <2>4, <2>5 DEF CodeQuiet, Usable
  <1> QED
    BY <1>2, <1>3, <1>4, <1>5, <1>6, <1>7, <1>8, <1>9, <1>10
    DEF Advance, LoginCreateLost, LoginStore, VerifyCode, VerifyStore, RefreshRevoke, RefreshStore,
        IssueRefused, Abandon, Exchange

\* What the other steps do about codes: a deletion takes them along.
LEMMA OtherCodes ==
    ASSUME AccountTypeOK,
           \/ Administer \/ AdminLogin \/ ExpireStored \/ UNCHANGED authVars
           \/ \E s \in Subjects : ExpireAccess(s)
    PROVE  CodeQuiet
  <1>0. StoreTypeOK /\ HistoryOK
    BY TypeParts
  <1>1. UNCHANGED <<call, lineage>> /\ drawn'.code = drawn.code
    BY <1>0, AdminCounts DEF AdminLogin, ExpireStored, ExpireAccess, authVars, outcomes
  <1>2. UNCHANGED codes \/ \E u \in Users : RemoveUser(u)
    BY DEF Administer, DeleteUser, DeleteUserRole, CreateAPIKey, RevokeAPIKey, ExpireAPIKey,
           CreateWorkspace, DeleteWorkspace, RemoveRole, InsertKey, RevokeKey, InsertWorkspace,
           RemoveWorkspace, AdminLogin, ExpireStored, ExpireAccess, authVars, storeVars
  <1>3. \A c \in Codes : codes'[c] \in {codes[c], None}
    BY <1>0, <1>2 DEF RemoveUser, StoreTypeOK
  <1> QED
    BY <1>1, <1>3 DEF CodeQuiet, Usable

LEMMA NextCodes ==
    ASSUME IsFiniteSet(Requests), AccountTypeOK, SessionInv, NEW n \in Nat, CodeInv(n),
           MarksOverlap(n)', [Next]_authVars
    PROVE  CodeInv(n)'
  <1>1. CodeQuiet => CodeInv(n)'
    BY QuietShrinks, ShrinkKeeps DEF CodeInv
  <1>2. ASSUME NEW r \in Requests, Advance(r)
        PROVE  CodeInv(n)'
    BY <1>1, <1>2, AdvanceCodes, DrawKeeps, StoreKeeps, FindKeeps, MarkKeeps, OpenKeeps
  <1>3. ASSUME NEW r \in Requests, Arrive(r)
        PROVE  CodeInv(n)'
    BY <1>1, <1>3, ArriveCodes, DrawKeeps
  <1>4. CASE \/ Administer \/ AdminLogin \/ ExpireStored \/ UNCHANGED authVars
             \/ \E s \in Subjects : ExpireAccess(s)
    BY <1>1, <1>4, OtherCodes
  <1> QED
    BY <1>2, <1>3, <1>4 DEF Next

LEMMA InitCodes ==
    ASSUME AuthInit, NEW n \in Nat
    PROVE  CodeInv(n)
  <1>1. /\ \A c \in Codes : codes[c] = None
        /\ \A r \in Requests : call[r].pc = "idle"
        /\ \A t \in Tokens : lineage[t] = None
    BY DEF AuthInit, StoreInit, Idle
  <1>2. \A c \in Codes : FromCode(c) # None
    BY ServiceAssumption DEF FromCode, Origins
  <1>3. \A c \in Codes : Opens(c) = {} /\ Bearers(c) = {} /\ \A r \in Requests : ~Storing(r, c)
    BY <1>1, <1>2 DEF Opens, Bearers, Storing, At
  <1> QED
    BY <1>1, <1>3, FS_EmptySet DEF CodeInv, CodeOK, Usable

\* A code opens no more sessions than requests that overlap between their
\* look-up of it and MarkOTPUsed, whatever fails and whoever is deleted.
THEOREM SessionsByOverlap ==
    ASSUME IsFiniteSet(Requests), NEW n \in Nat
    PROVE  Spec /\ []MarksOverlap(n) => []SessionsWithin(n)
  <1>1. AuthInit => CodeInv(n)
    BY InitCodes
  <1>2. AccountTypeOK /\ SessionInv /\ CodeInv(n) /\ MarksOverlap(n)' /\ [Next]_authVars
           => CodeInv(n)'
    BY NextCodes
  <1>3. CodeInv(n) => SessionsWithin(n)
    <2> SUFFICES ASSUME CodeInv(n), NEW c \in Codes
                 PROVE  Cardinality(Opens(c)) <= n
      BY DEF SessionsWithin
    <2>1. Cardinality(Opens(c)) \in Nat /\ Cardinality(Bearers(c)) \in Nat
      BY CodeCounts, CodeSets
    <2>2. Cardinality(Opens(c)) + Cardinality(Bearers(c)) <= n
      BY DEF CodeInv, CodeOK
    <2> QED
      BY <2>1, <2>2
  <1> QED
    BY <1>1, <1>2, <1>3, AccountTypeCorrect, SessionInvariant, PTL DEF Spec

\* A one-time code opens no more sessions than there are requests at a time.
THEOREM SessionsLimited ==
    ASSUME IsFiniteSet(Requests)
    PROVE  Spec => []SessionsPerCode
  <1> PICK n \in Nat : n = Cardinality(Requests)
    BY FS_CardinalityType
  <1>1. MarksOverlap(n)
    <2> SUFFICES ASSUME NEW c \in Codes
                 PROVE  Cardinality(Markers(c)) <= n
      BY DEF MarksOverlap
    <2>1. Markers(c) \in SUBSET Requests
      BY CodeSets
    <2> QED
      BY <2>1, FS_Subset
  <1>2. SessionsWithin(n) => SessionsPerCode
    BY DEF SessionsWithin, SessionsPerCode, Opens
  <1> QED
    BY <1>1, <1>2, SessionsByOverlap, PTL

-----------------------------------------------------------------------------
(* The roles an access token carries *)

\* A request that has read its user's roles and not yet answered.
Signing == {"vf_store", "rf_revoke", "rf_store"}

\* Where a request that signs has its user and its claims from.
LEMMA SigningSteps ==
    ASSUME AccountTypeOK, [Next]_authVars, NEW q \in Requests, call'[q].pc \in Signing
    PROVE  \/ /\ call[q].pc \in Signing
              /\ call'[q].user = call[q].user
              /\ call'[q].claims = call[q].claims /\ call'[q].edit = call[q].edit
           \/ /\ call[q].pc \notin Signing
              /\ call'[q].user \in Users
              /\ call'[q].claims \in ListUserRoles(call'[q].user)
              /\ call'[q].edit = drawn.edits[call'[q].user]
  <1> DEFINE Goal == \/ /\ call[q].pc \in Signing
                        /\ call'[q].user = call[q].user
                        /\ call'[q].claims = call[q].claims /\ call'[q].edit = call[q].edit
                     \/ /\ call[q].pc \notin Signing
                        /\ call'[q].user \in Users
                        /\ call'[q].claims \in ListUserRoles(call'[q].user)
                        /\ call'[q].edit = drawn.edits[call'[q].user]
  <1>0. CallsOK
    BY TypeParts
  <1>1. CASE call'[q] = call[q]
    BY <1>1
  <1>2. ASSUME NEW r \in Requests, Arrive(r) \/ Advance(r), call'[q] # call[q]
        PROVE  Goal
    <2>1. CASE Return(r)
      BY <1>0, <1>2, <2>1 DEF Return, Idle, CallsOK, Signing
    <2>2. CASE VerifyRoles(r) \/ RefreshRoles(r)
      <3>1. call[r].user \in Users /\ call[r].pc \notin Signing
        BY <1>0, <2>2 DEF VerifyRoles, RefreshRoles, At, CallsOK, LocalsSet, Verifying, Refreshing,
                          Signing
      <3>2. /\ call'[r].user = call[r].user
            /\ call'[r].claims \in ListUserRoles(call[r].user)
            /\ call'[r].edit = drawn.edits[call[r].user]
            /\ \A s \in Requests \ {r} : call'[s] = call[s]
        BY <1>0, <2>2, TakeStep DEF VerifyRoles, RefreshRoles
      <3> QED
        BY <1>2, <3>1, <3>2
    <2>3. CASE (VerifyCode(r) \/ VerifyMark(r) \/ RefreshUser(r) \/ RefreshRevoke(r)) /\ ~Return(r)
      BY <1>0, <1>2, <2>3 DEF VerifyCode, VerifyMark, RefreshUser, RefreshRevoke, GiveUp, Goto, At,
                              CallsOK, Calls, Signing
    <2>4. CASE LoginCreateUser(r)
      BY <1>0, <1>2, <2>4 DEF LoginCreateUser, Idle, CallsOK, Signing
    <2>5. CASE Arrive(r)
      <3>1. \A s \in Requests \ {r} : call'[s] = call[s]
        BY <1>0, <2>5 DEF Arrive, Login, DrawCode, Verify, CreateUser, Refresh, Logout,
                          UpsertUserRole, Start, CallsOK
      <3>2. call'[r].pc \notin Signing
        <4>1. ASSUME NEW e \in Emails, Login(r, e) \/ Verify(r, e) \/ CreateUser(r, e)
              PROVE  call'[r].pc \notin Signing
          BY <1>0, <4>1 DEF Login, DrawCode, Verify, CreateUser, Start, Idle, CallsOK, Signing
        <4>2. ASSUME NEW t \in Tokens, Refresh(r, t) \/ Logout(r, t)
              PROVE  call'[r].pc \notin Signing
          BY <1>0, <4>2 DEF Refresh, Logout, Start, Idle, CallsOK, Signing
        <4>3. ASSUME NEW u \in Users, UpsertUserRole(r, u)
              PROVE  call'[r].pc \notin Signing
          BY <1>0, <4>3 DEF UpsertUserRole, Start, Idle, CallsOK, Signing
        <4> QED
          BY <2>5, <4>1, <4>2, <4>3, ServiceAssumption DEF Arrive
      <3> QED
        BY <1>2, <3>1, <3>2
    <2> QED
      BY <1>2, <2>1, <2>2, <2>3, <2>4, <2>5
      DEF Advance, LoginCreateLost, LoginStore, VerifyStore, RefreshStore, IssueTokens,
          IssueRefused, LogoutRevoke, CreateUserInsert, UpsertUserRoleWrite, Abandon, GiveUp
  <1>3. CASE UNCHANGED call
    BY <1>1, <1>3
  <1> QED
    BY <1>1, <1>2, <1>3 DEF Next, AdminLogin, Administer, ExpireStored, ExpireAccess, DeleteUser,
       DeleteUserRole, CreateAPIKey, RevokeAPIKey, ExpireAPIKey, CreateWorkspace, DeleteWorkspace,
       authVars

\* A list of a user's roles leaves none of them out.
LEMMA ListHasAll ==
    ASSUME NEW u, IsFiniteSet(RolesOf(u)), NEW cs \in ListUserRoles(u)
    PROVE  ToSet(cs) = RolesOf(u)
  <1> DEFINE S == RolesOf(u)
             D == 1..Cardinality(S)
  <1>1. Cardinality(S) \in Nat
    BY FS_CardinalityType
  <1>2. cs \in [D -> S] /\ \A i, j \in D : i # j => cs[i] # cs[j]
    BY DEF ListUserRoles, SetToSeqs
  <1> HIDE DEF S
  <1>3. cs \in Injection(D, S)
    BY <1>2, Fun_IsInj
  <1>4. Cardinality(D) = Cardinality(S)
    BY <1>1, FS_Interval
  <1>5. cs \in Surjection(D, S)
    BY <1>3, <1>4, FS_Injection DEF S
  <1>6. \A x \in S : \E i \in D : cs[i] = x
    BY <1>5 DEF Surjection
  <1>7. ToSet(cs) = S
    BY <1>2, <1>6 DEF ToSet
  <1> QED
    BY <1>7 DEF S

\* A step leaves the roles alone, or it is counted for the one user whose roles
\* it may change.
LEMMA EditSteps ==
    ASSUME AccountTypeOK, [Next]_authVars
    PROVE  \/ drawn'.edits = drawn.edits /\ roles' = roles
           \/ \E v \in Users : CountEdit(v) /\ \A x \in Users \ {v} : roles'[x] = roles[x]
  <1> DEFINE Stand == drawn'.edits = drawn.edits /\ roles' = roles
             Edit == \E v \in Users : CountEdit(v) /\ \A x \in Users \ {v} : roles'[x] = roles[x]
  <1>1. /\ roles \in [Users -> [Scopes -> Masks \cup {None}]]
        /\ drawn \in Counts
    BY DEF AccountTypeOK, StoreTypeOK
  <1>2. ASSUME NEW u \in Users, DeleteUser(u)
        PROVE  Edit
    BY <1>1, <1>2 DEF DeleteUser, RemoveUser
  <1>3. ASSUME NEW u \in Users, NEW w \in Scopes, DeleteUserRole(u, w)
        PROVE  Edit
    BY <1>1, <1>3 DEF DeleteUserRole, RemoveRole
  <1>4. ASSUME NEW r \in Requests, UpsertUserRoleWrite(r)
        PROVE  Edit
    <2>1. call[r].user \in Users
      BY <1>4 DEF UpsertUserRoleWrite, At, AccountTypeOK, LocalsSet
    <2>2. CountEdit(call[r].user)
      BY <1>4 DEF UpsertUserRoleWrite
    <2>3. \A x \in Users \ {call[r].user} : roles'[x] = roles[x]
      BY <1>1, <1>4, <2>1 DEF UpsertUserRoleWrite, WriteRole, storeVars
    <2> QED
      BY <2>1, <2>2, <2>3
  <1>5. ASSUME NEW r \in Requests, Arrive(r)
        PROVE  Stand
    BY <1>1, <1>5 DEF Arrive, Login, DrawCode, Verify, CreateUser, Refresh, Logout,
                      UpsertUserRole, outcomes, storeVars, Counts
  <1>6. ASSUME NEW r \in Requests, Advance(r), ~UpsertUserRoleWrite(r)
        PROVE  Stand
    <2>1. CASE VerifyStore(r) \/ RefreshStore(r)
      BY <1>1, <2>1 DEF VerifyStore, RefreshStore, IssueTokens, IssueRefused, GiveUp, InsertToken,
                        outcomes, storeVars, Counts
    <2>2. CASE LoginCreateUser(r) \/ LoginCreateLost(r) \/ LoginStore(r) \/ CreateUserInsert(r)
      BY <1>1, <2>2 DEF LoginCreateUser, LoginCreateLost, LoginStore, CreateUserInsert, GiveUp,
                        InsertUser, InsertCode, outcomes, storeVars, Counts
    <2>3. CASE \/ VerifyCode(r) \/ VerifyMark(r) \/ VerifyRoles(r) \/ RefreshUser(r)
               \/ RefreshRoles(r) \/ RefreshRevoke(r) \/ LogoutRevoke(r) \/ Abandon(r)
      BY <2>3 DEF VerifyCode, VerifyMark, VerifyRoles, RefreshUser, RefreshRoles, RefreshRevoke,
                  LogoutRevoke, Abandon, GiveUp, MarkCodeUsed, RevokeToken, outcomes, storeVars
    <2> QED
      BY <1>6, <2>1, <2>2, <2>3 DEF Advance
  <1>7. CASE AdminLogin \/ ExpireStored \/ UNCHANGED authVars
    BY <1>7 DEF AdminLogin, ExpireStored, outcomes, storeVars, authVars
  <1>8. ASSUME NEW x \in Subjects, ExpireAccess(x)
        PROVE  Stand
    BY <1>8 DEF ExpireAccess, storeVars
  <1>9. CASE Administer
    <2>1. ASSUME NEW i \in KeyIds, CreateAPIKey(i) \/ RevokeAPIKey(i) \/ ExpireAPIKey(i)
          PROVE  Stand
      BY <2>1 DEF CreateAPIKey, RevokeAPIKey, ExpireAPIKey, InsertKey, RevokeKey, outcomes
    <2>2. ASSUME NEW w \in Workspaces, CreateWorkspace(w) \/ DeleteWorkspace(w)
          PROVE  Stand
      BY <2>2 DEF CreateWorkspace, DeleteWorkspace, InsertWorkspace, RemoveWorkspace, outcomes
    <2> QED
      BY <1>2, <1>3, <1>9, <2>1, <2>2 DEF Administer
  <1> QED
    BY <1>4, <1>5, <1>6, <1>7, <1>8, <1>9 DEF Next

\* Every step that changes the roles of a user counts it.
LEMMA EditsCounted ==
    ASSUME AccountTypeOK, AccountTypeOK', [Next]_authVars, NEW u \in Users
    PROVE  /\ drawn.edits[u] \in Nat /\ drawn'.edits[u] \in Nat
           /\ drawn.edits[u] <= drawn'.edits[u]
           /\ drawn'.edits[u] = drawn.edits[u] => RolesOf(u)' = RolesOf(u)
  <1>1. drawn \in Counts /\ drawn' \in Counts
    BY DEF AccountTypeOK
  <1>2. drawn.edits[u] \in Nat /\ drawn'.edits[u] \in Nat
    BY <1>1, ServiceAssumption DEF Counts
  <1>3. CASE drawn'.edits = drawn.edits /\ roles' = roles
    BY <1>2, <1>3 DEF RolesOf
  <1>4. ASSUME NEW v \in Users, CountEdit(v), \A x \in Users \ {v} : roles'[x] = roles[x]
        PROVE  /\ drawn.edits[u] <= drawn'.edits[u]
               /\ drawn'.edits[u] = drawn.edits[u] => RolesOf(u)' = RolesOf(u)
    <2>1. drawn'.edits = [drawn.edits EXCEPT ![v] = IF roles'[v] = roles[v] THEN @ ELSE @ + 1]
      BY <1>1, <1>4 DEF CountEdit, Counts
    <2>2. \/ drawn'.edits[u] = drawn.edits[u] /\ roles'[u] = roles[u]
          \/ drawn'.edits[u] = drawn.edits[u] + 1
      BY <1>1, <1>4, <2>1 DEF Counts
    <2> QED
      BY <1>2, <2>2 DEF RolesOf
  <1>5. \/ drawn'.edits = drawn.edits /\ roles' = roles
        \/ \E v \in Users : CountEdit(v) /\ \A x \in Users \ {v} : roles'[x] = roles[x]
    BY EditSteps
  <1> QED
    BY <1>2, <1>3, <1>4, <1>5

\* An access token comes from the password of the administrator or from a
\* request that has read its user's roles.
LEMMA TokensSigned ==
    ASSUME [Next]_authVars, NEW j \in jwts'
    PROVE  \/ j \in jwts
           \/ j.sub = 0
           \/ \E r \in Requests :
                 /\ call[r].pc \in Signing
                 /\ j = [sub |-> call[r].user, claims |-> call[r].claims, edit |-> call[r].edit]
  <1> DEFINE Goal == \/ j \in jwts
                     \/ j.sub = 0
                     \/ \E r \in Requests :
                           /\ call[r].pc \in Signing
                           /\ j = [sub |-> call[r].user, claims |-> call[r].claims,
                                   edit |-> call[r].edit]
  <1>1. CASE UNCHANGED jwts
    BY <1>1
  <1>2. ASSUME NEW r \in Requests, VerifyStore(r) \/ RefreshStore(r)
        PROVE  Goal
    BY <1>1, <1>2 DEF VerifyStore, RefreshStore, IssueTokens, IssueRefused, GiveUp, outcomes,
                      At, Signing
  <1>3. CASE AdminLogin
    BY <1>3 DEF AdminLogin
  <1>4. ASSUME NEW x \in Subjects, ExpireAccess(x)
        PROVE  Goal
    BY <1>4 DEF ExpireAccess
  <1>5. ASSUME NEW r \in Requests, Arrive(r)
        PROVE  UNCHANGED jwts
    BY <1>5 DEF Arrive, Login, Verify, CreateUser, Refresh, Logout, UpsertUserRole, outcomes
  <1>6. ASSUME NEW r \in Requests, Advance(r), ~VerifyStore(r), ~RefreshStore(r)
        PROVE  UNCHANGED jwts
    BY <1>6 DEF Advance, LoginCreateUser, LoginCreateLost, LoginStore, VerifyCode, VerifyMark,
         VerifyRoles, RefreshUser, RefreshRoles, RefreshRevoke, LogoutRevoke, CreateUserInsert,
         UpsertUserRoleWrite, Abandon, GiveUp, outcomes
  <1>7. CASE Administer \/ ExpireStored \/ UNCHANGED authVars
    BY <1>1, <1>7 DEF Administer, DeleteUser, DeleteUserRole, CreateAPIKey, RevokeAPIKey,
         ExpireAPIKey, CreateWorkspace, DeleteWorkspace, ExpireStored, outcomes, authVars
  <1> QED
    BY <1>1, <1>2, <1>3, <1>4, <1>5, <1>6, <1>7 DEF Next

\* Claims read after the n-th change of a user's roles are no newer than the last
\* change, and if they are as new they are what the table says.
Agrees(cs, n, u) ==
    /\ n \in 0..MaxEdits
    /\ n <= drawn.edits[u]
    /\ n = drawn.edits[u] => ToSet(cs) = RolesOf(u)

CallsCurrent ==
    \A r \in Requests : call[r].pc \in Signing =>
        Agrees(call[r].claims, call[r].edit, call[r].user)

TokensCurrent == \A j \in jwts : j.sub \in Users => Agrees(j.claims, j.edit, j.sub)

LEMMA AgreeStays ==
    ASSUME AccountTypeOK, AccountTypeOK', [Next]_authVars, NEW u \in Users, NEW cs, NEW n,
           Agrees(cs, n, u)
    PROVE  Agrees(cs, n, u)'
  <1>1. n \in Nat /\ n <= drawn.edits[u] /\ (n = drawn.edits[u] => ToSet(cs) = RolesOf(u))
    BY ServiceAssumption DEF Agrees
  <1>2. /\ drawn.edits[u] \in Nat /\ drawn'.edits[u] \in Nat
        /\ drawn.edits[u] <= drawn'.edits[u]
        /\ drawn'.edits[u] = drawn.edits[u] => RolesOf(u)' = RolesOf(u)
    BY EditsCounted
  <1>3. n <= drawn'.edits[u]
    BY <1>1, <1>2
  <1>4. ASSUME n = drawn'.edits[u]
        PROVE  ToSet(cs) = RolesOf(u)'
    <2>1. n = drawn.edits[u]
      BY <1>1, <1>2, <1>4
    <2> QED
      BY <1>1, <1>2, <1>4, <2>1
  <1> QED
    BY <1>3, <1>4 DEF Agrees

\* What a request has just read agrees with the table.
LEMMA ReadAgrees ==
    ASSUME AccountTypeOK, NEW u \in Users, NEW cs \in ListUserRoles(u)
    PROVE  Agrees(cs, drawn.edits[u], u)
  <1>1. drawn.edits[u] \in 0..MaxEdits /\ drawn.edits[u] <= drawn.edits[u]
    BY ServiceAssumption DEF AccountTypeOK, Counts
  <1>2. ToSet(cs) = RolesOf(u)
    BY ListHasAll, RolesFinite
  <1> QED
    BY <1>1, <1>2 DEF Agrees

LEMMA CallsKept ==
    ASSUME AccountTypeOK, AccountTypeOK', [Next]_authVars, CallsCurrent
    PROVE  CallsCurrent'
  <1> SUFFICES ASSUME NEW r \in Requests, call'[r].pc \in Signing
               PROVE  Agrees(call[r].claims, call[r].edit, call[r].user)'
    BY DEF CallsCurrent
  <1>1. call'[r].user \in Users
    BY DEF AccountTypeOK, LocalsSet, Signing, Verifying, Refreshing
  <1> PICK u \in Users : u = call'[r].user
    BY <1>1
  <1> PICK cs : cs = call'[r].claims
    OBVIOUS
  <1> PICK n : n = call'[r].edit
    OBVIOUS
  <1>2. Agrees(cs, n, u)
    <2>1. CASE /\ call[r].pc \in Signing /\ call'[r].user = call[r].user
               /\ call'[r].claims = call[r].claims /\ call'[r].edit = call[r].edit
      BY <2>1 DEF CallsCurrent
    <2>2. CASE /\ call'[r].claims \in ListUserRoles(call'[r].user)
               /\ call'[r].edit = drawn.edits[call'[r].user]
      BY <2>2, ReadAgrees
    <2> QED
      BY <2>1, <2>2, SigningSteps
  <1>3. Agrees(cs, n, u)'
    BY <1>2, AgreeStays
  <1> QED
    BY <1>3 DEF Agrees

LEMMA TokensKept ==
    ASSUME AccountTypeOK, AccountTypeOK', [Next]_authVars, CallsCurrent, TokensCurrent
    PROVE  TokensCurrent'
  <1> SUFFICES ASSUME NEW j \in jwts', j.sub \in Users
               PROVE  Agrees(j.claims, j.edit, j.sub)'
    BY DEF TokensCurrent
  <1>1. j.sub # 0
    BY DEF Users
  <1>2. ASSUME NEW r \in Requests, call[r].pc \in Signing,
               j = [sub |-> call[r].user, claims |-> call[r].claims, edit |-> call[r].edit]
        PROVE  Agrees(j.claims, j.edit, j.sub)
    <2>1. j.sub = call[r].user /\ j.claims = call[r].claims /\ j.edit = call[r].edit
      BY <1>2
    <2> QED
      BY <1>2, <2>1 DEF CallsCurrent
  <1>3. Agrees(j.claims, j.edit, j.sub)
    BY <1>1, <1>2, TokensSigned DEF TokensCurrent
  <1> QED
    BY <1>3, AgreeStays

\* Every access token whose subject's roles have stood since they were read carries
\* all of them and no other, however requests and role changes overlap.
THEOREM TokensCarryRoles == Spec => []RolesCurrent
  <1>1. AuthInit => CallsCurrent /\ TokensCurrent
    BY DEF AuthInit, Idle, CallsCurrent, TokensCurrent, Signing
  <1>2. CallsCurrent /\ TokensCurrent /\ AccountTypeOK /\ AccountTypeOK' /\ [Next]_authVars
           => CallsCurrent' /\ TokensCurrent'
    BY CallsKept, TokensKept
  <1>3. TokensCurrent => RolesCurrent
    BY DEF TokensCurrent, RolesCurrent, Agrees
  <1> QED
    BY <1>1, <1>2, <1>3, AccountTypeCorrect, PTL DEF Spec

-----------------------------------------------------------------------------
(* The loop over the claims *)

\* seen holds what RoleForWorkspace has seen after each of the first n claims.
Runs(seen, n, claims, ws) ==
    seen = [i \in 0..n |-> IF i = 0 THEN [done |-> FALSE, role |-> {}]
                           ELSE RoleStep(seen[i - 1], claims[i], ws)]

\* There is such a function, so RoleForWorkspace is one's last value.
LEMMA LoopRuns ==
    ASSUME NEW claims, NEW ws, NEW n \in Nat
    PROVE  \E seen : Runs(seen, n, claims, ws)
  <1> DEFINE T == {m \in Nat : ~\E seen : Runs(seen, m, claims, ws)}
  <1> SUFFICES ASSUME T # {}
               PROVE  FALSE
    OBVIOUS
  <1> PICK m \in T : \A y \in T : m <= y
    BY LeastExists
  <1>1. m # 0
    <2> DEFINE seen == [i \in 0..0 |-> [done |-> FALSE, role |-> {}]]
    <2>1. Runs(seen, 0, claims, ws)
      BY DEF Runs
    <2> QED
      BY <2>1
  <1>2. m - 1 \in Nat /\ m - 1 \notin T
    BY <1>1
  <1> PICK before : Runs(before, m - 1, claims, ws)
    BY <1>2
  <1> DEFINE seen == [i \in 0..m |-> IF i = m THEN RoleStep(before[m - 1], claims[m], ws)
                                              ELSE before[i]]
  <1>3. \A i \in 0..(m - 1) :
           before[i] = IF i = 0 THEN [done |-> FALSE, role |-> {}]
                       ELSE RoleStep(before[i - 1], claims[i], ws)
    BY DEF Runs
  <1>4. ASSUME NEW i \in 0..m
        PROVE  seen[i] = IF i = 0 THEN [done |-> FALSE, role |-> {}]
                         ELSE RoleStep(seen[i - 1], claims[i], ws)
    <2>1. CASE i = m
      BY <1>1, <1>2, <2>1
    <2>2. CASE i # m
      <3>1. i \in 0..(m - 1) /\ (i # 0 => i - 1 \in 0..m /\ i - 1 # m)
        BY <2>2
      <3> QED
        BY <1>3, <2>2, <3>1
    <2> QED
      BY <2>1, <2>2
  <1>5. Runs(seen, m, claims, ws)
    BY <1>4, Zenon DEF Runs
  <1> QED
    BY <1>5

LEMMA RoleIsLast ==
    ASSUME NEW claims \in Seq(Claims), NEW ws
    PROVE  \E seen : /\ Runs(seen, Len(claims), claims, ws)
                     /\ RoleForWorkspace(claims, ws) = seen[Len(claims)].role
  <1>1. Len(claims) \in Nat
    OBVIOUS
  <1>2. \E seen : Runs(seen, Len(claims), claims, ws)
    BY <1>1, LoopRuns
  <1> QED
    BY <1>2, Zenon DEF RoleForWorkspace, Runs

\* The roles of the first n claims that name a scope.
RolesUpTo(n, claims, scope) ==
    {claims[i].role : i \in {x \in 1..n : claims[x].workspace = scope}}

\* What the loop has seen after n claims.
SeenRight(seen, n, claims, ws) ==
    LET star == RolesUpTo(n, claims, Star)
        own == RolesUpTo(n, claims, ws)
    IN \E role :
          \/ seen = [done |-> TRUE, role |-> role] /\ role \in star
          \/ /\ seen = [done |-> FALSE, role |-> role]
             /\ star = {}
             /\ IF own = {} THEN role = {} ELSE role \in own

LEMMA TurnRight ==
    ASSUME NEW claims \in Seq(Claims), NEW ws, NEW n \in 1..Len(claims), NEW seen,
           SeenRight(seen, n - 1, claims, ws)
    PROVE  SeenRight(RoleStep(seen, claims[n], ws), n, claims, ws)
  <1> DEFINE c == claims[n]
  <1>1. \A scope : RolesUpTo(n, claims, scope) =
            RolesUpTo(n - 1, claims, scope) \cup (IF c.workspace = scope THEN {c.role} ELSE {})
    BY DEF RolesUpTo
  <1> HIDE DEF c
  <1> PICK role :
          \/ seen = [done |-> TRUE, role |-> role] /\ role \in RolesUpTo(n - 1, claims, Star)
          \/ /\ seen = [done |-> FALSE, role |-> role]
             /\ RolesUpTo(n - 1, claims, Star) = {}
             /\ IF RolesUpTo(n - 1, claims, ws) = {} THEN role = {}
                ELSE role \in RolesUpTo(n - 1, claims, ws)
    BY DEF SeenRight
  <1>2. CASE seen = [done |-> TRUE, role |-> role]
    <2>1. RoleStep(seen, c, ws) = seen
      BY <1>2 DEF RoleStep
    <2>2. role \in RolesUpTo(n - 1, claims, Star)
      BY <1>2
    <2>3. role \in RolesUpTo(n, claims, Star)
      BY <1>1, <2>2
    <2> QED
      BY <1>2, <2>1, <2>3, Zenon DEF SeenRight, c
  <1>3. CASE seen = [done |-> FALSE, role |-> role] /\ c.workspace = Star
    <2>1. RoleStep(seen, c, ws) = [done |-> TRUE, role |-> c.role]
      <3>1. ~seen.done /\ c.workspace = Star
        BY <1>3
      <3> QED
        BY <3>1, Zenon DEF RoleStep
    <2>2. c.role \in RolesUpTo(n, claims, Star)
      BY <1>1, <1>3
    <2> QED
      BY <2>1, <2>2 DEF SeenRight, c
  <1>4. CASE seen = [done |-> FALSE, role |-> role] /\ c.workspace # Star
    <2>1. RolesUpTo(n, claims, Star) = {}
      BY <1>1, <1>4
    <2>2. CASE c.workspace = ws
      <3>1. RoleStep(seen, c, ws) = [done |-> FALSE, role |-> c.role]
        BY <1>4, <2>2 DEF RoleStep
      <3>2. c.role \in RolesUpTo(n, claims, ws)
        BY <1>1, <2>2
      <3> QED
        BY <2>1, <3>1, <3>2 DEF SeenRight, c
    <2>3. CASE c.workspace # ws
      <3>1. RoleStep(seen, c, ws) = seen
        BY <1>4, <2>3 DEF RoleStep
      <3>2. RolesUpTo(n, claims, ws) = RolesUpTo(n - 1, claims, ws)
        BY <1>1, <2>3
      <3> QED
        BY <1>4, <2>1, <3>1, <3>2 DEF SeenRight, c
    <2> QED
      BY <2>2, <2>3
  <1> QED
    BY <1>2, <1>3, <1>4

LEMMA LoopRight ==
    ASSUME NEW claims \in Seq(Claims), NEW ws, NEW seen, Runs(seen, Len(claims), claims, ws),
           NEW n \in 0..Len(claims)
    PROVE  SeenRight(seen[n], n, claims, ws)
  <1> DEFINE T == {m \in Nat : m <= Len(claims) /\ ~SeenRight(seen[m], m, claims, ws)}
  <1> SUFFICES ASSUME T # {}
               PROVE  FALSE
    OBVIOUS
  <1> PICK m \in T : \A y \in T : m <= y
    BY LeastExists
  <1>0. \A i \in 0..Len(claims) :
           seen[i] = IF i = 0 THEN [done |-> FALSE, role |-> {}]
                     ELSE RoleStep(seen[i - 1], claims[i], ws)
    BY DEF Runs
  <1>1. m # 0
    <2>1. seen[0] = [done |-> FALSE, role |-> {}]
      BY <1>0
    <2>2. \A scope : RolesUpTo(0, claims, scope) = {}
      BY DEF RolesUpTo
    <2> QED
      BY <2>1, <2>2 DEF SeenRight
  <1>2. m - 1 \in Nat /\ m \in 1..Len(claims) /\ m - 1 \notin T
    BY <1>1
  <1>3. SeenRight(seen[m - 1], m - 1, claims, ws)
    BY <1>2
  <1>4. seen[m] = RoleStep(seen[m - 1], claims[m], ws)
    BY <1>0, <1>1, <1>2
  <1> QED
    BY <1>2, <1>3, <1>4, TurnRight

\* The loop ends with the role for "*" if there is one.
LEMMA StarFirst ==
    ASSUME NEW claims \in Seq(Claims), NEW ws
    PROVE  LET Of(scope) == {claims[i].role : i \in {x \in DOMAIN claims :
                                                       claims[x].workspace = scope}}
               role == RoleForWorkspace(claims, ws)
           IN CASE Of(Star) # {} -> role \in Of(Star)
                [] Of(Star) = {} /\ Of(ws) # {} -> role \in Of(ws)
                [] OTHER -> role = {}
  <1> PICK seen : /\ Runs(seen, Len(claims), claims, ws)
                  /\ RoleForWorkspace(claims, ws) = seen[Len(claims)].role
    BY RoleIsLast
  <1>1. Len(claims) \in 0..Len(claims) /\ DOMAIN claims = 1..Len(claims)
    OBVIOUS
  <1>2. SeenRight(seen[Len(claims)], Len(claims), claims, ws)
    BY <1>1, LoopRight
  <1> DEFINE last == seen[Len(claims)]
             star == RolesUpTo(Len(claims), claims, Star)
             own == RolesUpTo(Len(claims), claims, ws)
  <1>3. \/ last.role \in star
        \/ star = {} /\ own = {} /\ last.role = {}
        \/ star = {} /\ own # {} /\ last.role \in own
    BY <1>2 DEF SeenRight
  <1> QED
    BY <1>1, <1>3 DEF RolesUpTo

\* In whatever order the rows came, a token's role for a workspace is the one
\* it has for "*" if there is one: for any number of claims and workspaces.
THEOREM StarsSupersede == Spec => []StarSupersedes
  <1>1. AccountTypeOK => StarSupersedes
    <2> SUFFICES ASSUME AccountTypeOK, NEW j \in jwts, NEW w \in Workspaces
                 PROVE  LET Of(scope) == {j.claims[i].role : i \in {x \in DOMAIN j.claims :
                                                     j.claims[x].workspace = scope}}
                            role == RoleForWorkspace(j.claims, w)
                        IN CASE Of(Star) # {} -> role \in Of(Star)
                             [] Of(Star) = {} /\ Of(w) # {} -> role \in Of(w)
                             [] OTHER -> role = {}
      BY Zenon DEF StarSupersedes
    <2>1. j.claims \in Seq(Claims)
      BY DEF AccountTypeOK, Jwts
    <2> QED
      BY <2>1, StarFirst
  <1> QED
    BY <1>1, AccountTypeCorrect, PTL
=============================================================================
