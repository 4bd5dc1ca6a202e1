-------------------------- MODULE AccountProperties --------------------------
(***************************************************************************)
(* What the account side of the server keeps, stated over its tables, its  *)
(* requests and the access tokens in force.                                *)
(***************************************************************************)
EXTENDS Accounts

\* However refreshes, logouts and deletions of users interleave, and wherever
\* they stop, a refresh token is exchanged at most once and only after it was
\* revoked: service.Refresh implements the chains of Sessions.
Rotation == INSTANCE Sessions WITH live <- Live
RefreshTokensRotate == Rotation!Spec

\* Codes, refresh tokens and roles belong to a user that exists, whatever
\* requests of that user are under way while it is deleted (the declared
\* REFERENCES users(id) ON DELETE CASCADE).
RowsHaveUsers ==
    /\ \A c \in Codes : codes[c] # None => UserExists(codes[c].user)
    /\ \A t \in Tokens : tokens[t] # None => UserExists(tokens[t].user)
    /\ \A u \in Users, w \in Scopes : roles[u][w] # None => UserExists(u)

\* A one-time code opens one session, and where verifications of it overlap no
\* more than there are requests at a time: whoever reads the code after the first
\* MarkOTPUsed finds it used, whatever fails and whoever is deleted in between.
SessionsPerCode ==
    \A c \in Codes :
        Cardinality({t \in Tokens : lineage[t] = FromCode(c)}) <= Cardinality(Requests)

\* In whatever order the rows came, a token's role for a workspace is the one
\* it has for "*" if there is one, and else the one it has for the workspace
\* (RoleForWorkspace).
StarSupersedes ==
    \A j \in jwts, w \in Workspaces :
        LET Of(scope) == {j.claims[i].role : i \in {x \in DOMAIN j.claims :
                                                     j.claims[x].workspace = scope}}
            role == RoleForWorkspace(j.claims, w)
        IN CASE Of(Star) # {} -> role \in Of(Star)
             [] Of(Star) = {} /\ Of(w) # {} -> role \in Of(w)
             [] OTHER -> role = {}

\* An access token in force differs from the table only where the table changed
\* after the token's request had read it: a login or a refresh that reads the
\* roles after a change hands out the new ones, all of them, whatever tokens and
\* requests of that user are older (Verify and Refresh in auth.go).
RolesCurrent ==
    \A j \in jwts :
        j.sub \in Users /\ j.edit = drawn.edits[j.sub] => ToSet(j.claims) = RolesOf(j.sub)

-----------------------------------------------------------------------------
(* The inductive invariant of the rotation *)

\* Numbers beyond those drawn are free.
NumbersFresh == \A t \in Tokens : t > drawn.token => tokens[t] = None /\ lineage[t] = None

RowsIssued == \A t \in Tokens : tokens[t] # None => lineage[t] # None

\* A request that refreshes works on a token that was issued.
RefreshesIssued ==
    \A r \in Requests : call[r].pc \in Refreshing => lineage[call[r].token] # None

\* Between the revocation of a token and the issue of its heir, one request
\* holds it.
RevokedHeld ==
    \A r \in Requests : At(r, "rf_store") =>
        LET old == call[r].token IN
        /\ old \notin Live
        /\ \A t \in Tokens : lineage[t] # FromToken(old)
        /\ \A s \in Requests \ {r} : At(s, "rf_store") => call[s].token # old

\* A token that has an heir is revoked, or its row is gone.
ExchangedRetired ==
    \A s, t \in Tokens : lineage[t] = FromToken(s) => lineage[s] # None /\ s \notin Live

\* The invariant from which the rotation is proved.
SessionInv ==
    /\ NumbersFresh
    /\ RowsIssued
    /\ RefreshesIssued
    /\ RevokedHeld
    /\ ExchangedRetired
=============================================================================
