------------------------------ MODULE Sessions ------------------------------
(***************************************************************************)
(* What refresh-token rotation promises: a session is a chain of tokens,   *)
(* opened with a code, and each token is exchanged at most once, when it   *)
(* is no longer live.  So at most one token of a chain is live, and a      *)
(* token that is not live stays so.                                        *)
(***************************************************************************)
CONSTANTS Tokens, Codes, None

VARIABLES
    live,    \* the tokens that can be exchanged
    lineage  \* token -> what it was issued for, or None before it is issued

Init == live = {} /\ lineage = [t \in Tokens |-> None]

Issue(t, origin) ==
    /\ lineage[t] = None
    /\ lineage' = [lineage EXCEPT ![t] = origin]
    /\ live' = live \cup {t}

Open(t) == \E c \in Codes : Issue(t, [from |-> "code", number |-> c])

\* The next token of old's chain.
Renew(old, t) ==
    LET origin == [from |-> "token", number |-> old] IN
    /\ lineage[old] # None
    /\ old \notin live
    /\ \A s \in Tokens : lineage[s] # origin
    /\ Issue(t, origin)

\* Exchanged, logged out, or its user is deleted.
Retire == live' \subseteq live /\ UNCHANGED lineage

Next == Retire \/ \E t \in Tokens : Open(t) \/ \E old \in Tokens : Renew(old, t)

Spec == Init /\ [][Next]_<<live, lineage>>
=============================================================================
