------------------------------ MODULE Sessions ------------------------------
(***************************************************************************)
(* What the login handlers of internal/api/auth.go promise of refresh      *)
(* tokens.  A token is opened once for one holder, either by a password or *)
(* by an older token of the same holder; it ends alone or with all tokens  *)
(* of its holder; and what has ended stays ended.                          *)
(***************************************************************************)

CONSTANTS
    User,
    Token,
    None

VARIABLES
    holder,     \* holder[t]: the user token t was issued to
    ended       \* tokens that were revoked

SessionTypeOK ==
    /\ holder \in [Token -> User \cup {None}]
    /\ ended \subseteq Token

SessionInit ==
    /\ holder = [t \in Token |-> None]
    /\ ended = {}

Issued == {t \in Token : holder[t] # None}

\* A token is issued by a password or by a token of the same user.
Open(t, u) ==
    /\ holder[t] = None
    /\ holder' = [holder EXCEPT ![t] = u]
    /\ UNCHANGED ended

Close(t) ==
    /\ t \in Issued
    /\ ended' = ended \cup {t}
    /\ UNCHANGED holder

CloseAll(u) ==
    /\ ended' = ended \cup {t \in Token : holder[t] = u}
    /\ UNCHANGED holder

SessionNext ==
    \/ \E t \in Token, u \in User : Open(t, u)
    \/ \E t \in Token : Close(t)
    \/ \E u \in User : CloseAll(u)

SessionSpec == SessionInit /\ [][SessionNext]_<<holder, ended>>
=============================================================================
