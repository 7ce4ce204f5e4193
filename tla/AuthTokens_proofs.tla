--------------------------- MODULE AuthTokens_proofs ---------------------------
(***************************************************************************)
(* Proofs about AuthTokens for any users and requests: type correctness,   *)
(* what outlives a reset, who is locked out by a refresh, how often a link *)
(* works, and the refinement of Sessions.                                  *)
(***************************************************************************)
EXTENDS AuthTokens, TLAPS

\* A row is written by the request it is named after, for the user it loaded.
RowsAreOwned ==
    /\ \A r \in Request : stage[r] = "idle" => given[r] = None
    /\ \A t \in Token : owner[t] # None =>
        owner[t] = who[t] /\ stage[t] \in {"revoke", "ok", "failed"}
    /\ \A t \in Token : stage[t] = "revoke" => owner[t] # None
    /\ \A t \in revoked : owner[t] # None

\* A login or refresh that was let in, or that wrote its token.
LetIn(t) == stage[t] \in {"user", "create"} \/ owner[t] # None

\* A session belongs to one user, and the login that began it wrote its token.
SessionsAreOwned == \A t \in Token : LetIn(t) =>
    /\ who[t] \in User
    /\ opening[t] \in Login
    /\ stage[opening[t]] # "idle"
    /\ t \in Login => opening[t] = t
    /\ t \in Refresh => owner[opening[t]] = who[t]

\* A refresh renews a token of its own session, which was answered before.
RenewalsFollowTokens ==
    \A r \in Refresh : stage[r] \in {"user", "create", "revoke"} =>
        /\ given[r] \in Token
        /\ owner[given[r]] = who[r]
        /\ opening[given[r]] = opening[r]
        /\ stage[given[r]] = "ok"

ResetsFollowLinks ==
    /\ \A x \in Reset : stage[x] \in {"update", "mark", "kick", "ok"} =>
        given[x] \in Forgot /\ who[x] \in User
    /\ \A x \in marked : stage[x] \in {"kick", "ok", "failed"} /\ given[x] \in used
    /\ \A x \in kicked : stage[x] = "ok"

PasswordsAreResets == \A u \in User : password[u] \in Reset =>
    who[password[u]] = u /\ stage[password[u]] \in {"mark", "kick", "ok", "failed"}

\* While the password of a reset that revoked the tokens is in force, every session
\* that is not revoked rests on it, or was entered beside the revocation.
KickedIsFresh == \A x \in kicked : password[who[x]] = x =>
    \A t \in Token : LetIn(t) /\ who[t] = who[x] /\ t \notin revoked =>
        t \in late \/ given[opening[t]] = x

\* A token nobody was answered yet can only have been revoked by a reset.
UnansweredIsKept == \A r \in Refresh : stage[r] = "revoke" /\ r \in revoked =>
    \E x \in kicked : who[x] = who[r]

\* LinkSpentTwiceHasCause from the moment the second reset is let in.
LinksAreCounted == \A x, y \in Reset :
    x # y /\ x \in marked /\ given[x] = given[y] /\ (stage[y] = "update" \/ Spent(y)) =>
        \/ {x, y} \cap late # {}
        \/ stage[y] \in {"kick", "ok"} /\ y \notin marked

IInv ==
    /\ TypeOK
    /\ RowsAreOwned
    /\ SessionsAreOwned
    /\ RenewalsFollowTokens
    /\ ResetsFollowLinks
    /\ PasswordsAreResets
    /\ KickedIsFresh
    /\ UnansweredIsKept
    /\ NeverLockedOut
    /\ LinksAreCounted

-----------------------------------------------------------------------------
(* The steps, handler by handler.                                          *)

LEMMA InitIInv == Init => IInv
<1> SUFFICES ASSUME Init PROVE IInv
  OBVIOUS
<1> USE NoneIsNoValue, RoundsAssumption DEF Init
<1>1. TypeOK
  BY DEF TypeOK, Stages
<1>2. \A r \in Request : stage[r] \in {"idle", "failed"}
  OBVIOUS
<1>3. \A t \in Token : owner[t] = None /\ ~LetIn(t)
  BY <1>2 DEF LetIn, Request, Token
<1> QED
  BY <1>1, <1>2, <1>3
     DEF IInv, RowsAreOwned, SessionsAreOwned, RenewalsFollowTokens, ResetsFollowLinks,
         PasswordsAreResets, KickedIsFresh, UnansweredIsKept, NeverLockedOut,
         LinksAreCounted, Spent, Token, Password, Request, Session

LEMMA AnyRequestStep == ASSUME IInv, NEW r \in Request, Fail(r) PROVE IInv'
<1> USE RequestsAreDistinct, NoneIsNoValue DEF dbVars, historyVars, Token, Password, Request
<1> QED
  BY DEF Fail, Running, IInv, TypeOK, Stages, RowsAreOwned, SessionsAreOwned, LetIn,
     RenewalsFollowTokens, ResetsFollowLinks, PasswordsAreResets, KickedIsFresh,
     UnansweredIsKept, NeverLockedOut, Session, LinksAreCounted, Spent

LEMMA ExpireStep == ASSUME IInv, NEW t \in Token \cup Forgot, Expire(t) PROVE IInv'
  BY DEF Expire, requestVars, historyVars, IInv, TypeOK, RowsAreOwned, SessionsAreOwned,
     LetIn, RenewalsFollowTokens, ResetsFollowLinks, PasswordsAreResets, KickedIsFresh,
     UnansweredIsKept, NeverLockedOut, Session, LinksAreCounted, Spent

LEMMA SignUpStep == ASSUME IInv, NEW s \in SignUp, Register(s) PROVE IInv'
<1> USE RequestsAreDistinct, NoneIsNoValue DEF historyVars, Token, Password, Request
<1> QED
  BY DEF Register, Begin, Go, CreateUser, IInv, TypeOK, Stages, RowsAreOwned,
     SessionsAreOwned, LetIn, RenewalsFollowTokens, ResetsFollowLinks, PasswordsAreResets,
     KickedIsFresh, UnansweredIsKept, NeverLockedOut, Session, LinksAreCounted, Spent

LEMMA LoginStep ==
    ASSUME IInv, NEW r \in Login, CheckPassword(r) \/ LoginIssues(r)
    PROVE  IInv'
<1> USE RequestsAreDistinct, NoneIsNoValue
    DEF Go, dbVars, historyVars, Token, Password, Request, IInv, TypeOK, Stages,
        RowsAreOwned, SessionsAreOwned, LetIn, RenewalsFollowTokens, ResetsFollowLinks,
        PasswordsAreResets, KickedIsFresh, UnansweredIsKept, NeverLockedOut, Session,
        LinksAreCounted, Spent
<1>1. CASE CheckPassword(r)
  BY <1>1 DEF CheckPassword, Begin
<1>2. CASE LoginIssues(r)
  BY <1>2 DEF LoginIssues, CreateRefreshToken
<1> QED
  BY <1>1, <1>2

LEMMA UnansweredStep == ASSUME IInv, NEW r \in Token, IssueUnanswered(r) PROVE IInv'
<1> USE RequestsAreDistinct, NoneIsNoValue DEF historyVars, Token, Password, Request
<1> QED
  BY DEF IssueUnanswered, Go, CreateRefreshToken, IInv, TypeOK, Stages, RowsAreOwned,
     SessionsAreOwned, LetIn, RenewalsFollowTokens, ResetsFollowLinks, PasswordsAreResets,
     KickedIsFresh, UnansweredIsKept, NeverLockedOut, Session, LinksAreCounted, Spent

LEMMA RefreshStep ==
    ASSUME IInv, NEW r \in Refresh,
           \/ LoadToken(r) \/ LoadUser(r) \/ RefreshIssues(r)
           \/ RevokeOld(r) \/ RevokeOldFails(r)
    PROVE  IInv'
<1> USE RequestsAreDistinct, NoneIsNoValue
    DEF Go, dbVars, historyVars, Token, Password, Request, IInv, TypeOK, Stages,
        RowsAreOwned, SessionsAreOwned, LetIn, RenewalsFollowTokens, ResetsFollowLinks,
        PasswordsAreResets, KickedIsFresh, UnansweredIsKept, NeverLockedOut, Session,
        LinksAreCounted, Spent
<1>1. CASE LoadToken(r)
  BY <1>1 DEF LoadToken, HeldTokens, GetRefreshToken, Begin
<1>2. CASE LoadUser(r) \/ RevokeOldFails(r)
  BY <1>2 DEF LoadUser, RevokeOldFails
<1>3. CASE RefreshIssues(r)
  BY <1>3 DEF RefreshIssues, CreateRefreshToken
\* The token that r wrote takes the place of the one it revokes.
<1>4. CASE RevokeOld(r)
  BY <1>4 DEF RevokeOld, RevokeRefreshToken
<1> QED
  BY <1>1, <1>2, <1>3, <1>4

LEMMA LogoutStep ==
    ASSUME IInv, NEW o \in Logout, LogoutRevokes(o) \/ LogoutFails(o)
    PROVE  IInv'
<1> USE RequestsAreDistinct, NoneIsNoValue
    DEF HeldTokens, Begin, Go, dbVars, historyVars, Token, Password, Request, IInv, TypeOK,
        Stages, RowsAreOwned, SessionsAreOwned, LetIn, RenewalsFollowTokens,
        ResetsFollowLinks, PasswordsAreResets, KickedIsFresh, UnansweredIsKept,
        NeverLockedOut, Session, LinksAreCounted, Spent
<1>1. CASE LogoutRevokes(o)
  BY <1>1 DEF LogoutRevokes, RevokeRefreshToken
<1>2. CASE LogoutFails(o)
  BY <1>2 DEF LogoutFails
<1> QED
  BY <1>1, <1>2

LEMMA ForgotStep ==
    ASSUME IInv, NEW l \in Forgot, FindUser(l) \/ CreateLink(l) \/ SendResetEmail(l)
    PROVE  IInv'
<1> USE RequestsAreDistinct, NoneIsNoValue
    DEF Go, dbVars, historyVars, Token, Password, Request, IInv, TypeOK, Stages,
        RowsAreOwned, SessionsAreOwned, LetIn, RenewalsFollowTokens, ResetsFollowLinks,
        PasswordsAreResets, KickedIsFresh, UnansweredIsKept, NeverLockedOut, Session,
        LinksAreCounted, Spent
<1>1. CASE FindUser(l)
  BY <1>1 DEF FindUser, Begin
<1>2. CASE CreateLink(l)
  BY <1>2 DEF CreateLink, CreatePasswordResetToken
<1>3. CASE SendResetEmail(l)
  BY <1>3 DEF SendResetEmail
<1> QED
  BY <1>1, <1>2, <1>3

LEMMA ResetStep ==
    ASSUME IInv, NEW x \in Reset,
           \/ LoadLink(x) \/ UpdatePassword(x) \/ UpdateUnanswered(x)
           \/ MarkLink(x) \/ MarkLinkFails(x) \/ KickAll(x) \/ KickAllFails(x)
    PROVE  IInv'
<1> USE RequestsAreDistinct, NoneIsNoValue
    DEF Go, dbVars, historyVars, Token, Password, Request, IInv, TypeOK, Stages,
        RowsAreOwned, SessionsAreOwned, LetIn, RenewalsFollowTokens, ResetsFollowLinks,
        PasswordsAreResets, KickedIsFresh, UnansweredIsKept, NeverLockedOut, Session,
        LinksAreCounted, Spent
<1>1. CASE LoadLink(x)
  BY <1>1 DEF LoadLink, MailedLinks, GetPasswordResetToken, Begin
<1>2. CASE UpdatePassword(x) \/ UpdateUnanswered(x)
  BY <1>2 DEF UpdatePassword, UpdateUnanswered, UpdateUserPassword
\* Resets that the same link let in, and that can still be marked, are late.
<1>3. CASE MarkLink(x)
  BY <1>3 DEF MarkLink, MarkPasswordResetTokenUsed, Beside
<1>4. CASE MarkLinkFails(x) \/ KickAllFails(x)
  BY <1>4 DEF MarkLinkFails, KickAllFails
\* No token of the user is left, and those that are being written are late.
<1>5. CASE KickAll(x)
  BY <1>5 DEF KickAll, RevokeAllUserRefreshTokens, Entering
<1> QED
  BY <1>1, <1>2, <1>3, <1>4, <1>5

LEMMA NextIInv == IInv /\ [Next]_vars => IInv'
<1> SUFFICES ASSUME IInv, [Next]_vars PROVE IInv'
  OBVIOUS
<1>1. CASE UNCHANGED vars
  BY <1>1 DEF vars, dbVars, requestVars, historyVars, IInv, TypeOK, RowsAreOwned,
     SessionsAreOwned, LetIn, RenewalsFollowTokens, ResetsFollowLinks, PasswordsAreResets,
     KickedIsFresh, UnansweredIsKept, NeverLockedOut, Session, LinksAreCounted, Spent
<1> QED
  BY <1>1, AnyRequestStep, ExpireStep, SignUpStep, LoginStep, UnansweredStep, RefreshStep,
     LogoutStep, ForgotStep, ResetStep DEF Next

LEMMA SpecIInv == Spec => []IInv
  BY InitIInv, NextIInv, PTL DEF Spec

-----------------------------------------------------------------------------
(* The theorems.                                                           *)

\* The handlers of auth.go keep rows, locals and history well typed.
THEOREM TypeCorrect == Spec => []TypeOK
  BY SpecIInv, PTL DEF IInv

\* A refresh, whatever of it fails, never leaves a session without a token
\* (auth.go:169-170).
THEOREM SessionSurvives == Spec => []NeverLockedOut
  BY SpecIInv, PTL DEF IInv

\* A session outlives a reset only if it was entered beside it, or if the reset did
\* not come to revoke (auth.go:328-336).
THEOREM StaleSessionCause == Spec => []StaleSessionHasCause
<1>1. IInv => StaleSessionHasCause
  <2> SUFFICES ASSUME IInv, NEW t \in Token, Live(t), password[owner[t]] \in kicked,
                      t \notin late
               PROVE  PasswordOf(t) = password[owner[t]]
    BY DEF StaleSessionHasCause
  <2>1. owner[t] \in User /\ owner[t] = who[t] /\ LetIn(t) /\ t \notin revoked
    BY NoneIsNoValue DEF Live, LetIn, IInv, TypeOK, RowsAreOwned
  <2>2. who[password[owner[t]]] = who[t]
    BY <2>1 DEF IInv, TypeOK, PasswordsAreResets
  <2> QED
    BY <2>1, <2>2 DEF IInv, KickedIsFresh, PasswordOf
<1> QED
  BY <1>1, SpecIInv, PTL

\* A link that works twice was used by two resets at a time or could not be marked
\* (auth.go:310, 333).
THEOREM LinkSpentTwiceCause == Spec => []LinkSpentTwiceHasCause
<1>1. IInv => LinkSpentTwiceHasCause
  BY DEF IInv, LinksAreCounted, LinkSpentTwiceHasCause
<1> QED
  BY <1>1, SpecIInv, PTL

LEMMA InitRefines == Init => Abstract!SessionInit
  BY DEF Init, Abstract!SessionInit, Token

LEMMA NextRefines ==
    IInv /\ [Next]_vars => [Abstract!SessionNext]_<<[t \in Token |-> owner[t]], revoked>>
<1> DEFINE holder == [t \in Token |-> owner[t]]
<1> SUFFICES ASSUME IInv, [Next]_vars
             PROVE  Abstract!SessionNext \/ (holder' = holder /\ revoked' = revoked)
  OBVIOUS
<1> USE DEF Go, Begin, CreateRefreshToken, RevokeRefreshToken
<1>1. ASSUME NEW r \in Token, stage[r] = "create",
             owner' = [owner EXCEPT ![r] = who[r]], revoked' = revoked
      PROVE  Abstract!SessionNext
  <2>1. owner[r] = None /\ who[r] \in User
    BY <1>1 DEF IInv, RowsAreOwned, SessionsAreOwned, LetIn
  <2>2. holder' = [holder EXCEPT ![r] = who[r]]
    BY <1>1 DEF IInv, TypeOK
  <2>3. \E u \in User : Abstract!Open(r, u)
    BY <1>1, <2>1, <2>2 DEF Abstract!Open
  <2> QED
    BY <2>3 DEF Abstract!SessionNext
<1>2. ASSUME NEW t \in Token, owner[t] # None, revoked' = revoked \cup {t}, owner' = owner
      PROVE  Abstract!Close(t)
  BY <1>2 DEF Abstract!Close, Abstract!Issued
<1>3. ASSUME NEW r \in Login, LoginIssues(r) PROVE Abstract!SessionNext
  BY <1>1, <1>3 DEF LoginIssues, Token
<1>4. ASSUME NEW r \in Token, IssueUnanswered(r) PROVE Abstract!SessionNext
  BY <1>1, <1>4 DEF IssueUnanswered
<1>5. ASSUME NEW r \in Refresh, RefreshIssues(r) PROVE Abstract!SessionNext
  BY <1>1, <1>5 DEF RefreshIssues, Token
<1>6. ASSUME NEW r \in Refresh, RevokeOld(r) PROVE Abstract!SessionNext
  <2>1. given[r] \in Token /\ owner[given[r]] # None
    BY <1>6, NoneIsNoValue
       DEF RevokeOld, IInv, RenewalsFollowTokens, SessionsAreOwned, RowsAreOwned, LetIn, Token
  <2> QED
    BY <1>2, <1>6, <2>1 DEF RevokeOld, Abstract!SessionNext
<1>7. ASSUME NEW o \in Logout, LogoutRevokes(o) PROVE Abstract!SessionNext
  BY <1>2, <1>7 DEF LogoutRevokes, HeldTokens, Abstract!SessionNext
<1>8. ASSUME NEW x \in Reset, KickAll(x) PROVE Abstract!SessionNext
  BY <1>8 DEF KickAll, RevokeAllUserRefreshTokens, IInv, ResetsFollowLinks,
     Abstract!SessionNext, Abstract!CloseAll
\* The row of a link is no token.
<1>9. ASSUME NEW l \in Forgot, CreateLink(l) PROVE holder' = holder /\ revoked' = revoked
  BY <1>9, RequestsAreDistinct DEF CreateLink, CreatePasswordResetToken, IInv, TypeOK, Token
<1>10. CASE UNCHANGED <<owner, revoked>>
  BY <1>10
<1> QED
  BY <1>3, <1>4, <1>5, <1>6, <1>7, <1>8, <1>9, <1>10
     DEF Next, vars, dbVars, Fail, Register, CheckPassword, LoadToken, LoadUser,
         RevokeOldFails, LogoutFails, FindUser, SendResetEmail, LoadLink, UpdatePassword,
         UpdateUnanswered, MarkLink, MarkLinkFails, KickAllFails, Expire

\* auth.go implements Sessions.
THEOREM SessionRefinement == Spec => ImplementsSessions
  BY InitRefines, NextRefines, SpecIInv, PTL
     DEF Spec, ImplementsSessions, Abstract!SessionSpec
=============================================================================
