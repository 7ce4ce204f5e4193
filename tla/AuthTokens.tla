----------------------------- MODULE AuthTokens -----------------------------
(***************************************************************************)
(* Registration, login, refresh, logout and password reset                 *)
(* (internal/api/auth.go), over the tables users, refresh_tokens and       *)
(* password_reset_tokens.                                                  *)
(*                                                                         *)
(* One action is one query or one mail, so that requests interleave        *)
(* between them.  What a request inserts is named after it: a login or a   *)
(* refresh is the refresh token it issues, a request for a reset is the    *)
(* link it mails, and a password is named after the request that chose it. *)
(* Access tokens are stateless and are left out.                           *)
(***************************************************************************)
EXTENDS FiniteSets

CONSTANTS
    User,       \* e-mail addresses
    SignUp, Login, Refresh, Logout, Forgot, Reset,
                \* requests to the six handlers
    Rounds,     \* bound: sets of requests, one of which is made
    None

Token == Login \cup Refresh
Password == SignUp \cup Reset
Request == SignUp \cup Login \cup Refresh \cup Logout \cup Forgot \cup Reset

ASSUME RequestsAreDistinct ==
    /\ SignUp \cap (Token \cup Logout \cup Forgot \cup Reset) = {}
    /\ Login \cap (Refresh \cup Logout \cup Forgot \cup Reset) = {}
    /\ Refresh \cap (Logout \cup Forgot \cup Reset) = {}
    /\ Logout \cap (Forgot \cup Reset) = {}
    /\ Forgot \cap Reset = {}

ASSUME RoundsAssumption == Rounds \subseteq SUBSET Request

ASSUME NoneIsNoValue == None \notin User \cup Request

VARIABLES
    (* the database *)
    password,   \* password[u]: users.password, None while u has no row
    owner,      \* owner[t]: user_id of the row of token or link t
    revoked,    \* tokens with refresh_tokens.revoked
    used,       \* links with password_reset_tokens.used
    expired,    \* tokens and links past their expires_at
    (* locals of the handlers *)
    stage,      \* stage[r]: the next call of request r
    who,        \* who[r]: the user it loaded
    given,      \* given[r]: the password, token or link it carries
    (* history, read by properties only *)
    opening,    \* opening[t]: the login that began the session of token t
    late,       \* requests overtaken between their check and their write,
                \* and the tokens renewed from what they issued
    marked,     \* resets that marked their link
    kicked      \* resets that revoked the tokens of their user

dbVars == <<password, owner, revoked, used, expired>>
requestVars == <<stage, who, given>>
historyVars == <<opening, late, marked, kicked>>
vars == <<dbVars, requestVars, historyVars>>

\* ok: answered with success; failed: answered with an error, or cut short.
Stages == {"idle", "user", "create", "revoke", "mail", "update", "mark", "kick",
           "ok", "failed"}

TypeOK ==
    /\ password \in [User -> Password \cup {None}]
    /\ owner \in [Token \cup Forgot -> User \cup {None}]
    /\ revoked \subseteq Token
    /\ used \subseteq Forgot
    /\ expired \subseteq Token \cup Forgot
    /\ stage \in [Request -> Stages]
    /\ who \in [Request -> User \cup {None}]
    /\ given \in [Request -> Password \cup Token \cup Forgot \cup {None}]
    /\ opening \in [Token -> Login \cup {None}]
    /\ late \subseteq Request
    /\ marked \subseteq Reset
    /\ kicked \subseteq Reset

Init ==
    /\ password = [u \in User |-> None]
    /\ owner = [t \in Token \cup Forgot |-> None]
    /\ revoked = {}
    /\ used = {}
    /\ expired = {}
    /\ \E R \in Rounds : stage = [r \in Request |-> IF r \in R THEN "idle" ELSE "failed"]
    /\ who = [r \in Request |-> None]
    /\ given = [r \in Request |-> None]
    /\ opening = [t \in Token |-> None]
    /\ late = {}
    /\ marked = {}
    /\ kicked = {}

-----------------------------------------------------------------------------
(* Queries.                                                                *)

\* Mutant of GetRefreshToken: the query forgets "revoked = FALSE".
GetAnyRefreshToken(t) == owner[t] # None /\ t \notin expired

GetRefreshToken(t) == owner[t] # None /\ t \notin revoked \cup expired

\* Mutant of GetPasswordResetToken: the query forgets "used = FALSE".
GetAnyPasswordResetToken(l) == owner[l] # None /\ l \notin expired

GetPasswordResetToken(l) == owner[l] # None /\ l \notin used \cup expired

CreateUser(u, p) == password' = [password EXCEPT ![u] = p]

CreateRefreshToken(t, u) == owner' = [owner EXCEPT ![t] = u]

CreatePasswordResetToken(l, u) == owner' = [owner EXCEPT ![l] = u]

RevokeRefreshToken(t) == revoked' = revoked \cup {t}

\* Mutant of RevokeAllUserRefreshTokens: the query has no condition on the user.
RevokeEveryRefreshToken(u) == revoked' = {t \in Token : owner[t] # None}

RevokeAllUserRefreshTokens(u) == revoked' = revoked \cup {t \in Token : owner[t] = u}

MarkPasswordResetTokenUsed(l) == used' = used \cup {l}

UpdateUserPassword(u, p) == password' = [password EXCEPT ![u] = p]

-----------------------------------------------------------------------------
(* Requests.                                                               *)

Go(r, from, to) == stage[r] = from /\ stage' = [stage EXCEPT ![r] = to]

Begin(r, to, x, u) ==
    /\ Go(r, "idle", to)
    /\ given' = [given EXCEPT ![r] = x]
    /\ who' = [who EXCEPT ![r] = u]

Running(r) == stage[r] \notin {"idle", "ok", "failed"}

\* What a client can present: the tokens it was answered, the links it was
\* mailed; an error of the mailer does not say that no mail went out.
HeldTokens == {t \in Token : owner[t] # None /\ stage[t] = "ok"}
MailedLinks == {l \in Forgot : owner[l] # None /\ stage[l] \in {"ok", "failed"}}

\* A query or the mail fails, or the replica stops: the request ends.
Fail(r) ==
    /\ stage' = [stage EXCEPT ![r] = "failed"]
    /\ Running(r)
    /\ UNCHANGED <<dbVars, who, given, historyVars>>

\* Register: the e-mail is UNIQUE.
Register(s) == \E u \in User :
    /\ password[u] = None
    /\ Begin(s, "ok", None, u)
    /\ CreateUser(u, s)
    /\ UNCHANGED <<owner, revoked, used, expired, historyVars>>

\* Login: GetUserByEmail and CheckPassword.
CheckPassword(r) == \E u \in User :
    /\ password[u] # None
    /\ Begin(r, "create", password[u], u)
    /\ opening' = [opening EXCEPT ![r] = r]
    /\ UNCHANGED <<dbVars, late, marked, kicked>>

\* Login answers with the new token.
LoginIssues(r) ==
    /\ Go(r, "create", "ok")
    /\ CreateRefreshToken(r, who[r])
    /\ UNCHANGED <<password, revoked, used, expired, who, given, historyVars>>

\* The row is written and its answer is lost.
IssueUnanswered(r) ==
    /\ Go(r, "create", "failed")
    /\ CreateRefreshToken(r, who[r])
    /\ UNCHANGED <<password, revoked, used, expired, who, given, historyVars>>

\* Refresh: GetRefreshToken.
LoadToken(r) == \E t \in HeldTokens :
    /\ GetRefreshToken(t)
    /\ Begin(r, "user", t, owner[t])
    /\ opening' = [opening EXCEPT ![r] = opening[t]]
    /\ late' = IF t \in late THEN late \cup {r} ELSE late
    /\ UNCHANGED <<dbVars, marked, kicked>>

\* Mutant of LoadUser: the old token is revoked before the new one exists.
LoadUserAndRevoke(r) ==
    /\ Go(r, "user", "create")
    /\ RevokeRefreshToken(given[r])
    /\ UNCHANGED <<password, owner, used, expired, who, given, historyVars>>

\* GetUserByID: no request deletes a user.
LoadUser(r) ==
    /\ Go(r, "user", "create")
    /\ UNCHANGED <<dbVars, who, given, historyVars>>

RefreshIssues(r) ==
    /\ Go(r, "create", "revoke")
    /\ CreateRefreshToken(r, who[r])
    /\ UNCHANGED <<password, revoked, used, expired, who, given, historyVars>>

\* Refresh revokes the token it was given and answers.
RevokeOld(r) ==
    /\ Go(r, "revoke", "ok")
    /\ RevokeRefreshToken(given[r])
    /\ UNCHANGED <<password, owner, used, expired, who, given, historyVars>>

\* The error of the revocation is ignored.
RevokeOldFails(r) ==
    /\ Go(r, "revoke", "ok")
    /\ UNCHANGED <<dbVars, who, given, historyVars>>

\* Logout: one query whose error is ignored.
LogoutRevokes(o) == \E t \in HeldTokens :
    /\ Begin(o, "ok", t, None)
    /\ RevokeRefreshToken(t)
    /\ UNCHANGED <<password, owner, used, expired, historyVars>>

LogoutFails(o) == \E t \in HeldTokens :
    /\ Begin(o, "ok", t, None)
    /\ UNCHANGED <<dbVars, historyVars>>

\* ForgotPassword: GetUserByEmail.
FindUser(l) == \E u \in User :
    /\ password[u] # None
    /\ Begin(l, "create", None, u)
    /\ UNCHANGED <<dbVars, historyVars>>

CreateLink(l) ==
    /\ Go(l, "create", "mail")
    /\ CreatePasswordResetToken(l, who[l])
    /\ UNCHANGED <<password, revoked, used, expired, who, given, historyVars>>

SendResetEmail(l) ==
    /\ Go(l, "mail", "ok")
    /\ UNCHANGED <<dbVars, who, given, historyVars>>

\* ResetPassword: GetPasswordResetToken.
LoadLink(x) == \E l \in MailedLinks :
    /\ GetPasswordResetToken(l)
    /\ Begin(x, "update", l, owner[l])
    /\ UNCHANGED <<dbVars, historyVars>>

UpdatePassword(x) ==
    /\ Go(x, "update", "mark")
    /\ UpdateUserPassword(who[x], x)
    /\ UNCHANGED <<owner, revoked, used, expired, who, given, historyVars>>

\* The row is updated, its answer is lost: neither link nor tokens are touched.
UpdateUnanswered(x) ==
    /\ Go(x, "update", "failed")
    /\ UpdateUserPassword(who[x], x)
    /\ UNCHANGED <<owner, revoked, used, expired, who, given, historyVars>>

\* Resets that were let in by the link of x and are not answered yet.
Beside(x) == {y \in Reset : given[y] = given[x] /\ stage[y] \in {"update", "mark"}}

MarkLink(x) ==
    /\ Go(x, "mark", "kick")
    /\ MarkPasswordResetTokenUsed(given[x])
    /\ late' = late \cup (Beside(x) \ {x})
    /\ marked' = marked \cup {x}
    /\ UNCHANGED <<password, owner, revoked, expired, who, given, opening, kicked>>

MarkLinkFails(x) ==
    /\ Go(x, "mark", "kick")
    /\ UNCHANGED <<dbVars, who, given, historyVars>>

\* Logins and refreshes of u that were let in and have written no token yet.
Entering(u) == {r \in Token : who[r] = u /\ stage[r] \in {"user", "create"}}

KickAll(x) ==
    /\ Go(x, "kick", "ok")
    /\ RevokeAllUserRefreshTokens(who[x])
    /\ late' = late \cup Entering(who[x])
    /\ kicked' = kicked \cup {x}
    /\ UNCHANGED <<password, owner, used, expired, who, given, opening, marked>>

KickAllFails(x) ==
    /\ Go(x, "kick", "ok")
    /\ UNCHANGED <<dbVars, who, given, historyVars>>

\* Seven days pass for a token, thirty minutes for a link.
Expire(t) ==
    /\ owner[t] # None
    /\ expired' = expired \cup {t}
    /\ UNCHANGED <<password, owner, revoked, used, requestVars, historyVars>>

Next ==
    \/ \E r \in Request : Fail(r)
    \/ \E s \in SignUp : Register(s)
    \/ \E r \in Login : CheckPassword(r) \/ LoginIssues(r)
    \/ \E r \in Token : IssueUnanswered(r)
    \/ \E r \in Refresh :
        \/ LoadToken(r) \/ LoadUser(r) \/ RefreshIssues(r)
        \/ RevokeOld(r) \/ RevokeOldFails(r)
    \/ \E o \in Logout : LogoutRevokes(o) \/ LogoutFails(o)
    \/ \E l \in Forgot : FindUser(l) \/ CreateLink(l) \/ SendResetEmail(l)
    \/ \E x \in Reset :
        \/ LoadLink(x) \/ UpdatePassword(x) \/ UpdateUnanswered(x)
        \/ MarkLink(x) \/ MarkLinkFails(x) \/ KickAll(x) \/ KickAllFails(x)
    \/ \E t \in Token \cup Forgot : Expire(t)

Spec == Init /\ [][Next]_vars

-----------------------------------------------------------------------------
(* Properties.                                                             *)

Live(t) == owner[t] # None /\ t \notin revoked \cup expired

\* The tokens issued in the session that login l began.
Session(l) == {t \in Token : owner[t] # None /\ opening[t] = l}

\* The password that a session was opened with.
PasswordOf(t) == given[opening[t]]

\* A token that can be used although the password it rests on was replaced has
\* one of two causes: a login or refresh let in before the reset wrote it
\* afterwards, or the reset never revoked the tokens (auth.go:328-336, its
\* revocation is a query of its own whose error is ignored).
StaleSessionHasCause == \A t \in Token :
    Live(t) /\ PasswordOf(t) # password[owner[t]] =>
        t \in late \/ password[owner[t]] \notin kicked

\* Refresh creates before it revokes (auth.go:169-170): whatever query fails or
\* loses its answer, some token of a session stays unrevoked until a logout with
\* one of its tokens or a reset of the password.
NeverLockedOut == \A l \in Login :
    owner[l] # None =>
        \/ \E t \in Session(l) : t \notin revoked
        \/ \E o \in Logout : given[o] \in Session(l)
        \/ \E x \in kicked : who[x] = owner[l]

\* ResetPassword has set the password.
Spent(x) == stage[x] \in {"mark", "kick", "ok"}

\* One link sets the password twice only by two resets let in before either
\* marked it, or because the first could not mark it (auth.go:310, 333).
LinkSpentTwiceHasCause == \A x, y \in Reset :
    x # y /\ Spent(x) /\ Spent(y) /\ given[x] = given[y] /\ x \in marked =>
        \/ {x, y} \cap late # {}
        \/ stage[y] \in {"kick", "ok"} /\ y \notin marked

Abstract == INSTANCE Sessions WITH
    holder <- [t \in Token |-> owner[t]],
    ended <- revoked

\* The handlers implement Sessions: a token keeps the user it was issued to, it
\* ends alone or with all tokens of its user and of no other, and it is never
\* revived.
ImplementsSessions == Abstract!SessionSpec
=============================================================================
