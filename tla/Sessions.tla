-------------------------------- MODULE Sessions --------------------------------
(***************************************************************************)
(* The sessions and refresh tokens of one account (session.service.ts),    *)
(* the ways to log in (auth.service.ts, otp.service.ts) and everything     *)
(* that changes the account under them.                                    *)
(*                                                                         *)
(* A transaction of the code first locks the account's row, so each is one *)
(* action here; what a request does before or without that lock - checking *)
(* the password, sending a code, the CSRF check of a refresh - is a step   *)
(* of its own.  All statements name one user, so one account is enough.    *)
(***************************************************************************)
EXTENDS Integers, FiniteSets

CONSTANTS
    Sids,              \* session ids
    Toks,              \* refresh tokens
    Logins,            \* logins under way
    Refreshers,        \* refresh requests under way
    MaxSessions,       \* MAX_SESSIONS_PER_USER
    AbsoluteTimeout,   \* SESSION_ABSOLUTE_TIMEOUT_MS
    IdleTimeout,       \* SESSION_IDLE_TIMEOUT_MS
    MaxClock,          \* bound on time
    MaxVersion,        \* bound on the changes of the account
    None

ASSUME SessionsAssumption ==
    /\ IsFiniteSet(Sids)
    /\ MaxSessions \in Nat \ {0}
    /\ AbsoluteTimeout \in Nat \ {0}
    /\ IdleTimeout \in Nat \ {0}
    /\ MaxClock \in Nat
    /\ MaxVersion \in Nat

VARIABLES
    account,   \* the row of users
    session,   \* [Sids -> None or the row of sessions]
    token,     \* [Toks -> None or the row of refresh_tokens]
    login,     \* [Logins -> None or what a login has established]
    refresh,   \* [Refreshers -> None or the token that passed the guard]
    reused,    \* families with an auth.refresh_token_reused notice
    clock

vars == <<account, session, token, login, refresh, reused, clock>>

(* password counts the changes of password_hash; changeToken stands for    *)
(* password_change_token and activation_token, which only differ in how    *)
(* they reach the user.                                                    *)
Account == [version : Nat, password : Nat, disabled : BOOLEAN,
            mustChange : BOOLEAN, changeToken : BOOLEAN]

(* A family is named by its first session.  password is the account's      *)
(* password that was proved at the login; the program does not store it.   *)
Session == [family : Sids, created : Nat, expires : Nat, idle : Nat,
            password : Nat, revoked : BOOLEAN]

Token == [family : Sids, session : Sids, consumed : BOOLEAN]

Login == [step : {"checked", "mustChange", "challenge"},
          version : Nat, password : Nat]

ASSUME NoneIsNoValue ==
    None \notin Session /\ None \notin Token /\ None \notin Login /\ None \notin Toks

(* Ids are random: which unused one a row gets makes no difference.        *)
Fresh(ids, rows) ==
    LET unused == {x \in ids : rows[x] = None}
    IN  IF unused = {} THEN {} ELSE {CHOOSE x \in unused : TRUE}

NewSids == Fresh(Sids, session)
NewToks == Fresh(Toks, token)

Earlier(a, b) == IF a <= b THEN a ELSE b

Live(s) ==
    /\ session[s] # None
    /\ ~session[s].revoked
    /\ session[s].expires > clock
    /\ session[s].idle > clock

LiveSessions == {s \in Sids : Live(s)}

Revoked(x) == [family |-> x.family, created |-> x.created, expires |-> x.expires,
               idle |-> x.idle, password |-> x.password, revoked |-> TRUE]

Touched(x) == [family |-> x.family, created |-> x.created, expires |-> x.expires,
               idle |-> Earlier(clock + IdleTimeout, x.expires),
               password |-> x.password, revoked |-> x.revoked]

Consumed(x) == [family |-> x.family, session |-> x.session, consumed |-> TRUE]

(* UPDATE sessions SET revoked_at ... WHERE revoked_at IS NULL             *)
Revoke(S) == [s \in Sids |->
    IF s \in S /\ session[s] # None THEN Revoked(session[s]) ELSE session[s]]

(* UPDATE refresh_tokens SET consumed_at ... WHERE consumed_at IS NULL     *)
Consume(T) == [t \in Toks |->
    IF t \in T /\ token[t] # None THEN Consumed(token[t]) ELSE token[t]]

FamilySessions(f) == {s \in Sids : session[s] # None /\ session[s].family = f}
FamilyTokens(f) == {t \in Toks : token[t] # None /\ token[t].family = f}
TokensOfSessions(S) == {t \in Toks : token[t] # None /\ token[t].session \in S}

RevokeAll ==
    /\ session' = Revoke(Sids)
    /\ token' = Consume(Toks)

-------------------------------------------------------------------------------
(* Logging in                                                              *)

(* login: the password is right for the row that was read.  A disabled     *)
(* account gets no further.                                                *)
CheckPassword(l) ==
    /\ login[l] = None
    /\ ~account.disabled
    /\ login' = [login EXCEPT ![l] =
            [step |-> IF account.mustChange THEN "mustChange" ELSE "checked",
             version |-> account.version, password |-> account.password]]
    /\ UNCHANGED <<account, session, token, refresh, reused, clock>>

AtStep(l, step) == login[l] # None /\ login[l].step = step

EndLogin(l) == login' = [login EXCEPT ![l] = None]

(* Mutant: the account's version is not compared.                          *)
AnyVersion(l) == ~account.disabled

(* createSession, assertCurrentAccount and the challenge's INSERT: the     *)
(* account is as it was when the password was checked.                     *)
CurrentAccount(l) == ~account.disabled /\ account.version = login[l].version

Excess(live) == Cardinality(live) - MaxSessions + 1

(* The oldest live sessions that have to go for a new one.                 *)
Oldest(old) ==
    /\ old \subseteq LiveSessions
    /\ Cardinality(old) = IF Excess(LiveSessions) > 0 THEN Excess(LiveSessions) ELSE 0
    /\ \A s \in old, r \in LiveSessions \ old : session[s].created <= session[r].created

FirstSession(s, password) ==
    [family |-> s, created |-> clock, expires |-> clock + AbsoluteTimeout,
     idle |-> clock + IdleTimeout, password |-> password, revoked |-> FALSE]

(* The cap consumes no tokens of the sessions it revokes.                  *)
createSession(s, t, password) ==
    /\ \E old \in SUBSET Sids :
          /\ Oldest(old)
          /\ session' = [Revoke(old) EXCEPT ![s] = FirstSession(s, password)]
    /\ token' = [token EXCEPT ![t] = [family |-> s, session |-> s, consumed |-> FALSE]]

(* A known device: the session is created without a code.                  *)
LoginTrusted(l, s, t) ==
    /\ AtStep(l, "checked")
    /\ CurrentAccount(l)
    /\ createSession(s, t, login[l].password)
    /\ EndLogin(l)
    /\ UNCHANGED <<account, refresh, reused, clock>>

SendCode(l) ==
    /\ AtStep(l, "checked")
    /\ CurrentAccount(l)
    /\ login' = [login EXCEPT ![l] = [step |-> "challenge",
            version |-> login[l].version, password |-> login[l].password]]
    /\ UNCHANGED <<account, session, token, refresh, reused, clock>>

(* The right code; the challenge is consumed with the session.             *)
completeLogin(l, s, t) ==
    /\ AtStep(l, "challenge")
    /\ CurrentAccount(l)
    /\ createSession(s, t, login[l].password)
    /\ EndLogin(l)
    /\ UNCHANGED <<account, refresh, reused, clock>>

IssueChangeToken(l) ==
    /\ AtStep(l, "mustChange")
    /\ account.version = login[l].version
    /\ account' = [account EXCEPT !.changeToken = TRUE]
    /\ EndLogin(l)
    /\ UNCHANGED <<session, token, refresh, reused, clock>>

(* Refused for any reason, expired, out of attempts, or left.              *)
Abandon(l) ==
    /\ login[l] # None
    /\ EndLogin(l)
    /\ UNCHANGED <<account, session, token, refresh, reused, clock>>

-------------------------------------------------------------------------------
(* Using a session                                                         *)

validateSession(s) ==
    /\ Live(s)
    /\ ~account.disabled
    /\ session' = [session EXCEPT ![s] = Touched(session[s])]
    /\ UNCHANGED <<account, token, login, refresh, reused, clock>>

(* Mutant: the replacement starts a lifetime of its own.                   *)
FreshReplacement(x) ==
    [family |-> x.family, created |-> clock, expires |-> clock + AbsoluteTimeout,
     idle |-> clock + IdleTimeout, password |-> x.password, revoked |-> FALSE]

(* The session a rotation inserts.                                         *)
Replacement(x) ==
    [family |-> x.family, created |-> clock, expires |-> x.expires,
     idle |-> Earlier(clock + IdleTimeout, x.expires),
     password |-> x.password, revoked |-> FALSE]

(* Rotate s into n, revoking more as well.                                 *)
Rotated(s, n, t, others) ==
    /\ Live(s)
    /\ ~account.disabled
    /\ session' = [Revoke({s} \cup others) EXCEPT ![n] = Replacement(session[s])]
    /\ token' = [Consume(FamilyTokens(session[s].family) \cup TokensOfSessions(others))
                    EXCEPT ![t] = [family |-> session[s].family, session |-> n,
                                   consumed |-> FALSE]]

(* A step-up by password or code, a switch of operating context.           *)
rotateSession(s, n, t) ==
    /\ Rotated(s, n, t, {})
    /\ UNCHANGED <<account, login, refresh, reused, clock>>

(* acceptInvitation: the actor's session is rotated and all others go.     *)
AcceptInvitation(s, n, t) ==
    /\ Rotated(s, n, t, Sids)
    /\ UNCHANGED <<account, login, refresh, reused, clock>>

(* RefreshCsrfGuard: the CSRF token is that of the token's session.        *)
validateRefreshCsrf(r, t) ==
    /\ refresh[r] = None
    /\ token[t] # None
    /\ Live(token[t].session)
    /\ refresh' = [refresh EXCEPT ![r] = t]
    /\ UNCHANGED <<account, session, token, login, reused, clock>>

EndRefresh(r) == refresh' = [refresh EXCEPT ![r] = None]

(* Mutant: only the sessions go, the tokens of the family stay.            *)
KillSessionsOnly(f) ==
    /\ session' = Revoke(FamilySessions(f))
    /\ token' = token

KillFamily(f) ==
    /\ session' = Revoke(FamilySessions(f))
    /\ token' = Consume(FamilyTokens(f))

(* redeemRefreshToken of a token already consumed.                         *)
RedeemConsumed(r) ==
    /\ refresh[r] # None
    /\ ~account.disabled
    /\ token[refresh[r]].consumed
    /\ KillFamily(token[refresh[r]].family)
    /\ reused' = reused \cup {token[refresh[r]].family}
    /\ EndRefresh(r)
    /\ UNCHANGED <<account, login, clock>>

(* redeemRefreshToken of the current token: a new one in its place.        *)
Redeem(r, t) ==
    /\ refresh[r] # None
    /\ ~account.disabled
    /\ LET old == refresh[r]
           s == token[refresh[r]].session
       IN  /\ ~token[old].consumed
           /\ Live(s)
           /\ token' = [Consume({old}) EXCEPT ![t] =
                  [family |-> token[old].family, session |-> s, consumed |-> FALSE]]
           /\ session' = [session EXCEPT ![s] = Touched(session[s])]
    /\ EndRefresh(r)
    /\ UNCHANGED <<account, login, reused, clock>>

(* The account is disabled, the session dead, the request lost.            *)
RefuseRefresh(r) ==
    /\ refresh[r] # None
    /\ EndRefresh(r)
    /\ UNCHANGED <<account, session, token, login, reused, clock>>

-------------------------------------------------------------------------------
(* Ending sessions                                                         *)

(* Logout, with whatever session the cookie names.                         *)
revokeSession(s) ==
    /\ session[s] # None
    /\ session' = Revoke({s})
    /\ token' = Consume(FamilyTokens(session[s].family))
    /\ UNCHANGED <<account, login, refresh, reused, clock>>

(* From the list of sessions: one of them, or all others.                  *)
revokeOwnSessions(s, targets) ==
    /\ Live(s)
    /\ ~account.disabled
    /\ session' = Revoke(targets)
    /\ token' = Consume(TokensOfSessions(targets))
    /\ UNCHANGED <<account, login, refresh, reused, clock>>

(* Staff expire the sessions; roles or ownership of a profile change.      *)
expireSessions ==
    /\ RevokeAll
    /\ UNCHANGED <<account, login, refresh, reused, clock>>

-------------------------------------------------------------------------------
(* Changing the account.  bump_user_auth_version, a trigger on users,      *)
(* raises the version and clears the tokens when a credential changes.     *)

Changed(password, disabled, mustChange) ==
    /\ account.version < MaxVersion
    /\ account' = [version |-> account.version + 1, password |-> password,
                   disabled |-> disabled, mustChange |-> mustChange,
                   changeToken |-> FALSE]

AccountOnly == UNCHANGED <<login, refresh, reused, clock>>

(* By a reset code, which is bound to the version as a login code is.      *)
resetPassword ==
    /\ ~account.disabled
    /\ Changed(account.password + 1, FALSE, account.mustChange)
    /\ RevokeAll
    /\ AccountOnly

(* forceChangePassword and activateStaff.                                  *)
forceChangePassword ==
    /\ account.changeToken
    /\ account.mustChange
    /\ ~account.disabled
    /\ Changed(account.password + 1, FALSE, FALSE)
    /\ RevokeAll
    /\ AccountOnly

(* The version only rises when the flag was down; account recovery, which  *)
(* also changes the login, always raises it.                               *)
RequirePasswordChange(recovery) ==
    /\ IF recovery \/ ~account.mustChange
       THEN Changed(account.password, account.disabled, TRUE)
       ELSE account' = account
    /\ RevokeAll
    /\ AccountOnly

disableStaffUser ==
    /\ ~account.disabled
    /\ Changed(account.password, TRUE, account.mustChange)
    /\ RevokeAll
    /\ AccountOnly

(* The acting session stays; the tokens of the others are not consumed.    *)
changeUsername(s) ==
    /\ Live(s)
    /\ ~account.disabled
    /\ Changed(account.password, FALSE, account.mustChange)
    /\ session' = Revoke(Sids \ {s})
    /\ UNCHANGED token
    /\ AccountOnly

(* A contact is added: the version rises, the sessions stay.               *)
addContact(s) ==
    /\ Live(s)
    /\ ~account.disabled
    /\ Changed(account.password, FALSE, account.mustChange)
    /\ UNCHANGED <<session, token>>
    /\ AccountOnly

Tick ==
    /\ clock < MaxClock
    /\ clock' = clock + 1
    /\ UNCHANGED <<account, session, token, login, refresh, reused>>

-------------------------------------------------------------------------------
(* A user who registered, or staff invited to set a password.              *)
Init ==
    /\ \E must \in BOOLEAN : account =
          [version |-> 0, password |-> 0, disabled |-> FALSE,
           mustChange |-> must, changeToken |-> must]
    /\ session = [s \in Sids |-> None]
    /\ token = [t \in Toks |-> None]
    /\ login = [l \in Logins |-> None]
    /\ refresh = [r \in Refreshers |-> None]
    /\ reused = {}
    /\ clock = 0

LoginStep(l) ==
    \/ CheckPassword(l)
    \/ \E s \in NewSids, t \in NewToks : LoginTrusted(l, s, t) \/ completeLogin(l, s, t)
    \/ SendCode(l)
    \/ IssueChangeToken(l)
    \/ Abandon(l)

RefreshStep(r) ==
    \/ \E t \in Toks : validateRefreshCsrf(r, t)
    \/ \E t \in NewToks : Redeem(r, t)
    \/ RedeemConsumed(r)
    \/ RefuseRefresh(r)

SessionStep(s) ==
    \/ validateSession(s)
    \/ \E n \in NewSids, t \in NewToks : rotateSession(s, n, t) \/ AcceptInvitation(s, n, t)
    \/ revokeSession(s)
    \/ \E n \in Sids : revokeOwnSessions(s, {n})
    \/ revokeOwnSessions(s, Sids \ {s})
    \/ changeUsername(s)
    \/ addContact(s)

AccountStep ==
    \/ expireSessions
    \/ resetPassword
    \/ forceChangePassword
    \/ \E recovery \in BOOLEAN : RequirePasswordChange(recovery)
    \/ disableStaffUser

Next ==
    \/ \E l \in Logins : LoginStep(l)
    \/ \E r \in Refreshers : RefreshStep(r)
    \/ \E s \in Sids : SessionStep(s)
    \/ AccountStep
    \/ Tick

Spec == Init /\ [][Next]_vars

-------------------------------------------------------------------------------
(* Properties                                                              *)

TypeOK ==
    /\ account \in Account
    /\ session \in [Sids -> Session \cup {None}]
    /\ token \in [Toks -> Token \cup {None}]
    /\ login \in [Logins -> Login \cup {None}]
    /\ refresh \in [Refreshers -> Toks \cup {None}]
    /\ reused \subseteq Sids
    /\ clock \in Nat

(* disableStaffUser: "no active credential survives the disable"; nor does *)
(* one survive a new password or a demand for one, whatever login, code or *)
(* rotation was under way.                                                 *)
SessionsAreCurrent ==
    \A s \in Sids : session[s] # None /\ ~session[s].revoked =>
        /\ session[s].password = account.password
        /\ ~account.disabled
        /\ ~account.mustChange

(* redeemRefreshToken: once a consumed token was presented, no session and *)
(* no token of its family works again, the ones rotated meanwhile          *)
(* included.                                                               *)
ReplayedFamilyIsDead ==
    \A f \in reused :
        /\ \A s \in FamilySessions(f) : session[s].revoked
        /\ \A t \in FamilyTokens(f) : token[t].consumed

Redeemable(t) == token[t] # None /\ ~token[t].consumed /\ Live(token[t].session)

OneTokenPerFamily ==
    \A t, u \in Toks : Redeemable(t) /\ Redeemable(u) /\ token[t].family = token[u].family
        => t = u

SessionCap == Cardinality(LiveSessions) <= MaxSessions

WithinAbsoluteLifetime ==
    \A s \in LiveSessions :
        /\ session[session[s].family] # None
        /\ clock < session[session[s].family].created + AbsoluteTimeout

(* createSession, rotateSession, redeemRefreshToken: a login is worth one  *)
(* refresh token at a time and one absolute lifetime however often it is   *)
(* rotated and refreshed, and the account never has more live sessions     *)
(* than the cap.                                                           *)
LoginsAreBounded == OneTokenPerFamily /\ SessionCap /\ WithinAbsoluteLifetime

===============================================================================
