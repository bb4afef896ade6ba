-------------------------------- MODULE Accounts --------------------------------
(***************************************************************************)
(* Accounts and the ways into them: passwords, social links, mailed links  *)
(* and sessions (internal/auth/store.go, login.go, token.go, reset.go,     *)
(* social.go, and the screens of internal/app and internal/admin that call *)
(* them).                                                                  *)
(*                                                                         *)
(* A request reads, checks a password (some hundred milliseconds of        *)
(* bcrypt) and then writes: it is several steps here, and what it read is  *)
(* in its record of `req`.  One statement or transaction on one row of     *)
(* `users` is one step, since the row is locked.  A browser has one        *)
(* request in flight at a time, so its session is read and written by one. *)
(*                                                                         *)
(* sessions_valid_from is a counter: the code only moves it by             *)
(* GREATEST(now(), old + 1 microsecond), and a session's auth_at is always *)
(* a value that was read from it.                                          *)
(***************************************************************************)
EXTENDS Integers, FiniteSets

CONSTANTS
    Users, Browsers,
    Admins,          \* sessions of the user screens A-401 and A-402
    Passwords,
    Identities,      \* accounts at the social providers
    ProviderOf,
    Tokens,          \* mailed links
    VerifyRequired,  \* the setting: unverified accounts get no session
    MaxCutoff,       \* bound: times an account's sessions are ended
    None             \* no user, no password, no identity

ASSUME AccountsAssumption ==
    /\ None \notin Users \cup Passwords \cup Identities
    /\ Browsers \cap Admins = {}
    /\ VerifyRequired \in BOOLEAN
    /\ MaxCutoff \in Nat

VARIABLES
    user,    \* users: state, password (None for the empty hash), sessions_valid_from, email_verified_at
    link,    \* social_accounts: the user each identity is linked to
    token,   \* password_reset_tokens and email_verification_tokens
    sess,    \* the session of each browser
    req,     \* the request each browser and administrator has in flight
    ended    \* history: how often something ended the sessions of each user

vars == <<user, link, token, sess, req, ended>>

Clients == Browsers \cup Admins
Count   == 0..MaxCutoff
Idle    == [op |-> "idle"]
\* `since` is history, in sessions and requests: `ended` when the credential
\* or the session was checked that the record stands on.
Anonymous == [user |-> None, authAt |-> 0, since |-> 0, oauth |-> "no"]
Kinds == {"reset", "verify"}
Gated == {"change", "leave", "begin", "link", "unlink"}
Request ==
    {Idle}
    \cup [op : {"open"}, user : Users, authAt : Count, since : Count]
    \cup [op : Gated, user : Users, authAt : Count, since : Count,
          confirmed : BOOLEAN, identity : Identities \cup {None}]
    \cup [op : {"left", "verify"}, user : Users]
    \cup [op : {"mail"}, user : Users, kind : Kinds]
    \cup [op : {"issue"}, user : Users, kind : Kinds, burn : SUBSET Tokens]

Exists(u) == user[u].state \in {"active", "inactive"}
Rows == {t \in Tokens : token[t].state # "free"}

\* Types, and the foreign keys.
TypeOK ==
    /\ user \in [Users -> [state : {"new", "active", "inactive", "deleted"},
                           password : Passwords \cup {None}, cutoff : Count, verified : BOOLEAN]]
    /\ link \in [Identities -> Users \cup {None}]
    /\ token \in [Tokens -> [state : {"free", "live", "used"}, kind : Kinds, user : Users \cup {None}]]
    /\ sess \in [Browsers -> [user : Users \cup {None}, authAt : Count, since : Count,
                              oauth : {"no", "login", "link"}]]
    /\ \A c \in Clients : req[c] \in Request
    /\ ended \in [Users -> Count]
    /\ \A i \in Identities : link[i] # None => Exists(link[i])
    /\ \A t \in Rows : Exists(token[t].user)

NoToken == [state |-> "free", kind |-> "reset", user |-> None]
Init ==
    /\ user = [u \in Users |-> [state |-> "new", password |-> None, cutoff |-> 0, verified |-> FALSE]]
    /\ link = [i \in Identities |-> None]
    /\ token = [t \in Tokens |-> NoToken]
    /\ sess = [b \in Browsers |-> Anonymous]
    /\ req = [c \in Clients |-> Idle]
    /\ ended = [u \in Users |-> 0]

-----------------------------------------------------------------------------
(* Rows.  Definitions commented "Mutant" are used by no other: each is a     *)
(* plausible bug of the one that follows it.                                 *)

\* What FindActiveUserByEmail and UserBySocial filter.
Active(u) == user[u].state = "active"
\* GREATEST(now(), sessions_valid_from + 1us)
Moved(u)     == user[u].cutoff + 1
CanMove(u)   == user[u].cutoff < MaxCutoff
EndSessions(u) == ended' = [ended EXCEPT ![u] = @ + 1]

\* Mutant: the password is written whatever became of the session.
SetPasswordAnyway(u, p, authAt) ==
    user' = [user EXCEPT ![u].password = p, ![u].cutoff = Moved(u)]
SetPassword(u, p, authAt) ==
    /\ Exists(u) /\ user[u].cutoff <= authAt
    /\ user' = [user EXCEPT ![u].password = p, ![u].cutoff = Moved(u)]
ResetActiveUserPassword(u, p) ==
    user' = [user EXCEPT ![u].password = p, ![u].cutoff = Moved(u), ![u].verified = TRUE]
DeactivateUser(u) ==
    user' = [user EXCEPT ![u].state = "inactive", ![u].cutoff = Moved(u)]
ActivateUser(u) == user' = [user EXCEPT ![u].state = "active"]
InvalidateSessions(u) == user' = [user EXCEPT ![u].cutoff = Moved(u)]
RevokeCredentials(u) == user' = [user EXCEPT ![u].password = None, ![u].cutoff = Moved(u)]
UnlinkAllSocial(u) ==
    link' = [i \in Identities |-> IF link[i] = u THEN None ELSE link[i]]
HasPassword(u)    == user[u].password # None
SocialAccounts(u) == {i \in Identities : link[i] = u}
LinkRow(u, i)     == link' = [link EXCEPT ![i] = u]
UnlinkRow(u, i)   == link' = [link EXCEPT ![i] = IF @ = u THEN None ELSE @]
MarkEmailVerified(u) ==
    user' = [user EXCEPT ![u].verified = @ \/ Exists(u)]

\* Rows another transaction has locked: it is burning them.
Burning(t) == \E c \in Clients : req[c].op = "issue" /\ t \in req[c].burn
Live(u, kind) == {t \in Tokens : token[t] = [state |-> "live", kind |-> kind, user |-> u]}
\* UPDATE ... SET used_at WHERE used_at IS NULL AND expires_at > now()
BurnRow(t) ==
    /\ token[t].state = "live" /\ ~Burning(t)
    /\ token' = [token EXCEPT ![t].state = "used"]
ConsumeToken(t, kind) == token[t].kind = kind /\ BurnRow(t)
InsertToken(u, kind, t) == token[t] = NoToken /\ Exists(u)

Start(c, r) == req' = [req EXCEPT ![c] = r]
Done(c)     == Start(c, Idle)
Free(c)     == req[c] = Idle
Destroy(b)  == sess' = [sess EXCEPT ![b] = Anonymous]

-----------------------------------------------------------------------------
(* Mailed links                                                              *)

\* IssueToken, IssueResetToken: one transaction burns the unused links of the
\* user and inserts a new one.  Links that another transaction has not yet
\* committed are not seen, so two issues that overlap leave two.
BurnUnused(c) ==
    /\ req[c].op = "mail"
    /\ \A t \in Live(req[c].user, req[c].kind) : ~Burning(t)
    /\ Start(c, [op |-> "issue", user |-> req[c].user, kind |-> req[c].kind,
                 burn |-> Live(req[c].user, req[c].kind)])
    /\ UNCHANGED <<user, link, token, sess, ended>>
IssueToken(c, t) ==
    /\ req[c].op = "issue"
    /\ InsertToken(req[c].user, req[c].kind, t)
    /\ token' = [s \in Tokens |->
                   IF s = t THEN [state |-> "live", kind |-> req[c].kind, user |-> req[c].user]
                   ELSE IF s \in req[c].burn THEN [token[s] EXCEPT !.state = "used"]
                   ELSE token[s]]
    /\ Done(c)
    /\ UNCHANGED <<user, link, sess, ended>>
\* The transaction is rolled back: the user is gone, the request was cut short.
IssueFails(c) ==
    /\ req[c].op \in {"mail", "issue"}
    /\ Done(c)
    /\ UNCHANGED <<user, link, token, sess, ended>>

\* P-104.
resetRequest(b, u) ==
    /\ Free(b) /\ Active(u)
    /\ Start(b, [op |-> "mail", user |-> u, kind |-> "reset"])
    /\ UNCHANGED <<user, link, token, sess, ended>>

\* P-105: burns the link, sets the password, ends the sessions, verifies the
\* address.  For an inactive account nothing is committed.
ResetPassword(t, p) ==
    LET u == token[t].user
    IN  /\ ConsumeToken(t, "reset")
        /\ Active(u) /\ CanMove(u)
        /\ ResetActiveUserPassword(u, p)
        /\ EndSessions(u)
        /\ UNCHANGED <<link, sess, req>>
\* The link names the account, no field does; no session is opened.
resetPassword(t) == \E p \in Passwords : ResetPassword(t, p)

\* P-112: two statements.
verify(b, t) ==
    /\ Free(b)
    /\ ConsumeToken(t, "verify")
    /\ Start(b, [op |-> "verify", user |-> token[t].user])
    /\ UNCHANGED <<user, link, sess, ended>>
verified(b) ==
    /\ req[b].op = "verify"
    /\ MarkEmailVerified(req[b].user)
    /\ Done(b)
    /\ UNCHANGED <<link, token, sess, ended>>

\* The link's lifetime is over.
PassExpiry(t) ==
    /\ token[t].state = "live" /\ ~Burning(t)
    /\ token' = [token EXCEPT ![t].state = "used"]
    /\ UNCHANGED <<user, link, sess, req, ended>>

-----------------------------------------------------------------------------
(* Getting in: P-101, P-103, P-106                                           *)

\* A new account holds no session; where addresses are verified, it is mailed.
CreateUser(u, p, isVerified) ==
    /\ user[u].state = "new"
    /\ user' = [user EXCEPT ![u].state = "active", ![u].password = p, ![u].verified = isVerified]
signup(b, u, p) ==
    /\ Free(b)
    /\ CreateUser(u, p, FALSE)
    /\ IF VerifyRequired THEN Start(b, [op |-> "mail", user |-> u, kind |-> "verify"])
       ELSE UNCHANGED req
    /\ UNCHANGED <<link, token, sess, ended>>

\* The cutoff goes into the session with what was read beside the credential.
\* Mutant: the session is stamped when it is opened.
CutoffNow(r)  == user[r.user].cutoff
Cutoff(r)     == r.authAt
refuseUnverified(u) == VerifyRequired /\ ~user[u].verified
\* The credential is good: a session to open, or a mail to an unverified
\* address (as often as its limiter allows) and no session.
Admit(c, u) ==
    IF refuseUnverified(u)
    THEN Start(c, [op |-> "mail", user |-> u, kind |-> "verify"]) \/ Done(c)
    ELSE Start(c, [op |-> "open", user |-> u, authAt |-> user[u].cutoff, since |-> ended[u]])

Authenticate(b, u, p) ==
    /\ Free(b)
    /\ Active(u) /\ user[u].password = p
    /\ Admit(b, u)
    /\ UNCHANGED <<user, link, token, sess, ended>>

\* login, finishSocialLogin and changePassword end with this: a new session
\* token, the user and auth_at put into the session.
OpenSession(b) ==
    /\ req[b].op = "open"
    /\ sess' = [sess EXCEPT ![b] = [@ EXCEPT !.user = req[b].user, !.authAt = Cutoff(req[b]),
                                             !.since = req[b].since]]
    /\ Done(b)
    /\ UNCHANGED <<user, link, token, ended>>

\* The account an identity is linked to, an inactive one too.
UserBySocialLink(i) == {u \in Users : link[i] = u}
UserBySocial(b, i) ==
    \/ \E u \in UserBySocialLink(i) : Active(u) /\ Admit(b, u)
    \/ (\A u \in UserBySocialLink(i) : ~Active(u)) /\ UNCHANGED req

logout(b) ==
    /\ Free(b)
    /\ Destroy(b)
    /\ UNCHANGED <<user, link, token, req, ended>>

-----------------------------------------------------------------------------
(* Requests of a logged-in browser                                           *)

Accepted(b) ==
    /\ sess[b].user # None
    /\ Active(sess[b].user)
    /\ sess[b].authAt >= user[sess[b].user].cutoff

\* The gate every request passes: it destroys a session that was ended.
Enter(b, op, i) ==
    IF Accepted(b)
    THEN /\ Start(b, [op |-> op, user |-> sess[b].user, authAt |-> sess[b].authAt,
                      since |-> sess[b].since, confirmed |-> FALSE, identity |-> i])
         /\ UNCHANGED sess
    ELSE Destroy(b) /\ UNCHANGED req
withActor(b, op, i) ==
    /\ Free(b) /\ sess[b].user # None
    /\ Enter(b, op, i)
    /\ UNCHANGED <<user, link, token, ended>>
\* P-111, disconnect.
connectionsAction(b, i) == withActor(b, "unlink", i)

\* The current password again; a wrong one ends the request.
confirmPassword(b, p) ==
    /\ req[b].op \in Gated \ {"link"} /\ ~req[b].confirmed
    /\ IF Active(req[b].user) /\ user[req[b].user].password = p
       THEN req' = [req EXCEPT ![b].confirmed = TRUE] ELSE Done(b)
    /\ UNCHANGED <<user, link, token, sess, ended>>
\* Without a password, a recent login: by the clock it may or may not be.
ownerConfirmed(b) ==
    /\ req[b].op \in {"begin", "unlink"} /\ ~req[b].confirmed
    /\ ~HasPassword(req[b].user)
    /\ req' = [req EXCEPT ![b].confirmed = TRUE] \/ Done(b)
    /\ UNCHANGED <<user, link, token, sess, ended>>

\* P-109: the surviving session is stamped with the new cutoff; one that was
\* ended meanwhile writes nothing and is destroyed.
changePassword(b, p) ==
    LET u == req[b].user
    IN  /\ req[b].op = "change" /\ req[b].confirmed
        /\ CanMove(u)
        /\ \/ /\ SetPassword(u, p, req[b].authAt)
              /\ EndSessions(u)
              /\ Start(b, [op |-> "open", user |-> u, authAt |-> Moved(u), since |-> ended[u] + 1])
              /\ UNCHANGED sess
           \/ /\ user[u].cutoff > req[b].authAt \/ ~Exists(u)
              /\ Destroy(b) /\ Done(b)
              /\ UNCHANGED <<user, ended>>
        /\ UNCHANGED <<link, token>>

\* P-110: the account is deactivated, then its sessions ended, then this one
\* destroyed.  The last administrator is refused (Roles).
deleteAccount(b) ==
    LET u == req[b].user
    IN  /\ req[b].op = "leave" /\ req[b].confirmed
        /\ \/ /\ Exists(u) /\ CanMove(u)
              /\ DeactivateUser(u) /\ EndSessions(u)
              /\ Start(b, [op |-> "left", user |-> u])
           \/ Done(b) /\ UNCHANGED <<user, ended>>
        /\ UNCHANGED <<link, token, sess>>
leftAccount(b) ==
    LET u == req[b].user
    IN  /\ req[b].op = "left" /\ CanMove(u)
        /\ IF Exists(u) THEN InvalidateSessions(u) /\ EndSessions(u) ELSE UNCHANGED <<user, ended>>
        /\ Destroy(b) /\ Done(b)
        /\ UNCHANGED <<link, token>>

-----------------------------------------------------------------------------
(* Social links: P-106, P-107, P-111                                         *)

\* A round trip to a provider begins: for a login, or confirmed for a link.
socialBegin(b) ==
    /\ \/ Free(b) /\ sess[b].user = None /\ sess' = [sess EXCEPT ![b].oauth = "login"]
       \/ req[b].op = "begin" /\ req[b].confirmed /\ sess' = [sess EXCEPT ![b].oauth = "link"]
    /\ Done(b)
    /\ UNCHANGED <<user, link, token, ended>>

\* It ends, at some time, as some identity, or fails.  The mark is used up.
socialCallback(b, i) ==
    /\ Free(b) /\ sess[b].oauth # "no"
    /\ \/ /\ sess[b].oauth = "login"
          /\ UserBySocial(b, i)
          /\ sess' = [sess EXCEPT ![b].oauth = "no"]
       \/ /\ sess[b].oauth = "link" /\ Accepted(b)
          /\ Start(b, [op |-> "link", user |-> sess[b].user, authAt |-> sess[b].authAt,
                       since |-> sess[b].since, confirmed |-> FALSE, identity |-> i])
          /\ sess' = [sess EXCEPT ![b].oauth = "no"]
       \/ /\ sess[b].oauth = "link" /\ ~Accepted(b)
          /\ Destroy(b) /\ UNCHANGED req
       \/ /\ sess' = [sess EXCEPT ![b].oauth = "no"] /\ UNCHANGED req
    /\ UNCHANGED <<user, link, token, ended>>

\* Both unique constraints: one user per identity, one identity per provider.
LinkSocial(u, i) ==
    IF link[i] = None /\ \A j \in SocialAccounts(u) : ProviderOf[j] # ProviderOf[i]
    THEN LinkRow(u, i) ELSE UNCHANGED link
\* The user's row is locked while the session is judged and the link made.
\* Mutant: the judgement the gate made is enough.
SessionValidAtGate(u, authAt) == Exists(u)
SessionValid(u, authAt) == Active(u) /\ user[u].cutoff <= authAt
LinkSocialInSession(b) ==
    /\ req[b].op = "link"
    /\ IF SessionValid(req[b].user, req[b].authAt) THEN LinkSocial(req[b].user, req[b].identity)
       ELSE UNCHANGED link
    /\ Done(b)
    /\ UNCHANGED <<user, token, sess, ended>>

\* Refused when it is the last way in; judged under the user's row lock.
UnlinkSocial(b) ==
    LET u == req[b].user
    IN  /\ req[b].op = "unlink" /\ req[b].confirmed
        /\ IF HasPassword(u) \/ Cardinality(SocialAccounts(u)) > 1
           THEN UnlinkRow(u, req[b].identity) ELSE UNCHANGED link
        /\ Done(b)
        /\ UNCHANGED <<user, token, sess, ended>>

-----------------------------------------------------------------------------
(* Account screens: A-401, A-402.  Who may do it to whom is in Roles.        *)

\* The address of an account made here is taken as verified.  Two statements:
\* a crash between them leaves what a signup leaves.
UserCreate(a, u, p) ==
    /\ Free(a)
    /\ CreateUser(u, p, TRUE)
    /\ UNCHANGED <<link, token, sess, req, ended>>

UserDeactivate(a, u) ==
    /\ Free(a) /\ Exists(u) /\ CanMove(u)
    /\ DeactivateUser(u) /\ EndSessions(u)
    /\ UNCHANGED <<link, token, sess, req>>
UserActivate(a, u) ==
    /\ Free(a) /\ Exists(u)
    /\ ActivateUser(u)
    /\ UNCHANGED <<link, token, sess, req, ended>>

\* A forced reset: sessions, password and links in one transaction, then a
\* link is mailed, to inactive accounts too.
UserResetPassword(a, u) ==
    /\ Free(a) /\ Exists(u) /\ CanMove(u)
    /\ RevokeCredentials(u) /\ UnlinkAllSocial(u) /\ EndSessions(u)
    /\ Start(a, [op |-> "mail", user |-> u, kind |-> "reset"])
    /\ UNCHANGED <<token, sess>>

\* Links and tokens go with the row; a token's row that is being burnt holds it.
DeleteUser(a, u) ==
    /\ Free(a) /\ Exists(u)
    /\ \A t \in Rows : token[t].user = u => ~Burning(t)
    /\ user' = [user EXCEPT ![u].state = "deleted", ![u].password = None]
    /\ UnlinkAllSocial(u)
    /\ token' = [t \in Tokens |-> IF token[t].user = u THEN NoToken ELSE token[t]]
    /\ UNCHANGED <<sess, req, ended>>

\* The process dies: what requests had read is gone; sessions are in the database.
Crash ==
    /\ \E c \in Clients : ~Free(c)
    /\ req' = [c \in Clients |-> Idle]
    /\ UNCHANGED <<user, link, token, sess, ended>>

-----------------------------------------------------------------------------
Mail ==
    \/ \E c \in Clients : BurnUnused(c) \/ IssueFails(c) \/ \E t \in Tokens : IssueToken(c, t)
    \/ \E b \in Browsers, u \in Users : resetRequest(b, u)
    \/ \E t \in Tokens : PassExpiry(t) \/ resetPassword(t)
    \/ \E b \in Browsers : verified(b) \/ \E t \in Tokens : verify(b, t)
Visit ==
    \E b \in Browsers :
       \/ \E u \in Users, p \in Passwords : signup(b, u, p) \/ Authenticate(b, u, p)
       \/ OpenSession(b) \/ logout(b)
       \/ \E op \in Gated \ {"link", "unlink"} : withActor(b, op, None)
       \/ \E i \in Identities : connectionsAction(b, i) \/ socialCallback(b, i)
       \/ \E p \in Passwords : confirmPassword(b, p) \/ changePassword(b, p)
       \/ ownerConfirmed(b) \/ deleteAccount(b) \/ leftAccount(b)
       \/ socialBegin(b) \/ LinkSocialInSession(b) \/ UnlinkSocial(b)
Administer ==
    \E a \in Admins, u \in Users :
       \/ \E p \in Passwords : UserCreate(a, u, p)
       \/ UserDeactivate(a, u) \/ UserActivate(a, u)
       \/ UserResetPassword(a, u) \/ DeleteUser(a, u)
Next == Mail \/ Visit \/ Administer \/ Crash

Spec == Init /\ [][Next]_vars

-----------------------------------------------------------------------------
(* What must hold                                                            *)

\* A session the gate accepts stands on a credential, or a session, that was
\* checked after the last time the account's sessions were ended: by A-402, a
\* reset, a password change elsewhere, a deactivation (store.go:48-57, D15 5.4).
EndedStaysOut ==
    /\ TypeOK
    /\ \A b \in Browsers : Accepted(b) => sess[b].since = ended[sess[b].user]

\* No password and no link is written for a session that was ended while the
\* request was on its way (token.go SetPassword, social.go LinkSocialInSession).
NoLateCredential ==
    [][\A b \in Browsers :
          /\ req[b].op \in {"change", "link"}
          /\ req'[b] # req[b]
          /\ \/ user'[req[b].user].password \notin {None, user[req[b].user].password}
             \/ \E i \in Identities : link'[i] = req[b].user /\ link[i] # req[b].user
          => req[b].since = ended[req[b].user]]_vars
================================================================================
