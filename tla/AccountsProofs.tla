---------------------------- MODULE AccountsProofs ----------------------------
(***************************************************************************)
(* The two properties of Accounts, for every value of its constants.  What *)
(* a request or a session remembers of the cutoff is never ahead of it, so *)
(* a write or a gate that finds it not behind finds it equal.              *)
(***************************************************************************)
EXTENDS Accounts, TLAPS

UserRow  == [state : {"new", "active", "inactive", "deleted"},
             password : Passwords \cup {None}, cutoff : Count, verified : BOOLEAN]
TokenRow == [state : {"free", "live", "used"}, kind : Kinds, user : Users \cup {None}]
Session  == [user : Users \cup {None}, authAt : Count, since : Count,
             oauth : {"no", "login", "link"}]

\* Rows and their foreign keys.
RowsTyped ==
    /\ user \in [Users -> UserRow]
    /\ link \in [Identities -> Users \cup {None}]
    /\ token \in [Tokens -> TokenRow]
    /\ \A i \in Identities : link[i] # None => Exists(link[i])
    /\ \A t \in Rows : token[t].user \in Users /\ Exists(token[t].user)
\* A row that is being burnt stays a row.
RequestsTyped ==
    /\ req \in [Clients -> Request]
    /\ \A c \in Clients : req[c].op = "issue" => req[c].burn \subseteq Rows
\* The cutoff has moved as often as the sessions were ended.
CutoffCounts ==
    /\ ended \in [Users -> Count]
    /\ \A u \in Users : user[u].cutoff = ended[u]
\* What a session or a request says of the time it was checked.
Dated(r) == r.since = r.authAt /\ r.authAt <= ended[r.user]
SessionsDated ==
    /\ sess \in [Browsers -> Session]
    /\ \A b \in Browsers : sess[b].user # None => Dated(sess[b])
RequestsDated == \A c \in Clients : req[c].op \in Gated \cup {"open"} => Dated(req[c])

AccountsInv ==
    RowsTyped /\ CutoffCounts /\ RequestsTyped /\ SessionsDated /\ RequestsDated

LEMMA InvTyped == AccountsInv => TypeOK
BY DEF AccountsInv, RowsTyped, CutoffCounts, RequestsTyped, SessionsDated, TypeOK,
   UserRow, TokenRow, Session

-----------------------------------------------------------------------------
(* Requests                                                                  *)

LEMMA RequestFields ==
    ASSUME AccountsInv, NEW c \in Clients
    PROVE  /\ req[c].op = "open" =>
                req[c] \in [op : {"open"}, user : Users, authAt : Count, since : Count]
           /\ req[c].op \in Gated =>
                req[c] \in [op : Gated, user : Users, authAt : Count, since : Count,
                            confirmed : BOOLEAN, identity : Identities \cup {None}]
           /\ req[c].op \in {"left", "verify"} => req[c].user \in Users
           /\ req[c].op = "mail" => req[c].user \in Users /\ req[c].kind \in Kinds
           /\ req[c].op = "issue" =>
                /\ req[c].user \in Users /\ req[c].kind \in Kinds
                /\ req[c].burn \subseteq Tokens
<1>1. req[c] \in Request
  BY DEF AccountsInv, RequestsTyped
<1>2. CASE req[c] = Idle
  BY <1>2 DEF Idle, Gated
<1>3. CASE req[c] \in [op : {"open"}, user : Users, authAt : Count, since : Count]
  BY <1>3 DEF Gated
<1>4. CASE req[c] \in [op : Gated, user : Users, authAt : Count, since : Count,
                       confirmed : BOOLEAN, identity : Identities \cup {None}]
  BY <1>4 DEF Gated
<1>5. CASE req[c] \in [op : {"left", "verify"}, user : Users]
  BY <1>5 DEF Gated
<1>6. CASE req[c] \in [op : {"mail"}, user : Users, kind : Kinds]
  BY <1>6 DEF Gated
<1>7. CASE req[c] \in [op : {"issue"}, user : Users, kind : Kinds, burn : SUBSET Tokens]
  BY <1>7 DEF Gated
<1> QED
  BY <1>1, <1>2, <1>3, <1>4, <1>5, <1>6, <1>7 DEF Request

\* A count of the cutoff that was not ahead of it never gets ahead.
NeverLess(m, n) == m \in Nat /\ n \in Nat /\ m <= n
Onward ==
    /\ Rows \subseteq Rows'
    /\ \A u \in Users : NeverLess(ended[u], ended'[u])

LEMMA RequestStarts ==
    ASSUME AccountsInv, Onward, NEW c \in Clients, NEW r \in Request, Start(c, r),
           r.op = "issue" => r.burn \subseteq Rows,
           r.op \in Gated \cup {"open"} => r.since = r.authAt /\ r.authAt <= ended'[r.user]
    PROVE  RequestsTyped' /\ RequestsDated'
<1>1. req \in [Clients -> Request]
  BY DEF AccountsInv, RequestsTyped
<1>2. \A d \in Clients : req'[d] = IF d = c THEN r ELSE req[d]
  BY <1>1 DEF Start
<1>3. req' \in [Clients -> Request]
  BY <1>1 DEF Start
<1>4. ASSUME NEW d \in Clients, req'[d].op = "issue" PROVE req'[d].burn \subseteq Rows'
  BY <1>2, <1>4 DEF AccountsInv, RequestsTyped, Onward, NeverLess
<1>5. ASSUME NEW d \in Clients, req'[d].op \in Gated \cup {"open"}
      PROVE  req'[d].since = req'[d].authAt /\ req'[d].authAt <= ended'[req'[d].user]
  <2>1. CASE d = c
    BY <1>2, <1>5, <2>1
  <2>2. CASE d # c
    <3>1. req'[d] = req[d] /\ Dated(req[d])
      BY <1>2, <1>5, <2>2 DEF AccountsInv, RequestsDated
    <3>2. req[d].user \in Users /\ req[d].authAt \in Nat
      BY <1>5, <3>1, RequestFields, AccountsAssumption DEF Count
    <3> QED
      BY <3>1, <3>2 DEF Dated, Onward, NeverLess
  <2> QED
    BY <2>1, <2>2
<1> QED
  BY <1>3, <1>4, <1>5 DEF RequestsTyped, RequestsDated, Dated

LEMMA RequestEnds ==
    ASSUME AccountsInv, Onward, NEW c \in Clients, Done(c)
    PROVE  RequestsTyped' /\ RequestsDated'
<1>1. Idle \in Request /\ Idle.op = "idle"
  BY DEF Idle, Request
<1>2. "idle" \notin Gated \cup {"open"}
  BY DEF Gated
<1> QED
  BY <1>1, <1>2, RequestStarts DEF Done

LEMMA RequestsStay ==
    ASSUME AccountsInv, Onward, UNCHANGED req
    PROVE  RequestsTyped' /\ RequestsDated'
<1>1. RequestsTyped'
  BY DEF AccountsInv, RequestsTyped, Onward, NeverLess
<1>2. RequestsDated'
  <2>1. SUFFICES ASSUME NEW d \in Clients, req[d].op \in Gated \cup {"open"}
                 PROVE  req[d].since = req[d].authAt /\ req[d].authAt <= ended'[req[d].user]
    BY DEF RequestsDated, Dated
  <2>2. Dated(req[d])
    BY <2>1 DEF AccountsInv, RequestsDated
  <2>3. req[d].user \in Users /\ req[d].authAt \in Nat
    BY <2>1, RequestFields, AccountsAssumption DEF Count
  <2> QED
    BY <2>2, <2>3 DEF Dated, Onward, NeverLess
<1> QED
  BY <1>1, <1>2

-----------------------------------------------------------------------------
(* Sessions                                                                  *)

\* A browser's session is replaced by one that is not ahead, or by none.
LEMMA SessionPut ==
    ASSUME AccountsInv, Onward, NEW b \in Browsers, NEW s \in Session,
           sess' = [sess EXCEPT ![b] = s],
           s.user # None => s.since = s.authAt /\ s.authAt <= ended'[s.user]
    PROVE  SessionsDated'
<1>1. sess \in [Browsers -> Session]
  BY DEF AccountsInv, SessionsDated
<1>2. sess' \in [Browsers -> Session]
  BY <1>1
<1>3. ASSUME NEW d \in Browsers, sess'[d].user # None
      PROVE  sess'[d].since = sess'[d].authAt /\ sess'[d].authAt <= ended'[sess'[d].user]
  <2>1. CASE d = b
    BY <1>1, <1>3, <2>1
  <2>2. CASE d # b
    <3>1. sess'[d] = sess[d] /\ Dated(sess[d])
      BY <1>1, <1>3, <2>2 DEF AccountsInv, SessionsDated
    <3>2. sess[d].user \in Users /\ sess[d].authAt \in Nat
      BY <1>1, <1>3, <3>1, AccountsAssumption DEF Session, Count
    <3> QED
      BY <3>1, <3>2 DEF Dated, Onward, NeverLess
  <2> QED
    BY <2>1, <2>2
<1> QED
  BY <1>2, <1>3 DEF SessionsDated, Dated

LEMMA SessionDestroyed ==
    ASSUME AccountsInv, Onward, NEW b \in Browsers, Destroy(b)
    PROVE  SessionsDated'
<1>1. Anonymous \in Session /\ Anonymous.user = None
  BY AccountsAssumption DEF Anonymous, Session, Count
<1> QED
  BY <1>1, SessionPut DEF Destroy

LEMMA SessionsStay ==
    ASSUME AccountsInv, Onward, UNCHANGED sess
    PROVE  SessionsDated'
<1>1. sess \in [Browsers -> Session]
  BY DEF AccountsInv, SessionsDated
<1>2. ASSUME NEW d \in Browsers, sess[d].user # None
      PROVE  sess[d].since = sess[d].authAt /\ sess[d].authAt <= ended'[sess[d].user]
  <2>1. Dated(sess[d])
    BY <1>2 DEF AccountsInv, SessionsDated
  <2>2. sess[d].user \in Users /\ sess[d].authAt \in Nat
    BY <1>1, <1>2, AccountsAssumption DEF Session, Count
  <2> QED
    BY <2>1, <2>2 DEF Dated, Onward, NeverLess
<1> QED
  BY <1>1, <1>2 DEF SessionsDated, Dated
-----------------------------------------------------------------------------
(* Rows                                                                      *)

\* An account's row is written, links are kept or removed, mailed links kept,
\* used or removed.
LEMMA RowsWritten ==
    ASSUME RowsTyped,
           user' \in [Users -> UserRow],
           \A u \in Users : Exists(u) => Exists(u)',
           link' \in [Identities -> Users \cup {None}],
           \A i \in Identities : link'[i] \in {None, link[i]},
           token' \in [Tokens -> TokenRow],
           \A t \in Tokens : token'[t].state # "free" =>
               token[t].state # "free" /\ token'[t].user = token[t].user
    PROVE  RowsTyped'
BY DEF RowsTyped, Rows

\* What the steps do to the row of one account.
LEMMA UserWritten ==
    ASSUME RowsTyped, NEW u \in Users, NEW row \in UserRow,
           user' = [user EXCEPT ![u] = row],
           Exists(u) => row.state \in {"active", "inactive"}
    PROVE  /\ user' \in [Users -> UserRow]
           /\ \A v \in Users : Exists(v) => Exists(v)'
           /\ \A v \in Users : user'[v] = IF v = u THEN row ELSE user[v]
BY DEF RowsTyped, Exists

\* The sessions of an account are ended: the history moves with the cutoff.
LEMMA SessionsEnded ==
    ASSUME AccountsInv, NEW u \in Users, EndSessions(u), CanMove(u),
           \A v \in Users : user'[v].cutoff = IF v = u THEN Moved(u) ELSE user[v].cutoff
    PROVE  /\ CutoffCounts'
           /\ \A v \in Users : NeverLess(ended[v], ended'[v])
           /\ ended'[u] = ended[u] + 1
<1>1. ended \in [Users -> Count] /\ \A v \in Users : user[v].cutoff = ended[v]
  BY DEF AccountsInv, CutoffCounts
<1>2. \A v \in Users : ended[v] \in Nat /\ ended[v] <= MaxCutoff
  BY <1>1, AccountsAssumption DEF Count
<1>3. ended[u] < MaxCutoff /\ MaxCutoff \in Nat
  BY <1>1, AccountsAssumption DEF CanMove
<1>4. \A v \in Users : ended'[v] = IF v = u THEN ended[u] + 1 ELSE ended[v]
  BY <1>1 DEF EndSessions
<1>5. ended' \in [Users -> Count]
  BY <1>1, <1>2, <1>3 DEF EndSessions, Count
<1>6. \A v \in Users : user'[v].cutoff = ended'[v]
  BY <1>1, <1>4 DEF Moved
<1> QED
  BY <1>2, <1>4, <1>5, <1>6 DEF CutoffCounts, NeverLess

LEMMA CutoffsStay ==
    ASSUME AccountsInv, UNCHANGED ended, \A v \in Users : user'[v].cutoff = user[v].cutoff
    PROVE  /\ CutoffCounts'
           /\ \A v \in Users : NeverLess(ended[v], ended'[v])
BY AccountsAssumption DEF AccountsInv, CutoffCounts, Count, NeverLess

\* The rows of the accounts, their links and mails stay as they are.
LEMMA RowsStay ==
    ASSUME AccountsInv, UNCHANGED <<user, link, token, ended>>
    PROVE  RowsTyped' /\ CutoffCounts' /\ Onward
<1>1. CutoffCounts' /\ \A v \in Users : NeverLess(ended[v], ended'[v])
  BY CutoffsStay
<1>2. RowsTyped'
  BY DEF AccountsInv, RowsTyped, Exists, Rows
<1> QED
  BY <1>1, <1>2 DEF Onward, NeverLess, Rows

-----------------------------------------------------------------------------
(* Steps that write no row                                                   *)

LEMMA PlainSteps ==
    ASSUME AccountsInv, UNCHANGED <<user, link, token, ended>>
    PROVE  /\ \A c \in Clients : Done(c) /\ UNCHANGED sess => AccountsInv'
           /\ \A b \in Browsers : Destroy(b) /\ UNCHANGED req => AccountsInv'
           /\ \A c \in Clients : \A r \in Request :
                 /\ Start(c, r) /\ UNCHANGED sess
                 /\ r.op = "issue" => r.burn \subseteq Rows
                 /\ r.op \in Gated \cup {"open"} =>
                        r.since = r.authAt /\ r.authAt <= ended[r.user]
                 => AccountsInv'
           /\ UNCHANGED <<sess, req>> => AccountsInv'
<1>1. RowsTyped' /\ CutoffCounts' /\ Onward
  BY RowsStay
<1>2. ASSUME NEW c \in Clients, Done(c), UNCHANGED sess PROVE AccountsInv'
  BY <1>1, <1>2, RequestEnds, SessionsStay DEF AccountsInv
<1>3. ASSUME NEW b \in Browsers, Destroy(b), UNCHANGED req PROVE AccountsInv'
  BY <1>1, <1>3, RequestsStay, SessionDestroyed DEF AccountsInv
<1>4. ASSUME NEW c \in Clients, NEW r \in Request, Start(c, r), UNCHANGED sess,
             r.op = "issue" => r.burn \subseteq Rows,
             r.op \in Gated \cup {"open"} => r.since = r.authAt /\ r.authAt <= ended[r.user]
      PROVE AccountsInv'
  <2>1. r.op \in Gated \cup {"open"} => r.since = r.authAt /\ r.authAt <= ended'[r.user]
    BY <1>4
  <2> QED
    BY <1>1, <1>4, <2>1, RequestStarts, SessionsStay DEF AccountsInv
<1>5. ASSUME UNCHANGED <<sess, req>> PROVE AccountsInv'
  BY <1>1, <1>5, RequestsStay, SessionsStay DEF AccountsInv
<1> QED
  BY <1>2, <1>3, <1>4, <1>5

\* A mail is asked for.
LEMMA MailAsked ==
    ASSUME NEW u \in Users, NEW kind \in Kinds
    PROVE  /\ [op |-> "mail", user |-> u, kind |-> kind] \in Request
           /\ "mail" \notin Gated \cup {"open", "issue"}
BY DEF Request, Gated

LEMMA BurnUnusedStep == ASSUME AccountsInv, NEW c \in Clients, BurnUnused(c) PROVE AccountsInv'
<1> DEFINE r == [op |-> "issue", user |-> req[c].user, kind |-> req[c].kind,
                 burn |-> Live(req[c].user, req[c].kind)]
<1>1. req[c].user \in Users /\ req[c].kind \in Kinds
  BY RequestFields DEF BurnUnused
<1>2. r \in Request
  BY <1>1 DEF Request, Live
<1>3. r.burn \subseteq Rows
  BY DEF Live, Rows
<1>4. r.op = "issue" /\ r.op \notin Gated \cup {"open"}
  BY DEF Gated
<1>5. Start(c, r) /\ UNCHANGED <<user, link, token, ended>> /\ UNCHANGED sess
  BY DEF BurnUnused
<1> HIDE DEF r
<1> QED
  BY <1>2, <1>3, <1>4, <1>5, PlainSteps

LEMMA MailSteps ==
    ASSUME AccountsInv
    PROVE  /\ \A c \in Clients : IssueFails(c) => AccountsInv'
           /\ \A b \in Browsers, u \in Users : resetRequest(b, u) => AccountsInv'
<1>1. ASSUME NEW c \in Clients, IssueFails(c) PROVE AccountsInv'
  BY <1>1, PlainSteps DEF IssueFails
<1>2. ASSUME NEW b \in Browsers, NEW u \in Users, resetRequest(b, u) PROVE AccountsInv'
  BY <1>2, PlainSteps, MailAsked DEF resetRequest, Clients, Kinds
<1> QED
  BY <1>1, <1>2

\* A credential was good: what is put into the session is what was read beside it.
LEMMA Admitted ==
    ASSUME AccountsInv, NEW c \in Clients, NEW u \in Users
    PROVE  /\ [op |-> "open", user |-> u, authAt |-> user[u].cutoff, since |-> ended[u]] \in Request
           /\ user[u].cutoff = ended[u] /\ ended[u] <= ended[u]
<1>1. user[u].cutoff = ended[u] /\ ended[u] \in Count
  BY DEF AccountsInv, CutoffCounts
<1>2. ended[u] \in Nat
  BY <1>1, AccountsAssumption DEF Count
<1> QED
  BY <1>1, <1>2 DEF Request

LEMMA AuthenticateStep ==
    ASSUME AccountsInv, NEW b \in Browsers, NEW u \in Users, NEW p, Authenticate(b, u, p)
    PROVE  AccountsInv'
<1>1. b \in Clients /\ UNCHANGED <<user, link, token, ended>> /\ UNCHANGED sess /\ Admit(b, u)
  BY DEF Authenticate, Clients
<1>2. CASE Done(b)
  BY <1>1, <1>2, PlainSteps
<1>3. CASE Start(b, [op |-> "mail", user |-> u, kind |-> "verify"])
  BY <1>1, <1>3, PlainSteps, MailAsked DEF Kinds
<1>4. CASE Start(b, [op |-> "open", user |-> u, authAt |-> user[u].cutoff, since |-> ended[u]])
  <2> DEFINE r == [op |-> "open", user |-> u, authAt |-> user[u].cutoff, since |-> ended[u]]
  <2>1. r \in Request /\ r.op # "issue" /\ r.since = r.authAt /\ r.authAt <= ended[r.user]
    BY <1>1, Admitted
  <2> HIDE DEF r
  <2>2. Start(b, r)
    BY <1>4 DEF r
  <2> QED
    BY <1>1, <2>1, <2>2, PlainSteps
<1> QED
  BY <1>1, <1>2, <1>3, <1>4 DEF Admit

\* The gate takes over what the session says of itself.
LEMMA EnterStep ==
    ASSUME AccountsInv, NEW b \in Browsers, NEW op \in Gated,
           NEW i \in Identities \cup {None}, withActor(b, op, i)
    PROVE  AccountsInv'
<1>1. b \in Clients /\ UNCHANGED <<user, link, token, ended>> /\ Enter(b, op, i)
  BY DEF withActor, Clients
<1>2. CASE Accepted(b)
  <2> DEFINE r == [op |-> op, user |-> sess[b].user, authAt |-> sess[b].authAt,
                   since |-> sess[b].since, confirmed |-> FALSE, identity |-> i]
  <2>1. sess[b].user \in Users /\ sess[b].authAt \in Count /\ sess[b].since \in Count
    BY <1>2 DEF Accepted, AccountsInv, SessionsDated, Session
  <2>2. sess[b].since = sess[b].authAt /\ sess[b].authAt <= ended[sess[b].user]
    BY <1>2 DEF Accepted, AccountsInv, SessionsDated, Dated
  <2>3. r \in Request
    BY <2>1 DEF Request
  <2>4. r.op # "issue" /\ r.since = r.authAt /\ r.authAt <= ended[r.user]
    BY <2>2 DEF Gated
  <2>5. Start(b, r) /\ UNCHANGED sess
    BY <1>1, <1>2 DEF Enter
  <2> HIDE DEF r
  <2> QED
    BY <1>1, <2>3, <2>4, <2>5, PlainSteps
<1>3. CASE ~Accepted(b)
  BY <1>1, <1>3, PlainSteps DEF Enter
<1> QED
  BY <1>2, <1>3

\* The password is confirmed, or a recent login: nothing is dated anew.
LEMMA Confirmed ==
    ASSUME AccountsInv, NEW b \in Browsers, req[b].op \in Gated,
           req' = [req EXCEPT ![b].confirmed = TRUE], UNCHANGED <<user, link, token, sess, ended>>
    PROVE  AccountsInv'
<1> DEFINE r == [req[b] EXCEPT !.confirmed = TRUE]
<1>1. b \in Clients /\ req \in [Clients -> Request]
  BY DEF Clients, AccountsInv, RequestsTyped
<1>2. req[b] \in [op : Gated, user : Users, authAt : Count, since : Count,
                  confirmed : BOOLEAN, identity : Identities \cup {None}]
  BY <1>1, RequestFields
<1>3. r \in Request /\ r.op = req[b].op /\ r.since = req[b].since
      /\ r.authAt = req[b].authAt /\ r.user = req[b].user
  BY <1>2 DEF Request
<1>4. r.op # "issue"
  BY <1>3 DEF Gated
<1>5. Dated(req[b])
  BY <1>1 DEF AccountsInv, RequestsDated
<1>6. r.since = r.authAt /\ r.authAt <= ended[r.user]
  BY <1>3, <1>5 DEF Dated
<1>7. Start(b, r)
  BY <1>1 DEF Start
<1> HIDE DEF r
<1> QED
  BY <1>1, <1>3, <1>4, <1>6, <1>7, PlainSteps

LEMMA ConfirmSteps ==
    ASSUME AccountsInv, NEW b \in Browsers
    PROVE  /\ \A p \in Passwords : confirmPassword(b, p) => AccountsInv'
           /\ ownerConfirmed(b) => AccountsInv'
<1>1. b \in Clients
  BY DEF Clients
<1>2. ASSUME NEW p \in Passwords, confirmPassword(b, p) PROVE AccountsInv'
  BY <1>1, <1>2, Confirmed, PlainSteps DEF confirmPassword
<1>3. ASSUME ownerConfirmed(b) PROVE AccountsInv'
  BY <1>1, <1>3, Confirmed, PlainSteps DEF ownerConfirmed, Gated
<1> QED
  BY <1>2, <1>3
-----------------------------------------------------------------------------
(* Steps of a session                                                        *)

LEMMA OpenSessionStep == ASSUME AccountsInv, NEW b \in Browsers, OpenSession(b) PROVE AccountsInv'
<1> DEFINE s == [sess[b] EXCEPT !.user = req[b].user, !.authAt = Cutoff(req[b]),
                                !.since = req[b].since]
<1>1. b \in Clients /\ UNCHANGED <<user, link, token, ended>> /\ Done(b)
  BY DEF OpenSession, Clients
<1>2. RowsTyped' /\ CutoffCounts' /\ Onward
  BY <1>1, RowsStay
<1>3. RequestsTyped' /\ RequestsDated'
  BY <1>1, <1>2, RequestEnds
<1>4. req[b] \in [op : {"open"}, user : Users, authAt : Count, since : Count]
  BY <1>1, RequestFields DEF OpenSession
<1>5. sess \in [Browsers -> Session]
  BY DEF AccountsInv, SessionsDated
<1>6. /\ s \in Session /\ s.user = req[b].user /\ s.authAt = req[b].authAt
      /\ s.since = req[b].since
  BY <1>4, <1>5 DEF Session, Cutoff
<1>7. Dated(req[b])
  BY <1>1 DEF OpenSession, AccountsInv, RequestsDated
<1>8. s.since = s.authAt /\ s.authAt <= ended'[s.user]
  BY <1>1, <1>6, <1>7 DEF Dated
<1>9. sess' = [sess EXCEPT ![b] = s]
  BY DEF OpenSession
<1> HIDE DEF s
<1>10. SessionsDated'
  BY <1>2, <1>6, <1>8, <1>9, SessionPut
<1> QED
  BY <1>2, <1>3, <1>10 DEF AccountsInv

LEMMA LogoutStep == ASSUME AccountsInv, NEW b \in Browsers, logout(b) PROVE AccountsInv'
BY PlainSteps DEF logout

\* The mark of a round trip to a provider, put or used up.
LEMMA Marked ==
    ASSUME AccountsInv, Onward, NEW b \in Browsers, NEW mark \in {"no", "login", "link"},
           sess' = [sess EXCEPT ![b].oauth = mark], UNCHANGED ended
    PROVE  SessionsDated'
<1> DEFINE s == [sess[b] EXCEPT !.oauth = mark]
<1>1. sess \in [Browsers -> Session]
  BY DEF AccountsInv, SessionsDated
<1>2. /\ s \in Session /\ s.user = sess[b].user /\ s.authAt = sess[b].authAt
      /\ s.since = sess[b].since
  BY <1>1 DEF Session
<1>3. s.user # None => s.since = s.authAt /\ s.authAt <= ended'[s.user]
  BY <1>2 DEF AccountsInv, SessionsDated, Dated
<1>4. sess' = [sess EXCEPT ![b] = s]
  BY <1>1
<1> HIDE DEF s
<1> QED
  BY <1>2, <1>3, <1>4, SessionPut

LEMMA SocialBeginStep == ASSUME AccountsInv, NEW b \in Browsers, socialBegin(b) PROVE AccountsInv'
<1>1. b \in Clients /\ UNCHANGED <<user, link, token, ended>> /\ Done(b)
  BY DEF socialBegin, Clients
<1>2. RowsTyped' /\ CutoffCounts' /\ Onward
  BY <1>1, RowsStay
<1>3. RequestsTyped' /\ RequestsDated'
  BY <1>1, <1>2, RequestEnds
<1>4. SessionsDated'
  BY <1>1, <1>2, Marked DEF socialBegin
<1> QED
  BY <1>2, <1>3, <1>4 DEF AccountsInv

LEMMA SocialCallbackStep ==
    ASSUME AccountsInv, NEW b \in Browsers, NEW i \in Identities, socialCallback(b, i)
    PROVE  AccountsInv'
<1>1. b \in Clients /\ UNCHANGED <<user, link, token, ended>>
  BY DEF socialCallback, Clients
<1>2. RowsTyped' /\ CutoffCounts' /\ Onward
  BY <1>1, RowsStay
<1>3. CASE sess' = [sess EXCEPT ![b].oauth = "no"] /\ UNCHANGED req
  BY <1>1, <1>2, <1>3, Marked, RequestsStay DEF AccountsInv
<1>4. CASE Destroy(b) /\ UNCHANGED req
  BY <1>1, <1>4, PlainSteps
<1>5. CASE UserBySocial(b, i) /\ sess' = [sess EXCEPT ![b].oauth = "no"]
  <2>1. SessionsDated'
    BY <1>1, <1>2, <1>5, Marked
  <2>2. RequestsTyped' /\ RequestsDated'
    <3>1. CASE UNCHANGED req
      BY <1>2, <3>1, RequestsStay
    <3>2. ASSUME NEW u \in Users, Admit(b, u) PROVE RequestsTyped' /\ RequestsDated'
      <4>1. CASE Done(b)
        BY <1>1, <1>2, <4>1, RequestEnds
      <4>2. CASE Start(b, [op |-> "mail", user |-> u, kind |-> "verify"])
        BY <1>1, <1>2, <4>2, RequestStarts, MailAsked DEF Kinds
      <4>3. CASE Start(b, [op |-> "open", user |-> u, authAt |-> user[u].cutoff,
                           since |-> ended[u]])
        <5> DEFINE r == [op |-> "open", user |-> u, authAt |-> user[u].cutoff,
                         since |-> ended[u]]
        <5>1. /\ r \in Request /\ r.op # "issue" /\ r.since = r.authAt
              /\ r.authAt <= ended'[r.user]
          BY <1>1, Admitted
        <5> HIDE DEF r
        <5>2. Start(b, r)
          BY <4>3 DEF r
        <5> QED
          BY <1>1, <1>2, <5>1, <5>2, RequestStarts
      <4> QED
        BY <3>2, <4>1, <4>2, <4>3 DEF Admit
    <3> QED
      BY <1>5, <3>1, <3>2 DEF UserBySocial, UserBySocialLink
  <2> QED
    BY <1>2, <2>1, <2>2 DEF AccountsInv
<1>6. CASE /\ Accepted(b) /\ sess' = [sess EXCEPT ![b].oauth = "no"]
           /\ Start(b, [op |-> "link", user |-> sess[b].user, authAt |-> sess[b].authAt,
                        since |-> sess[b].since, confirmed |-> FALSE, identity |-> i])
  <2> DEFINE r == [op |-> "link", user |-> sess[b].user, authAt |-> sess[b].authAt,
                   since |-> sess[b].since, confirmed |-> FALSE, identity |-> i]
  <2>1. sess[b].user \in Users /\ sess[b].authAt \in Count /\ sess[b].since \in Count
    BY <1>6 DEF Accepted, AccountsInv, SessionsDated, Session
  <2>2. sess[b].since = sess[b].authAt /\ sess[b].authAt <= ended[sess[b].user]
    BY <1>6 DEF Accepted, AccountsInv, SessionsDated, Dated
  <2>3. r \in Request
    BY <2>1 DEF Request, Gated
  <2>4. r.op # "issue" /\ r.since = r.authAt /\ r.authAt <= ended'[r.user]
    BY <1>1, <2>2
  <2>5. Start(b, r)
    BY <1>6
  <2> HIDE DEF r
  <2>6. RequestsTyped' /\ RequestsDated'
    BY <1>1, <1>2, <2>3, <2>4, <2>5, RequestStarts
  <2>7. SessionsDated'
    BY <1>1, <1>2, <1>6, Marked
  <2> QED
    BY <1>2, <2>6, <2>7 DEF AccountsInv
<1> QED
  BY <1>3, <1>4, <1>5, <1>6 DEF socialCallback

-----------------------------------------------------------------------------
(* Mailed links                                                              *)

\* A link is used up.
LEMMA TokenUsed ==
    ASSUME AccountsInv, NEW t \in Tokens, token[t].state = "live",
           token' = [token EXCEPT ![t].state = "used"]
    PROVE  /\ token' \in [Tokens -> TokenRow]
           /\ \A s \in Tokens : token'[s].state # "free" =>
                 token[s].state # "free" /\ token'[s].user = token[s].user
           /\ Rows \subseteq Rows'
<1>1. token \in [Tokens -> TokenRow]
  BY DEF AccountsInv, RowsTyped
<1>2. \A s \in Tokens : token'[s] = IF s = t THEN [token[t] EXCEPT !.state = "used"] ELSE token[s]
  BY <1>1
<1>3. [token[t] EXCEPT !.state = "used"] \in TokenRow
  BY <1>1 DEF TokenRow
<1>4. token' \in [Tokens -> TokenRow]
  <2>1. token' = [token EXCEPT ![t] = [token[t] EXCEPT !.state = "used"]]
    BY <1>1
  <2> QED
    BY <1>1, <1>3, <2>1
<1> QED
  BY <1>1, <1>2, <1>4 DEF Rows, TokenRow

LEMMA TokenSteps ==
    ASSUME AccountsInv, NEW t \in Tokens
    PROVE  /\ PassExpiry(t) => AccountsInv'
           /\ \A b \in Browsers : verify(b, t) => AccountsInv'
<1>1. ASSUME UNCHANGED <<user, link, ended>>, token[t].state = "live",
             token' = [token EXCEPT ![t].state = "used"]
      PROVE  RowsTyped' /\ CutoffCounts' /\ Onward
  <2>1. /\ CutoffCounts'
        /\ \A v \in Users : NeverLess(ended[v], ended'[v])
    BY <1>1, CutoffsStay
  <2>2. RowsTyped /\ link' \in [Identities -> Users \cup {None}]
        /\ user' \in [Users -> UserRow] /\ \A u \in Users : Exists(u) => Exists(u)'
    BY <1>1 DEF AccountsInv, RowsTyped, Exists
  <2>3. RowsTyped'
    BY <1>1, <2>2, TokenUsed, RowsWritten
  <2> QED
    BY <1>1, <2>1, <2>3, TokenUsed DEF Onward, NeverLess
<1>2. ASSUME PassExpiry(t) PROVE AccountsInv'
  <2>1. RowsTyped' /\ CutoffCounts' /\ Onward
    BY <1>1, <1>2 DEF PassExpiry
  <2> QED
    BY <1>2, <2>1, RequestsStay, SessionsStay DEF PassExpiry, AccountsInv
<1>3. ASSUME NEW b \in Browsers, verify(b, t) PROVE AccountsInv'
  <2>1. RowsTyped' /\ CutoffCounts' /\ Onward
    BY <1>1, <1>3 DEF verify, ConsumeToken, BurnRow
  <2>2. token[t].user \in Users
    BY <1>3 DEF verify, ConsumeToken, BurnRow, AccountsInv, RowsTyped, Rows
  <2>3. /\ [op |-> "verify", user |-> token[t].user] \in Request
        /\ "verify" \notin Gated \cup {"open", "issue"}
    BY <2>2 DEF Request, Gated
  <2>4. RequestsTyped' /\ RequestsDated'
    BY <1>3, <2>1, <2>3, RequestStarts DEF verify, Clients
  <2> QED
    BY <1>3, <2>1, <2>4, SessionsStay DEF verify, AccountsInv
<1> QED
  BY <1>2, <1>3

\* The links that are burnt are rows still, so the user of each is there.
LEMMA IssueTokenStep ==
    ASSUME AccountsInv, NEW c \in Clients, NEW t \in Tokens, IssueToken(c, t)
    PROVE  AccountsInv'
<1>1. /\ req[c].op = "issue" /\ req[c].user \in Users /\ req[c].kind \in Kinds
      /\ req[c].burn \subseteq Rows /\ Exists(req[c].user)
  BY RequestFields DEF IssueToken, InsertToken, AccountsInv, RequestsTyped
<1>2. token \in [Tokens -> TokenRow] /\ token[t].state = "free"
  BY DEF IssueToken, InsertToken, NoToken, AccountsInv, RowsTyped
<1>3. /\ token'[t] = [state |-> "live", kind |-> req[c].kind, user |-> req[c].user]
      /\ \A s \in Tokens : s # t /\ s \notin req[c].burn => token'[s] = token[s]
  BY DEF IssueToken
<1>4. \A s \in Tokens : s # t /\ s \in req[c].burn =>
            token'[s] = [token[s] EXCEPT !.state = "used"]
  BY DEF IssueToken
<1>5. \A s \in Tokens : /\ token'[s] \in TokenRow
                        /\ s # t => token'[s].user = token[s].user
                        /\ s # t => (token'[s].state = "free" <=> token[s].state = "free")
  <2>1. SUFFICES ASSUME NEW s \in Tokens
                 PROVE  /\ token'[s] \in TokenRow
                        /\ s # t => token'[s].user = token[s].user
                        /\ s # t => (token'[s].state = "free" <=> token[s].state = "free")
    OBVIOUS
  <2>2. CASE s = t
    BY <1>1, <1>3, <2>2 DEF TokenRow
  <2>3. CASE s # t /\ s \in req[c].burn
    <3>1. token'[s] = [token[s] EXCEPT !.state = "used"] /\ token[s] \in TokenRow
      BY <1>2, <1>4, <2>3
    <3>2. token[s].state # "free"
      BY <1>1, <2>3 DEF Rows
    <3> QED
      BY <3>1, <3>2 DEF TokenRow
  <2>4. CASE s # t /\ s \notin req[c].burn
    BY <1>2, <1>3, <2>4
  <2> QED
    BY <2>2, <2>3, <2>4
<1>6. token' \in [Tokens -> TokenRow]
  <2>1. token' = [s \in Tokens |-> token'[s]]
    BY DEF IssueToken
  <2> QED
    BY <1>5, <2>1
<1>7. token'[t].state = "live" /\ token'[t].user = req[c].user
  BY <1>3
<1>8. UNCHANGED <<user, link, ended>> /\ UNCHANGED sess /\ Done(c)
  BY DEF IssueToken
<1>9. RowsTyped'
  BY <1>1, <1>5, <1>6, <1>7, <1>8 DEF AccountsInv, RowsTyped, Rows, Exists
<1>10. CutoffCounts' /\ Onward
  BY <1>2, <1>5, <1>8, CutoffsStay DEF Onward, NeverLess, Rows
<1>11. RequestsTyped' /\ RequestsDated' /\ SessionsDated'
  BY <1>8, <1>10, RequestEnds, SessionsStay
<1> QED
  BY <1>9, <1>10, <1>11 DEF AccountsInv
-----------------------------------------------------------------------------
(* Steps that write the row of an account                                    *)

\* What each statement leaves in the row, and that a row that is there stays.
LEMMA UserRows ==
    ASSUME RowsTyped, NEW u \in Users
    PROVE  /\ user[u] \in UserRow
           /\ user[u].cutoff \in Count
           /\ \A row \in UserRow :
                 /\ user' = [user EXCEPT ![u] = row]
                 /\ Exists(u) => row.state \in {"active", "inactive"}
                 => /\ user' \in [Users -> UserRow]
                    /\ \A v \in Users : Exists(v) => Exists(v)'
                    /\ \A v \in Users : user'[v].cutoff =
                          IF v = u THEN row.cutoff ELSE user[v].cutoff
<1>1. user[u] \in UserRow /\ user[u].cutoff \in Count
  BY DEF RowsTyped, UserRow
<1>2. ASSUME NEW row \in UserRow, user' = [user EXCEPT ![u] = row],
             Exists(u) => row.state \in {"active", "inactive"}
      PROVE  /\ user' \in [Users -> UserRow]
             /\ \A v \in Users : Exists(v) => Exists(v)'
             /\ \A v \in Users : user'[v].cutoff =
                   IF v = u THEN row.cutoff ELSE user[v].cutoff
  BY <1>2, UserWritten
<1> QED
  BY <1>1, <1>2

\* The cutoff moves: the count it moves to is within the bound.
LEMMA CutoffMoved ==
    ASSUME RowsTyped, NEW u \in Users, CanMove(u)
    PROVE  Moved(u) \in Count
<1>1. user[u].cutoff \in Nat /\ MaxCutoff \in Nat
  BY UserRows, AccountsAssumption DEF Count
<1> QED
  BY <1>1 DEF CanMove, Moved, Count

\* One conclusion for the statements on one row: either the sessions of the
\* account are ended, or its cutoff stays.
Written(u) ==
    /\ user' \in [Users -> UserRow]
    /\ \A v \in Users : Exists(v) => Exists(v)'
    /\ \A v \in Users : v # u => user'[v].cutoff = user[v].cutoff

LEMMA Statements ==
    ASSUME RowsTyped, NEW u \in Users
    PROVE  /\ \A p \in Passwords : \A a : CanMove(u) /\ SetPassword(u, p, a) =>
                  Written(u) /\ user'[u].cutoff = Moved(u)
           /\ \A p \in Passwords : CanMove(u) /\ Exists(u) /\ ResetActiveUserPassword(u, p) =>
                  Written(u) /\ user'[u].cutoff = Moved(u)
           /\ CanMove(u) /\ Exists(u) /\ DeactivateUser(u) =>
                  Written(u) /\ user'[u].cutoff = Moved(u)
           /\ CanMove(u) /\ Exists(u) /\ InvalidateSessions(u) =>
                  Written(u) /\ user'[u].cutoff = Moved(u)
           /\ CanMove(u) /\ Exists(u) /\ RevokeCredentials(u) =>
                  Written(u) /\ user'[u].cutoff = Moved(u)
           /\ Exists(u) /\ ActivateUser(u) => Written(u) /\ user'[u].cutoff = user[u].cutoff
           /\ MarkEmailVerified(u) => Written(u) /\ user'[u].cutoff = user[u].cutoff
           /\ \A p \in Passwords, v \in BOOLEAN : CreateUser(u, p, v) =>
                  Written(u) /\ user'[u].cutoff = user[u].cutoff
<1>0. user[u] \in UserRow /\ user \in [Users -> UserRow] /\ (CanMove(u) => Moved(u) \in Count)
  BY UserRows, CutoffMoved DEF RowsTyped
<1>1. ASSUME NEW p \in Passwords, NEW a, CanMove(u), SetPassword(u, p, a)
      PROVE  Written(u) /\ user'[u].cutoff = Moved(u)
  <2> DEFINE row == [user[u] EXCEPT !.password = p, !.cutoff = Moved(u)]
  <2>1. row \in UserRow /\ row.cutoff = Moved(u) /\ row.state = user[u].state
    BY <1>0, <1>1 DEF UserRow
  <2>2. user' = [user EXCEPT ![u] = row] /\ row.state \in {"active", "inactive"}
    BY <1>0, <1>1, <2>1 DEF SetPassword, Exists
  <2> HIDE DEF row
  <2> QED
    BY <2>1, <2>2, UserRows DEF Written
<1>2. ASSUME NEW p \in Passwords, CanMove(u), Exists(u), ResetActiveUserPassword(u, p)
      PROVE  Written(u) /\ user'[u].cutoff = Moved(u)
  <2> DEFINE row == [user[u] EXCEPT !.password = p, !.cutoff = Moved(u), !.verified = TRUE]
  <2>1. row \in UserRow /\ row.cutoff = Moved(u) /\ row.state = user[u].state
    BY <1>0, <1>2 DEF UserRow
  <2>2. user' = [user EXCEPT ![u] = row] /\ row.state \in {"active", "inactive"}
    BY <1>0, <1>2, <2>1 DEF ResetActiveUserPassword, Exists
  <2> HIDE DEF row
  <2> QED
    BY <2>1, <2>2, UserRows DEF Written
<1>3. ASSUME CanMove(u), Exists(u), DeactivateUser(u)
      PROVE  Written(u) /\ user'[u].cutoff = Moved(u)
  <2> DEFINE row == [user[u] EXCEPT !.state = "inactive", !.cutoff = Moved(u)]
  <2>1. row \in UserRow /\ row.cutoff = Moved(u) /\ row.state = "inactive"
    BY <1>0, <1>3 DEF UserRow
  <2>2. user' = [user EXCEPT ![u] = row]
    BY <1>0, <1>3 DEF DeactivateUser
  <2> HIDE DEF row
  <2> QED
    BY <2>1, <2>2, UserRows DEF Written
<1>4. ASSUME CanMove(u), Exists(u), InvalidateSessions(u)
      PROVE  Written(u) /\ user'[u].cutoff = Moved(u)
  <2> DEFINE row == [user[u] EXCEPT !.cutoff = Moved(u)]
  <2>1. row \in UserRow /\ row.cutoff = Moved(u) /\ row.state = user[u].state
    BY <1>0, <1>4 DEF UserRow
  <2>2. user' = [user EXCEPT ![u] = row] /\ row.state \in {"active", "inactive"}
    BY <1>0, <1>4, <2>1 DEF InvalidateSessions, Exists
  <2> HIDE DEF row
  <2> QED
    BY <2>1, <2>2, UserRows DEF Written
<1>5. ASSUME CanMove(u), Exists(u), RevokeCredentials(u)
      PROVE  Written(u) /\ user'[u].cutoff = Moved(u)
  <2> DEFINE row == [user[u] EXCEPT !.password = None, !.cutoff = Moved(u)]
  <2>1. row \in UserRow /\ row.cutoff = Moved(u) /\ row.state = user[u].state
    BY <1>0, <1>5 DEF UserRow
  <2>2. user' = [user EXCEPT ![u] = row] /\ row.state \in {"active", "inactive"}
    BY <1>0, <1>5, <2>1 DEF RevokeCredentials, Exists
  <2> HIDE DEF row
  <2> QED
    BY <2>1, <2>2, UserRows DEF Written
<1>6. ASSUME Exists(u), ActivateUser(u)
      PROVE  Written(u) /\ user'[u].cutoff = user[u].cutoff
  <2> DEFINE row == [user[u] EXCEPT !.state = "active"]
  <2>1. row \in UserRow /\ row.cutoff = user[u].cutoff /\ row.state = "active"
    BY <1>0 DEF UserRow
  <2>2. user' = [user EXCEPT ![u] = row]
    BY <1>0, <1>6 DEF ActivateUser
  <2> HIDE DEF row
  <2> QED
    BY <2>1, <2>2, UserRows DEF Written
<1>7. ASSUME MarkEmailVerified(u)
      PROVE  Written(u) /\ user'[u].cutoff = user[u].cutoff
  <2> DEFINE row == [user[u] EXCEPT !.verified = @ \/ Exists(u)]
  <2>1. (user[u].verified \/ Exists(u)) \in BOOLEAN
    BY <1>0 DEF UserRow
  <2>2. row \in UserRow /\ row.cutoff = user[u].cutoff /\ row.state = user[u].state
    BY <1>0, <2>1 DEF UserRow
  <2>3. user' = [user EXCEPT ![u] = row] /\ (Exists(u) => row.state \in {"active", "inactive"})
    BY <1>0, <1>7, <2>2 DEF MarkEmailVerified, Exists
  <2> HIDE DEF row
  <2> QED
    BY <2>2, <2>3, UserRows DEF Written
<1>8. ASSUME NEW p \in Passwords, NEW v \in BOOLEAN, CreateUser(u, p, v)
      PROVE  Written(u) /\ user'[u].cutoff = user[u].cutoff
  <2> DEFINE row == [user[u] EXCEPT !.state = "active", !.password = p, !.verified = v]
  <2>1. row \in UserRow /\ row.cutoff = user[u].cutoff /\ row.state = "active"
    BY <1>0 DEF UserRow
  <2>2. user' = [user EXCEPT ![u] = row]
    BY <1>0, <1>8 DEF CreateUser
  <2> HIDE DEF row
  <2> QED
    BY <2>1, <2>2, UserRows DEF Written
<1> QED
  BY <1>1, <1>2, <1>3, <1>4, <1>5, <1>6, <1>7, <1>8
\* Links are kept or removed, mailed links kept or used.
LinksKept ==
    /\ link' \in [Identities -> Users \cup {None}]
    /\ \A i \in Identities : link'[i] \in {None, link[i]}
MailsKept ==
    /\ token' \in [Tokens -> TokenRow]
    /\ \A t \in Tokens : token'[t].state # "free" =>
          token[t].state # "free" /\ token'[t].user = token[t].user
    /\ Rows \subseteq Rows'

LEMMA KeptOrRemoved ==
    ASSUME AccountsInv
    PROVE  /\ UNCHANGED link => LinksKept
           /\ \A u \in Users : UnlinkAllSocial(u) => LinksKept
           /\ \A u \in Users, i \in Identities \cup {None} : UnlinkRow(u, i) => LinksKept
           /\ UNCHANGED token => MailsKept
           /\ \A t \in Tokens : BurnRow(t) => MailsKept
<1>1. link \in [Identities -> Users \cup {None}] /\ token \in [Tokens -> TokenRow]
  BY DEF AccountsInv, RowsTyped
<1>2. UNCHANGED link => LinksKept
  BY <1>1 DEF LinksKept
<1>3. ASSUME NEW u \in Users, UnlinkAllSocial(u) PROVE LinksKept
  BY <1>1, <1>3 DEF UnlinkAllSocial, LinksKept
<1>4. ASSUME NEW u \in Users, NEW i \in Identities \cup {None}, UnlinkRow(u, i) PROVE LinksKept
  BY <1>1, <1>4 DEF UnlinkRow, LinksKept
<1>5. UNCHANGED token => MailsKept
  BY <1>1 DEF MailsKept, Rows
<1>6. ASSUME NEW t \in Tokens, BurnRow(t) PROVE MailsKept
  BY <1>6, TokenUsed DEF BurnRow, MailsKept
<1> QED
  BY <1>2, <1>3, <1>4, <1>5, <1>6

LEMMA AccountWritten ==
    ASSUME AccountsInv, NEW u \in Users, Written(u), LinksKept, MailsKept,
           \/ user'[u].cutoff = Moved(u) /\ CanMove(u) /\ EndSessions(u)
           \/ user'[u].cutoff = user[u].cutoff /\ UNCHANGED ended
    PROVE  RowsTyped' /\ CutoffCounts' /\ Onward
<1>1. RowsTyped'
  BY RowsWritten DEF AccountsInv, Written, LinksKept, MailsKept
<1>2. CutoffCounts' /\ \A v \in Users : NeverLess(ended[v], ended'[v])
  <2>1. CASE user'[u].cutoff = Moved(u) /\ CanMove(u) /\ EndSessions(u)
    BY <2>1, SessionsEnded DEF Written
  <2>2. CASE user'[u].cutoff = user[u].cutoff /\ UNCHANGED ended
    BY <2>2, CutoffsStay DEF Written
  <2> QED
    BY <2>1, <2>2
<1> QED
  BY <1>1, <1>2 DEF Onward, NeverLess, MailsKept

LEMMA ResetStep == ASSUME AccountsInv, NEW t \in Tokens, resetPassword(t) PROVE AccountsInv'
<1>1. PICK p \in Passwords : ResetPassword(t, p)
  BY DEF resetPassword
<1>2. PICK u \in Users : u = token[t].user /\ Exists(u)
  BY <1>1 DEF ResetPassword, ConsumeToken, BurnRow, AccountsInv, RowsTyped, Rows
<1>3. /\ BurnRow(t) /\ CanMove(u) /\ ResetActiveUserPassword(u, p) /\ EndSessions(u)
      /\ UNCHANGED link /\ UNCHANGED sess /\ UNCHANGED req
  BY <1>1, <1>2 DEF ResetPassword, ConsumeToken, CanMove, ResetActiveUserPassword,
     EndSessions, Moved
<1>4. Written(u) /\ user'[u].cutoff = Moved(u)
  BY <1>2, <1>3, Statements DEF AccountsInv
<1>5. RowsTyped' /\ CutoffCounts' /\ Onward
  BY <1>3, <1>4, KeptOrRemoved, AccountWritten
<1> QED
  BY <1>3, <1>5, RequestsStay, SessionsStay DEF AccountsInv

LEMMA SmallWrites ==
    ASSUME AccountsInv
    PROVE  /\ \A b \in Browsers : verified(b) => AccountsInv'
           /\ \A b \in Browsers, u \in Users, p \in Passwords : signup(b, u, p) => AccountsInv'
           /\ \A a \in Admins, u \in Users, p \in Passwords : UserCreate(a, u, p) => AccountsInv'
           /\ \A a \in Admins, u \in Users : UserActivate(a, u) => AccountsInv'
<1>0. UNCHANGED <<link, token>> => LinksKept /\ MailsKept
  BY KeptOrRemoved
<1>1. ASSUME NEW b \in Browsers, verified(b) PROVE AccountsInv'
  <2>1. b \in Clients /\ req[b].user \in Users
    BY <1>1, RequestFields DEF verified, Clients
  <2>2. PICK u \in Users : u = req[b].user
    BY <2>1
  <2>3. MarkEmailVerified(u) /\ UNCHANGED <<link, token, ended>> /\ UNCHANGED sess /\ Done(b)
    BY <1>1, <2>2 DEF verified, MarkEmailVerified, Exists
  <2>4. RowsTyped' /\ CutoffCounts' /\ Onward
    BY <1>0, <2>3, Statements, AccountWritten DEF AccountsInv
  <2> QED
    BY <2>1, <2>3, <2>4, RequestEnds, SessionsStay DEF AccountsInv
<1>2. ASSUME NEW b \in Browsers, NEW u \in Users, NEW p \in Passwords, signup(b, u, p)
      PROVE AccountsInv'
  <2>1. RowsTyped' /\ CutoffCounts' /\ Onward
    BY <1>0, <1>2, Statements, AccountWritten DEF signup, AccountsInv
  <2>2. RequestsTyped' /\ RequestsDated'
    <3>1. CASE UNCHANGED req
      BY <2>1, <3>1, RequestsStay
    <3>2. CASE Start(b, [op |-> "mail", user |-> u, kind |-> "verify"])
      BY <2>1, <3>2, RequestStarts, MailAsked DEF Kinds, Clients
    <3> QED
      BY <1>2, <3>1, <3>2 DEF signup
  <2> QED
    BY <1>2, <2>1, <2>2, SessionsStay DEF signup, AccountsInv
<1>3. ASSUME NEW a \in Admins, NEW u \in Users, NEW p \in Passwords, UserCreate(a, u, p)
      PROVE AccountsInv'
  <2>1. RowsTyped' /\ CutoffCounts' /\ Onward
    BY <1>0, <1>3, Statements, AccountWritten DEF UserCreate, AccountsInv
  <2> QED
    BY <1>3, <2>1, RequestsStay, SessionsStay DEF UserCreate, AccountsInv
<1>4. ASSUME NEW a \in Admins, NEW u \in Users, UserActivate(a, u) PROVE AccountsInv'
  <2>1. RowsTyped' /\ CutoffCounts' /\ Onward
    BY <1>0, <1>4, Statements, AccountWritten DEF UserActivate, AccountsInv
  <2> QED
    BY <1>4, <2>1, RequestsStay, SessionsStay DEF UserActivate, AccountsInv
<1> QED
  BY <1>1, <1>2, <1>3, <1>4

\* A password change: the browser that made it is stamped with the new cutoff.
LEMMA ChangeStep ==
    ASSUME AccountsInv, NEW b \in Browsers, NEW p \in Passwords, changePassword(b, p)
    PROVE  AccountsInv'
<1>1. b \in Clients /\ req[b].user \in Users
  BY RequestFields DEF changePassword, Clients, Gated
<1>2. PICK u \in Users : u = req[b].user
  BY <1>1
<1>3. CanMove(u) /\ UNCHANGED <<link, token>>
  BY <1>2 DEF changePassword
<1>4. LinksKept /\ MailsKept
  BY <1>3, KeptOrRemoved
<1>5. CASE /\ SetPassword(u, p, req[b].authAt) /\ EndSessions(u) /\ UNCHANGED sess
           /\ Start(b, [op |-> "open", user |-> u, authAt |-> Moved(u), since |-> ended[u] + 1])
  <2>1. Written(u) /\ user'[u].cutoff = Moved(u)
    BY <1>3, <1>5, Statements DEF AccountsInv
  <2>2. RowsTyped' /\ CutoffCounts' /\ Onward
    BY <1>3, <1>4, <1>5, <2>1, AccountWritten
  <2>3. ended'[u] = ended[u] + 1
    BY <1>3, <1>5, <2>1, SessionsEnded DEF Written
  <2>4. Moved(u) \in Count /\ Moved(u) = ended[u] + 1 /\ ended'[u] \in Nat
    BY <1>3, <2>2, CutoffMoved DEF AccountsInv, CutoffCounts, Moved, Onward, NeverLess
  <2> DEFINE r == [op |-> "open", user |-> u, authAt |-> Moved(u), since |-> ended[u] + 1]
  <2>5. r \in Request /\ r.op # "issue" /\ r.since = r.authAt
    BY <2>4 DEF Request
  <2>6. r.authAt <= ended'[r.user]
    BY <2>3, <2>4
  <2>7. Start(b, r)
    BY <1>5
  <2> HIDE DEF r
  <2> QED
    BY <1>1, <1>5, <2>2, <2>5, <2>6, <2>7, RequestStarts, SessionsStay DEF AccountsInv
<1>6. CASE Destroy(b) /\ Done(b) /\ UNCHANGED <<user, ended>>
  <2>1. RowsTyped' /\ CutoffCounts' /\ Onward
    BY <1>3, <1>6, RowsStay
  <2> QED
    BY <1>1, <1>6, <2>1, RequestEnds, SessionDestroyed DEF AccountsInv
<1> QED
  BY <1>2, <1>5, <1>6 DEF changePassword

\* Leaving: the account is deactivated, then its sessions ended once more.
LEMMA LeaveSteps ==
    ASSUME AccountsInv, NEW b \in Browsers
    PROVE  (deleteAccount(b) => AccountsInv') /\ (leftAccount(b) => AccountsInv')
<1>1. ASSUME deleteAccount(b) PROVE AccountsInv'
  <2>1. b \in Clients /\ req[b].user \in Users
    BY <1>1, RequestFields DEF deleteAccount, Clients, Gated
  <2>2. PICK u \in Users : u = req[b].user
    BY <2>1
  <2>3. UNCHANGED <<link, token>> /\ UNCHANGED sess
    BY <1>1 DEF deleteAccount
  <2>4. LinksKept /\ MailsKept
    BY <2>3, KeptOrRemoved
  <2>5. CASE /\ Exists(u) /\ CanMove(u) /\ DeactivateUser(u) /\ EndSessions(u)
             /\ Start(b, [op |-> "left", user |-> u])
    <3>1. RowsTyped' /\ CutoffCounts' /\ Onward
      BY <2>4, <2>5, Statements, AccountWritten DEF AccountsInv
    <3>2. [op |-> "left", user |-> u] \in Request /\ "left" \notin Gated \cup {"open", "issue"}
      BY DEF Request, Gated
    <3>3. RequestsTyped' /\ RequestsDated'
      BY <2>1, <2>5, <3>1, <3>2, RequestStarts
    <3> QED
      BY <2>3, <3>1, <3>3, SessionsStay DEF AccountsInv
  <2>6. CASE Done(b) /\ UNCHANGED <<user, ended>>
    BY <2>1, <2>3, <2>6, PlainSteps
  <2> QED
    BY <1>1, <2>2, <2>5, <2>6 DEF deleteAccount
<1>2. ASSUME leftAccount(b) PROVE AccountsInv'
  <2>1. b \in Clients /\ req[b].user \in Users
    BY <1>2, RequestFields DEF leftAccount, Clients
  <2>2. PICK u \in Users : u = req[b].user
    BY <2>1
  <2>3. UNCHANGED <<link, token>> /\ CanMove(u) /\ Destroy(b) /\ Done(b)
    BY <1>2, <2>2 DEF leftAccount
  <2>4. LinksKept /\ MailsKept
    BY <2>3, KeptOrRemoved
  <2>5. RowsTyped' /\ CutoffCounts' /\ Onward
    <3>1. CASE Exists(u) /\ InvalidateSessions(u) /\ EndSessions(u)
      BY <2>3, <2>4, <3>1, Statements, AccountWritten DEF AccountsInv
    <3>2. CASE UNCHANGED <<user, ended>>
      BY <2>3, <3>2, RowsStay
    <3> QED
      BY <1>2, <2>2, <3>1, <3>2 DEF leftAccount
  <2> QED
    BY <2>1, <2>3, <2>5, RequestEnds, SessionDestroyed DEF AccountsInv
<1> QED
  BY <1>1, <1>2

LEMMA AdminSteps ==
    ASSUME AccountsInv, NEW a \in Admins, NEW u \in Users
    PROVE  /\ UserDeactivate(a, u) => AccountsInv'
           /\ UserResetPassword(a, u) => AccountsInv'
<1>1. ASSUME UserDeactivate(a, u) PROVE AccountsInv'
  <2>1. LinksKept /\ MailsKept
    BY <1>1, KeptOrRemoved DEF UserDeactivate
  <2>2. RowsTyped' /\ CutoffCounts' /\ Onward
    BY <1>1, <2>1, Statements, AccountWritten DEF UserDeactivate, AccountsInv
  <2> QED
    BY <1>1, <2>2, RequestsStay, SessionsStay DEF UserDeactivate, AccountsInv
<1>2. ASSUME UserResetPassword(a, u) PROVE AccountsInv'
  <2>1. LinksKept /\ MailsKept
    BY <1>2, KeptOrRemoved DEF UserResetPassword
  <2>2. RowsTyped' /\ CutoffCounts' /\ Onward
    BY <1>2, <2>1, Statements, AccountWritten DEF UserResetPassword, AccountsInv
  <2>3. RequestsTyped' /\ RequestsDated'
    BY <1>2, <2>2, RequestStarts, MailAsked DEF UserResetPassword, Clients, Kinds
  <2> QED
    BY <1>2, <2>2, <2>3, SessionsStay DEF UserResetPassword, AccountsInv
<1> QED
  BY <1>1, <1>2

-----------------------------------------------------------------------------
(* Links, deletion, crashes                                                  *)

LEMMA LinkStep ==
    ASSUME AccountsInv, NEW b \in Browsers, LinkSocialInSession(b) PROVE AccountsInv'
<1>1. b \in Clients /\ req[b].user \in Users
  BY RequestFields DEF LinkSocialInSession, Clients, Gated
<1>2. UNCHANGED <<user, token, ended>> /\ UNCHANGED sess /\ Done(b)
  BY DEF LinkSocialInSession
<1>3. RowsTyped'
  <2>1. CASE UNCHANGED link
    BY <1>2, <2>1, RowsStay
  <2>2. CASE ~UNCHANGED link
    <3>1. LinkRow(req[b].user, req[b].identity) /\ Exists(req[b].user)
      BY <2>2 DEF LinkSocialInSession, LinkSocial, SessionValid, Active, Exists
    <3>2. \A i \in Identities : link'[i] \in {link[i], req[b].user}
      BY <3>1 DEF LinkRow, AccountsInv, RowsTyped
    <3>3. link' \in [Identities -> Users \cup {None}]
      BY <1>1, <3>1 DEF LinkRow, AccountsInv, RowsTyped
    <3> QED
      BY <1>1, <1>2, <3>1, <3>2, <3>3 DEF AccountsInv, RowsTyped, Exists, Rows
  <2> QED
    BY <2>1, <2>2
<1>4. CutoffCounts' /\ Onward
  BY <1>2, CutoffsStay DEF Onward, NeverLess, Rows
<1> QED
  BY <1>1, <1>2, <1>3, <1>4, RequestEnds, SessionsStay DEF AccountsInv

LEMMA UnlinkStep ==
    ASSUME AccountsInv, NEW b \in Browsers, UnlinkSocial(b) PROVE AccountsInv'
<1>1. b \in Clients
  BY DEF Clients
<1>2. req[b].user \in Users /\ req[b].identity \in Identities \cup {None}
  BY <1>1, RequestFields DEF UnlinkSocial, Gated
<1>3. UNCHANGED <<user, token, ended>> /\ UNCHANGED sess /\ Done(b)
  BY DEF UnlinkSocial
<1>4. LinksKept /\ MailsKept
  BY <1>2, <1>3, KeptOrRemoved DEF UnlinkSocial
<1>5. RowsTyped'
  BY <1>3, <1>4, RowsWritten DEF AccountsInv, RowsTyped, LinksKept, MailsKept, Exists
<1>6. CutoffCounts' /\ Onward
  BY <1>3, CutoffsStay DEF Onward, NeverLess, Rows
<1> QED
  BY <1>1, <1>3, <1>5, <1>6, RequestEnds, SessionsStay DEF AccountsInv

\* What names the account goes with its row, and none of it is being burnt.
LEMMA DeleteStep ==
    ASSUME AccountsInv, NEW a \in Admins, NEW u \in Users, DeleteUser(a, u)
    PROVE  AccountsInv'
<1>1. UNCHANGED <<sess, req, ended>>
  BY DEF DeleteUser
<1>2. /\ user' \in [Users -> UserRow]
      /\ \A v \in Users : v # u => user'[v] = user[v]
      /\ \A v \in Users : user'[v].cutoff = user[v].cutoff
  BY ZenonT(60) DEF DeleteUser, AccountsInv, RowsTyped, UserRow
<1>3. /\ token' \in [Tokens -> TokenRow]
      /\ \A t \in Rows' : t \in Rows /\ token'[t] = token[t] /\ token[t].user # u
      /\ \A t \in Rows : token[t].user # u => t \in Rows'
  <2>1. NoToken \in TokenRow /\ NoToken.state = "free"
    BY DEF NoToken, TokenRow, Kinds
  <2> QED
    BY <2>1 DEF DeleteUser, AccountsInv, RowsTyped, Rows
<1>4. /\ link' \in [Identities -> Users \cup {None}]
      /\ \A i \in Identities : link'[i] # None => link'[i] = link[i] /\ link[i] # u
  BY DEF DeleteUser, UnlinkAllSocial, AccountsInv, RowsTyped
<1>5. RowsTyped'
  <2>1. ASSUME NEW i \in Identities, link'[i] # None
        PROVE  user'[link'[i]].state \in {"active", "inactive"}
    BY <1>2, <1>4, <2>1 DEF AccountsInv, RowsTyped, Exists
  <2>2. ASSUME NEW t \in Rows'
        PROVE  token'[t].user \in Users /\ user'[token'[t].user].state \in {"active", "inactive"}
    BY <1>2, <1>3, <2>2 DEF AccountsInv, RowsTyped, Exists
  <2> QED
    BY <1>2, <1>3, <1>4, <2>1, <2>2 DEF RowsTyped, Exists
<1>6. CutoffCounts' /\ \A v \in Users : NeverLess(ended[v], ended'[v])
  BY <1>1, <1>2, CutoffsStay
<1>7. RequestsTyped'
  <2>1. ASSUME NEW c \in Clients, req[c].op = "issue", NEW t \in req[c].burn PROVE t \in Rows'
    <3>1. t \in Rows /\ Burning(t)
      BY <2>1 DEF AccountsInv, RequestsTyped, Burning
    <3>2. token[t].user # u
      BY <3>1 DEF DeleteUser
    <3> QED
      BY <1>3, <3>1, <3>2
  <2> QED
    BY <1>1, <2>1 DEF AccountsInv, RequestsTyped
<1>8. RequestsDated' /\ SessionsDated'
  BY <1>1 DEF AccountsInv, RequestsDated, SessionsDated, Dated
<1> QED
  BY <1>5, <1>6, <1>7, <1>8 DEF AccountsInv

LEMMA CrashStep == ASSUME AccountsInv, Crash PROVE AccountsInv'
<1>1. RowsTyped' /\ CutoffCounts' /\ Onward
  BY RowsStay DEF Crash
<1>2. RequestsTyped' /\ RequestsDated'
  BY DEF Crash, RequestsTyped, RequestsDated, Idle, Request, Gated
<1> QED
  BY <1>1, <1>2, SessionsStay DEF Crash, AccountsInv
-----------------------------------------------------------------------------
(* The theorems                                                              *)

LEMMA InitAccounts == Init => AccountsInv
<1> SUFFICES ASSUME Init PROVE AccountsInv
  OBVIOUS
<1>1. 0 \in Count
  BY AccountsAssumption DEF Count
<1>2. RowsTyped /\ CutoffCounts
  BY <1>1 DEF Init, RowsTyped, CutoffCounts, UserRow, TokenRow, NoToken, Kinds, Rows
<1>3. RequestsTyped /\ RequestsDated
  BY DEF Init, RequestsTyped, RequestsDated, Idle, Request, Gated
<1>4. SessionsDated
  BY <1>1 DEF Init, SessionsDated, Session, Anonymous
<1> QED
  BY <1>2, <1>3, <1>4 DEF AccountsInv

LEMMA AccountsStep == AccountsInv /\ [Next]_vars => AccountsInv'
<1> SUFFICES ASSUME AccountsInv, [Next]_vars PROVE AccountsInv'
  OBVIOUS
<1>1. CASE Mail
  BY <1>1, BurnUnusedStep, MailSteps, IssueTokenStep, TokenSteps, ResetStep, SmallWrites DEF Mail
<1>2. CASE Visit
  <2>1. ASSUME NEW b \in Browsers, NEW op \in Gated \ {"link", "unlink"}, withActor(b, op, None)
        PROVE AccountsInv'
    BY <2>1, EnterStep
  <2>2. ASSUME NEW b \in Browsers, NEW i \in Identities, connectionsAction(b, i) PROVE AccountsInv'
    BY <2>2, EnterStep DEF connectionsAction, Gated
  <2> QED
    BY <1>2, <2>1, <2>2, SmallWrites, AuthenticateStep, OpenSessionStep, LogoutStep,
       SocialCallbackStep, ConfirmSteps, ChangeStep, LeaveSteps, SocialBeginStep,
       LinkStep, UnlinkStep DEF Visit
<1>3. CASE Administer
  BY <1>3, SmallWrites, AdminSteps, DeleteStep DEF Administer
<1>4. CASE Crash
  BY <1>4, CrashStep
<1>5. CASE UNCHANGED vars
  BY <1>5, PlainSteps DEF vars
<1> QED
  BY <1>1, <1>2, <1>3, <1>4, <1>5 DEF Next

\* What sessions and requests remember of the cutoff is never ahead of it.
THEOREM AccountsInductive == Spec => []AccountsInv
BY InitAccounts, AccountsStep, PTL DEF Spec

\* A session the gate accepts stands on a credential, or a session, checked after
\* the last time the account's sessions were ended (store.go:48-57).
THEOREM EndedSafe == Spec => []EndedStaysOut
<1>1. AccountsInv => EndedStaysOut
  <2>1. ASSUME AccountsInv, NEW b \in Browsers, Accepted(b)
        PROVE  sess[b].since = ended[sess[b].user]
    <3>1. sess[b].user \in Users /\ sess[b].authAt \in Nat /\ Dated(sess[b])
      BY <2>1, AccountsAssumption DEF Accepted, AccountsInv, SessionsDated, Session, Count
    <3>2. user[sess[b].user].cutoff = ended[sess[b].user] /\ ended[sess[b].user] \in Nat
      BY <2>1, <3>1, AccountsAssumption DEF AccountsInv, CutoffCounts, Count
    <3> QED
      BY <2>1, <3>1, <3>2 DEF Accepted, Dated
  <2> QED
    BY <2>1, InvTyped DEF EndedStaysOut
<1> QED
  BY <1>1, AccountsInductive, PTL

-----------------------------------------------------------------------------
\* A request is changed by its own steps only, or by a crash.
LEMMA OwnSteps ==
    ASSUME AccountsInv, NEW c \in Clients, NEW d \in Clients, NEW r, Start(c, r), c # d
    PROVE  req'[d] = req[d]
BY DEF Start, AccountsInv, RequestsTyped

\* A request that finds the cutoff not past what it remembers finds it equal.
LEMMA NotBehind ==
    ASSUME AccountsInv, NEW b \in Browsers, req[b].op \in Gated,
           user[req[b].user].cutoff <= req[b].authAt
    PROVE  req[b].since = ended[req[b].user]
<1>1. b \in Clients
  BY DEF Clients
<1>2. req[b].user \in Users /\ req[b].authAt \in Nat /\ Dated(req[b])
  BY <1>1, RequestFields, AccountsAssumption DEF AccountsInv, RequestsDated, Count
<1>3. user[req[b].user].cutoff = ended[req[b].user] /\ ended[req[b].user] \in Nat
  BY <1>2, AccountsAssumption DEF AccountsInv, CutoffCounts, Count
<1> QED
  BY <1>2, <1>3 DEF Dated

\* The step of a request that changes a password, or adds a link.
Changes(b) ==
    /\ req[b].op \in {"change", "link"}
    /\ req'[b] # req[b]
    /\ \/ user'[req[b].user].password \notin {None, user[req[b].user].password}
       \/ \E i \in Identities : link'[i] = req[b].user /\ link[i] # req[b].user

LEMMA ChangesInTime ==
    ASSUME AccountsInv, [Next]_vars, NEW b \in Browsers, Changes(b)
    PROVE  req[b].since = ended[req[b].user]
<1>0. /\ b \in Clients /\ req[b].op \in {"change", "link"}
      /\ req'[b] # req[b] /\ ~UNCHANGED <<user, link>>
  BY DEF Clients, Changes
<1>1. ASSUME NEW c \in Clients, NEW r, Start(c, r) PROVE c = b
  BY <1>0, <1>1, OwnSteps
<1>2. ~UNCHANGED req
  BY <1>0
<1>3. CASE Mail
  <2>1. ASSUME NEW c \in Browsers, verified(c) PROVE FALSE
    BY <1>0, <1>1, <2>1 DEF verified, Done, Clients
  <2> QED
    BY <1>0, <1>2, <1>3, <2>1 DEF Mail, BurnUnused, IssueFails, IssueToken, resetRequest,
       PassExpiry, resetPassword, ResetPassword, verify
<1>4. CASE Visit
  <2>1. ASSUME NEW c \in Browsers, NEW p \in Passwords, changePassword(c, p)
        PROVE  req[b].since = ended[req[b].user]
    <3>1. c = b
      BY <1>1, <2>1 DEF changePassword, Done, Clients
    <3>2. user[req[b].user].cutoff <= req[b].authAt
      BY <1>0, <2>1, <3>1 DEF changePassword, SetPassword
    <3> QED
      BY <1>0, <3>2, NotBehind, <2>1, <3>1 DEF changePassword, Gated
  <2>2. ASSUME NEW c \in Browsers, LinkSocialInSession(c)
        PROVE  req[b].since = ended[req[b].user]
    <3>1. c = b
      BY <1>1, <2>2 DEF LinkSocialInSession, Done, Clients
    <3>2. user[req[b].user].cutoff <= req[b].authAt
      BY <1>0, <2>2, <3>1 DEF LinkSocialInSession, SessionValid
    <3> QED
      BY <3>1, <3>2, <2>2, NotBehind DEF LinkSocialInSession, Gated
  <2>3. ASSUME NEW c \in Browsers, NEW u \in Users, NEW p \in Passwords, signup(c, u, p) PROVE FALSE
    <3>1. c = b
      BY <1>1, <1>2, <2>3 DEF signup, Clients
    <3> QED
      BY <1>0, <2>3, <3>1 DEF signup, Free, Idle
  <2>4. ASSUME NEW c \in Browsers, deleteAccount(c) \/ leftAccount(c) \/ UnlinkSocial(c) PROVE FALSE
    <3>1. c = b
      BY <1>1, <2>4 DEF deleteAccount, leftAccount, UnlinkSocial, Done, Clients
    <3> QED
      BY <1>0, <2>4, <3>1 DEF deleteAccount, leftAccount, UnlinkSocial
  <2> QED
    BY <1>0, <1>4, <2>1, <2>2, <2>3, <2>4 DEF Visit, Authenticate, OpenSession, logout,
       withActor, connectionsAction, socialCallback, confirmPassword, ownerConfirmed, socialBegin
<1>5. CASE Administer
  <2>1. ASSUME NEW a \in Admins, NEW u \in Users, UserResetPassword(a, u) PROVE FALSE
    BY <1>1, <2>1, AccountsAssumption DEF UserResetPassword, Clients
  <2> QED
    BY <1>2, <1>5, <2>1 DEF Administer, UserCreate, UserDeactivate, UserActivate, DeleteUser
<1>6. CASE Crash
  BY <1>0, <1>6 DEF Crash
<1> QED
  BY <1>0, <1>3, <1>4, <1>5, <1>6 DEF Next, vars

\* No password and no link is written for a session that was ended while the
\* request was on its way (token.go SetPassword, social.go LinkSocialInSession).
THEOREM CredentialsInTime == Spec => NoLateCredential
<1>1. AccountsInv /\ [Next]_vars =>
         [\A b \in Browsers : Changes(b) => req[b].since = ended[req[b].user]]_vars
  BY ChangesInTime
<1> QED
  BY <1>1, AccountsInductive, PTL DEF Spec, NoLateCredential, Changes
================================================================================
