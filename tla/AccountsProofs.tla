--------------------------- MODULE AccountsProofs ---------------------------
(***************************************************************************)
(* Proofs about Accounts: what holds of accounts, links and sessions       *)
(* however many there are and however many requests are under way.         *)
(*                                                                         *)
(* The properties of Accounts are not inductive.  What they need besides:  *)
(* the rows refer to rows that are there (ForeignKeys), so that an account *)
(* number that is taken up brings no link and no session with it; links    *)
(* are numbered without gaps; and a password change knows a session of its *)
(* own account.                                                            *)
(***************************************************************************)
EXTENDS Accounts, TLAPS

\* The account that stands in rows that are not there is one.
LEMMA SomeUserIsOne == SomeUser \in Users
  BY AccountsAssumption DEF SomeUser

\* The administrator that is left keeps setup closed, whose account stays
\* written down.
AdminOK == AdminRemains /\ (setups > 0 => Started)

\* Links are numbered without gaps, so that a new one is the newest, and one
\* that was not used set no password.
LinksOK ==
    /\ OneLinkIsLeft
    /\ \A l \in Links : link[l].state = "none" => \A k \in l..MaxLinks : link[k].state = "none"
    /\ \A l \in Links : link[l].state \in {"none", "unused"} => uses[l] = 0

\* A password change comes from a session of the account it changes.
SessionsOK ==
    /\ SessionsFollowPassword
    /\ \A h \in Handlers : request[h].pc = "change" =>
         /\ request[h].session \in Sessions
         /\ session[request[h].session].state # "none"
         /\ session[request[h].session].state = "live" =>
              session[request[h].session].user = request[h].user

Inv == TypeOK /\ ForeignKeys /\ AdminOK /\ LinksOK /\ UnusedLinkIsAwaited /\ SessionsOK

\* What is left of the sessions after a password was changed from one of them.
ChangedSessions(u, kept, p) == [Revoked(u, kept) EXCEPT ![kept] = Proven(@, p)]

LEMMA SessionsAfterChange ==
  ASSUME TypeOK, NEW u \in Users, NEW kept, NEW p, session' = ChangedSessions(u, kept, p)
  PROVE  \A s \in Sessions :
           /\ session'[s].state = "live" =>
                /\ session[s].state = "live" /\ session'[s].user = session[s].user
                /\ s = kept => session'[s].proof = p
                /\ s # kept => session'[s] = session[s] /\ session[s].user # u
           /\ session[s].state # "none" => session'[s].state # "none"
<1> DEFINE rows == Revoked(u, kept)
<1>1. rows \in [Sessions -> Session]
  BY SomeUserIsOne, AccountsAssumption DEF TypeOK, Revoked, NoSession, Session
<1>2. \A s \in Sessions :
        /\ rows[s].state = "live" => rows[s] = session[s] /\ (s # kept => session[s].user # u)
        /\ session[s].state # "none" => rows[s].state # "none"
  BY DEF Revoked, NoSession, TypeOK, Session
<1>3. session' = [rows EXCEPT ![kept] = Proven(@, p)]
  BY DEF ChangedSessions
<1> HIDE DEF rows
<1>4. ASSUME NEW s \in Sessions, s = kept
      PROVE  /\ session'[s].state = rows[s].state /\ session'[s].user = rows[s].user
             /\ rows[s].state = "live" => session'[s].proof = p
  <2>1. session'[s] = Proven(rows[s], p) /\ rows[s] \in Session
    BY <1>1, <1>3, <1>4
  <2>2. CASE rows[s].state = "live"
    <3>1. session'[s] = [rows[s] EXCEPT !.proof = p, !.late = FALSE]
      BY <2>1, <2>2 DEF Proven
    <3> QED
      BY <2>1, <3>1 DEF Session
  <2>3. CASE rows[s].state # "live"
    BY <2>1, <2>3 DEF Proven
  <2> QED
    BY <2>2, <2>3
<1>5. ASSUME NEW s \in Sessions, s # kept PROVE session'[s] = rows[s]
  BY <1>1, <1>3, <1>5
<1> QED
  BY <1>2, <1>4, <1>5

-----------------------------------------------------------------------------
\* Each transaction writes rows of its table.
LEMMA TypeStep == TypeOK /\ [Next]_vars => TypeOK'
<1> SUFFICES ASSUME TypeOK, [Next]_vars PROVE TypeOK'
  OBVIOUS
<1>1. ASSUME NEW h \in Handlers, NEW u \in Users, Setup(h, u) PROVE TypeOK'
  <2>1. account' \in [Users -> Account]
    BY <1>1, AccountsAssumption DEF TypeOK, Setup, CreateFirstAdmin, NewAccount, Account
  <2>2. request' \in [Handlers -> Request]
    BY <1>1, AccountsAssumption DEF TypeOK, Setup, CreateFirstAdmin, Continue, Request
  <2> QED
    BY <1>1, <2>1, <2>2, AccountsAssumption DEF TypeOK, Setup, CreateFirstAdmin
<1>2. ASSUME NEW h \in Handlers, NEW u \in Users, Login(h, u) PROVE TypeOK'
  <2>1. request' \in [Handlers -> Request]
    BY <1>2, AccountsAssumption DEF TypeOK, Login, Continue, Account, Request
  <2> QED
    BY <1>2, <2>1 DEF TypeOK, Login
<1>3. ASSUME NEW h \in Handlers, CheckAccount(h) PROVE TypeOK'
  <2>1. request' \in [Handlers -> Request]
    <3>1. CASE request' = [request EXCEPT ![h].pc = "insert"]
      BY <3>1 DEF TypeOK, Request
    <3>2. CASE Answer(h)
      BY <3>2, SomeUserIsOne, AccountsAssumption DEF TypeOK, Answer, Idle, Request
    <3> QED
      BY <1>3, <3>1, <3>2 DEF CheckAccount
  <2> QED
    BY <1>3, <2>1 DEF TypeOK, CheckAccount
<1>4. ASSUME NEW h \in Handlers, InsertSession(h) PROVE TypeOK'
  <2>1. session' \in [Sessions -> Session]
    <3>1. request[h].user \in Users /\ request[h].proof \in 0..MaxPasswords
      BY DEF TypeOK, Request
    <3>2. ASSUME NEW s \in Sessions, NEW late \in BOOLEAN
          PROVE  [session EXCEPT ![s] = [state |-> "live", user |-> request[h].user,
                                         proof |-> request[h].proof, late |-> late]]
                     \in [Sessions -> Session]
      BY <3>1 DEF TypeOK, Session
    <3> QED
      BY <1>4, <3>2 DEF TypeOK, InsertSession
  <2>2. request' \in [Handlers -> Request]
    BY <1>4, AccountsAssumption, SomeUserIsOne DEF TypeOK, InsertSession, Answer, Idle,
       Request
  <2> QED
    BY <1>4, <2>1, <2>2 DEF TypeOK, InsertSession
<1>5. ASSUME NEW h \in Handlers, NEW s \in Sessions, BeginChange(h, s) PROVE TypeOK'
  <2>1. request' \in [Handlers -> Request]
    BY <1>5, AccountsAssumption DEF TypeOK, BeginChange, Sessions, Session, Account, Request
  <2> QED
    BY <1>5, <2>1 DEF TypeOK, BeginChange
<1>6. ASSUME NEW h \in Handlers, ChangePassword(h) PROVE TypeOK'
  <2>0. passwords' \in 0..MaxPasswords
    BY <1>6, AccountsAssumption DEF TypeOK, ChangePassword
  <2>1. account' \in [Users -> Account]
    BY <1>6, <2>0 DEF TypeOK, ChangePassword, WithPassword, Request, Account
  <2>2. session' \in [Sessions -> Session]
    <3>1. Revoked(request[h].user, request[h].session) \in [Sessions -> Session]
      BY SomeUserIsOne, AccountsAssumption DEF TypeOK, Revoked, NoSession, Session
    <3>2. ASSUME NEW r \in Session, NEW p \in 0..MaxPasswords
          PROVE  Proven(r, p) \in Session
      BY DEF Proven, Session
    <3>3. ASSUME NEW p \in 0..MaxPasswords, NEW s
          PROVE  [Revoked(request[h].user, request[h].session) EXCEPT ![s] = Proven(@, p)]
                     \in [Sessions -> Session]
      BY <3>1, <3>2
    <3> QED
      BY <1>6, <2>0, <3>3 DEF TypeOK, ChangePassword
  <2>3. request' \in [Handlers -> Request]
    BY <1>6, AccountsAssumption, SomeUserIsOne DEF TypeOK, ChangePassword, Answer, Idle,
       Request
  <2> QED
    BY <1>6, <2>1, <2>2, <2>3, AccountsAssumption, <2>0 DEF TypeOK, ChangePassword, Request
<1>7. ASSUME NEW h \in Handlers, NEW l \in Links, RedeemLink(h, l) PROVE TypeOK'
  <2>1. account' \in [Users -> Account]
    BY <1>7, AccountsAssumption, SMTT(30) DEF TypeOK, RedeemLink, ConsumeAccountLink,
       WithPassword, Redeemable, Link, Account
  <2>2. link' \in [Links -> Link]
    BY <1>7 DEF TypeOK, RedeemLink, ConsumeAccountLink, Redeemed, Link
  <2>3. session' \in [Sessions -> Session]
    BY <1>7, SomeUserIsOne, AccountsAssumption DEF TypeOK, RedeemLink, ConsumeAccountLink,
       Revoked, NoSession, Session
  <2>4. request' \in [Handlers -> Request]
    BY <1>7, AccountsAssumption DEF TypeOK, RedeemLink, ConsumeAccountLink, Continue, Link,
       Request
  <2>5. /\ passwords' \in 0..MaxPasswords /\ uses' \in [Links -> Nat]
      /\ UNCHANGED <<tokens, setups, overtaken>>
    BY <1>7, AccountsAssumption DEF TypeOK, RedeemLink, ConsumeAccountLink
  <2> QED
    BY <2>1, <2>2, <2>3, <2>4, <2>5 DEF TypeOK
<1>8. ASSUME NEW s \in Sessions, Logout(s) PROVE TypeOK'
  <2>1. session' \in [Sessions -> Session]
    BY <1>8, SomeUserIsOne, AccountsAssumption DEF TypeOK, Logout, NoSession, Session
  <2> QED
    BY <1>8, <2>1 DEF TypeOK, Logout
<1>9. ASSUME NEW s \in Sessions, ExpireSession(s) PROVE TypeOK'
  <2>1. session' \in [Sessions -> Session]
    BY <1>9, SomeUserIsOne, AccountsAssumption DEF TypeOK, ExpireSession, NoSession, Session
  <2> QED
    BY <1>9, <2>1 DEF TypeOK, ExpireSession
<1>10. ASSUME NEW l \in Links, ExpireLink(l) PROVE TypeOK'
  <2>1. link' \in [Links -> Link]
    BY <1>10 DEF TypeOK, ExpireLink, Link
  <2> QED
    BY <1>10, <2>1 DEF TypeOK, ExpireLink
<1>11. ASSUME NEW u \in Users, NEW l \in Links, ResetPassword(u, l) PROVE TypeOK'
  <2>1. account' \in [Users -> Account]
    BY <1>11 DEF TypeOK, ResetPassword, Account
  <2>2. link' \in [Links -> Link]
    BY <1>11 DEF TypeOK, ResetPassword, Issued, Link
  <2>3. session' \in [Sessions -> Session]
    BY <1>11, SomeUserIsOne, AccountsAssumption DEF TypeOK, ResetPassword, Revoked,
       NoSession, Session
  <2> QED
    BY <1>11, <2>1, <2>2, <2>3 DEF TypeOK, ResetPassword
<1>12. ASSUME NEW u \in Users, NEW role \in {"admin", "other"}, Started,
             CreateUser(u, role) PROVE TypeOK'
  <2>1. account' \in [Users -> Account]
    BY <1>12, AccountsAssumption DEF TypeOK, CreateUser, NewAccount, Account
  <2> QED
    BY <1>12, <2>1, AccountsAssumption DEF TypeOK, CreateUser
<1>13. ASSUME NEW u \in Users, NEW role \in {"admin", "other"}, NEW l \in Links, Started,
            CreateUserWithSetupLink(u, role, l) PROVE TypeOK'
  <2>1. account' \in [Users -> Account]
    BY <1>13, AccountsAssumption DEF TypeOK, CreateUserWithSetupLink, NewAccount, Account
  <2>2. link' \in [Links -> Link]
    BY <1>13, AccountsAssumption DEF TypeOK, CreateUserWithSetupLink, Issued, Link
  <2> QED
    BY <1>13, <2>1, <2>2 DEF TypeOK, CreateUserWithSetupLink
<1>14. ASSUME NEW u \in Users, NEW role \in {"admin", "other"},
             NEW status \in {"active", "disabled"}, Started, UpdateUser(u, role, status) PROVE TypeOK'
  <2>1. account' \in [Users -> Account]
    BY <1>14 DEF TypeOK, UpdateUser, Account
  <2> QED
    BY <1>14, <2>1 DEF TypeOK, UpdateUser
<1>15. ASSUME NEW u \in Users, Started, DeleteUser(u) PROVE TypeOK'
  <2>1. account' \in [Users -> Account]
    BY <1>15, AccountsAssumption DEF TypeOK, DeleteUser, NoAccount, Account
  <2>2. link' \in [Links -> Link]
    BY <1>15, AccountsAssumption, SomeUserIsOne DEF TypeOK, DeleteUser, Cascaded, NoLink,
       Link
  <2>3. session' \in [Sessions -> Session]
    BY <1>15, SomeUserIsOne, AccountsAssumption DEF TypeOK, DeleteUser, Revoked, NoSession,
       Session
  <2> QED
    BY <1>15, <2>1, <2>2, <2>3 DEF TypeOK, DeleteUser
<1>16. ASSUME NEW u \in Users, CreateAPIToken(u) PROVE TypeOK'
  BY <1>16 DEF TypeOK, CreateAPIToken
<1>17. ASSUME NEW u \in Users, DeleteAPIToken(u) PROVE TypeOK'
  BY <1>17 DEF TypeOK, DeleteAPIToken
<1>18. ASSUME UNCHANGED vars PROVE TypeOK'
  BY <1>18 DEF TypeOK, vars
<1> QED
  BY <1>1, <1>2, <1>3, <1>4, <1>5, <1>6, <1>7, <1>8, <1>9, <1>10, <1>11, <1>12, <1>13,
     <1>14, <1>15, <1>16, <1>17, <1>18 DEF Next, ManageUser, ByAdmin

\* A row that refers to an account goes with it, or is made while it is there.
LEMMA ForeignKeysStep == TypeOK /\ ForeignKeys /\ [Next]_vars => ForeignKeys'
<1> SUFFICES ASSUME TypeOK, ForeignKeys, [Next]_vars PROVE ForeignKeys'
  OBVIOUS
<1>1. ASSUME NEW h \in Handlers, NEW u \in Users, Setup(h, u) PROVE ForeignKeys'
  BY <1>1 DEF Setup, CreateFirstAdmin, Continue, NewAccount, ForeignKeys, Exists, TypeOK,
     Account, Link, Session, Request, Sessions
<1>2. ASSUME NEW h \in Handlers, NEW u \in Users, Login(h, u) PROVE ForeignKeys'
  BY <1>2 DEF Login, ForeignKeys, Exists
<1>3. ASSUME NEW h \in Handlers, CheckAccount(h) PROVE ForeignKeys'
  BY <1>3 DEF CheckAccount, ForeignKeys, Exists
<1>4. ASSUME NEW h \in Handlers, InsertSession(h) PROVE ForeignKeys'
  <2>1. \A s \in Sessions : session'[s].state = "live" =>
          session'[s] = session[s] \/ (session'[s].user = request[h].user /\ Exists(request[h].user))
    <3>1. CASE UNCHANGED session
      BY <3>1
    <3>2. CASE session' # session
      <4>1. PICK r \in Sessions :
              /\ Exists(request[h].user)
              /\ session' = [session EXCEPT ![r] =
                   [state |-> "live", user |-> request[h].user, proof |-> request[h].proof,
                    late |-> request[h].proof # account[request[h].user].password]]
        BY <1>4, <3>2 DEF InsertSession
      <4> QED
        BY <4>1 DEF TypeOK
    <3> QED
      BY <3>1, <3>2
  <2>2. \A u \in Users : Exists(u)' <=> Exists(u)
    BY <1>4 DEF InsertSession, Exists
  <2>3. request[h].user \in Users /\ \A s \in Sessions : session[s].user \in Users
    BY DEF TypeOK, Request, Session
  <2> QED
    BY <1>4, <2>1, <2>2, <2>3, AccountsAssumption DEF InsertSession, ForeignKeys, TypeOK,
       Link
<1>5. ASSUME NEW h \in Handlers, NEW s \in Sessions, BeginChange(h, s) PROVE ForeignKeys'
  BY <1>5 DEF BeginChange, ForeignKeys, Exists
<1>6. ASSUME NEW h \in Handlers, ChangePassword(h) PROVE ForeignKeys'
  <2>1. \A u \in Users : Exists(u) => Exists(u)'
    BY <1>6 DEF ChangePassword, WithPassword, Exists, TypeOK, Account
  <2>0. \A s \in Sessions : session'[s].state = "live" =>
          session[s].state = "live" /\ session'[s].user = session[s].user
    <3>1. request[h].user \in Users
      BY DEF TypeOK, Request
    <3>2. CASE session' = ChangedSessions(request[h].user, request[h].session, passwords')
      BY <3>1, <3>2, SessionsAfterChange
    <3>3. CASE UNCHANGED session
      BY <3>3
    <3> QED
      BY <1>6, <3>2, <3>3 DEF ChangePassword, ChangedSessions
  <2>2. (\A k \in Links : link[k].state \in {"unused", "used"} => Exists(link[k].user))'
    BY <1>6, <2>1 DEF ForeignKeys, ChangePassword, TypeOK, Link
  <2>3. (\A s \in Sessions : session[s].state = "live" => Exists(session[s].user))'
    BY <1>6, <2>1, <2>0 DEF ForeignKeys, ChangePassword, TypeOK, Session
  <2>4. (\A v \in tokens : Exists(v))'
    BY <1>6, <2>1, AccountsAssumption DEF ForeignKeys, ChangePassword, TypeOK
  <2> QED
    BY <2>2, <2>3, <2>4 DEF ForeignKeys
<1>7. ASSUME NEW h \in Handlers, NEW l \in Links, RedeemLink(h, l) PROVE ForeignKeys'
  <2>1. \A u \in Users : Exists(u) => Exists(u)'
    BY <1>7 DEF RedeemLink, ConsumeAccountLink, WithPassword, Exists, TypeOK, Account, Link
  <2>0. \A s \in Sessions : session'[s].state = "live" =>
          session[s].state = "live" /\ session'[s].user = session[s].user
    BY <1>7 DEF RedeemLink, ConsumeAccountLink, Revoked, NoSession, TypeOK, Session
  <2>2. (\A k \in Links : link[k].state \in {"unused", "used"} => Exists(link[k].user))'
    BY <1>7, <2>1 DEF ForeignKeys, RedeemLink, ConsumeAccountLink, Redeemable, Redeemed,
       TypeOK, Link
  <2>3. (\A s \in Sessions : session[s].state = "live" => Exists(session[s].user))'
    BY <1>7, <2>1, <2>0 DEF ForeignKeys, RedeemLink, ConsumeAccountLink, Redeemable,
       Redeemed, TypeOK, Session
  <2>4. (\A v \in tokens : Exists(v))'
    BY <1>7, <2>1, AccountsAssumption DEF ForeignKeys, RedeemLink, ConsumeAccountLink,
       Redeemable, Redeemed, TypeOK
  <2> QED
    BY <2>2, <2>3, <2>4 DEF ForeignKeys
<1>8. ASSUME NEW s \in Sessions, Logout(s) PROVE ForeignKeys'
  BY <1>8 DEF Logout, NoSession, ForeignKeys, Exists, TypeOK, Account, Link, Session,
     Request, Sessions
<1>9. ASSUME NEW s \in Sessions, ExpireSession(s) PROVE ForeignKeys'
  BY <1>9 DEF ExpireSession, NoSession, ForeignKeys, Exists, TypeOK, Account, Link, Session,
     Request, Sessions
<1>10. ASSUME NEW l \in Links, ExpireLink(l) PROVE ForeignKeys'
  BY <1>10 DEF ExpireLink, ForeignKeys, Exists, TypeOK, Account, Link, Session, Request,
     Sessions
<1>11. ASSUME NEW u \in Users, NEW l \in Links, ResetPassword(u, l) PROVE ForeignKeys'
  BY <1>11 DEF ResetPassword, ByAdmin, IsNextLink, Issued, Revoked, NoSession, ForeignKeys,
     Exists, TypeOK, Account, Link, Session, Request, Sessions
<1>12. ASSUME NEW u \in Users, NEW role \in {"admin", "other"}, Started,
             CreateUser(u, role) PROVE ForeignKeys'
  BY <1>12 DEF CreateUser, NewAccount, ForeignKeys, Exists, TypeOK, Account, Link, Session,
     Request, Sessions
<1>13. ASSUME NEW u \in Users, NEW role \in {"admin", "other"}, NEW l \in Links, Started,
            CreateUserWithSetupLink(u, role, l) PROVE ForeignKeys'
  BY <1>13 DEF CreateUserWithSetupLink, NewAccount, IsNextLink, Issued, ForeignKeys, Exists,
     TypeOK, Account, Link, Session, Request, Sessions
<1>14. ASSUME NEW u \in Users, NEW role \in {"admin", "other"},
             NEW status \in {"active", "disabled"}, Started, UpdateUser(u, role, status) PROVE ForeignKeys'
  <2>1. \A v \in Users : Exists(v) => Exists(v)'
    BY <1>14 DEF UpdateUser, Exists, TypeOK, Account
  <2>2. (\A k \in Links : link[k].state \in {"unused", "used"} => Exists(link[k].user))'
    BY <1>14, <2>1 DEF ForeignKeys, UpdateUser, TypeOK, Link
  <2>3. (\A s \in Sessions : session[s].state = "live" => Exists(session[s].user))'
    BY <1>14, <2>1 DEF ForeignKeys, UpdateUser, TypeOK, Session
  <2>4. (\A v \in tokens : Exists(v))'
    BY <1>14, <2>1, AccountsAssumption DEF ForeignKeys, UpdateUser, TypeOK
  <2> QED
    BY <2>2, <2>3, <2>4 DEF ForeignKeys
<1>15. ASSUME NEW u \in Users, Started, DeleteUser(u) PROVE ForeignKeys'
  BY <1>15 DEF DeleteUser, NoAccount, Cascaded, NoLink, Revoked, NoSession, ForeignKeys,
     Exists, TypeOK, Account, Link, Session, Request, Sessions
<1>16. ASSUME NEW u \in Users, CreateAPIToken(u) PROVE ForeignKeys'
  BY <1>16 DEF CreateAPIToken, ForeignKeys, Exists, TypeOK, Account, Link, Session, Request,
     Sessions
<1>17. ASSUME NEW u \in Users, DeleteAPIToken(u) PROVE ForeignKeys'
  BY <1>17 DEF DeleteAPIToken, ForeignKeys, Exists, TypeOK, Account, Link, Session, Request,
     Sessions
<1>18. ASSUME UNCHANGED vars PROVE ForeignKeys'
  BY <1>18 DEF vars, ForeignKeys, Exists
<1> QED
  BY <1>1, <1>2, <1>3, <1>4, <1>5, <1>6, <1>7, <1>8, <1>9, <1>10, <1>11, <1>12, <1>13,
     <1>14, <1>15, <1>16, <1>17, <1>18 DEF Next, ManageUser, ByAdmin

\* The rows a transaction has changed hold an administrator, or it fails.
LEMMA AdminStep == TypeOK /\ AdminOK /\ [Next]_vars => AdminOK'
<1> SUFFICES ASSUME TypeOK, AdminOK, [Next]_vars PROVE AdminOK'
  OBVIOUS
<1>1. ASSUME NEW h \in Handlers, NEW u \in Users, Setup(h, u) PROVE AdminOK'
  BY <1>1, AccountsAssumption DEF Setup, CreateFirstAdmin, Continue, NewAccount, AdminOK,
     AdminRemains, Started, ActiveAdmin, Exists, LeavesAdmin, SetupRequired, TypeOK, Account
<1>2. ASSUME NEW h \in Handlers, NEW u \in Users, Login(h, u) PROVE AdminOK'
  BY <1>2 DEF Login, AdminOK, AdminRemains, Started, ActiveAdmin
<1>3. ASSUME NEW h \in Handlers, CheckAccount(h) PROVE AdminOK'
  BY <1>3 DEF CheckAccount, AdminOK, AdminRemains, Started, ActiveAdmin
<1>4. ASSUME NEW h \in Handlers, InsertSession(h) PROVE AdminOK'
  BY <1>4 DEF InsertSession, AdminOK, AdminRemains, Started, ActiveAdmin
<1>5. ASSUME NEW h \in Handlers, NEW s \in Sessions, BeginChange(h, s) PROVE AdminOK'
  BY <1>5 DEF BeginChange, AdminOK, AdminRemains, Started, ActiveAdmin
<1>6. ASSUME NEW h \in Handlers, ChangePassword(h) PROVE AdminOK'
  <2>1. \A v \in Users :
          account'[v].status = account[v].status /\ account'[v].role = account[v].role
    BY <1>6 DEF ChangePassword, WithPassword, TypeOK, Account
  <2>2. setups' = setups
    BY <1>6 DEF ChangePassword
  <2>3. Started' = Started
    BY <2>1 DEF Started
  <2>4. \A v \in Users : ActiveAdmin(account'[v]) = ActiveAdmin(account[v])
    BY <2>1 DEF ActiveAdmin
  <2> QED
    BY <2>2, <2>3, <2>4 DEF AdminOK, AdminRemains
<1>7. ASSUME NEW h \in Handlers, NEW l \in Links, RedeemLink(h, l) PROVE AdminOK'
  <2>1. \A v \in Users :
          account'[v].status = account[v].status /\ account'[v].role = account[v].role
    BY <1>7 DEF RedeemLink, ConsumeAccountLink, WithPassword, TypeOK, Account
  <2>2. setups' = setups
    BY <1>7 DEF RedeemLink, ConsumeAccountLink
  <2>3. Started' = Started
    BY <2>1 DEF Started
  <2>4. \A v \in Users : ActiveAdmin(account'[v]) = ActiveAdmin(account[v])
    BY <2>1 DEF ActiveAdmin
  <2> QED
    BY <2>2, <2>3, <2>4 DEF AdminOK, AdminRemains
<1>8. ASSUME NEW s \in Sessions, Logout(s) PROVE AdminOK'
  BY <1>8 DEF Logout, AdminOK, AdminRemains, Started, ActiveAdmin
<1>9. ASSUME NEW s \in Sessions, ExpireSession(s) PROVE AdminOK'
  BY <1>9 DEF ExpireSession, AdminOK, AdminRemains, Started, ActiveAdmin
<1>10. ASSUME NEW l \in Links, ExpireLink(l) PROVE AdminOK'
  BY <1>10 DEF ExpireLink, AdminOK, AdminRemains, Started, ActiveAdmin
<1>11. ASSUME NEW u \in Users, NEW l \in Links, ResetPassword(u, l) PROVE AdminOK'
  BY <1>11, AccountsAssumption DEF ResetPassword, ByAdmin, IsNextLink, Issued, Revoked,
     NoSession, AdminOK, AdminRemains, Started, ActiveAdmin, Exists, LeavesAdmin,
     SetupRequired, TypeOK, Account
<1>12. ASSUME NEW u \in Users, NEW role \in {"admin", "other"}, Started,
             CreateUser(u, role) PROVE AdminOK'
  BY <1>12, AccountsAssumption DEF CreateUser, NewAccount, AdminOK, AdminRemains, Started,
     ActiveAdmin, Exists, LeavesAdmin, SetupRequired, TypeOK, Account
<1>13. ASSUME NEW u \in Users, NEW role \in {"admin", "other"}, NEW l \in Links, Started,
            CreateUserWithSetupLink(u, role, l) PROVE AdminOK'
  BY <1>13, AccountsAssumption DEF CreateUserWithSetupLink, NewAccount, IsNextLink, Issued,
     AdminOK, AdminRemains, Started, ActiveAdmin, Exists, LeavesAdmin, SetupRequired,
     TypeOK, Account
<1>14. ASSUME NEW u \in Users, NEW role \in {"admin", "other"},
             NEW status \in {"active", "disabled"}, Started, UpdateUser(u, role, status) PROVE AdminOK'
  BY <1>14, AccountsAssumption DEF UpdateUser, AdminOK, AdminRemains, Started, ActiveAdmin,
     Exists, LeavesAdmin, SetupRequired, TypeOK, Account
<1>15. ASSUME NEW u \in Users, Started, DeleteUser(u) PROVE AdminOK'
  BY <1>15, AccountsAssumption DEF DeleteUser, NoAccount, Cascaded, NoLink, Revoked,
     NoSession, AdminOK, AdminRemains, Started, ActiveAdmin, Exists, LeavesAdmin,
     SetupRequired, TypeOK, Account
<1>16. ASSUME NEW u \in Users, CreateAPIToken(u) PROVE AdminOK'
  BY <1>16 DEF CreateAPIToken, AdminOK, AdminRemains, Started, ActiveAdmin
<1>17. ASSUME NEW u \in Users, DeleteAPIToken(u) PROVE AdminOK'
  BY <1>17 DEF DeleteAPIToken, AdminOK, AdminRemains, Started, ActiveAdmin
<1>18. ASSUME UNCHANGED vars PROVE AdminOK'
  BY <1>18 DEF vars, AdminOK, AdminRemains, Started, ActiveAdmin
<1> QED
  BY <1>1, <1>2, <1>3, <1>4, <1>5, <1>6, <1>7, <1>8, <1>9, <1>10, <1>11, <1>12, <1>13,
     <1>14, <1>15, <1>16, <1>17, <1>18 DEF Next, ManageUser, ByAdmin

\* A new link takes the place of the older ones, and a used one stays used.
LEMMA LinksStep == TypeOK /\ ForeignKeys /\ LinksOK /\ [Next]_vars => LinksOK'
<1> SUFFICES ASSUME TypeOK, ForeignKeys, LinksOK, [Next]_vars PROVE LinksOK'
  OBVIOUS
<1>1. ASSUME NEW h \in Handlers, NEW u \in Users, Setup(h, u) PROVE LinksOK'
  <2>1. (\A v \in Users : Exists(v) /\ account[v].reset =>
          \E k \in Links : link[k].user = v /\ link[k].state = "unused")'
    <3>1. passwords' # 0 /\ account' = [account EXCEPT ![u] = NewAccount("admin", passwords')]
      BY <1>1, AccountsAssumption DEF Setup, CreateFirstAdmin, TypeOK
    <3>2. \A v \in Users : (Exists(v) /\ account[v].reset)' => Exists(v) /\ account[v].reset
      BY <3>1 DEF Exists, NewAccount, TypeOK, Account
    <3> QED
      BY <1>1, <3>2 DEF Setup, CreateFirstAdmin, LinksOK, OneLinkIsLeft
  <2>2. (\A k, j \in Links :
          /\ link[k].state = "unused"
          /\ link[j].state \in {"unused", "used"}
          /\ link[j].user = link[k].user
          => j <= k)'
    BY <1>1 DEF Setup, CreateFirstAdmin, LinksOK, OneLinkIsLeft
  <2>3. (\A k \in Links : uses[k] <= 1 /\ (link[k].state \in {"none", "unused"} => uses[k] = 0))'
    BY <1>1 DEF Setup, CreateFirstAdmin, LinksOK, OneLinkIsLeft
  <2>4. (\A k \in Links : link[k].state = "none" => \A j \in k..MaxLinks : link[j].state = "none")'
    BY <1>1 DEF Setup, CreateFirstAdmin, LinksOK, OneLinkIsLeft
  <2> QED
    BY <2>1, <2>2, <2>3, <2>4 DEF LinksOK, OneLinkIsLeft
<1>2. ASSUME NEW h \in Handlers, NEW u \in Users, Login(h, u) PROVE LinksOK'
  BY <1>2 DEF Login, LinksOK, OneLinkIsLeft, Exists
<1>3. ASSUME NEW h \in Handlers, CheckAccount(h) PROVE LinksOK'
  BY <1>3 DEF CheckAccount, LinksOK, OneLinkIsLeft, Exists
<1>4. ASSUME NEW h \in Handlers, InsertSession(h) PROVE LinksOK'
  BY <1>4 DEF InsertSession, LinksOK, OneLinkIsLeft, Exists
<1>5. ASSUME NEW h \in Handlers, NEW s \in Sessions, BeginChange(h, s) PROVE LinksOK'
  BY <1>5 DEF BeginChange, LinksOK, OneLinkIsLeft, Exists
<1>6. ASSUME NEW h \in Handlers, ChangePassword(h) PROVE LinksOK'
  <2>1. link' = link /\ uses' = uses
    BY <1>6 DEF ChangePassword
  <2>2. \A v \in Users :
          account'[v].status = account[v].status /\ (account'[v].reset => account[v].reset)
    BY <1>6 DEF ChangePassword, WithPassword, TypeOK, Account
  <2> QED
    BY <2>1, <2>2 DEF LinksOK, OneLinkIsLeft, Exists
<1>7. ASSUME NEW h \in Handlers, NEW l \in Links, RedeemLink(h, l) PROVE LinksOK'
  <2>1. (\A v \in Users : Exists(v) /\ account[v].reset =>
          \E k \in Links : link[k].user = v /\ link[k].state = "unused")'
    BY <1>7 DEF RedeemLink, ConsumeAccountLink, WithPassword, Redeemed, LinksOK,
       OneLinkIsLeft, Exists, TypeOK, Account, Link
  <2>2. (\A k, j \in Links :
          /\ link[k].state = "unused"
          /\ link[j].state \in {"unused", "used"}
          /\ link[j].user = link[k].user
          => j <= k)'
    BY <1>7 DEF RedeemLink, ConsumeAccountLink, Redeemed, Redeemable, LinksOK,
       OneLinkIsLeft, TypeOK, Link
  <2>3. (\A k \in Links : uses[k] <= 1 /\ (link[k].state \in {"none", "unused"} => uses[k] = 0))'
    BY <1>7 DEF RedeemLink, ConsumeAccountLink, Redeemed, Redeemable, LinksOK,
       OneLinkIsLeft, TypeOK, Link
  <2>4. (\A k \in Links : link[k].state = "none" => \A j \in k..MaxLinks : link[j].state = "none")'
    BY <1>7 DEF RedeemLink, ConsumeAccountLink, Redeemed, Redeemable, LinksOK, Links,
       TypeOK, Link
  <2> QED
    BY <2>1, <2>2, <2>3, <2>4 DEF LinksOK, OneLinkIsLeft
<1>8. ASSUME NEW s \in Sessions, Logout(s) PROVE LinksOK'
  BY <1>8 DEF Logout, LinksOK, OneLinkIsLeft, Exists
<1>9. ASSUME NEW s \in Sessions, ExpireSession(s) PROVE LinksOK'
  <2>1. (\A v \in Users : Exists(v) /\ account[v].reset =>
          \E k \in Links : link[k].user = v /\ link[k].state = "unused")'
    BY <1>9, AccountsAssumption DEF ExpireSession, LinksOK, OneLinkIsLeft, Exists,
       NewAccount, TypeOK, Account
  <2>2. (\A k, j \in Links :
          /\ link[k].state = "unused"
          /\ link[j].state \in {"unused", "used"}
          /\ link[j].user = link[k].user
          => j <= k)'
    BY <1>9 DEF ExpireSession, LinksOK, OneLinkIsLeft
  <2>3. (\A k \in Links : uses[k] <= 1 /\ (link[k].state \in {"none", "unused"} => uses[k] = 0))'
    BY <1>9 DEF ExpireSession, LinksOK, OneLinkIsLeft
  <2>4. (\A k \in Links : link[k].state = "none" => \A j \in k..MaxLinks : link[j].state = "none")'
    BY <1>9 DEF ExpireSession, LinksOK, OneLinkIsLeft
  <2> QED
    BY <2>1, <2>2, <2>3, <2>4 DEF LinksOK, OneLinkIsLeft
<1>10. ASSUME NEW l \in Links, ExpireLink(l) PROVE LinksOK'
  BY <1>10, AccountsAssumption, SMTT(30) DEF ExpireLink, LinksOK, OneLinkIsLeft, Exists,
     Links, TypeOK, Account, Link, Session, Request, Sessions
<1>11. ASSUME NEW u \in Users, NEW l \in Links, ResetPassword(u, l) PROVE LinksOK'
  <2>0. /\ link' = Issued(l, u) /\ link[l].state = "none" /\ \A k \in 1..l - 1 : link[k].state # "none"
        /\ UNCHANGED uses
    BY <1>11 DEF ResetPassword, IsNextLink
  <2>5. \A k \in Links :
          /\ k = l => link'[k].state = "unused" /\ link'[k].user = u
          /\ k # l => link'[k].user = link[k].user
          /\ k # l /\ link[k].state = "unused" /\ link[k].user # u => link'[k].state = "unused"
          /\ k # l /\ link'[k].state = "unused" => link[k].state = "unused" /\ link[k].user # u
          /\ k # l /\ link'[k].state = "used" => link[k].state \in {"unused", "used"}
          /\ k # l => (link'[k].state = "none" <=> link[k].state = "none")
    BY <2>0 DEF Issued, TypeOK, Link
  <2>6. \A k \in Links : k > l => link[k].state = "none"
    BY <2>0, AccountsAssumption DEF LinksOK, Links
  <2>1. (\A v \in Users : Exists(v) /\ account[v].reset =>
          \E k \in Links : link[k].user = v /\ link[k].state = "unused")'
    <3>1. ASSUME NEW v \in Users, v # u, (Exists(v) /\ account[v].reset)'
          PROVE  (\E k \in Links : link[k].user = v /\ link[k].state = "unused")'
      <4>1. Exists(v) /\ account[v].reset
        BY <1>11, <3>1 DEF ResetPassword, Exists, TypeOK, Account
      <4>2. PICK k \in Links : link[k].user = v /\ link[k].state = "unused"
        BY <4>1 DEF LinksOK, OneLinkIsLeft
      <4> QED
        BY <2>0, <2>5, <3>1, <4>2
    <3> QED
      BY <2>5, <3>1
  <2>2. (\A k, j \in Links :
          /\ link[k].state = "unused"
          /\ link[j].state \in {"unused", "used"}
          /\ link[j].user = link[k].user
          => j <= k)'
    BY <2>0, <2>5, <2>6 DEF LinksOK, OneLinkIsLeft, Links
  <2>3. (\A k \in Links : uses[k] <= 1 /\ (link[k].state \in {"none", "unused"} => uses[k] = 0))'
    BY <2>0, <2>5 DEF LinksOK, OneLinkIsLeft
  <2>4. (\A k \in Links : link[k].state = "none" => \A j \in k..MaxLinks : link[j].state = "none")'
    BY <2>0, <2>5, <2>6, AccountsAssumption DEF LinksOK, OneLinkIsLeft, Links
  <2> QED
    BY <2>1, <2>2, <2>3, <2>4 DEF LinksOK, OneLinkIsLeft
<1>12. ASSUME NEW u \in Users, NEW role \in {"admin", "other"}, Started,
             CreateUser(u, role) PROVE LinksOK'
  <2>1. (\A v \in Users : Exists(v) /\ account[v].reset =>
          \E k \in Links : link[k].user = v /\ link[k].state = "unused")'
    <3>1. passwords' # 0 /\ account' = [account EXCEPT ![u] = NewAccount(role, passwords')]
      BY <1>12, AccountsAssumption DEF CreateUser, TypeOK
    <3>2. \A v \in Users : (Exists(v) /\ account[v].reset)' => Exists(v) /\ account[v].reset
      BY <3>1 DEF Exists, NewAccount, TypeOK, Account
    <3> QED
      BY <1>12, <3>2 DEF CreateUser, LinksOK, OneLinkIsLeft
  <2>2. (\A k, j \in Links :
          /\ link[k].state = "unused"
          /\ link[j].state \in {"unused", "used"}
          /\ link[j].user = link[k].user
          => j <= k)'
    BY <1>12 DEF CreateUser, LinksOK, OneLinkIsLeft
  <2>3. (\A k \in Links : uses[k] <= 1 /\ (link[k].state \in {"none", "unused"} => uses[k] = 0))'
    BY <1>12 DEF CreateUser, LinksOK, OneLinkIsLeft
  <2>4. (\A k \in Links : link[k].state = "none" => \A j \in k..MaxLinks : link[j].state = "none")'
    BY <1>12 DEF CreateUser, LinksOK, OneLinkIsLeft
  <2> QED
    BY <2>1, <2>2, <2>3, <2>4 DEF LinksOK, OneLinkIsLeft
<1>13. ASSUME NEW u \in Users, NEW role \in {"admin", "other"}, NEW l \in Links, Started,
            CreateUserWithSetupLink(u, role, l) PROVE LinksOK'
  <2>0. /\ link' = Issued(l, u) /\ link[l].state = "none" /\ \A k \in 1..l - 1 : link[k].state # "none"
        /\ UNCHANGED uses
    BY <1>13 DEF CreateUserWithSetupLink, IsNextLink
  <2>5. \A k \in Links :
          /\ k = l => link'[k].state = "unused" /\ link'[k].user = u
          /\ k # l => link'[k].user = link[k].user
          /\ k # l /\ link[k].state = "unused" /\ link[k].user # u => link'[k].state = "unused"
          /\ k # l /\ link'[k].state = "unused" => link[k].state = "unused" /\ link[k].user # u
          /\ k # l /\ link'[k].state = "used" => link[k].state \in {"unused", "used"}
          /\ k # l => (link'[k].state = "none" <=> link[k].state = "none")
    BY <2>0 DEF Issued, TypeOK, Link
  <2>6. \A k \in Links : k > l => link[k].state = "none"
    BY <2>0, AccountsAssumption DEF LinksOK, Links
  <2>1. (\A v \in Users : Exists(v) /\ account[v].reset =>
          \E k \in Links : link[k].user = v /\ link[k].state = "unused")'
    <3>1. ASSUME NEW v \in Users, v # u, (Exists(v) /\ account[v].reset)'
          PROVE  (\E k \in Links : link[k].user = v /\ link[k].state = "unused")'
      <4>1. Exists(v) /\ account[v].reset
        BY <1>13, <3>1 DEF CreateUserWithSetupLink, Exists, TypeOK, Account
      <4>2. PICK k \in Links : link[k].user = v /\ link[k].state = "unused"
        BY <4>1 DEF LinksOK, OneLinkIsLeft
      <4> QED
        BY <2>0, <2>5, <3>1, <4>2
    <3> QED
      BY <2>5, <3>1
  <2>2. (\A k, j \in Links :
          /\ link[k].state = "unused"
          /\ link[j].state \in {"unused", "used"}
          /\ link[j].user = link[k].user
          => j <= k)'
    BY <2>0, <2>5, <2>6 DEF LinksOK, OneLinkIsLeft, Links
  <2>3. (\A k \in Links : uses[k] <= 1 /\ (link[k].state \in {"none", "unused"} => uses[k] = 0))'
    BY <2>0, <2>5 DEF LinksOK, OneLinkIsLeft
  <2>4. (\A k \in Links : link[k].state = "none" => \A j \in k..MaxLinks : link[j].state = "none")'
    BY <2>0, <2>5, <2>6, AccountsAssumption DEF LinksOK, OneLinkIsLeft, Links
  <2> QED
    BY <2>1, <2>2, <2>3, <2>4 DEF LinksOK, OneLinkIsLeft
<1>14. ASSUME NEW u \in Users, NEW role \in {"admin", "other"},
             NEW status \in {"active", "disabled"}, Started, UpdateUser(u, role, status) PROVE LinksOK'
  BY <1>14, AccountsAssumption DEF UpdateUser, LinksOK, OneLinkIsLeft, Exists, Links,
     TypeOK, Account, Link, Session, Request, Sessions
<1>15. ASSUME NEW u \in Users, Started, DeleteUser(u) PROVE LinksOK'
  BY <1>15, AccountsAssumption DEF DeleteUser, NoAccount, Cascaded, NoLink, Revoked,
     NoSession, LinksOK, OneLinkIsLeft, Exists, Links, TypeOK, Account, Link, Session,
     Request, Sessions
<1>16. ASSUME NEW u \in Users, CreateAPIToken(u) PROVE LinksOK'
  BY <1>16 DEF CreateAPIToken, LinksOK, OneLinkIsLeft, Exists
<1>17. ASSUME NEW u \in Users, DeleteAPIToken(u) PROVE LinksOK'
  BY <1>17 DEF DeleteAPIToken, LinksOK, OneLinkIsLeft, Exists
<1>18. ASSUME UNCHANGED vars PROVE LinksOK'
  BY <1>18 DEF vars, LinksOK, OneLinkIsLeft, Exists
<1> QED
  BY <1>1, <1>2, <1>3, <1>4, <1>5, <1>6, <1>7, <1>8, <1>9, <1>10, <1>11, <1>12, <1>13,
     <1>14, <1>15, <1>16, <1>17, <1>18 DEF Next, ManageUser, ByAdmin

\* Setting a password resets one account, and uses up its only unused link.
LEMMA AwaitedStep == TypeOK /\ ForeignKeys /\ LinksOK /\ UnusedLinkIsAwaited /\ [Next]_vars => UnusedLinkIsAwaited'
<1> SUFFICES ASSUME TypeOK, ForeignKeys, LinksOK, UnusedLinkIsAwaited, [Next]_vars PROVE UnusedLinkIsAwaited'
  OBVIOUS
<1>1. ASSUME NEW h \in Handlers, NEW u \in Users, Setup(h, u) PROVE UnusedLinkIsAwaited'
  BY <1>1, AccountsAssumption DEF Setup, CreateFirstAdmin, Continue, NewAccount,
     UnusedLinkIsAwaited, LinksOK, OneLinkIsLeft, ForeignKeys, Exists, Links, TypeOK,
     Account, Link, Session, Request, Sessions
<1>2. ASSUME NEW h \in Handlers, NEW u \in Users, Login(h, u) PROVE UnusedLinkIsAwaited'
  BY <1>2 DEF Login, UnusedLinkIsAwaited
<1>3. ASSUME NEW h \in Handlers, CheckAccount(h) PROVE UnusedLinkIsAwaited'
  BY <1>3 DEF CheckAccount, UnusedLinkIsAwaited
<1>4. ASSUME NEW h \in Handlers, InsertSession(h) PROVE UnusedLinkIsAwaited'
  BY <1>4 DEF InsertSession, UnusedLinkIsAwaited
<1>5. ASSUME NEW h \in Handlers, NEW s \in Sessions, BeginChange(h, s) PROVE UnusedLinkIsAwaited'
  BY <1>5 DEF BeginChange, UnusedLinkIsAwaited
<1>6. ASSUME NEW h \in Handlers, ChangePassword(h) PROVE UnusedLinkIsAwaited'
  <2>1. link' = link
    BY <1>6 DEF ChangePassword
  <2>2. \A v \in Users : v \notin overtaken' =>
          v \notin overtaken /\ (account[v].reset => account'[v].reset)
    BY <1>6 DEF ChangePassword, WithPassword, TypeOK, Account
  <2>3. \A k \in Links : link[k].user \in Users
    BY DEF TypeOK, Link
  <2> QED
    BY <2>1, <2>2, <2>3 DEF UnusedLinkIsAwaited
<1>7. ASSUME NEW h \in Handlers, NEW l \in Links, RedeemLink(h, l) PROVE UnusedLinkIsAwaited'
  <2>1. \A k \in Links : link'[k].state = "unused" =>
          link[k].state = "unused" /\ link'[k].user = link[k].user /\ link[k].user # link[l].user
    BY <1>7 DEF RedeemLink, ConsumeAccountLink, Redeemable, Redeemed, LinksOK,
       OneLinkIsLeft, TypeOK, Link, Links
  <2>2. \A v \in Users : v # link[l].user => account'[v] = account[v]
    BY <1>7 DEF RedeemLink, ConsumeAccountLink, WithPassword, TypeOK
  <2> QED
    BY <1>7, <2>1, <2>2 DEF RedeemLink, ConsumeAccountLink, UnusedLinkIsAwaited, TypeOK,
       Link
<1>8. ASSUME NEW s \in Sessions, Logout(s) PROVE UnusedLinkIsAwaited'
  BY <1>8 DEF Logout, UnusedLinkIsAwaited
<1>9. ASSUME NEW s \in Sessions, ExpireSession(s) PROVE UnusedLinkIsAwaited'
  BY <1>9 DEF ExpireSession, UnusedLinkIsAwaited
<1>10. ASSUME NEW l \in Links, ExpireLink(l) PROVE UnusedLinkIsAwaited'
  BY <1>10, AccountsAssumption DEF ExpireLink, UnusedLinkIsAwaited, LinksOK, OneLinkIsLeft,
     ForeignKeys, Exists, Links, TypeOK, Account, Link, Session, Request, Sessions
<1>11. ASSUME NEW u \in Users, NEW l \in Links, ResetPassword(u, l) PROVE UnusedLinkIsAwaited'
  BY <1>11, AccountsAssumption DEF ResetPassword, ByAdmin, IsNextLink, Issued, Revoked,
     NoSession, UnusedLinkIsAwaited, LinksOK, OneLinkIsLeft, ForeignKeys, Exists, Links,
     TypeOK, Account, Link, Session, Request, Sessions
<1>12. ASSUME NEW u \in Users, NEW role \in {"admin", "other"}, Started,
             CreateUser(u, role) PROVE UnusedLinkIsAwaited'
  BY <1>12, AccountsAssumption DEF CreateUser, NewAccount, UnusedLinkIsAwaited, LinksOK,
     OneLinkIsLeft, ForeignKeys, Exists, Links, TypeOK, Account, Link, Session, Request,
     Sessions
<1>13. ASSUME NEW u \in Users, NEW role \in {"admin", "other"}, NEW l \in Links, Started,
            CreateUserWithSetupLink(u, role, l) PROVE UnusedLinkIsAwaited'
  <2>1. \A k \in Links : link'[k].state = "unused" =>
          link'[k].user = u \/ (link[k].state = "unused" /\ link'[k].user = link[k].user)
    BY <1>13 DEF CreateUserWithSetupLink, Issued
  <2>2. account'[u].reset /\ \A v \in Users : v # u => account'[v] = account[v]
    BY <1>13 DEF CreateUserWithSetupLink, NewAccount, TypeOK
  <2> QED
    BY <1>13, <2>1, <2>2 DEF CreateUserWithSetupLink, UnusedLinkIsAwaited, TypeOK, Link
<1>14. ASSUME NEW u \in Users, NEW role \in {"admin", "other"},
             NEW status \in {"active", "disabled"}, Started, UpdateUser(u, role, status) PROVE UnusedLinkIsAwaited'
  BY <1>14, AccountsAssumption DEF UpdateUser, UnusedLinkIsAwaited, LinksOK, OneLinkIsLeft,
     ForeignKeys, Exists, Links, TypeOK, Account, Link, Session, Request, Sessions
<1>15. ASSUME NEW u \in Users, Started, DeleteUser(u) PROVE UnusedLinkIsAwaited'
  BY <1>15, AccountsAssumption DEF DeleteUser, NoAccount, Cascaded, NoLink, Revoked,
     NoSession, UnusedLinkIsAwaited, LinksOK, OneLinkIsLeft, ForeignKeys, Exists, Links,
     TypeOK, Account, Link, Session, Request, Sessions
<1>16. ASSUME NEW u \in Users, CreateAPIToken(u) PROVE UnusedLinkIsAwaited'
  BY <1>16 DEF CreateAPIToken, UnusedLinkIsAwaited
<1>17. ASSUME NEW u \in Users, DeleteAPIToken(u) PROVE UnusedLinkIsAwaited'
  BY <1>17 DEF DeleteAPIToken, UnusedLinkIsAwaited
<1>18. ASSUME UNCHANGED vars PROVE UnusedLinkIsAwaited'
  BY <1>18 DEF vars, UnusedLinkIsAwaited
<1> QED
  BY <1>1, <1>2, <1>3, <1>4, <1>5, <1>6, <1>7, <1>8, <1>9, <1>10, <1>11, <1>12, <1>13,
     <1>14, <1>15, <1>16, <1>17, <1>18 DEF Next, ManageUser, ByAdmin

\* A new password leaves the sessions of other accounts, and the one it comes from.
LEMMA SessionsStep == TypeOK /\ ForeignKeys /\ SessionsOK /\ [Next]_vars => SessionsOK'
<1> SUFFICES ASSUME TypeOK, ForeignKeys, SessionsOK, [Next]_vars PROVE SessionsOK'
  OBVIOUS
<1>1. ASSUME NEW h \in Handlers, NEW u \in Users, Setup(h, u) PROVE SessionsOK'
  BY <1>1, AccountsAssumption DEF Setup, CreateFirstAdmin, Continue, NewAccount, SessionsOK,
     SessionsFollowPassword, ForeignKeys, Exists, TypeOK, Account, Link, Session, Request,
     Sessions
<1>2. ASSUME NEW h \in Handlers, NEW u \in Users, Login(h, u) PROVE SessionsOK'
  BY <1>2, AccountsAssumption DEF Login, Continue, Authenticates, SessionsOK,
     SessionsFollowPassword, ForeignKeys, Exists, TypeOK, Account, Link, Session, Request,
     Sessions
<1>3. ASSUME NEW h \in Handlers, CheckAccount(h) PROVE SessionsOK'
  <2>0. \A g \in Handlers : request'[g].pc = "change" => request'[g] = request[g]
    BY <1>3 DEF CheckAccount, Answer, Idle, TypeOK, Request
  <2>1. SessionsFollowPassword'
    BY <1>3 DEF CheckAccount, SessionsOK, SessionsFollowPassword
  <2>2. (\A g \in Handlers : request[g].pc = "change" =>
          /\ request[g].session \in Sessions
          /\ session[request[g].session].state # "none"
          /\ session[request[g].session].state = "live" =>
               session[request[g].session].user = request[g].user)'
    BY <1>3, <2>0 DEF CheckAccount, SessionsOK
  <2> QED
    BY <2>1, <2>2 DEF SessionsOK
<1>4. ASSUME NEW h \in Handlers, InsertSession(h) PROVE SessionsOK'
  <2>0. \A g \in Handlers : request'[g].pc = "change" => request'[g] = request[g]
    BY <1>4 DEF InsertSession, Answer, Idle, TypeOK, Request
  <2>3. CASE UNCHANGED session
    <3>1. SessionsFollowPassword'
      BY <1>4, <2>3 DEF InsertSession, SessionsOK, SessionsFollowPassword
    <3>2. (\A g \in Handlers : request[g].pc = "change" =>
          /\ request[g].session \in Sessions
          /\ session[request[g].session].state # "none"
          /\ session[request[g].session].state = "live" =>
               session[request[g].session].user = request[g].user)'
      BY <1>4, <2>0, <2>3 DEF InsertSession, SessionsOK
    <3> QED
      BY <3>1, <3>2 DEF SessionsOK
  <2>4. CASE session' # session
    <3>1. PICK r \in Sessions :
            /\ session[r].state = "none"
            /\ session' = [session EXCEPT ![r] =
                 [state |-> "live", user |-> request[h].user, proof |-> request[h].proof,
                  late |-> request[h].proof # account[request[h].user].password]]
      BY <1>4, <2>4 DEF InsertSession
    <3>2. SessionsFollowPassword'
      BY <1>4, <3>1 DEF InsertSession, SessionsOK, SessionsFollowPassword, TypeOK
    <3>3. (\A g \in Handlers : request[g].pc = "change" =>
          /\ request[g].session \in Sessions
          /\ session[request[g].session].state # "none"
          /\ session[request[g].session].state = "live" =>
               session[request[g].session].user = request[g].user)'
      BY <1>4, <2>0, <3>1 DEF InsertSession, SessionsOK, TypeOK
    <3> QED
      BY <3>2, <3>3 DEF SessionsOK
  <2> QED
    BY <2>3, <2>4
<1>5. ASSUME NEW h \in Handlers, NEW s \in Sessions, BeginChange(h, s) PROVE SessionsOK'
  BY <1>5, AccountsAssumption DEF BeginChange, Authorized, Usable, SessionsOK,
     SessionsFollowPassword, ForeignKeys, Exists, TypeOK, Account, Link, Session, Request,
     Sessions
<1>6. ASSUME NEW h \in Handlers, ChangePassword(h) PROVE SessionsOK'
  <2>0. \A g \in Handlers : request'[g].pc = "change" => request'[g] = request[g]
    BY <1>6 DEF ChangePassword, Answer, Idle, TypeOK, Request
  <2>3. CASE UNCHANGED session /\ UNCHANGED account
    <3>1. SessionsFollowPassword'
      BY <1>6, <2>3 DEF SessionsOK, SessionsFollowPassword
    <3>2. (\A g \in Handlers : request[g].pc = "change" =>
          /\ request[g].session \in Sessions
          /\ session[request[g].session].state # "none"
          /\ session[request[g].session].state = "live" =>
               session[request[g].session].user = request[g].user)'
      BY <1>6, <2>0, <2>3 DEF SessionsOK
    <3> QED
      BY <3>1, <3>2 DEF SessionsOK
  <2>4. CASE /\ account' = WithPassword(request[h].user, passwords')
             /\ session' = ChangedSessions(request[h].user, request[h].session, passwords')
    <3>1. request[h].user \in Users /\ \A s \in Sessions : session[s].user \in Users
      BY DEF TypeOK, Request, Session
    <3>2. account'[request[h].user].password = passwords'
          /\ \A u \in Users \ {request[h].user} : account'[u] = account[u]
      BY <2>4, <3>1 DEF WithPassword, TypeOK, Account
    <3>3. \A s \in Sessions :
            /\ session'[s].state = "live" =>
                 /\ session[s].state = "live" /\ session'[s].user = session[s].user
                 /\ s = request[h].session => session'[s].proof = passwords'
                 /\ s # request[h].session =>
                      session'[s] = session[s] /\ session[s].user # request[h].user
            /\ session[s].state # "none" => session'[s].state # "none"
      BY <2>4, <3>1, SessionsAfterChange
    <3>4. SessionsFollowPassword'
      BY <1>6, <3>1, <3>2, <3>3 DEF ChangePassword, SessionsOK, SessionsFollowPassword
    <3>5. (\A g \in Handlers : request[g].pc = "change" =>
          /\ request[g].session \in Sessions
          /\ session[request[g].session].state # "none"
          /\ session[request[g].session].state = "live" =>
               session[request[g].session].user = request[g].user)'
      BY <2>0, <3>3 DEF SessionsOK
    <3> QED
      BY <3>4, <3>5 DEF SessionsOK
  <2> QED
    BY <1>6, <2>3, <2>4 DEF ChangePassword, ChangedSessions
<1>7. ASSUME NEW h \in Handlers, NEW l \in Links, RedeemLink(h, l) PROVE SessionsOK'
  <2>0. \A g \in Handlers : request'[g].pc = "change" => request'[g] = request[g]
    BY <1>7 DEF RedeemLink, ConsumeAccountLink, Continue, TypeOK, Request
  <2>3. link[l].user \in Users /\ \A s \in Sessions : session[s].user \in Users
    BY DEF TypeOK, Link, Session
  <2>4. \A u \in Users : u # link[l].user => account'[u] = account[u]
    BY <1>7 DEF RedeemLink, ConsumeAccountLink, WithPassword, TypeOK
  <2>5. \A s \in Sessions :
          /\ session'[s].state = "live" => session'[s] = session[s] /\ session[s].user # link[l].user
          /\ session[s].state # "none" => session'[s].state # "none"
    BY <1>7, AccountsAssumption DEF RedeemLink, ConsumeAccountLink, Revoked, NoSession,
       Sessions
  <2>1. SessionsFollowPassword'
    BY <2>3, <2>4, <2>5 DEF SessionsOK, SessionsFollowPassword
  <2>2. (\A g \in Handlers : request[g].pc = "change" =>
          /\ request[g].session \in Sessions
          /\ session[request[g].session].state # "none"
          /\ session[request[g].session].state = "live" =>
               session[request[g].session].user = request[g].user)'
    BY <2>0, <2>5 DEF SessionsOK
  <2> QED
    BY <2>1, <2>2 DEF SessionsOK
<1>8. ASSUME NEW s \in Sessions, Logout(s) PROVE SessionsOK'
  BY <1>8, AccountsAssumption DEF Logout, NoSession, SessionsOK, SessionsFollowPassword,
     ForeignKeys, Exists, TypeOK, Account, Link, Session, Request, Sessions
<1>9. ASSUME NEW s \in Sessions, ExpireSession(s) PROVE SessionsOK'
  BY <1>9, AccountsAssumption DEF ExpireSession, NoSession, SessionsOK,
     SessionsFollowPassword, ForeignKeys, Exists, TypeOK, Account, Link, Session, Request,
     Sessions
<1>10. ASSUME NEW l \in Links, ExpireLink(l) PROVE SessionsOK'
  BY <1>10 DEF ExpireLink, SessionsOK, SessionsFollowPassword
<1>11. ASSUME NEW u \in Users, NEW l \in Links, ResetPassword(u, l) PROVE SessionsOK'
  BY <1>11, AccountsAssumption, SMTT(30) DEF ResetPassword, ByAdmin, IsNextLink, Issued,
     Revoked, NoSession, SessionsOK, SessionsFollowPassword, ForeignKeys, Exists, TypeOK,
     Account, Link, Session, Request, Sessions
<1>12. ASSUME NEW u \in Users, NEW role \in {"admin", "other"}, Started,
             CreateUser(u, role) PROVE SessionsOK'
  BY <1>12, AccountsAssumption DEF CreateUser, NewAccount, SessionsOK,
     SessionsFollowPassword, ForeignKeys, Exists, TypeOK, Account, Link, Session, Request,
     Sessions
<1>13. ASSUME NEW u \in Users, NEW role \in {"admin", "other"}, NEW l \in Links, Started,
            CreateUserWithSetupLink(u, role, l) PROVE SessionsOK'
  BY <1>13, AccountsAssumption DEF CreateUserWithSetupLink, NewAccount, IsNextLink, Issued,
     SessionsOK, SessionsFollowPassword, ForeignKeys, Exists, TypeOK, Account, Link,
     Session, Request, Sessions
<1>14. ASSUME NEW u \in Users, NEW role \in {"admin", "other"},
             NEW status \in {"active", "disabled"}, Started, UpdateUser(u, role, status) PROVE SessionsOK'
  BY <1>14, AccountsAssumption DEF UpdateUser, SessionsOK, SessionsFollowPassword,
     ForeignKeys, Exists, TypeOK, Account, Link, Session, Request, Sessions
<1>15. ASSUME NEW u \in Users, Started, DeleteUser(u) PROVE SessionsOK'
  BY <1>15, AccountsAssumption DEF DeleteUser, NoAccount, Cascaded, NoLink, Revoked,
     NoSession, SessionsOK, SessionsFollowPassword, ForeignKeys, Exists, TypeOK, Account,
     Link, Session, Request, Sessions
<1>16. ASSUME NEW u \in Users, CreateAPIToken(u) PROVE SessionsOK'
  BY <1>16 DEF CreateAPIToken, SessionsOK, SessionsFollowPassword
<1>17. ASSUME NEW u \in Users, DeleteAPIToken(u) PROVE SessionsOK'
  BY <1>17 DEF DeleteAPIToken, SessionsOK, SessionsFollowPassword
<1>18. ASSUME UNCHANGED vars PROVE SessionsOK'
  BY <1>18 DEF vars, SessionsOK, SessionsFollowPassword
<1> QED
  BY <1>1, <1>2, <1>3, <1>4, <1>5, <1>6, <1>7, <1>8, <1>9, <1>10, <1>11, <1>12, <1>13,
     <1>14, <1>15, <1>16, <1>17, <1>18 DEF Next, ManageUser, ByAdmin

-----------------------------------------------------------------------------
LEMMA InitInv == Init => Inv
<1> SUFFICES ASSUME Init PROVE Inv
  OBVIOUS
<1>1. TypeOK
  BY SomeUserIsOne, AccountsAssumption DEF Init, TypeOK, Account, Link, Session, Request, Idle
<1>2. ForeignKeys
  BY DEF Init, ForeignKeys
<1>3. AdminOK
  BY DEF Init, AdminOK, AdminRemains, Started
<1>4. LinksOK
  BY AccountsAssumption DEF Init, LinksOK, OneLinkIsLeft, Exists, Links
<1>5. UnusedLinkIsAwaited
  BY DEF Init, UnusedLinkIsAwaited
<1>6. SessionsOK
  BY DEF Init, SessionsOK, SessionsFollowPassword, Idle
<1> QED
  BY <1>1, <1>2, <1>3, <1>4, <1>5, <1>6 DEF Inv

LEMMA NextInv == Inv /\ [Next]_vars => Inv'
  BY TypeStep, ForeignKeysStep, AdminStep, LinksStep, AwaitedStep, SessionsStep DEF Inv

LEMMA Invariance == Spec => []Inv
  BY InitInv, NextInv, PTL DEF Spec

-----------------------------------------------------------------------------
\* The rows are what the schema says, and refer to rows that are there.
THEOREM TypeCorrect == Spec => [](TypeOK /\ ForeignKeys)
<1>1. Inv => TypeOK /\ ForeignKeys
  BY DEF Inv
<1> QED
  BY <1>1, Invariance, PTL

\* requireActiveAdminTx looks at the rows that the transaction has changed,
\* so an active administrator is left whoever is demoted, disabled or deleted,
\* and setup, which counts the accounts, is done once.
THEOREM AdministratorIsLeft == Spec => []AdminRemains
<1>1. Inv => AdminRemains
  BY DEF Inv, AdminOK
<1> QED
  BY <1>1, Invariance, PTL

\* A new link marks the older ones used and a used one stays used, in one
\* transaction each: an account has one way in, and each is used once.
THEOREM LinksWorkOnce == Spec => []OneLinkIsLeft
<1>1. Inv => OneLinkIsLeft
  BY DEF Inv, LinksOK
<1> QED
  BY <1>1, Invariance, PTL

\* A link in somebody's mailbox lets in nobody whose account does not wait
\* for it, but for a password change that overtook the reset.
THEOREM LinksAreAwaited == Spec => []UnusedLinkIsAwaited
<1>1. Inv => UnusedLinkIsAwaited
  BY DEF Inv
<1> QED
  BY <1>1, Invariance, PTL

\* Every change of a password revokes the sessions that do not know the new
\* one, in its transaction; a login past its check is the only exception.
THEOREM SessionsFollow == Spec => []SessionsFollowPassword
<1>1. Inv => SessionsFollowPassword
  BY DEF Inv, SessionsOK
<1> QED
  BY <1>1, Invariance, PTL
=============================================================================
