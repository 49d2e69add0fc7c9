------------------------------ MODULE Accounts ------------------------------
(***************************************************************************)
(* Accounts, account links, browser sessions and API tokens: the rows of   *)
(* users, account_links, sessions and api_tokens, and the requests that    *)
(* change them.                                                            *)
(*                                                                         *)
(* A store method runs in one transaction, but a request is more than one  *)
(* of them.  A login verifies the password, reads the account again, and   *)
(* inserts the session, in three statements; setup and a link do the same  *)
(* after their transaction; a password change comes from a session that    *)
(* was checked before.  Whatever other requests do happens in between.     *)
(* A request is authorised before its transaction, by an account that may  *)
(* have changed since, so an administrator's changes come at any time.     *)
(***************************************************************************)
EXTENDS Naturals, FiniteSets

CONSTANTS
    Users,         \* accounts, ids never used again (AUTOINCREMENT)
    Handlers,      \* HTTP handlers whose request is under way
    Holders,       \* bound: accounts that may hold an API token
    MaxPasswords,  \* bound: passwords ever chosen
    MaxLinks,      \* bound: account links ever issued
    MaxSessions    \* bound: sessions ever opened

ASSUME AccountsAssumption ==
    /\ Users # {}
    /\ Holders \subseteq Users
    /\ MaxPasswords \in Nat
    /\ MaxLinks \in Nat
    /\ MaxSessions \in Nat

VARIABLES
    account,    \* users: [Users -> a row, and whether it is there]
    link,       \* account_links: [Links -> ...]
    session,    \* sessions: [Sessions -> ...]
    tokens,     \* accounts with an API token
    request,    \* [Handlers -> where the request stands]
    passwords,  \* passwords chosen so far, each another one
    setups,     \* history: how often setup was completed
    uses,       \* history: [Links -> how often a password was set with it]
    overtaken   \* history: accounts whose reset a password change undid

vars == <<account, link, session, tokens, request, passwords, setups, uses, overtaken>>

-----------------------------------------------------------------------------
Links == 1..MaxLinks
Sessions == 1..MaxSessions

\* An unusable password hash is password 0.
Account ==
    [status : {"none", "active", "disabled", "deleted"},
     role : {"admin", "other"}, reset : BOOLEAN, password : 0..MaxPasswords]

Link == [state : {"none", "unused", "used", "gone"}, user : Users, expired : BOOLEAN]

\* proof: the password that its holder has shown to know; late: it was not
\* the account's password any more when the session was inserted.
Session ==
    [state : {"none", "live", "gone"}, user : Users,
     proof : 0..MaxPasswords, late : BOOLEAN]

\* session: the one that a password change comes from.
Request ==
    [pc : {"idle", "check", "insert", "change"}, user : Users,
     proof : 0..MaxPasswords, session : 0..MaxSessions]

Exists(u) == account[u].status \in {"active", "disabled"}
SetupRequired == \A u \in Users : ~Exists(u)

\* History: setup was completed.
Started == ~\A u \in Users : account[u].status = "none"

ActiveAdmin(a) == a.status = "active" /\ a.role = "admin"

TypeOK ==
    /\ account \in [Users -> Account]
    /\ link \in [Links -> Link]
    /\ session \in [Sessions -> Session]
    /\ tokens \subseteq Holders
    /\ request \in [Handlers -> Request]
    /\ passwords \in 0..MaxPasswords
    /\ setups \in Nat
    /\ uses \in [Links -> Nat]
    /\ overtaken \subseteq Users

\* What REFERENCES users says of the rows.
ForeignKeys ==
    /\ \A l \in Links : link[l].state \in {"unused", "used"} => Exists(link[l].user)
    /\ \A s \in Sessions : session[s].state = "live" => Exists(session[s].user)
    /\ \A u \in tokens : Exists(u)

SomeUser == CHOOSE u \in Users : TRUE
Idle == [pc |-> "idle", user |-> SomeUser, proof |-> 0, session |-> 0]

\* Rows that are no longer there.
NoSession == [state |-> "gone", user |-> SomeUser, proof |-> 0, late |-> FALSE]
NoLink    == [state |-> "gone", user |-> SomeUser, expired |-> FALSE]
NoAccount == [status |-> "deleted", role |-> "other", reset |-> FALSE, password |-> 0]

Init ==
    /\ account = [u \in Users |-> [status |-> "none", role |-> "other",
                                   reset |-> FALSE, password |-> 0]]
    /\ link = [l \in Links |-> [state |-> "none", user |-> SomeUser, expired |-> FALSE]]
    /\ session = [s \in Sessions |-> [state |-> "none", user |-> SomeUser,
                                      proof |-> 0, late |-> FALSE]]
    /\ tokens = {}
    /\ request = [h \in Handlers |-> Idle]
    /\ passwords = 0
    /\ setups = 0
    /\ uses = [l \in Links |-> 0]
    /\ overtaken = {}

-----------------------------------------------------------------------------
(* What the transactions share.                                            *)

\* Mutant: a change made without a session to keep revokes none.
RevokedOthers(u, kept) ==
    [s \in Sessions |-> IF kept # 0 /\ session[s].user = u /\ session[s].state = "live" /\ s # kept
                        THEN NoSession ELSE session[s]]

\* DELETE FROM sessions WHERE user_id = u AND token_hash <> kept
Revoked(u, kept) ==
    [s \in Sessions |-> IF session[s].user = u /\ session[s].state = "live" /\ s # kept
                        THEN NoSession ELSE session[s]]

\* Mutant: the older links of the account stay as they are.
IssuedBeside(l, u) ==
    [link EXCEPT ![l] = [state |-> "unused", user |-> u, expired |-> FALSE]]

\* The older unused links of the account are marked used, and l inserted.
Issued(l, u) ==
    [k \in Links |->
        IF k = l THEN [state |-> "unused", user |-> u, expired |-> FALSE]
        ELSE IF link[k].state = "unused" /\ link[k].user = u
        THEN [link[k] EXCEPT !.state = "used"] ELSE link[k]]

IsNextLink(l) == link[l].state = "none" /\ \A k \in 1..l - 1 : link[k].state # "none"

\* accountLinkByTokenTx: the link can still be used.
Redeemable(l) ==
    /\ link[l].state = "unused"
    /\ ~link[l].expired
    /\ account[link[l].user].status = "active"

\* Mutant: used_at is not set.
RedeemedNot(l) == link

Redeemed(l) == [link EXCEPT ![l].state = "used"]

\* The row that is inserted: an account without a password waits for one.
NewAccount(role, p) ==
    [status |-> "active", role |-> role, reset |-> p = 0, password |-> p]

\* A new password is set, and the account may log in again.
WithPassword(u, p) ==
    [account EXCEPT ![u].password = p, ![u].reset = FALSE]

\* The session that a password change comes from, if it is still there.
Proven(row, p) == IF row.state = "live" THEN [row EXCEPT !.proof = p, !.late = FALSE] ELSE row

\* ON DELETE CASCADE
Cascaded(u) ==
    [l \in Links |-> IF link[l].user = u /\ link[l].state # "none" THEN NoLink ELSE link[l]]

\* Mutant: looks at the rows before the change.
HadAdmin(rows) == \E u \in Users : ActiveAdmin(account[u])

\* requireActiveAdminTx, on the rows as the transaction has changed them.
LeavesAdmin(rows) == \E u \in Users : ActiveAdmin(rows[u])

-----------------------------------------------------------------------------
(* Setup, login and sessions.                                              *)

Continue(h, u, p) ==
    request' = [request EXCEPT ![h] = [pc |-> "check", user |-> u, proof |-> p, session |-> 0]]

Answer(h) == request' = [request EXCEPT ![h] = Idle]

\* CreateFirstAdmin counts the rows of users in its transaction.
CreateFirstAdmin(u) ==
    /\ SetupRequired
    /\ account[u].status = "none"
    /\ passwords < MaxPasswords
    /\ passwords' = passwords + 1
    /\ account' = [account EXCEPT ![u] = NewAccount("admin", passwords')]
    /\ setups' = setups + 1
    /\ UNCHANGED <<link, session, tokens, uses, overtaken>>

Setup(h, u) ==
    /\ request[h].pc = "idle"
    /\ CreateFirstAdmin(u)
    /\ Continue(h, u, passwords')

\* A wrong password, and a disabled or pending account, change nothing.
Authenticates(u) ==
    /\ account[u].status = "active"
    /\ ~account[u].reset
    /\ account[u].password # 0

Login(h, u) ==
    /\ request[h].pc = "idle"
    /\ Authenticates(u)
    /\ Continue(h, u, account[u].password)
    /\ UNCHANGED <<account, link, session, tokens, passwords, setups, uses, overtaken>>

\* CreateSessionFor, up to its GetUser.
CheckAccount(h) ==
    LET u == request[h].user IN
    /\ request[h].pc = "check"
    /\ \/ /\ account[u].status = "active"
          /\ ~account[u].reset
          /\ request' = [request EXCEPT ![h].pc = "insert"]
       \/ /\ account[u].status # "active" \/ account[u].reset
          /\ Answer(h)
    /\ UNCHANGED <<account, link, session, tokens, passwords, setups, uses, overtaken>>

\* The INSERT of CreateSessionFor, which only a deleted account fails.
InsertSession(h) ==
    LET u == request[h].user IN
    /\ request[h].pc = "insert"
    /\ \/ \E s \in Sessions :
            /\ Exists(u)
            /\ session[s].state = "none" /\ \A r \in 1..s - 1 : session[r].state # "none"
            /\ session' = [session EXCEPT ![s] =
                 [state |-> "live", user |-> u, proof |-> request[h].proof,
                  late |-> request[h].proof # account[u].password]]
       \/ /\ ~Exists(u)
          /\ UNCHANGED session
    /\ Answer(h)
    /\ UNCHANGED <<account, link, tokens, passwords, setups, uses, overtaken>>

\* UserBySession: what a request with this session's cookie is taken for.
Usable(s) ==
    /\ session[s].state = "live"
    /\ account[session[s].user].status = "active"
    /\ ~account[session[s].user].reset

\* requireAuth and requireBrowserSession
Authorized(s) == ~SetupRequired /\ Usable(s)

\* The authorisation of an administrator, at some time in the past.
ByAdmin == Started

Logout(s) ==
    /\ Authorized(s)
    /\ session' = [session EXCEPT ![s] = NoSession]
    /\ UNCHANGED <<account, link, tokens, request, passwords, setups, uses, overtaken>>

\* expires_at passes, after which no query finds the row.
ExpireSession(s) ==
    /\ session[s].state = "live"
    /\ session' = [session EXCEPT ![s] = NoSession]
    /\ UNCHANGED <<account, link, tokens, request, passwords, setups, uses, overtaken>>

-----------------------------------------------------------------------------
(* Passwords and links.                                                    *)

\* handleMePassword is authorised, and carries the current password.
BeginChange(h, s) ==
    /\ request[h].pc = "idle"
    /\ Authorized(s)
    /\ request' = [request EXCEPT ![h] =
         [pc |-> "change", user |-> session[s].user,
          proof |-> account[session[s].user].password, session |-> s]]
    /\ UNCHANGED <<account, link, session, tokens, passwords, setups, uses, overtaken>>

\* ChangePassword does not look at password_reset_required.  The session
\* it comes from stays, and now stands for the new password.
ChangePassword(h) ==
    LET u == request[h].user
        s == request[h].session IN
    /\ request[h].pc = "change"
    /\ \/ /\ account[u].status = "active"
          /\ account[u].password = request[h].proof
          /\ passwords < MaxPasswords
          /\ passwords' = passwords + 1
          /\ account' = WithPassword(u, passwords')
          /\ session' = [Revoked(u, s) EXCEPT ![s] = Proven(@, passwords')]
          /\ overtaken' = IF account[u].reset THEN overtaken \cup {u} ELSE overtaken
       \/ /\ \/ account[u].status # "active"
             \/ account[u].password # request[h].proof
          /\ UNCHANGED <<account, session, passwords, overtaken>>
    /\ Answer(h)
    /\ UNCHANGED <<link, tokens, setups, uses>>

\* CreatePasswordResetLink, by an administrator
ResetPassword(u, l) ==
    /\ ByAdmin
    /\ account[u].status = "active"
    /\ IsNextLink(l)
    /\ link' = Issued(l, u)
    /\ account' = [account EXCEPT ![u].reset = TRUE]
    /\ session' = Revoked(u, 0)
    /\ overtaken' = overtaken \ {u}
    /\ UNCHANGED <<tokens, request, passwords, setups, uses>>

ConsumeAccountLink(l) ==
    LET u == link[l].user IN
    /\ Redeemable(l)
    /\ passwords < MaxPasswords
    /\ passwords' = passwords + 1
    /\ account' = WithPassword(u, passwords')
    /\ link' = Redeemed(l)
    /\ session' = Revoked(u, 0)
    /\ uses' = [uses EXCEPT ![l] = @ + 1]
    /\ UNCHANGED <<tokens, setups, overtaken>>

\* handleAccountLinkByToken opens a session for who has set the password.
RedeemLink(h, l) ==
    /\ request[h].pc = "idle"
    /\ ConsumeAccountLink(l)
    /\ Continue(h, link[l].user, passwords')

ExpireLink(l) ==
    /\ link[l].state = "unused"
    /\ ~link[l].expired
    /\ link' = [link EXCEPT ![l].expired = TRUE]
    /\ UNCHANGED <<account, session, tokens, request, passwords, setups, uses, overtaken>>

-----------------------------------------------------------------------------
(* Administration.                                                         *)

\* CreateUser, with a password assigned by the administrator.
CreateUser(u, role) ==
    /\ account[u].status = "none"
    /\ passwords < MaxPasswords
    /\ passwords' = passwords + 1
    /\ account' = [account EXCEPT ![u] = NewAccount(role, passwords')]
    /\ UNCHANGED <<link, session, tokens, request, setups, uses, overtaken>>

CreateUserWithSetupLink(u, role, l) ==
    /\ account[u].status = "none"
    /\ IsNextLink(l)
    /\ link' = Issued(l, u)
    /\ account' = [account EXCEPT ![u] = NewAccount(role, 0)]
    /\ UNCHANGED <<session, tokens, request, passwords, setups, uses, overtaken>>

\* UpdateUser, by HTTP never with a password: sessions stay, and so do the
\* links of an account that is disabled.
UpdateUser(u, role, status) ==
    LET rows == [account EXCEPT ![u].role = role, ![u].status = status] IN
    /\ Exists(u)
    /\ status \in {"active", "disabled"}
    /\ ActiveAdmin(account[u]) /\ ~ActiveAdmin(rows[u]) => LeavesAdmin(rows)
    /\ account' = rows
    /\ UNCHANGED <<link, session, tokens, request, passwords, setups, uses, overtaken>>

\* DeleteUser of an account without ticket history.  Links and tokens go
\* with it; its sessions stay without an account, and no query finds them.
DeleteUser(u) ==
    LET rows == [account EXCEPT ![u] = NoAccount] IN
    /\ Exists(u)
    /\ ActiveAdmin(account[u]) => LeavesAdmin(rows)
    /\ account' = rows
    /\ link' = Cascaded(u)
    /\ session' = Revoked(u, 0)
    /\ tokens' = tokens \ {u}
    /\ UNCHANGED <<request, passwords, setups, uses, overtaken>>

\* handleUsers and handleUserByID: what an administrator may ask for.
ManageUser(u) ==
    /\ ByAdmin
    /\ \/ \E role \in {"admin", "other"} :
            \/ CreateUser(u, role)
            \/ \E l \in Links : CreateUserWithSetupLink(u, role, l)
            \/ \E status \in {"active", "disabled"} : UpdateUser(u, role, status)
       \/ DeleteUser(u)

CreateAPIToken(u) ==
    /\ u \in Holders
    /\ account[u].status = "active"
    /\ tokens' = tokens \cup {u}
    /\ UNCHANGED <<account, link, session, request, passwords, setups, uses, overtaken>>

DeleteAPIToken(u) ==
    /\ u \in tokens
    /\ tokens' = tokens \ {u}
    /\ UNCHANGED <<account, link, session, request, passwords, setups, uses, overtaken>>

-----------------------------------------------------------------------------
Next ==
    \/ \E h \in Handlers :
         \/ \E u \in Users : Setup(h, u) \/ Login(h, u)
         \/ CheckAccount(h)
         \/ InsertSession(h)
         \/ \E s \in Sessions : BeginChange(h, s)
         \/ ChangePassword(h)
         \/ \E l \in Links : RedeemLink(h, l)
    \/ \E s \in Sessions : Logout(s) \/ ExpireSession(s)
    \/ \E l \in Links : ExpireLink(l)
    \/ \E u \in Users :
         \/ \E l \in Links : ResetPassword(u, l)
         \/ ManageUser(u)
         \/ CreateAPIToken(u)
         \/ DeleteAPIToken(u)

Spec == Init /\ [][Next]_vars

-----------------------------------------------------------------------------
(* Properties.                                                             *)

\* However administrators demote, disable and delete accounts, one another
\* and themselves, an active administrator is left (requireActiveAdminTx); so
\* setup is done once: no sequence of deletions makes CreateFirstAdmin find an
\* empty table again.
AdminRemains ==
    /\ Started => \E u \in Users : ActiveAdmin(account[u])
    /\ setups <= 1

\* An account that waits for its password has a link for it, which may have
\* expired; of the links of an account only the newest can be unused; and a
\* link sets a password once, however many requests carry it.
OneLinkIsLeft ==
    /\ \A u \in Users : Exists(u) /\ account[u].reset =>
         \E l \in Links : link[l].user = u /\ link[l].state = "unused"
    /\ \A l, k \in Links :
         /\ link[l].state = "unused"
         /\ link[k].state \in {"unused", "used"}
         /\ link[k].user = link[l].user
         => k <= l
    /\ \A l \in Links : uses[l] <= 1

\* An unused link belongs to an account that waits for its password, unless
\* a password change that was under way when the link was issued undid the
\* reset, which ChangePassword does not look at.
UnusedLinkIsAwaited ==
    \A l \in Links : link[l].state = "unused" =>
        account[link[l].user].reset \/ link[l].user \in overtaken

\* A session outlives a change of the password only if the change came from
\* it, or if its login had passed Authenticate before the change.
SessionsFollowPassword ==
    \A s \in Sessions : session[s].state = "live" =>
        session[s].late \/ session[s].proof = account[session[s].user].password
=============================================================================
