------------------------------ MODULE Accounts ------------------------------
(***************************************************************************)
(* Accounts, passwords and mailed links: the register, login, password and *)
(* address flows of identity/flows.py over identity/verification.py, the   *)
(* credentials and identity-tokens tables of identity/storage.py and the   *)
(* users table of identity/dynamo_hooks.py.                                *)
(*                                                                         *)
(* A request makes one store call per step.  The sweep that revokes a      *)
(* user's sessions is one step here: RefreshFamilies has its detail.  The  *)
(* login throttle is left out: LoginThrottle has it.                       *)
(***************************************************************************)
EXTENDS Integers, FiniteSets

CONSTANTS
    User,       \* ids create_user can mint
    Address,    \* lowercased e-mail addresses
    Password,
    Link,       \* mailed tokens, each standing for its hash too
    Family,    \* refresh families
    Requests,       \* concurrent requests
    NoUser, NoAddress, NoPassword, NoLink, NoSession,
    AccountOps         \* the operations this instance exercises

\* A null is none of the values it stands for.
ASSUME NoneIsDistinct ==
    /\ NoUser \notin User /\ NoAddress \notin Address /\ NoPassword \notin Password
    /\ NoLink \notin Link /\ NoSession \notin Family

Purpose == {"verify_email", "reset_password", "change_email"}

Account == [there : BOOLEAN, address : Address \cup {NoAddress}, verified : BOOLEAN]
NoAccount == [there |-> FALSE, address |-> NoAddress, verified |-> FALSE]

\* bound is the address the user had when the link was asked for; a change of
\* address also carries where it leads and the session to spare.
Mailed == [purpose : Purpose, user : User, bound : Address,
           target : Address \cup {NoAddress}, spare : Family \cup {NoSession}, spent : BOOLEAN]
Unsent == [purpose |-> "none"]

Stage == {"idle", "create", "credential", "announce", "compare", "rehash", "start",
          "verify", "replace", "revoke", "taken?", "send", "spend", "bound?", "move", "mark"}

Request == [ at   : Stage,
             flow : {"none", "register", "login", "change"} \cup Purpose,
             user : User \cup {NoUser},
             seen : Account,                    \* the user's row when it was read
             pass : Password \cup {NoPassword}, \* presented, or to be hashed
             new  : Password \cup {NoPassword}, \* what a change sets
             addr : Address \cup {NoAddress},   \* asked for, or a link's target
             link : Link \cup {NoLink},
             spare : Family \cup {NoSession},
             overlapped : BOOLEAN ]             \* history: outrun by another request

NoRequest == [ at |-> "idle", flow |-> "none", user |-> NoUser, seen |-> NoAccount,
          pass |-> NoPassword, new |-> NoPassword, addr |-> NoAddress, link |-> NoLink,
          spare |-> NoSession, overlapped |-> FALSE ]

Started == [live : BOOLEAN, user : User, by : Password, overlapped : BOOLEAN, spared : BOOLEAN, unlisted : BOOLEAN]
Unstarted == [live |-> FALSE, user |-> NoUser]

VARIABLES
    user,       \* the users table
    secret,     \* password each credential row verifies, NoPassword without a row
    old,        \* users whose hash is due for needs_rehash
    link,       \* the identity-tokens table
    session,    \* the sessions, revoked ones included
    request,        \* the requests in flight
    proven,     \* history: mailboxes shown to be read by whom
    spends,     \* history: how often each link was spent
    current,    \* history: the password last set by a register, change or reset
    undone      \* history: users whose last change of password was undone by a
                \* rehash, or cut short before it ended their sessions

tables == <<user, secret, old, link, session>>
history == <<proven, spends, current, undone>>
accountVars == <<tables, request, history>>

Holders(a) == {u \in User : user[u].there /\ user[u].address = a}

GoOn(p, q) == request' = [request EXCEPT ![p] = q]

\* A session that a change of password must not leave behind by overlapping it.
Overlap(u) == [q \in Requests |-> IF request[q].user = u /\ request[q].at \in {"announce", "rehash", "start"}
                              THEN [request[q] EXCEPT !.overlapped = TRUE] ELSE request[q]]

-----------------------------------------------------------------------------
AccountsInit ==
    /\ user = [u \in User |-> NoAccount]
    /\ secret = [u \in User |-> NoPassword]
    /\ old = {}
    /\ link = [l \in Link |-> Unsent]
    /\ session = [s \in Family |-> Unstarted]
    /\ request = [p \in Requests |-> NoRequest]
    /\ proven = {} /\ spends = [l \in Link |-> 0]
    /\ current = [u \in User |-> NoPassword] /\ undone = {}

-----------------------------------------------------------------------------
(* Registration and sign-in.                                               *)

\* An address that is taken gets the answer a new one gets, and nothing else.
Register(p, a, w) ==
    /\ "register" \in AccountOps /\ request[p] = NoRequest /\ Holders(a) = {}
    /\ GoOn(p, [NoRequest EXCEPT !.at = "create", !.flow = "register", !.addr = a, !.pass = w])
    /\ UNCHANGED <<tables, history>>

CreateUser(p) ==
    /\ request[p].at = "create"
    /\ \E u \in User :
          /\ ~user[u].there
          /\ user' = [user EXCEPT ![u] =
                         [there |-> TRUE, address |-> request[p].addr, verified |-> FALSE]]
          /\ GoOn(p, [request[p] EXCEPT !.at = "credential", !.user = u])
    /\ UNCHANGED <<secret, old, link, session, history>>

\* The row can be read, and its password reset, since create_user: this put
\* replaces what a reset has stored.  A session that reset led to overlaps it.
PutCredential(p) ==
    LET q == request[p] IN
    /\ q.at = "credential"
    /\ secret' = [secret EXCEPT ![q.user] = q.pass]
    /\ current' = [current EXCEPT ![q.user] = q.pass]
    /\ request' = [Overlap(q.user) EXCEPT ![p] = [q EXCEPT !.at = "announce"]]
    /\ session' = [s \in Family |-> IF session[s].user = q.user
                                     THEN [session[s] EXCEPT !.overlapped = TRUE] ELSE session[s]]
    /\ old' = old \ {q.user}
    /\ undone' = undone \ {q.user}
    /\ UNCHANGED <<user, link, proven, spends>>

\* A verification link is mailed, best effort; then the account is signed in,
\* unless unverified_sessions is off.
Announce(p) ==
    LET q == request[p] IN
    /\ q.at = "announce"
    /\ \/ \E l \in Link :
             /\ link[l] = Unsent
             /\ link' = [link EXCEPT ![l] =
                    [purpose |-> "verify_email", user |-> q.user, bound |-> q.addr,
                     target |-> NoAddress, spare |-> NoSession, spent |-> FALSE]]
       \/ UNCHANGED link
    /\ \/ GoOn(p, [q EXCEPT !.at = "start"])
       \/ GoOn(p, NoRequest)
    /\ UNCHANGED <<user, secret, old, session, history>>

Login(p, a, w) ==
    /\ "login" \in AccountOps /\ request[p] = NoRequest
    /\ \E u \in Holders(a) :
          GoOn(p, [NoRequest EXCEPT !.at = "compare", !.flow = "login", !.user = u,
                        !.seen = user[u], !.pass = w])
    /\ UNCHANGED <<tables, history>>

\* may_authenticate judges the row read before the credential was.
CheckPassword(p) ==
    LET q == request[p] IN
    /\ q.at = "compare"
    /\ GoOn(p, IF secret[q.user] # q.pass \/ ~q.seen.verified THEN NoRequest
                 ELSE [q EXCEPT !.at = IF q.user \in old THEN "rehash" ELSE "start"])
    /\ UNCHANGED <<tables, history>>

\* The hash of the presented password replaces whatever the row now holds.
Rehash(p) ==
    LET q == request[p] IN
    /\ q.at = "rehash"
    /\ secret' = [secret EXCEPT ![q.user] = q.pass]
    /\ old' = old \ {q.user}
    /\ undone' = IF q.pass = current[q.user] THEN undone ELSE undone \cup {q.user}
    /\ GoOn(p, [q EXCEPT !.at = "start"])
    /\ UNCHANGED <<user, link, session, proven, spends, current>>

StartSession(p) ==
    LET q == request[p] IN
    /\ q.at = "start"
    /\ \E s \in Family :
          /\ session[s] = Unstarted
          /\ session' = [session EXCEPT ![s] =
                            [live |-> TRUE, user |-> q.user, by |-> q.pass,
                             overlapped |-> q.overlapped, spared |-> FALSE, unlisted |-> FALSE]]
    /\ GoOn(p, NoRequest)
    /\ UNCHANGED <<user, secret, old, link, history>>

\* The cost the settings ask for is raised: stored hashes fall due.
RaiseCost ==
    /\ "rehash" \in AccountOps /\ old = {}
    /\ old' = {u \in User : secret[u] # NoPassword}
    /\ UNCHANGED <<user, secret, link, session, request, history>>

-----------------------------------------------------------------------------
(* Replacing a password.                                                   *)

ChangePassword(p, s, w, n) ==
    /\ "change" \in AccountOps /\ request[p] = NoRequest /\ session[s] # Unstarted /\ session[s].live
    /\ GoOn(p, [NoRequest EXCEPT !.at = "verify", !.flow = "change", !.user = session[s].user,
                    !.pass = w, !.new = n, !.spare = s])
    /\ UNCHANGED <<tables, history>>

VerifyCurrent(p) ==
    LET q == request[p] IN
    /\ q.at = "verify"
    /\ GoOn(p, IF secret[q.user] = q.pass THEN [q EXCEPT !.at = "replace"] ELSE NoRequest)
    /\ UNCHANGED <<tables, history>>

ReplacePassword(p) ==
    LET q == request[p] IN
    /\ q.at = "replace"
    /\ secret' = [secret EXCEPT ![q.user] = q.new]
    /\ current' = [current EXCEPT ![q.user] = q.new]
    /\ old' = old \ {q.user}
    /\ undone' = undone \ {q.user}
    /\ request' = [Overlap(q.user) EXCEPT ![p] = [q EXCEPT !.at = "revoke"]]
    /\ UNCHANGED <<user, link, session, proven, spends>>

\* A policy that refuses the new password leaves a reset link spent.
PolicyRefuses(p) ==
    /\ request[p].at = "replace"
    /\ GoOn(p, NoRequest)
    /\ UNCHANGED <<tables, history>>

\* _revoke_families: every session of the user, or the families that the body of a
\* change or of a reset lists, whoever's they are.  A change spares the session it
\* came from, a change of address the one that asked for it, a reset none.
RevokeSessions(p) ==
    LET q == request[p]
        own == {s \in Family : session[s].user = q.user}
    IN  /\ q.at = "revoke"
        /\ GoOn(p, IF q.flow = "reset_password" THEN [q EXCEPT !.at = "mark"] ELSE NoRequest)
        /\ \E listed \in {own} \cup IF q.flow = "change_email" THEN {} ELSE SUBSET Family :
              session' = [s \in Family |->
                 IF ~session[s].live \/ s \notin listed \cup own THEN session[s]
                 ELSE IF s = q.spare THEN [session[s] EXCEPT !.spared = TRUE]
                 ELSE IF s \in listed THEN [session[s] EXCEPT !.live = FALSE]
                 ELSE [session[s] EXCEPT !.unlisted = TRUE]]
    /\ UNCHANGED <<user, secret, old, link, history>>

-----------------------------------------------------------------------------
(* Links.                                                                  *)

\* A reset or a verification is asked for by address.
RequestLink(p, a, purpose) ==
    /\ purpose \in AccountOps /\ request[p] = NoRequest
    /\ \E u \in Holders(a) :
          /\ purpose = "verify_email" => ~user[u].verified
          /\ GoOn(p, [NoRequest EXCEPT !.at = "send", !.flow = purpose, !.user = u, !.seen = user[u]])
    /\ UNCHANGED <<tables, history>>

RequestEmailChange(p, s, b) ==
    /\ "change_email" \in AccountOps /\ request[p] = NoRequest /\ session[s] # Unstarted /\ session[s].live
    /\ LET u == session[s].user IN
       /\ user[u].there /\ user[u].address # b
       /\ GoOn(p, [NoRequest EXCEPT !.at = "taken?", !.flow = "change_email", !.user = u,
                       !.seen = user[u], !.addr = b, !.spare = s])
    /\ UNCHANGED <<tables, history>>

\* Asked when the link is requested, and again when it is confirmed.
CheckTaken(p) ==
    LET q == request[p] IN
    /\ q.at = "taken?"
    /\ GoOn(p, IF Holders(q.addr) \subseteq {q.user}
                 THEN [q EXCEPT !.at = IF q.link = NoLink THEN "send" ELSE "move"]
                 ELSE NoRequest)
    /\ UNCHANGED <<tables, history>>

SendLink(p) ==
    LET q == request[p] IN
    /\ q.at = "send"
    /\ \E l \in Link :
          /\ link[l] = Unsent
          /\ link' = [link EXCEPT ![l] =
                 [purpose |-> q.flow, user |-> q.user, bound |-> q.seen.address,
                  target |-> q.addr, spare |-> q.spare, spent |-> FALSE]]
    /\ GoOn(p, NoRequest)
    /\ UNCHANGED <<user, secret, old, session, history>>

\* Variant: the purpose of the record is not compared.
ConfirmLink_anyPurpose(p, l, purpose, n) ==
    /\ request[p] = NoRequest /\ link[l] # Unsent
    /\ ~link[l].spent
    /\ GoOn(p, [NoRequest EXCEPT !.at = "spend", !.flow = purpose, !.link = l, !.new = n])
    /\ UNCHANGED <<tables, history>>

\* LinkService.confirm's reads; a link past its lifetime may be refused at any
\* time, which is the same as not being presented.
ConfirmLink(p, l, purpose, n) ==
    /\ request[p] = NoRequest /\ link[l] # Unsent
    /\ link[l].purpose = purpose /\ ~link[l].spent
    /\ GoOn(p, [NoRequest EXCEPT !.at = "spend", !.flow = purpose, !.link = l, !.new = n])
    /\ UNCHANGED <<tables, history>>

\* Conditional on the link not being consumed.  A link is mailed to the address
\* it is bound to, a change of address to the one it leads to.
SpendLink(p) ==
    LET q == request[p]
        m == link[q.link]
    IN  /\ q.at = "spend"
        /\ IF m.spent
           THEN /\ GoOn(p, NoRequest)
                /\ UNCHANGED <<link, proven, spends>>
           ELSE /\ link' = [link EXCEPT ![q.link].spent = TRUE]
                /\ spends' = [spends EXCEPT ![q.link] = @ + 1]
                /\ proven' = proven \cup
                      {<<m.user, IF m.target = NoAddress THEN m.bound ELSE m.target>>}
                /\ GoOn(p, [q EXCEPT !.at = "bound?", !.user = m.user,
                                !.addr = m.target, !.spare = m.spare])
        /\ UNCHANGED <<user, secret, old, session, current, undone>>

\* A link to an address the account has left is refused, spent as it is.
CheckBound(p) ==
    LET q == request[p] IN
    /\ q.at = "bound?"
    /\ GoOn(p, IF user[q.user].address # link[q.link].bound THEN NoRequest
                 ELSE [q EXCEPT !.at = CASE q.flow = "verify_email" -> "mark"
                                         [] q.flow = "reset_password" -> "replace"
                                         [] q.flow = "change_email" -> "taken?"])
    /\ UNCHANGED <<tables, history>>

\* change_email moves the address and marks it verified.
MoveAddress(p) ==
    LET q == request[p] IN
    /\ q.at = "move"
    /\ user' = [user EXCEPT ![q.user].address = q.addr, ![q.user].verified = TRUE]
    /\ request' = [r \in Requests |->
          IF r = p THEN [q EXCEPT !.at = "revoke"]
          ELSE IF request[r].link # NoLink /\ request[r].user = q.user /\ request[r].at # "bound?"
          THEN [request[r] EXCEPT !.overlapped = TRUE] ELSE request[r]]
    /\ UNCHANGED <<secret, old, link, session, history>>

MarkVerified(p) ==
    LET q == request[p] IN
    /\ q.at = "mark"
    /\ user' = [user EXCEPT ![q.user].verified = TRUE]
    /\ GoOn(p, NoRequest)
    /\ UNCHANGED <<secret, old, link, session, history>>

-----------------------------------------------------------------------------
\* A store call that raises, or a process that dies, abandons the request.
Abort(p) == /\ "abort" \in AccountOps /\ request[p] # NoRequest
            /\ GoOn(p, NoRequest)
            /\ undone' = IF request[p].at = "revoke" /\ request[p].flow # "change_email"
                         THEN undone \cup {request[p].user} ELSE undone
            /\ UNCHANGED <<tables, proven, spends, current>>

Enter(p) ==
    \/ \E a \in Address, w \in Password : Register(p, a, w) \/ Login(p, a, w)
    \/ \E s \in Family, w, n \in Password : ChangePassword(p, s, w, n)
    \/ \E a \in Address : \E purpose \in Purpose \ {"change_email"} : RequestLink(p, a, purpose)
    \/ \E s \in Family, b \in Address : RequestEmailChange(p, s, b)
    \/ \E l \in Link, purpose \in Purpose :
          \E n \in IF purpose = "reset_password" THEN Password ELSE {NoPassword} :
             ConfirmLink(p, l, purpose, n)

Work(p) == \/ CreateUser(p) \/ PutCredential(p) \/ Announce(p)
           \/ CheckPassword(p) \/ Rehash(p) \/ StartSession(p)
           \/ VerifyCurrent(p) \/ ReplacePassword(p) \/ PolicyRefuses(p) \/ RevokeSessions(p)
           \/ CheckTaken(p) \/ SendLink(p) \/ SpendLink(p) \/ CheckBound(p)
           \/ MoveAddress(p) \/ MarkVerified(p)

AccountsNext == \/ \E p \in Requests : Enter(p) \/ Work(p) \/ Abort(p)
        \/ RaiseCost

AccountsSpec == AccountsInit /\ [][AccountsNext]_accountVars

-----------------------------------------------------------------------------
(* Properties.                                                             *)

\* Type correctness of the tables and the requests.
AccountsTypeOK ==
    /\ user \in [User -> Account]
    /\ secret \in [User -> Password \cup {NoPassword}]
    /\ old \subseteq User
    /\ \A l \in Link : link[l] = Unsent \/ link[l] \in Mailed
    /\ \A s \in Family : session[s] = Unstarted \/ session[s] \in Started
    /\ request \in [Requests -> Request]

\* However registrations, verifications, resets and changes of address
\* interleave, an address is marked verified only after a link mailed to it was
\* spent for that account (flows.confirm_verification, confirm_email_change).
VerifiedIsProven ==
    \A u \in User : user[u].there /\ user[u].verified => <<u, user[u].address>> \in proven

\* A link takes effect for one request, whoever presents it at once
\* (LinkService.confirm, storage.IdentityTokenStore.consume).
EveryLinkWorksOnce == \A l \in Link : spends[l] <= 1

\* A link bound to an address the account has left acts only in a request that
\* had already compared the two when it moved (flows._refuse_moved_address).
LeftAddressesAreRefused ==
    \A p \in Requests :
        request[p].link # NoLink /\ request[p].at \in {"replace", "mark", "taken?", "move"} =>
            \/ user[request[p].user].address = link[request[p].link].bound
            \/ request[p].flow = "reset_password" /\ request[p].at = "mark"
            \/ request[p].overlapped

\* A mailed link does one thing, once, for the address it was mailed to
\* (LinkService.confirm, flows.confirm_verification, confirm_email_change).
LinksAreSound == VerifiedIsProven /\ EveryLinkWorksOnce /\ LeftAddressesAreRefused

\* A live session signed in with a password that has been replaced is the one
\* the change came from, one that the caller's own list of families left out, or
\* one whose login overlapped the change, unless the change was cut short or a
\* rehash undid it (flows.change_password, confirm_password_reset).
SessionsDieWithThePassword ==
    \A s \in Family :
        session[s].live =>
            \/ session[s].by = current[session[s].user]
            \/ session[s].spared \/ session[s].unlisted
            \/ session[s].overlapped \/ session[s].user \in undone
            \/ \E p \in Requests : request[p].user = session[s].user /\ request[p].at = "revoke"

\* What mailed links do, and which sessions a password leaves.
AccountsHold == LinksAreSound /\ SessionsDieWithThePassword

\* "Change a signed-in user's password" (flows.change_password): the password
\* last set is the one that signs in.
TheLastPasswordHolds == \A u \in User : secret[u] = current[u]

\* "A completed reset revokes every session and keeps none" (docs/identity.md):
\* with none in flight, no live session was signed in with a replaced password.
ResetKeepsNone ==
    \A s \in Family :
        session[s].live /\ (\A p \in Requests : request[p] = NoRequest) =>
            session[s].by = current[session[s].user]

\* "Email uniqueness is enforced" (docs/identity-data-model.md).
OneAccountPerAddress == \A a \in Address : Cardinality(Holders(a)) <= 1
=============================================================================
