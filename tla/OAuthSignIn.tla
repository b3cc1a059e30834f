----------------------------- MODULE OAuthSignIn -----------------------------
(***************************************************************************)
(* OAuthService of webbpulse.identity.oauth and its routes: signing in     *)
(* with a provider, linking and unlinking one, and Apple's notifications,  *)
(* over the oauth-states and oauth-links tables and the links' user index, *)
(* which lags.  People stand behind browsers, provider identities and      *)
(* accounts; an address proven on either side belongs to who stands behind *)
(* it.                                                                     *)
(***************************************************************************)
EXTENDS Naturals, FiniteSets, Sequences, TLC

CONSTANTS People,            \* who stands behind things: each has one browser
          ProviderAccounts,  \* accounts at a provider: [who, emails, tied], an address being
                             \* [address, verified, primary]; tied: with PKCE or a nonce
          Locals,            \* accounts there from the start: [who, email, verified]
          PasswordHolders,   \* people with a password on their account
          OAuthStates,       \* bound on states
          Callbacks          \* concurrent requests

\* The verified primary address, else any verified one, else the primary as it is.
PrimaryEmail(emails) ==
  LET verified == SelectSeq(emails, LAMBDA e : e.verified)
      primary == SelectSeq(emails, LAMBDA e : e.primary)
      best == SelectSeq(verified, LAMBDA e : e.primary) \o verified \o primary
  IN IF best = <<>> THEN [address |-> "", verified |-> FALSE] ELSE [address |-> Head(best).address, verified |-> Head(best).verified]

\* The identity a provider answers with, which is what a link is keyed by.  An ID
\* token names one address.
IdentityOf(account) ==
  LET email == PrimaryEmail(account.emails) IN [who |-> account.who, email |-> email.address, verified |-> email.verified]
Identities == {IdentityOf(account) : account \in ProviderAccounts}

VARIABLES locals,     \* the accounts
          links,      \* the oauth-links table: identity to account
          linkIndex,  \* what the user index shows of it
          states,     \* the oauth-states table
          callback,   \* what each request is doing
          answeredStates, \* history: who each state let in, and how often
          entered,    \* history: sessions issued: [identity, account]
          unlinkRaced \* history: unlinks that met another step on the links

oauthVars == <<locals, links, linkIndex, states, callback, answeredStates, entered, unlinkRaced>>

NoStep == [at |-> "idle"]
NoAccount == [who |-> "", email |-> "", verified |-> FALSE, by |-> ""]
Turns(p, what) == callback' = [callback EXCEPT ![p] = what]
At(p, at) == callback[p].at = at
NewAccountOf(i) == [who |-> i.who, email |-> i.email, verified |-> i.verified, by |-> i.who]

\* People are somebody, and an address proven twice was proven by one of them.
ASSUME AddressesAreProven ==
  /\ "" \notin People /\ NoAccount \notin Locals
  /\ \A x \in Identities \cup Locals : x.who \in People /\ x.verified \in BOOLEAN
  /\ \A x, y \in Identities \cup Locals : x.verified /\ y.verified /\ x.email = y.email => x.who = y.who

FreshStates == {s \in OAuthStates : states[s].at = "unused"}

OAuthInit ==
  /\ locals = Locals
  /\ links = [i \in Identities |-> NoAccount]
  /\ linkIndex = links
  /\ states = [s \in OAuthStates |-> [at |-> "unused"]]
  /\ callback = [p \in Callbacks |-> NoStep]
  /\ answeredStates = [s \in OAuthStates |-> 0]
  /\ entered = {}
  /\ unlinkRaced = FALSE

\* start: the row is written with the browser's binding, and with the account
\* of a signed-in caller who means to link.
StartOAuth(browser, mode, account) ==
  /\ FreshStates # {}
  /\ mode = "link" => account \in locals /\ account.who = browser
  /\ states' = [states EXCEPT ![CHOOSE s \in FreshStates : TRUE] =
                  [at |-> "live", mode |-> mode, account |-> account, binding |-> browser]]
  /\ UNCHANGED <<locals, links, linkIndex, callback, answeredStates, entered, unlinkRaced>>

\* consume: a conditional delete that returns the row.
ConsumeState(s) == states[s].at = "live" /\ states' = [states EXCEPT ![s].at = "spent"]

\* Variant: the binding is on the row and the cookie is not compared with it.
LinkBindingIgnored(s, browser) == states[s].binding \in People /\ browser \in People

LinkBindingMatches(s, browser) == states[s].binding = browser

\* What a code stands for: the account that allowed it, at the authorization URL of
\* one state.
AuthorizationCodes == [account : ProviderAccounts, state : OAuthStates \ FreshStates]

\* A browser holds the codes of whoever is at it, and the redirects that other
\* people were given for flows of their own and send it.
Carries(browser, code, s) ==
  \/ code.account.who = browser
  \/ code.account.who = states[code.state].binding /\ s = code.state

\* The provider takes a code with its own flow's verifier, or the ID token has its
\* own flow's nonce, where the provider has either.
TokenBody(code, s) == code.account.tied => code.state = s

\* The callback: the state is spent, the cookie compared, the code exchanged and
\* the provider's answer verified, or refused.
OAuthCallback(p, s, browser, code) ==
  /\ At(p, "idle")
  /\ ConsumeState(s)
  /\ Carries(browser, code, s)
  /\ IF LinkBindingMatches(s, browser)
     THEN /\ \/ TokenBody(code, s) /\ Turns(p, [at |-> states[s].mode, state |-> s, identity |-> IdentityOf(code.account)])
             \/ Turns(p, NoStep)
          /\ answeredStates' = [answeredStates EXCEPT ![s] = @ + 1]
     ELSE Turns(p, NoStep) /\ UNCHANGED answeredStates
  /\ UNCHANGED <<locals, links, linkIndex, entered, unlinkRaced>>

\* Apple's form post spends the state and writes it again with the name.
KeepFormPostName(p, s) ==
  /\ At(p, "idle")
  /\ ConsumeState(s)
  /\ Turns(p, [at |-> "keep name", state |-> s])
  /\ UNCHANGED <<locals, links, linkIndex, answeredStates, entered, unlinkRaced>>

PutStateAgain(p) ==
  /\ At(p, "keep name")
  /\ states' = [states EXCEPT ![callback[p].state].at = "live"]
  /\ Turns(p, NoStep)
  /\ UNCHANGED <<locals, links, linkIndex, answeredStates, entered, unlinkRaced>>

\* The auto-link needs the address verified on both sides.
AutoLinkAllowed(i, account) == i.verified /\ account.verified

\* resolve_login: the link is read; without one, an account of the address is
\* linked if both sides verified it, and otherwise one is registered.
ResolveLogin(p) ==
  LET i == callback[p].identity matched == {a \in locals : a.email = i.email}
  IN /\ At(p, "login")
     /\ \/ /\ links[i] # NoAccount
           /\ Turns(p, [at |-> "touch", identity |-> i, account |-> links[i]])
        \/ /\ links[i] = NoAccount
           /\ \E a \in matched : IF AutoLinkAllowed(i, a)
                                 THEN Turns(p, [at |-> "claim", identity |-> i, account |-> a, then |-> "enter"])
                                 ELSE Turns(p, NoStep)
        \/ /\ links[i] = NoAccount /\ matched = {}
           /\ Turns(p, [at |-> "register", identity |-> i])
     /\ UNCHANGED <<locals, links, linkIndex, states, answeredStates, entered, unlinkRaced>>

\* _register: create_user refuses an address taken since, and the link follows.
RegisterByProvider(p) ==
  LET i == callback[p].identity
  IN /\ At(p, "register")
     /\ IF \E a \in locals : a.email = i.email
        THEN Turns(p, NoStep) /\ UNCHANGED locals
        ELSE /\ locals' = locals \cup {NewAccountOf(i)}
             /\ Turns(p, [at |-> "claim", identity |-> i, account |-> NewAccountOf(i), then |-> "enter"])
     /\ UNCHANGED <<links, linkIndex, states, answeredStates, entered, unlinkRaced>>

\* link: to the account that asked, if nobody has the identity.
LinkProvider(p) ==
  LET i == callback[p].identity
  IN /\ At(p, "link")
     /\ Turns(p, IF links[i] = NoAccount
                 THEN [at |-> "claim", identity |-> i, account |-> states[callback[p].state].account, then |-> "stay"]
                 ELSE NoStep)
     /\ UNCHANGED <<locals, links, linkIndex, states, answeredStates, entered, unlinkRaced>>

\* claim: the row is written only if the key is free.
ClaimLink(p) ==
  LET r == callback[p]
  IN /\ At(p, "claim")
     /\ IF links[r.identity] = NoAccount
        THEN /\ links' = [links EXCEPT ![r.identity] = r.account]
             /\ Turns(p, IF r.then = "enter" THEN [at |-> "enter", identity |-> r.identity, account |-> r.account] ELSE NoStep)
        ELSE Turns(p, NoStep) /\ UNCHANGED links
     /\ UNCHANGED <<locals, linkIndex, states, answeredStates, entered, unlinkRaced>>

\* _touch puts the row it read, whatever has become of it, and may fail unseen.
TouchLink(p) ==
  LET r == callback[p]
  IN /\ At(p, "touch")
     /\ links' = [links EXCEPT ![r.identity] = r.account] \/ UNCHANGED links
     /\ unlinkRaced' = (unlinkRaced \/ links' # links)
     /\ Turns(p, [r EXCEPT !.at = "enter"])
     /\ UNCHANGED <<locals, linkIndex, states, answeredStates, entered>>

\* issue_for_oauth.
EnterByProvider(p) ==
  LET r == callback[p]
  IN /\ At(p, "enter")
     /\ entered' = entered \cup {[identity |-> r.identity, account |-> r.account]}
     /\ Turns(p, NoStep)
     /\ UNCHANGED <<locals, links, linkIndex, states, answeredStates, unlinkRaced>>

\* _other_sign_in_methods: another link, found in the index and confirmed in
\* the table, or a password.
OtherSignIn(account, removing) ==
  \/ \E i \in Identities \ removing : linkIndex[i] = account /\ links[i] = account
  \/ account.who \in PasswordHolders

\* unlink: what the index shows is removed if something else remains.
Unlink(p, account, i) ==
  /\ At(p, "idle")
  /\ account \in locals /\ linkIndex[i] = account
  /\ OtherSignIn(account, {i})
  /\ Turns(p, [at |-> "delete link", identity |-> i])
  /\ unlinkRaced' = (unlinkRaced \/ links[i] # account \/ \E q \in Callbacks \ {p} : At(q, "delete link"))
  /\ UNCHANGED <<locals, links, linkIndex, states, answeredStates, entered>>

DeleteLink(p) ==
  /\ At(p, "delete link")
  /\ links' = [links EXCEPT ![callback[p].identity] = NoAccount]
  /\ Turns(p, NoStep)
  /\ UNCHANGED <<locals, linkIndex, states, answeredStates, entered, unlinkRaced>>

\* Apple ends an authorization: the sessions end, then the row is put back as it
\* was read without its token, or deleted with the provider's account.
NotifyProvider(p, i, type) ==
  /\ At(p, "idle")
  /\ links[i] # NoAccount
  /\ Turns(p, [at |-> type, identity |-> i, account |-> links[i]])
  /\ UNCHANGED <<locals, links, linkIndex, states, answeredStates, entered, unlinkRaced>>

ApplyNotification(p) ==
  LET r == callback[p]
  IN /\ \/ At(p, "consent revoked") /\ links' = [links EXCEPT ![r.identity] = r.account]
        \/ At(p, "account deleted") /\ links' = [links EXCEPT ![r.identity] = NoAccount]
     /\ entered' = {e \in entered : e.account # r.account}
     /\ unlinkRaced' = TRUE
     /\ Turns(p, NoStep)
     /\ UNCHANGED <<locals, linkIndex, states, answeredStates>>

IndexLink(i) ==
  /\ linkIndex[i] # links[i]
  /\ linkIndex' = [linkIndex EXCEPT ![i] = links[i]]
  /\ UNCHANGED <<locals, links, states, callback, answeredStates, entered, unlinkRaced>>

CallbackDies(p) ==
  /\ ~At(p, "idle")
  /\ Turns(p, NoStep)
  /\ UNCHANGED <<locals, links, linkIndex, states, answeredStates, entered, unlinkRaced>>

OAuthNext ==
  \/ \E b \in People : StartOAuth(b, "login", NoAccount) \/ \E a \in locals : StartOAuth(b, "link", a)
  \/ \E p \in Callbacks :
       \/ \E s \in OAuthStates : KeepFormPostName(p, s) \/ \E b \in People, code \in AuthorizationCodes : OAuthCallback(p, s, b, code)
       \/ \E i \in Identities :
            \/ \E a \in locals : Unlink(p, a, i)
            \/ \E type \in {"consent revoked", "account deleted"} : NotifyProvider(p, i, type)
       \/ PutStateAgain(p) \/ ResolveLogin(p) \/ RegisterByProvider(p) \/ LinkProvider(p) \/ ClaimLink(p)
       \/ TouchLink(p) \/ EnterByProvider(p) \/ DeleteLink(p) \/ ApplyNotification(p) \/ CallbackDies(p)
  \/ \E i \in Identities : IndexLink(i)

OAuthSpec == OAuthInit /\ [][OAuthNext]_oauthVars

-------------------------------------------------------------------------------
\* The callback's binding and _require_auto_link_allowed (oauth.py 1432): a link
\* and a session join one person's identity to that person's account, whoever
\* started the flow and whatever addresses the two sides only claim; a state
\* lets one callback in, even when a form post writes it again.
LinksJoinOnePerson ==
  /\ \A i \in Identities : links[i] # NoAccount => links[i].who = i.who
  /\ \A e \in entered : e.account.who = e.identity.who
  /\ \A s \in OAuthStates : answeredStates[s] <= 1

\* unlink's last-method rule (oauth.py 1537): an account that was linked and has
\* no password keeps a link, unless an unlink met another, was of a row the index
\* showed for an account that no longer had it, or was undone by a touch, or
\* Apple ended a link.
UnlinkKeepsAWayIn ==
  \A e \in entered :
    e.account.who \notin PasswordHolders /\ ~unlinkRaced =>
      \E i \in Identities : links[i] = e.account

\* Provider sign-in joins nobody to another's account and locks nobody out.
ProviderSignInIsSafe == LinksJoinOnePerson /\ UnlinkKeepsAWayIn
===============================================================================
