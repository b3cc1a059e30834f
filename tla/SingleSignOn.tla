---------------------------- MODULE SingleSignOn ----------------------------
(***************************************************************************)
(* SsoService of webbpulse.identity.sso with its OIDC and SAML clients and *)
(* routes: tenants' identity providers, which may sign anything about      *)
(* anyone for any request they have seen, the states and links they share  *)
(* with provider sign-in, and the claims on spent SAML assertions.  A      *)
(* signature is named by the connection whose key made it, and expiry is a *)
(* refusal that may come at any time.                                      *)
(***************************************************************************)
EXTENDS Naturals, FiniteSets, Sequences, SequencesExt

CONSTANTS Connections,      \* the tenants' connections
          OidcConnections,  \* those that speak OpenID Connect; the others speak SAML
          Advertises,       \* providers whose discovery document promises an iss parameter
          Domains,          \* a connection's own domain: the one whose DNS its tenant controls
          Subjects,         \* subjects a provider may name
          Members,          \* accounts there from the start: [id, email, verified]
          SsoEmails,        \* addresses a provider may assert: [name, domain]
          Browsers, SsoStates, SsoRequests

VARIABLES connections,  \* the product's connections: [enabled, domains]
          members,      \* the accounts
          ssoLinks,     \* the oauth-links rows: [connection, subject] to an account
          ssoStates,    \* the oauth-states rows
          claims,       \* the replay store
          ssoRequest,   \* what each request is doing
          ssoEntered    \* history: what each state let in

ssoVars == <<connections, members, ssoLinks, ssoStates, claims, ssoRequest, ssoEntered>>

NoMember == [id |-> "", email |-> [name |-> "", domain |-> ""], verified |-> FALSE]

ASSUME MembersAreThere == \A m \in Members : m # NoMember /\ m.verified \in BOOLEAN

Waiting == [at |-> "idle"]
Moves(p, what) == ssoRequest' = [ssoRequest EXCEPT ![p] = what]
Is(p, at) == ssoRequest[p].at = at
UnusedStates == {s \in SsoStates : ssoStates[s].at = "unused"}
Assertions == [by : Connections, nonce : SsoStates \ UnusedStates, subject : Subjects, email : SsoEmails]

SsoInit ==
  /\ connections = [c \in Connections |-> [enabled |-> TRUE, domains |-> {}]]
  /\ members = Members
  /\ ssoLinks = [k \in Connections \X Subjects |-> NoMember]
  /\ ssoStates = [s \in SsoStates |-> [at |-> "unused"]]
  /\ claims = {}
  /\ ssoRequest = [p \in SsoRequests |-> Waiting]
  /\ ssoEntered = [s \in SsoStates |-> <<>>]

\* is_domain_verified: the tenant publishes the challenge where it can.
VerifyDomain(c) ==
  /\ Domains[c] \notin connections[c].domains
  /\ connections' = [connections EXCEPT ![c].domains = @ \cup {Domains[c]}]
  /\ UNCHANGED <<members, ssoLinks, ssoStates, claims, ssoRequest, ssoEntered>>

\* The product's side: a connection is turned off, an account deleted.
DisableConnection(c) ==
  /\ connections[c].enabled
  /\ connections' = [connections EXCEPT ![c].enabled = FALSE]
  /\ UNCHANGED <<members, ssoLinks, ssoStates, claims, ssoRequest, ssoEntered>>

DeleteMember(m) ==
  /\ members' = members \ {m}
  /\ UNCHANGED <<connections, ssoLinks, ssoStates, claims, ssoRequest, ssoEntered>>

\* The state is written before the browser is sent to the provider; its nonce,
\* or the AuthnRequest's id, is its own.
StartSso(c, b) ==
  /\ connections[c].enabled
  /\ UnusedStates # {}
  /\ ssoStates' = [ssoStates EXCEPT ![CHOOSE s \in UnusedStates : TRUE] = [at |-> "live", connection |-> c, binding |-> b]]
  /\ UNCHANGED <<connections, members, ssoLinks, claims, ssoRequest, ssoEntered>>

\* consume_state: the row goes, whether or not it is this connection's.
ConsumeSsoState(s) == ssoStates[s].at = "live" /\ ssoStates' = [ssoStates EXCEPT ![s].at = "spent"]

\* The callback, or the assertion consumer: the state's connection and the
\* browser's cookie are compared once it is spent.
SsoCallback(p, s, c, b, a) ==
  /\ Is(p, "idle")
  /\ ConsumeSsoState(s)
  /\ Moves(p, IF ssoStates[s].connection = c /\ ssoStates[s].binding = b
              THEN [at |-> "verify", state |-> s, connection |-> c, assertion |-> a] ELSE Waiting)
  /\ UNCHANGED <<connections, members, ssoLinks, claims, ssoEntered>>

\* metadata, which is cached: a document that names another issuer, or an
\* endpoint the guard refuses, discovers nothing.
Discovered(c) == [issuer |-> c, promisesIss |-> c \in Advertises]

\* The callback's iss must be the connection's issuer when it is there, and be
\* there when the provider promises it.
IssuerIsNamed(metadata, iss) == IF iss = "" THEN ~metadata.promisesIss ELSE iss = metadata.issuer

\* The signature is one of the issuer's keys, the audience this connection's
\* client, and the nonce, compared last, this state's.
CheckIdToken(r, metadata) == r.assertion.by = metadata.issuer /\ r.assertion.nonce = r.state

\* An address the token leaves out is asked of userinfo, whose answer is about
\* the same subject or is ignored, and then there is none.
UserinfoEmail(r, answer) == IF answer.subject = r.assertion.subject THEN answer.email ELSE NoMember.email

\* Signature, audience and issuer are the connection's, and the assertion
\* answers this state.
CheckSsoAssertion(r) == r.assertion.by = r.connection /\ r.assertion.nonce = r.state

\* The claim is made last, so a refused answer burns none.
ClaimAssertion(a) == a \notin claims /\ claims' = claims \cup {a}

\* A connection read before it is disabled, or a domain is verified, is used as
\* it was read.
VerifySso(p) ==
  LET r == ssoRequest[p]
  IN /\ Is(p, "verify")
     /\ \/ /\ connections[r.connection].enabled /\ CheckSsoAssertion(r)
           /\ ClaimAssertion(r.assertion)
           /\ Moves(p, [at |-> "resolve", state |-> r.state, key |-> <<r.connection, r.assertion.subject>>,
                        email |-> r.assertion.email, trusted |-> connections[r.connection].domains])
        \/ Moves(p, Waiting) /\ UNCHANGED claims
     /\ r.connection \notin OidcConnections
     /\ UNCHANGED <<connections, members, ssoLinks, ssoStates, ssoEntered>>

\* _exchange: the code is posted to the token endpoint of the state's own
\* connection, whose provider answers with any ID token it has, or refuses.
\* Nothing is claimed: the spent state and its nonce are what keeps a token to
\* one session.
VerifyOidc(p) ==
  LET r == ssoRequest[p]
      metadata == Discovered(r.connection)
      Resolves(email) == Moves(p, [at |-> "resolve", state |-> r.state, key |-> <<r.connection, r.assertion.subject>>,
                                   email |-> email, trusted |-> connections[r.connection].domains])
  IN /\ Is(p, "verify") /\ r.connection \in OidcConnections
     /\ \/ /\ connections[r.connection].enabled
           /\ \E iss \in Connections \cup {""} : IssuerIsNamed(metadata, iss)
           /\ CheckIdToken(r, metadata)
           /\ \/ Resolves(r.assertion.email)
              \/ \E answer \in [subject : Subjects, email : SsoEmails] : Resolves(UserinfoEmail(r, answer))
        \/ Moves(p, Waiting)
     /\ UNCHANGED <<connections, members, ssoLinks, ssoStates, claims, ssoEntered>>

\* The replay row's time to live is capped, so it may end first.
ClaimLapses(a) ==
  /\ claims' = claims \ {a}
  /\ UNCHANGED <<connections, members, ssoLinks, ssoStates, ssoRequest, ssoEntered>>

\* Variant: an address is trusted once the tenant has verified any domain.
TrustsAnyEmail(trusted, email) == trusted # {} /\ email \in SsoEmails

TrustsEmail(trusted, email) == email.domain \in trusted

\* _resolve_user: by link; by a verified address on a verified domain; or by
\* provisioning an account.
ResolveSso(p) ==
  LET r == ssoRequest[p]
      held == ssoLinks[r.key]
      matched == {m \in members : m.email = r.email}
      To(at, m) == Moves(p, [at |-> at, state |-> r.state, key |-> r.key, member |-> m])
  IN /\ Is(p, "resolve")
     /\ \/ held \in members /\ To("touch", held) /\ UNCHANGED <<members, ssoLinks>>
        \/ /\ held # NoMember /\ held \notin members
           /\ ssoLinks' = [ssoLinks EXCEPT ![r.key] = NoMember]
           /\ Moves(p, Waiting) /\ UNCHANGED members
        \/ /\ held = NoMember /\ ~TrustsEmail(r.trusted, r.email)
           /\ Moves(p, Waiting) /\ UNCHANGED <<members, ssoLinks>>
        \/ /\ held = NoMember /\ TrustsEmail(r.trusted, r.email)
           /\ \E m \in matched : IF m.verified THEN To("claim", m) ELSE Moves(p, Waiting)
           /\ UNCHANGED <<members, ssoLinks>>
        \/ /\ held = NoMember /\ TrustsEmail(r.trusted, r.email) /\ matched = {}
           /\ LET m == [id |-> r.state, email |-> r.email, verified |-> TRUE]
              IN members' = members \cup {m} /\ To("claim", m)
           /\ UNCHANGED ssoLinks
     /\ UNCHANGED <<connections, ssoStates, claims, ssoEntered>>

\* _claim: the first sign-in to write the link wins.
ClaimSsoLink(p) ==
  LET r == ssoRequest[p]
  IN /\ Is(p, "claim")
     /\ IF ssoLinks[r.key] = NoMember
        THEN ssoLinks' = [ssoLinks EXCEPT ![r.key] = r.member] /\ Moves(p, [r EXCEPT !.at = "enter"])
        ELSE Moves(p, Waiting) /\ UNCHANGED ssoLinks
     /\ UNCHANGED <<connections, members, ssoStates, claims, ssoEntered>>

\* _touch puts the row it read and may fail unseen.
TouchSsoLink(p) ==
  LET r == ssoRequest[p]
  IN /\ Is(p, "touch")
     /\ ssoLinks' = [ssoLinks EXCEPT ![r.key] = r.member] \/ UNCHANGED ssoLinks
     /\ Moves(p, [r EXCEPT !.at = "enter"])
     /\ UNCHANGED <<connections, members, ssoStates, claims, ssoEntered>>

\* issue_for_sso, once the product's on_sso_login has not refused.
EnterBySso(p) ==
  LET r == ssoRequest[p]
  IN /\ Is(p, "enter")
     /\ ssoEntered' = [ssoEntered EXCEPT ![r.state] = Append(@, [connection |-> r.key[1], member |-> r.member])]
     /\ Moves(p, Waiting)
     /\ UNCHANGED <<connections, members, ssoLinks, ssoStates, claims>>

SsoDies(p) ==
  /\ ~Is(p, "idle")
  /\ Moves(p, Waiting)
  /\ UNCHANGED <<connections, members, ssoLinks, ssoStates, claims, ssoEntered>>

SsoNext ==
  \/ \E c \in Connections : VerifyDomain(c) \/ DisableConnection(c) \/ \E b \in Browsers : StartSso(c, b)
  \/ \E m \in members : DeleteMember(m)
  \/ \E a \in claims : ClaimLapses(a)
  \/ \E p \in SsoRequests :
       \/ \E s \in SsoStates, c \in Connections, b \in Browsers, a \in Assertions : SsoCallback(p, s, c, b, a)
       \/ VerifySso(p) \/ VerifyOidc(p) \/ ResolveSso(p) \/ ClaimSsoLink(p) \/ TouchSsoLink(p) \/ EnterBySso(p) \/ SsoDies(p)

SsoSpec == SsoInit /\ [][SsoNext]_ssoVars

-------------------------------------------------------------------------------
\* trusts_email (sso.py 222), consume_state (533) and identity_from_response
\* (sso_saml.py 328): a tenant's provider, whatever it signs, lets a browser
\* into no account but those at the domain its tenant proved and whose address
\* is verified, and a state lets one session in, for the connection it was made
\* for.
TenantsEnterTheirOwn ==
  \A s \in SsoStates :
    /\ Len(ssoEntered[s]) <= 1
    /\ \A e \in ToSet(ssoEntered[s]) :
         /\ e.connection = ssoStates[s].connection
         /\ e.member.email.domain = Domains[e.connection]
         /\ e.member.verified
===============================================================================
