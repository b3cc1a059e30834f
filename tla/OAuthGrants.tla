----------------------------- MODULE OAuthGrants -----------------------------
(***************************************************************************)
(* OAuthServerService of webbpulse.identity.oauth_server for one user: the *)
(* authorization codes, consents and clients tables, the consents' user    *)
(* index, which lags, and the refresh families the grants stand on         *)
(* (RefreshFamilies says how a family rotates).  The resource is one, and  *)
(* a PKCE verifier is named by the client that made it.  The tenant "" is  *)
(* none: a deployment that resolves no tenants grants without one.         *)
(***************************************************************************)
EXTENDS Naturals, FiniteSets, TLC

CONSTANTS OAuthClients, Tenants, OAuthScopes,
          AuthCodes,         \* bound on codes
          GrantRequests,     \* concurrent requests
          MaxConsents,       \* bound on consent ids
          IncludeGranted     \* mcp_include_granted_scopes

VARIABLES clients,    \* the oauth-clients table: none, live or lapsed
          consents,   \* the consents table: id to its row
          listed,     \* what the user index shows of it
          authCodes,  \* the authorization-codes table
          grants,     \* the refresh family each code started, if any
          grantRequest, \* what each request is doing
          withdrawn,  \* history: consent ids deleted and not put again
          approved,   \* history: the scopes ever approved, by client and tenant
          minted      \* history: what each code and its refreshes were answered with

grantVars == <<clients, consents, listed, authCodes, grants, grantRequest, withdrawn, approved, minted>>

ConsentIds == 1..MaxConsents
Absent == [client |-> "", tenant |-> "", scopes |-> {}]
AtRest == [at |-> "idle"]
Does(p, what) == grantRequest' = [grantRequest EXCEPT ![p] = what]
Stands(p, at) == grantRequest[p].at = at

\* list_for_client, over the index.
ListForClient(c) == {i \in ConsentIds : listed[i].client = c}

GrantInit ==
  /\ clients = [c \in OAuthClients |-> "none"]
  /\ consents = [i \in ConsentIds |-> Absent]
  /\ listed = consents
  /\ authCodes = [x \in AuthCodes |-> [at |-> "unused"]]
  /\ grants = [x \in AuthCodes |-> "none"]
  /\ grantRequest = [p \in GrantRequests |-> AtRest]
  /\ withdrawn = {}
  /\ approved = [k \in OAuthClients \X Tenants |-> {}]
  /\ minted = [x \in AuthCodes |-> [times |-> 0, by |-> {}, scopes |-> {}, late |-> FALSE]]

\* A client id is new each time, so a lapsed one is never registered again.
RegisterClient(c) ==
  /\ clients[c] = "none"
  /\ clients' = [clients EXCEPT ![c] = "live"]
  /\ UNCHANGED <<consents, listed, authCodes, grants, grantRequest, withdrawn, approved, minted>>

\* The table's TTL reclaims a client nobody used.
ClientLapses(c) ==
  /\ clients[c] = "live"
  /\ clients' = [clients EXCEPT ![c] = "lapsed"]
  /\ UNCHANGED <<consents, listed, authCodes, grants, grantRequest, withdrawn, approved, minted>>

\* Conditional on the row, so a reclaimed client is not brought back.
Touch(c) == clients' = clients

\* The consent form, posted with the signature of what the user was shown: the
\* earlier grant is looked up in the index...
Consent(p, c, t, scopes) ==
  /\ Stands(p, "idle")
  /\ clients[c] = "live"
  /\ LET earlier == {i \in ListForClient(c) : listed[i].tenant = t}
         fresh == {i \in ConsentIds : consents[i] = Absent /\ listed[i] = Absent /\ i \notin withdrawn
                                      /\ \A q \in GrantRequests : ~(Stands(q, "record") /\ grantRequest[q].id = i)}
     IN \E i \in IF earlier # {} THEN earlier ELSE fresh :
          LET kept == IF IncludeGranted THEN listed[i].scopes ELSE {}
          IN Does(p, [at |-> "record", id |-> i, client |-> c, tenant |-> t, scopes |-> scopes \cup kept])
  /\ approved' = [approved EXCEPT ![<<c, t>>] = @ \cup scopes]
  /\ UNCHANGED <<clients, consents, listed, authCodes, grants, withdrawn, minted>>

\* ...and its row is replaced, or a new one written.
RecordConsent(p) ==
  LET r == grantRequest[p]
  IN /\ Stands(p, "record")
     /\ consents' = [consents EXCEPT ![r.id] = [client |-> r.client, tenant |-> r.tenant, scopes |-> r.scopes]]
     /\ withdrawn' = withdrawn \ {r.id}
     /\ Does(p, [r EXCEPT !.at = "issue code"])
     /\ UNCHANGED <<clients, listed, authCodes, grants, approved, minted>>

IssueCode(p) ==
  LET r == grantRequest[p] unused == {x \in AuthCodes : authCodes[x].at = "unused"}
  IN /\ Stands(p, "issue code")
     /\ unused # {}
     /\ authCodes' = [authCodes EXCEPT ![CHOOSE x \in unused : TRUE] =
                        [at |-> "live", client |-> r.client, tenant |-> r.tenant, scopes |-> r.scopes]]
     /\ Does(p, AtRest)
     /\ UNCHANGED <<clients, consents, listed, grants, withdrawn, approved, minted>>

\* consume deletes the row and returns it: one caller gets a code.
ConsumeCode(x) == authCodes[x].at = "live" /\ authCodes' = [authCodes EXCEPT ![x].at = "spent"]

\* The code is spent before the client, redirect and verifier are compared.
ExchangeCode(p, x, presenter, verifier) ==
  /\ Stands(p, "idle")
  /\ ConsumeCode(x)
  /\ Does(p, IF presenter = authCodes[x].client /\ verifier = authCodes[x].client
             THEN [at |-> "issue tokens", code |-> x, by |-> verifier] ELSE AtRest)
  /\ UNCHANGED <<clients, consents, listed, grants, withdrawn, approved, minted>>

\* The client must still be there; its consent is not asked about.
IssueTokens(p) ==
  LET x == grantRequest[p].code r == authCodes[x]
  IN /\ Stands(p, "issue tokens")
     /\ IF clients[r.client] = "live"
        THEN /\ Touch(r.client)
             /\ grants' = [grants EXCEPT ![x] = "live"]
             /\ minted' = [minted EXCEPT ![x] = [times |-> @.times + 1, by |-> @.by \cup {grantRequest[p].by},
                                                 scopes |-> @.scopes \cup r.scopes, late |-> @.late]]
        ELSE UNCHANGED <<clients, grants, minted>>
     /\ Does(p, AtRest)
     /\ UNCHANGED <<consents, listed, authCodes, withdrawn, approved>>

\* _refresh_could_cover, then rotate: a family that stands is rotated, whatever
\* client the request names, and though it may name none.
Refresh(p, x, presenter, asked) ==
  /\ Stands(p, "idle")
  /\ grants[x] = "live"
  /\ \/ presenter = "" \/ ListForClient(presenter) = {}
     \/ \E i \in ListForClient(presenter) : asked \subseteq listed[i].scopes
  /\ Does(p, [at |-> "find consent", code |-> x, presenter |-> presenter, asked |-> asked])
  /\ UNCHANGED <<clients, consents, listed, authCodes, grants, withdrawn, approved, minted>>

\* The tenant's consent, as the index shows it: any tenant's for a family begun
\* without one, and none for a client that did not begin the family.
ConsentForRefresh(p) ==
  LET r == grantRequest[p] x == r.code
      held == {i \in ListForClient(authCodes[x].client) :
                 /\ r.presenter = authCodes[x].client
                 /\ authCodes[x].tenant \in {"", listed[i].tenant}}
  IN /\ Stands(p, "find consent")
     /\ \/ \E i \in held : Does(p, [at |-> "mark used", code |-> x, asked |-> r.asked, id |-> i, scopes |-> listed[i].scopes])
        \/ held = {} /\ Does(p, [at |-> "end family", code |-> x])
     /\ UNCHANGED <<clients, consents, listed, authCodes, grants, withdrawn, approved, minted>>

\* Variant: the stamp is an upsert.
MarkedUpsert(i) == i \in ConsentIds

\* mark_used: the stamp is conditional on the row, read from the table itself.
Marked(i) == consents[i] # Absent

\* _refresh_scopes: what the consent holds, or the part of it asked for.
RefreshScopes(held, asked) == IF asked = {} THEN held ELSE asked

MintRefreshed(p) ==
  LET r == grantRequest[p] x == r.code
  IN /\ Stands(p, "mark used")
     /\ IF Marked(r.id)
        THEN /\ minted' = IF r.asked \subseteq r.scopes
                          THEN [minted EXCEPT ![x] = [times |-> @.times, by |-> @.by, scopes |-> @.scopes \cup RefreshScopes(r.scopes, r.asked),
                                                     late |-> @.late \/ r.id \in withdrawn]]
                          ELSE minted
             /\ Does(p, AtRest)
        ELSE Does(p, [at |-> "end family", code |-> x]) /\ UNCHANGED minted
     /\ UNCHANGED <<clients, consents, listed, authCodes, grants, withdrawn, approved>>

\* A refresh with no consent behind it ends its family.
EndFamily(p) ==
  /\ Stands(p, "end family")
  /\ grants' = [grants EXCEPT ![grantRequest[p].code] = "revoked"]
  /\ Does(p, AtRest)
  /\ UNCHANGED <<clients, consents, listed, authCodes, withdrawn, approved, minted>>

\* delete_for_client: the rows the index shows are deleted...
RevokeAuthorization(p, c) ==
  LET gone == ListForClient(c)
  IN /\ Stands(p, "idle")
     /\ gone # {}
     /\ consents' = [i \in ConsentIds |-> IF i \in gone THEN Absent ELSE consents[i]]
     /\ withdrawn' = withdrawn \cup gone
     /\ Does(p, [at |-> "revoke families", client |-> c, tenants |-> {listed[i].tenant : i \in gone}])
     /\ UNCHANGED <<clients, listed, authCodes, grants, approved, minted>>

\* ...and then the families of the tenants whose grant went, and those begun
\* without a tenant once the index shows the client nothing.
RevokeDevices(p) ==
  LET r == grantRequest[p]
  IN /\ Stands(p, "revoke families")
     /\ grants' = [x \in AuthCodes |->
                     IF /\ grants[x] = "live" /\ authCodes[x].client = r.client
                        /\ \/ authCodes[x].tenant \in r.tenants
                           \/ authCodes[x].tenant = "" /\ ListForClient(r.client) = {}
                     THEN "revoked" ELSE grants[x]]
     /\ Does(p, AtRest)
     /\ UNCHANGED <<clients, consents, listed, authCodes, withdrawn, approved, minted>>

\* RFC 7009: the client gives its refresh token back.
RevokeToken(x) ==
  /\ grants[x] = "live"
  /\ grants' = [grants EXCEPT ![x] = "revoked"]
  /\ UNCHANGED <<clients, consents, listed, authCodes, grantRequest, withdrawn, approved, minted>>

IndexConsent(i) ==
  /\ listed[i] # consents[i]
  /\ listed' = [listed EXCEPT ![i] = consents[i]]
  /\ UNCHANGED <<clients, consents, authCodes, grants, grantRequest, withdrawn, approved, minted>>

GrantRequestDies(p) ==
  /\ ~Stands(p, "idle")
  /\ Does(p, AtRest)
  /\ UNCHANGED <<clients, consents, listed, authCodes, grants, withdrawn, approved, minted>>

Asks == {{}} \cup {{s} : s \in OAuthScopes}

GrantNext ==
  \/ \E c \in OAuthClients : RegisterClient(c) \/ ClientLapses(c)
  \/ \E p \in GrantRequests :
       \/ \E c \in OAuthClients :
            \/ \E t \in Tenants, scopes \in (SUBSET OAuthScopes) \ {{}} : Consent(p, c, t, scopes)
            \/ \E x \in AuthCodes, v \in OAuthClients \cup {"stranger"} : ExchangeCode(p, x, c, v)
            \/ RevokeAuthorization(p, c)
       \/ \E x \in AuthCodes, c \in OAuthClients \cup {""}, asked \in Asks : Refresh(p, x, c, asked)
       \/ RecordConsent(p) \/ IssueCode(p) \/ IssueTokens(p) \/ ConsentForRefresh(p) \/ MintRefreshed(p)
       \/ EndFamily(p) \/ RevokeDevices(p) \/ GrantRequestDies(p)
  \/ \E x \in AuthCodes : RevokeToken(x)
  \/ \E i \in ConsentIds : IndexConsent(i)

GrantSpec == GrantInit /\ [][GrantNext]_grantVars

-------------------------------------------------------------------------------
MayCarry(x) ==
  UNION {approved[<<authCodes[x].client, t>>] :
           t \in IF authCodes[x].tenant = "" THEN Tenants ELSE {authCodes[x].tenant}}

\* exchange_code (oauth_server.py 686) and refresh (791): a code is worth one
\* family, to the client whose verifier it was made with; no refresh is
\* answered off a consent withdrawn by then, however stale the index it was
\* found in; and no token carries a scope the user never approved for that
\* client, in the family's tenant if it has one.
GrantsNeedTheUser ==
  \A x \in AuthCodes :
    minted[x].times > 0 =>
      /\ minted[x].times = 1
      /\ minted[x].by = {authCodes[x].client}
      /\ minted[x].scopes \subseteq MayCarry(x)
      /\ ~minted[x].late
===============================================================================
