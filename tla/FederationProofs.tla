--------------------------- MODULE FederationProofs ---------------------------
(***************************************************************************)
(* Proofs about identity shared with other parties: the grants of the      *)
(* OAuth authorization server, sign-in with a provider, a tenant's single  *)
(* sign-on and its directory, for every number of requests, codes, states, *)
(* accounts and users.                                                     *)
(***************************************************************************)
EXTENDS OAuthGrants, SingleSignOn, OAuthSignIn, ScimDirectory, TLAPS

-----------------------------------------------------------------------------
(* Grants of the authorization server.                                     *)

Parties == OAuthClients \X Tenants
ConsentRow == {Absent} \cup [client : OAuthClients, tenant : Tenants, scopes : SUBSET OAuthScopes]
CodeRow == {[at |-> "unused"]}
           \cup [at : {"live", "spent"}, client : OAuthClients, tenant : Tenants, scopes : SUBSET OAuthScopes]
MintedRow == [times : Nat, by : SUBSET OAuthClients, scopes : SUBSET OAuthScopes, late : BOOLEAN]
Consenting == [at : {"record", "issue code"}, id : ConsentIds, client : OAuthClients, tenant : Tenants,
               scopes : SUBSET OAuthScopes]
Issuing == [at : {"issue tokens"}, code : AuthCodes, by : OAuthClients]
Finding == [at : {"find consent"}, code : AuthCodes, presenter : OAuthClients \cup {""}, asked : SUBSET OAuthScopes]
Marking == [at : {"mark used"}, code : AuthCodes, asked : SUBSET OAuthScopes, id : ConsentIds,
            scopes : SUBSET OAuthScopes]
Ending == [at : {"end family"}, code : AuthCodes]
Revoking == [at : {"revoke families"}, client : OAuthClients, tenants : SUBSET (Tenants \cup {""})]
GrantDoings == {AtRest} \cup Consenting \cup Issuing \cup Finding \cup Marking \cup Ending \cup Revoking

\* What the service keeps.
GrantTypeOK ==
    /\ consents \in [ConsentIds -> ConsentRow]
    /\ listed \in [ConsentIds -> ConsentRow]
    /\ authCodes \in [AuthCodes -> CodeRow]
    /\ grants \in [AuthCodes -> {"none", "live", "revoked"}]
    /\ grantRequest \in [GrantRequests -> GrantDoings]
    /\ withdrawn \subseteq ConsentIds
    /\ approved \in [Parties -> SUBSET OAuthScopes]
    /\ minted \in [AuthCodes -> MintedRow]

\* A consent says no more than its user approved for its client and tenant.
ConsentSound(row) == row # Absent => row.scopes \subseteq approved[<<row.client, row.tenant>>]

CodeParty(x) == <<authCodes[x].client, authCodes[x].tenant>>

\* Nor does a code, and before its tokens are issued there is nothing of it.
CodeSound(x) ==
    LET m == minted[x]
    IN /\ m.late = FALSE
       /\ authCodes[x].at # "unused" => authCodes[x].scopes \subseteq MayCarry(x)
       /\ m.times = 0 => m.by = {} /\ m.scopes = {} /\ grants[x] = "none"
       /\ m.times # 0 => /\ authCodes[x].at = "spent"
                         /\ m.times = 1
                         /\ m.by = {authCodes[x].client}
                         /\ m.scopes \subseteq MayCarry(x)

\* The one exchange that spent a code issues its first tokens, to the client
\* that made the verifier; a refresh works with what the user approved.
GrantRequestSound(p) ==
    LET r == grantRequest[p]
    IN /\ r.at \in {"record", "issue code"} => r.scopes \subseteq approved[<<r.client, r.tenant>>]
       /\ r.at = "issue tokens" => /\ authCodes[r.code].at = "spent"
                                   /\ r.by = authCodes[r.code].client
                                   /\ minted[r.code].times = 0
                                   /\ \A q \in GrantRequests \ {p} :
                                        Stands(q, "issue tokens") => grantRequest[q].code # r.code
       /\ r.at \in {"find consent", "mark used", "end family"} => minted[r.code].times = 1
       /\ r.at = "mark used" => r.scopes \subseteq MayCarry(r.code)

GrantInvariant ==
    /\ GrantTypeOK
    /\ \A i \in ConsentIds : ConsentSound(consents[i]) /\ ConsentSound(listed[i])
    /\ \A i \in withdrawn : consents[i] = Absent
    /\ \A x \in AuthCodes : CodeSound(x)
    /\ \A p \in GrantRequests : GrantRequestSound(p)

\* A request's record says what it is doing.
LEMMA GrantDoingShape ==
    ASSUME NEW r \in GrantDoings
    PROVE  /\ r.at \in {"record", "issue code"} => r \in Consenting
           /\ r.at = "issue tokens" => r \in Issuing
           /\ r.at = "find consent" => r \in Finding
           /\ r.at = "mark used" => r \in Marking
           /\ r.at = "end family" => r \in Ending
           /\ r.at = "revoke families" => r \in Revoking
<1>1. CASE r = AtRest BY <1>1 DEF AtRest
<1>2. CASE r \in Consenting BY <1>2 DEF Consenting
<1>3. CASE r \in Issuing BY <1>3 DEF Issuing
<1>4. CASE r \in Finding BY <1>4 DEF Finding
<1>5. CASE r \in Marking BY <1>5 DEF Marking
<1>6. CASE r \in Ending BY <1>6 DEF Ending
<1>7. CASE r \in Revoking BY <1>7 DEF Revoking
<1> QED BY <1>1, <1>2, <1>3, <1>4, <1>5, <1>6, <1>7 DEF GrantDoings

\* A code that was issued has a client and a tenant.
LEMMA PartyOfCode ==
    ASSUME GrantTypeOK, NEW x \in AuthCodes, authCodes[x].at # "unused"
    PROVE  /\ authCodes[x].client \in OAuthClients /\ authCodes[x].tenant \in Tenants
           /\ authCodes[x].scopes \subseteq OAuthScopes
           /\ CodeParty(x) \in Parties
<1>1. authCodes[x] \in [at : {"live", "spent"}, client : OAuthClients, tenant : Tenants, scopes : SUBSET OAuthScopes]
  BY DEF GrantTypeOK, CodeRow
<1> QED BY <1>1 DEF CodeParty, Parties

\* A family may carry what was approved for its code's party, and goes on to.
LEMMA MayCarryNext ==
    ASSUME GrantTypeOK', NEW x \in AuthCodes, authCodes'[x].at # "unused"
    PROVE  approved'[CodeParty(x)'] \subseteq MayCarry(x)'
<1>1. authCodes'[x] \in [at : {"live", "spent"}, client : OAuthClients, tenant : Tenants, scopes : SUBSET OAuthScopes]
  BY DEF GrantTypeOK, CodeRow
<1>2. PICK t \in Tenants : t = authCodes'[x].tenant BY <1>1
<1>3. t \in IF authCodes'[x].tenant = "" THEN Tenants ELSE {authCodes'[x].tenant} BY <1>2
<1> QED BY <1>2, <1>3 DEF MayCarry, CodeParty

\* A code whose tokens were issued is spent.
LEMMA AnsweredOnce ==
    ASSUME GrantInvariant, NEW x \in AuthCodes, minted[x].times = 1
    PROVE  authCodes[x].at = "spent" /\ CodeParty(x) \in Parties
<1>1. CodeSound(x) BY DEF GrantInvariant
<1>2. authCodes[x].at = "spent" BY <1>1 DEF CodeSound
<1>3. authCodes[x].at # "unused" BY <1>2
<1> QED BY <1>2, <1>3, PartyOfCode DEF GrantInvariant

\* Nothing that was approved is taken back, so what is said of codes and
\* consents stays true of those that do not change.
Widened == \A k \in Parties : approved[k] \subseteq approved'[k]

LEMMA MayCarryKept ==
    ASSUME GrantInvariant, Widened, UNCHANGED authCodes, NEW x \in AuthCodes, authCodes[x].at # "unused"
    PROVE  MayCarry(x) \subseteq MayCarry(x)'
<1>1. authCodes[x].client \in OAuthClients /\ authCodes[x].tenant \in Tenants
  BY PartyOfCode DEF GrantInvariant
<1>2. \A t \in Tenants : approved[<<authCodes[x].client, t>>] \subseteq approved'[<<authCodes[x].client, t>>]
  BY <1>1 DEF Widened, Parties
<1> QED BY <1>1, <1>2 DEF MayCarry

\* It is the same while the code's client and tenant are, and nothing is approved.
LEMMA MayCarrySame ==
    ASSUME NEW x \in AuthCodes, UNCHANGED approved, authCodes'[x].client = authCodes[x].client,
           authCodes'[x].tenant = authCodes[x].tenant
    PROVE  MayCarry(x)' = MayCarry(x)
BY DEF MayCarry

LEMMA CodesKept ==
    ASSUME GrantInvariant, Widened, UNCHANGED <<authCodes, minted>>,
           \A x \in AuthCodes : grants[x] = "none" => grants'[x] = "none"
    PROVE  \A x \in AuthCodes : CodeSound(x)'
<1> SUFFICES ASSUME NEW x \in AuthCodes PROVE CodeSound(x)' OBVIOUS
<1>1. CodeSound(x) BY DEF GrantInvariant
<1>2. CASE authCodes[x].at = "unused"
  BY <1>1, <1>2 DEF CodeSound, GrantInvariant, GrantTypeOK, MintedRow
<1>3. CASE authCodes[x].at # "unused" BY <1>1, <1>3, MayCarryKept DEF CodeSound
<1> QED BY <1>2, <1>3

\* The other requests keep what they hold, whatever one of them goes on to do,
\* unless that is to issue tokens too.
LEMMA GrantRequestsKept ==
    ASSUME GrantInvariant, Widened, NEW p \in GrantRequests, NEW r \in GrantDoings, Does(p, r),
           r.at # "issue tokens", UNCHANGED <<authCodes, minted>>
    PROVE  /\ grantRequest' \in [GrantRequests -> GrantDoings]
           /\ grantRequest'[p] = r
           /\ \A q \in GrantRequests \ {p} : grantRequest'[q] = grantRequest[q] /\ GrantRequestSound(q)'
<1>1. /\ grantRequest' \in [GrantRequests -> GrantDoings]
      /\ grantRequest'[p] = r
      /\ \A q \in GrantRequests \ {p} : grantRequest'[q] = grantRequest[q]
  BY DEF Does, GrantInvariant, GrantTypeOK
<1>2. ASSUME NEW q \in GrantRequests \ {p} PROVE GrantRequestSound(q)'
  <2> DEFINE d == grantRequest[q]
  <2>1. d \in GrantDoings /\ grantRequest'[q] = d BY <1>1 DEF GrantInvariant, GrantTypeOK
  <2>2. GrantRequestSound(q) BY DEF GrantInvariant
  <2>3. d.at \in {"record", "issue code"} => <<d.client, d.tenant>> \in Parties
    BY <2>1, GrantDoingShape DEF Consenting, Parties
  <2>4. d.at \in {"record", "issue code"} => d.scopes \subseteq approved'[<<d.client, d.tenant>>]
    BY <2>2, <2>3 DEF GrantRequestSound, Widened
  <2>5. d.at = "issue tokens" => \A o \in GrantRequests \ {q} :
          Stands(o, "issue tokens")' => grantRequest'[o].code # d.code
    BY <1>1, <2>2 DEF GrantRequestSound, Stands
  <2>6. ASSUME NEW y \in AuthCodes, d.at = "mark used", d.code = y PROVE d.scopes \subseteq MayCarry(y)'
    <3>1. minted[y].times = 1 BY <2>2, <2>6 DEF GrantRequestSound
    <3>2. authCodes[y].at # "unused" BY <3>1, AnsweredOnce
    <3>3. MayCarry(y) \subseteq MayCarry(y)' BY <3>2, MayCarryKept
    <3> QED BY <2>2, <2>6, <3>3 DEF GrantRequestSound
  <2>7. d.at = "mark used" => d.code \in AuthCodes BY <2>1, GrantDoingShape DEF Marking
  <2>8. d.at = "mark used" => grantRequest'[q].scopes \subseteq MayCarry(grantRequest[q].code)'
    BY <2>1, <2>6, <2>7
  <2> QED BY <2>1, <2>2, <2>4, <2>5, <2>8 DEF GrantRequestSound
<1> QED BY <1>1, <1>2

LEMMA OnceIsSome == ASSUME NEW n, n = 1 PROVE n # 0
OBVIOUS

\* A request at rest holds nothing.
LEMMA RestIsSound ==
    ASSUME NEW p \in GrantRequests, grantRequest'[p] = AtRest
    PROVE  GrantRequestSound(p)'
<1>1. AtRest.at = "idle" BY DEF AtRest
<1> QED BY <1>1 DEF GrantRequestSound

\* A step that leaves the tables alone keeps the invariant, if the request it
\* changes does.
LEMMA GrantStepKeeps ==
    ASSUME GrantInvariant, NEW p \in GrantRequests, NEW r \in GrantDoings, Does(p, r), r.at # "issue tokens",
           UNCHANGED <<consents, listed, authCodes, grants, withdrawn, approved, minted>>,
           GrantRequestSound(p)'
    PROVE  GrantInvariant'
<1>1. Widened BY DEF Widened
<1>2. /\ grantRequest' \in [GrantRequests -> GrantDoings]
      /\ \A q \in GrantRequests \ {p} : GrantRequestSound(q)'
  BY <1>1, GrantRequestsKept
<1>3. GrantTypeOK' BY <1>2 DEF GrantInvariant, GrantTypeOK
<1>4. \A x \in AuthCodes : CodeSound(x)' BY <1>1, CodesKept
<1>5. \A i \in ConsentIds : ConsentSound(consents[i])' /\ ConsentSound(listed[i])'
  BY DEF GrantInvariant, ConsentSound
<1> QED BY <1>2, <1>3, <1>4, <1>5 DEF GrantInvariant

\* What is approved, and what an earlier consent kept, is no more than was approved.
LEMMA ConsentKeeps ==
    ASSUME GrantInvariant, NEW p \in GrantRequests, NEW c \in OAuthClients, NEW t \in Tenants,
           NEW scopes \in SUBSET OAuthScopes, Consent(p, c, t, scopes)
    PROVE  GrantInvariant'
<1>1. PICK i \in ConsentIds, kept \in SUBSET OAuthScopes :
        /\ kept \subseteq approved[<<c, t>>]
        /\ Does(p, [at |-> "record", id |-> i, client |-> c, tenant |-> t, scopes |-> scopes \cup kept])
  <2>1. PICK i \in ConsentIds :
          /\ (listed[i].client = c /\ listed[i].tenant = t) \/ listed[i] = Absent
          /\ \/ Does(p, [at |-> "record", id |-> i, client |-> c, tenant |-> t, scopes |-> scopes \cup listed[i].scopes])
             \/ Does(p, [at |-> "record", id |-> i, client |-> c, tenant |-> t, scopes |-> scopes \cup {}])
    BY DEF Consent, ListForClient
  <2>2. listed[i].scopes \subseteq OAuthScopes /\ listed[i].scopes \subseteq approved[<<c, t>>]
    <3>1. listed[i] \in ConsentRow /\ ConsentSound(listed[i]) BY DEF GrantInvariant, GrantTypeOK
    <3>2. CASE listed[i] = Absent
      <4>1. Absent.scopes = {} BY DEF Absent
      <4> QED BY <3>2, <4>1
    <3>3. CASE listed[i] # Absent BY <2>1, <3>1, <3>3 DEF ConsentSound, ConsentRow
    <3> QED BY <3>2, <3>3
  <2>3. CASE Does(p, [at |-> "record", id |-> i, client |-> c, tenant |-> t, scopes |-> scopes \cup listed[i].scopes])
    BY <2>2, <2>3
  <2>4. CASE Does(p, [at |-> "record", id |-> i, client |-> c, tenant |-> t, scopes |-> scopes \cup {}])
    BY <2>4
  <2> QED BY <2>1, <2>3, <2>4
<1> DEFINE r == [at |-> "record", id |-> i, client |-> c, tenant |-> t, scopes |-> scopes \cup kept]
<1>2. /\ approved' = [approved EXCEPT ![<<c, t>>] = @ \cup scopes]
      /\ UNCHANGED <<consents, listed, authCodes, grants, withdrawn, minted>>
  BY DEF Consent
<1>3. /\ approved' \in [Parties -> SUBSET OAuthScopes]
      /\ Widened
      /\ scopes \cup kept \subseteq approved'[<<c, t>>]
  BY <1>1, <1>2 DEF GrantInvariant, GrantTypeOK, Parties, Widened
<1>4. r \in GrantDoings /\ r.at # "issue tokens" BY DEF GrantDoings, Consenting
<1>5. /\ grantRequest' \in [GrantRequests -> GrantDoings] /\ grantRequest'[p] = r
      /\ \A q \in GrantRequests \ {p} : GrantRequestSound(q)'
  BY <1>1, <1>2, <1>3, <1>4, GrantRequestsKept
<1>6. GrantRequestSound(p)'
  <2>1. r.at = "record" /\ r.scopes \subseteq approved'[<<r.client, r.tenant>>] BY <1>3
  <2> HIDE DEF r
  <2> QED BY <1>5, <2>1 DEF GrantRequestSound
<1>7. GrantTypeOK' BY <1>2, <1>3, <1>5 DEF GrantInvariant, GrantTypeOK
<1>8. \A x \in AuthCodes : CodeSound(x)' BY <1>2, <1>3, CodesKept
<1>9. \A j \in ConsentIds : ConsentSound(consents[j])' /\ ConsentSound(listed[j])'
  <2>1. \A j \in ConsentIds : /\ consents'[j] = consents[j] /\ listed'[j] = listed[j]
                              /\ consents[j] \in ConsentRow /\ listed[j] \in ConsentRow
                              /\ ConsentSound(consents[j]) /\ ConsentSound(listed[j])
    BY <1>2 DEF GrantInvariant, GrantTypeOK
  <2> QED BY <1>3, <2>1 DEF ConsentSound, Widened, ConsentRow, Parties
<1> QED BY <1>2, <1>5, <1>6, <1>7, <1>8, <1>9 DEF GrantInvariant

\* The row holds what the request holds.
LEMMA RecordKeeps ==
    ASSUME GrantInvariant, NEW p \in GrantRequests, RecordConsent(p)
    PROVE  GrantInvariant'
<1> DEFINE r == grantRequest[p]
           n == [r EXCEPT !.at = "issue code"]
           row == [client |-> r.client, tenant |-> r.tenant, scopes |-> r.scopes]
<1>1. /\ r.at = "record" /\ r \in GrantDoings
      /\ consents' = [consents EXCEPT ![r.id] = row]
      /\ withdrawn' = withdrawn \ {r.id}
      /\ Does(p, n)
      /\ UNCHANGED <<clients, listed, authCodes, grants, approved, minted>>
  BY DEF RecordConsent, Stands, GrantInvariant, GrantTypeOK
<1>2. r \in Consenting BY <1>1, GrantDoingShape
<1>3. r.id \in ConsentIds /\ row \in ConsentRow /\ n \in GrantDoings /\ n.at = "issue code"
      /\ n.client = r.client /\ n.tenant = r.tenant /\ n.scopes = r.scopes
  BY <1>2 DEF Consenting, ConsentRow, GrantDoings
<1>4. r.scopes \subseteq approved[<<r.client, r.tenant>>]
  BY <1>1 DEF GrantInvariant, GrantRequestSound
<1>5. ConsentSound(row) BY <1>4 DEF ConsentSound
<1>6. Widened BY <1>1 DEF Widened
<1> HIDE DEF r, n, row
<1>7. /\ grantRequest' \in [GrantRequests -> GrantDoings] /\ grantRequest'[p] = n
      /\ \A q \in GrantRequests \ {p} : GrantRequestSound(q)'
  BY <1>1, <1>3, <1>6, GrantRequestsKept
<1>8. GrantRequestSound(p)' BY <1>1, <1>3, <1>4, <1>7 DEF GrantRequestSound
<1>9. GrantTypeOK' BY <1>1, <1>3, <1>7 DEF GrantInvariant, GrantTypeOK
<1>10. \A x \in AuthCodes : CodeSound(x)' BY <1>1, <1>6, CodesKept
<1>11. \A j \in ConsentIds : ConsentSound(consents[j])' /\ ConsentSound(listed[j])'
  BY <1>1, <1>3, <1>5 DEF GrantInvariant, GrantTypeOK, ConsentSound
<1>12. \A j \in withdrawn' : consents'[j] = Absent
  BY <1>1, <1>3 DEF GrantInvariant, GrantTypeOK
<1> QED BY <1>7, <1>8, <1>9, <1>10, <1>11, <1>12 DEF GrantInvariant

\* A new code holds what was consented to.
LEMMA IssueCodeKeeps ==
    ASSUME GrantInvariant, NEW p \in GrantRequests, IssueCode(p)
    PROVE  GrantInvariant'
<1> DEFINE r == grantRequest[p]
<1>1. PICK x \in AuthCodes :
        /\ authCodes[x].at = "unused"
        /\ authCodes' = [authCodes EXCEPT ![x] =
                           [at |-> "live", client |-> r.client, tenant |-> r.tenant, scopes |-> r.scopes]]
  <2> DEFINE unused == {y \in AuthCodes : authCodes[y].at = "unused"}
  <2>1. (CHOOSE y \in unused : TRUE) \in unused BY DEF IssueCode
  <2> QED BY <2>1 DEF IssueCode
<1> DEFINE row == [at |-> "live", client |-> r.client, tenant |-> r.tenant, scopes |-> r.scopes]
<1>2. /\ r.at = "issue code" /\ r \in GrantDoings
      /\ Does(p, AtRest)
      /\ UNCHANGED <<clients, consents, listed, grants, withdrawn, approved, minted>>
  BY DEF IssueCode, Stands, GrantInvariant, GrantTypeOK
<1>3. r \in Consenting BY <1>2, GrantDoingShape
<1>4. row \in CodeRow BY <1>3 DEF Consenting, CodeRow
<1>5. r.scopes \subseteq approved[<<r.client, r.tenant>>]
  BY <1>2 DEF GrantInvariant, GrantRequestSound
<1>6. row.at = "live" /\ row.scopes \subseteq approved[<<row.client, row.tenant>>]
  BY <1>5
<1> HIDE DEF row
<1>7. /\ authCodes' \in [AuthCodes -> CodeRow] /\ authCodes'[x] = row
      /\ \A y \in AuthCodes \ {x} : authCodes'[y] = authCodes[y]
  BY <1>1, <1>4 DEF row, GrantInvariant, GrantTypeOK
<1>8. /\ grantRequest' \in [GrantRequests -> GrantDoings] /\ grantRequest'[p] = AtRest
      /\ \A q \in GrantRequests \ {p} : grantRequest'[q] = grantRequest[q]
  BY <1>2 DEF Does, GrantInvariant, GrantTypeOK, GrantDoings
<1>9. GrantTypeOK' BY <1>2, <1>7, <1>8 DEF GrantInvariant, GrantTypeOK
<1>10. \A y \in AuthCodes : CodeSound(y)'
  <2>1. CodeSound(x)'
    <3>1. CodeSound(x) BY DEF GrantInvariant
    <3>2. minted[x].times = 0 BY <1>1, <3>1 DEF CodeSound
    <3>3. approved'[CodeParty(x)'] \subseteq MayCarry(x)' BY <1>6, <1>7, <1>9, MayCarryNext
    <3>4. row.scopes \subseteq MayCarry(x)' BY <1>2, <1>6, <1>7, <3>3 DEF CodeParty
    <3> QED BY <1>2, <1>6, <1>7, <3>1, <3>2, <3>4 DEF CodeSound
  <2>2. ASSUME NEW y \in AuthCodes \ {x} PROVE CodeSound(y)' BY <1>2, <1>7, MayCarrySame DEF GrantInvariant, CodeSound
  <2> QED BY <2>1, <2>2
<1>11. \A q \in GrantRequests : GrantRequestSound(q)'
  <2>1. GrantRequestSound(p)' BY <1>8, RestIsSound
  <2>2. ASSUME NEW q \in GrantRequests \ {p} PROVE GrantRequestSound(q)'
    <3> DEFINE d == grantRequest[q]
    <3>1. d \in GrantDoings /\ grantRequest'[q] = d BY <1>8 DEF GrantInvariant, GrantTypeOK
    <3>2. GrantRequestSound(q) BY DEF GrantInvariant
    <3>3. ASSUME d.at = "issue tokens"
          PROVE  /\ authCodes'[d.code].at = "spent" /\ d.by = authCodes'[d.code].client
                 /\ \A o \in GrantRequests \ {q} : Stands(o, "issue tokens")' => grantRequest'[o].code # d.code
      <4>1. d.code \in AuthCodes BY <3>1, <3>3, GrantDoingShape DEF Issuing
      <4>2. authCodes[d.code].at = "spent" /\ d.by = authCodes[d.code].client
        BY <3>2, <3>3 DEF GrantRequestSound
      <4>3. d.code # x BY <1>1, <4>2
      <4>4. \A o \in GrantRequests \ {q} : Stands(o, "issue tokens")' => grantRequest'[o].code # d.code
        <5>1. AtRest.at = "idle" BY DEF AtRest
        <5>2. ~Stands(p, "issue tokens")' BY <1>8, <5>1 DEF Stands
        <5> QED BY <1>8, <3>2, <3>3, <5>2 DEF GrantRequestSound, Stands
      <4> QED BY <1>7, <4>1, <4>2, <4>3, <4>4
    <3>4. ASSUME NEW y \in AuthCodes, d.at = "mark used", d.code = y PROVE d.scopes \subseteq MayCarry(y)'
      <4>1. minted[y].times = 1 BY <3>2, <3>4 DEF GrantRequestSound
      <4>2. authCodes[y].at = "spent" BY <4>1, AnsweredOnce
      <4>3. y # x BY <1>1, <4>2
      <4>4. MayCarry(y)' = MayCarry(y) BY <1>2, <1>7, <4>3, MayCarrySame
      <4> QED BY <3>2, <3>4, <4>4 DEF GrantRequestSound
    <3>5. d.at = "mark used" => d.code \in AuthCodes BY <3>1, GrantDoingShape DEF Marking
    <3>6. d.at = "mark used" => grantRequest'[q].scopes \subseteq MayCarry(grantRequest[q].code)'
      BY <3>1, <3>4, <3>5
    <3> QED BY <1>2, <3>1, <3>2, <3>3, <3>6 DEF GrantRequestSound
  <2> QED BY <2>1, <2>2
<1>12. \A j \in ConsentIds : ConsentSound(consents[j])' /\ ConsentSound(listed[j])'
  BY <1>2 DEF GrantInvariant, ConsentSound
<1> QED BY <1>2, <1>9, <1>10, <1>11, <1>12 DEF GrantInvariant

\* The code is spent by one exchange, before its tokens are.
LEMMA ExchangeCodeKeeps ==
    ASSUME GrantInvariant, NEW p \in GrantRequests, NEW x \in AuthCodes, NEW c, NEW v, ExchangeCode(p, x, c, v)
    PROVE  GrantInvariant'
<1> DEFINE spent == [authCodes[x] EXCEPT !.at = "spent"]
<1>1. /\ authCodes[x].at = "live"
      /\ authCodes' = [authCodes EXCEPT ![x] = spent]
      /\ UNCHANGED <<clients, consents, listed, grants, withdrawn, approved, minted>>
  BY DEF ExchangeCode, ConsumeCode
<1>2. authCodes[x] \in [at : {"live", "spent"}, client : OAuthClients, tenant : Tenants, scopes : SUBSET OAuthScopes]
  BY <1>1 DEF GrantInvariant, GrantTypeOK, CodeRow
<1>3. /\ spent \in CodeRow /\ spent.at = "spent" /\ spent.client = authCodes[x].client
      /\ spent.tenant = authCodes[x].tenant /\ spent.scopes = authCodes[x].scopes
  BY <1>2 DEF CodeRow
<1> HIDE DEF spent
<1>4. /\ authCodes' \in [AuthCodes -> CodeRow] /\ authCodes'[x] = spent
      /\ \A y \in AuthCodes \ {x} : authCodes'[y] = authCodes[y]
  BY <1>1, <1>3 DEF GrantInvariant, GrantTypeOK
<1>5. \A y \in AuthCodes : MayCarry(y)' = MayCarry(y) BY <1>1, <1>3, <1>4, MayCarrySame
<1>6. minted[x].times = 0
  BY <1>1 DEF GrantInvariant, CodeSound
<1>7. \A y \in AuthCodes : CodeSound(y)'
  <2>1. CodeSound(x)' BY <1>1, <1>3, <1>4, <1>5, <1>6 DEF GrantInvariant, CodeSound
  <2>2. ASSUME NEW y \in AuthCodes \ {x} PROVE CodeSound(y)'
    BY <1>1, <1>4, <1>5 DEF GrantInvariant, CodeSound
  <2> QED BY <2>1, <2>2
<1>8. PICK n \in {AtRest, [at |-> "issue tokens", code |-> x, by |-> authCodes[x].client]} : Does(p, n)
  BY DEF ExchangeCode
<1>9. n \in GrantDoings
  <2>1. [at |-> "issue tokens", code |-> x, by |-> authCodes[x].client] \in Issuing BY <1>2 DEF Issuing
  <2> QED BY <1>8, <2>1 DEF GrantDoings
<1>10. /\ grantRequest' \in [GrantRequests -> GrantDoings] /\ grantRequest'[p] = n
       /\ \A q \in GrantRequests \ {p} : grantRequest'[q] = grantRequest[q]
  BY <1>8, <1>9 DEF Does, GrantInvariant, GrantTypeOK
<1>11. GrantTypeOK' BY <1>1, <1>4, <1>10 DEF GrantInvariant, GrantTypeOK
<1>12. \A q \in GrantRequests : Stands(q, "issue tokens") => grantRequest[q].code # x
  BY <1>1 DEF GrantInvariant, GrantRequestSound, Stands
<1>13. GrantRequestSound(p)'
  <2>1. CASE n = AtRest BY <1>10, <2>1, RestIsSound
  <2>2. CASE n = [at |-> "issue tokens", code |-> x, by |-> authCodes[x].client]
    <3>1. n.at = "issue tokens" /\ n.code = x /\ n.by = authCodes[x].client BY <2>2
    <3>2. \A q \in GrantRequests \ {p} : Stands(q, "issue tokens")' => grantRequest'[q].code # x
      BY <1>10, <1>12 DEF Stands
    <3> QED BY <1>1, <1>3, <1>4, <1>6, <1>10, <3>1, <3>2 DEF GrantRequestSound
  <2> QED BY <1>8, <2>1, <2>2
<1>14. ASSUME NEW q \in GrantRequests \ {p} PROVE GrantRequestSound(q)'
  <2> DEFINE d == grantRequest[q]
  <2>1. d \in GrantDoings /\ grantRequest'[q] = d BY <1>10 DEF GrantInvariant, GrantTypeOK
  <2>2. GrantRequestSound(q) BY DEF GrantInvariant
  <2>3. ASSUME d.at = "issue tokens"
        PROVE  /\ authCodes'[d.code].at = "spent" /\ d.by = authCodes'[d.code].client
               /\ \A o \in GrantRequests \ {q} : Stands(o, "issue tokens")' => grantRequest'[o].code # d.code
    <3>1. d.code \in AuthCodes BY <2>1, <2>3, GrantDoingShape DEF Issuing
    <3>2. authCodes[d.code].at = "spent" /\ d.by = authCodes[d.code].client
      BY <2>2, <2>3 DEF GrantRequestSound
    <3>3. d.code # x BY <1>1, <3>2
    <3>4. ASSUME NEW o \in GrantRequests \ {q}, Stands(o, "issue tokens")' PROVE grantRequest'[o].code # d.code
      <4>1. CASE o = p
        <5>1. n = [at |-> "issue tokens", code |-> x, by |-> authCodes[x].client]
          <6>1. AtRest.at = "idle" BY DEF AtRest
          <6> QED BY <1>8, <1>10, <3>4, <4>1, <6>1 DEF Stands
        <5>2. n.code = x BY <5>1
        <5> QED BY <1>10, <3>3, <4>1, <5>2
      <4>2. CASE o # p BY <1>10, <2>2, <2>3, <3>4, <4>2 DEF GrantRequestSound, Stands
      <4> QED BY <4>1, <4>2
    <3> QED BY <1>4, <3>1, <3>2, <3>3, <3>4
  <2>4. d.at = "mark used" => d.code \in AuthCodes BY <2>1, GrantDoingShape DEF Marking
  <2> QED BY <1>1, <1>5, <2>1, <2>2, <2>3, <2>4 DEF GrantRequestSound
<1>15. \A j \in ConsentIds : ConsentSound(consents[j])' /\ ConsentSound(listed[j])'
  BY <1>1 DEF GrantInvariant, ConsentSound
<1> QED BY <1>1, <1>7, <1>11, <1>13, <1>14, <1>15 DEF GrantInvariant

\* The first tokens of a code go to the client that made its verifier.
LEMMA IssueTokensKeeps ==
    ASSUME GrantInvariant, NEW p \in GrantRequests, IssueTokens(p)
    PROVE  GrantInvariant'
<1>1. PICK x \in AuthCodes : grantRequest[p].at = "issue tokens" /\ grantRequest[p].code = x
  <2>1. grantRequest[p] \in GrantDoings /\ grantRequest[p].at = "issue tokens"
    BY DEF IssueTokens, Stands, GrantInvariant, GrantTypeOK
  <2> QED BY <2>1, GrantDoingShape DEF Issuing
<1>2. /\ Does(p, AtRest)
      /\ UNCHANGED <<consents, listed, authCodes, withdrawn, approved>>
  BY DEF IssueTokens
<1>3. /\ authCodes[x].at = "spent" /\ grantRequest[p].by = authCodes[x].client /\ minted[x].times = 0
      /\ \A q \in GrantRequests \ {p} : Stands(q, "issue tokens") => grantRequest[q].code # x
  BY <1>1 DEF GrantInvariant, GrantRequestSound
<1>4. minted[x] \in MintedRow /\ CodeSound(x) BY DEF GrantInvariant, GrantTypeOK
<1>5. /\ minted[x].by = {} /\ minted[x].scopes = {} /\ minted[x].late = FALSE
      /\ authCodes[x].scopes \subseteq MayCarry(x)
  BY <1>3, <1>4 DEF CodeSound
<1>6. authCodes[x].client \in OAuthClients /\ authCodes[x].scopes \subseteq OAuthScopes
  BY <1>3, PartyOfCode DEF GrantInvariant
<1> DEFINE answered == [times |-> minted[x].times + 1, by |-> minted[x].by \cup {grantRequest[p].by},
                        scopes |-> minted[x].scopes \cup authCodes[x].scopes, late |-> minted[x].late]
<1>7. \/ grants' = grants /\ minted' = minted
      \/ grants' = [grants EXCEPT ![x] = "live"] /\ minted' = [minted EXCEPT ![x] = answered]
  BY <1>1 DEF IssueTokens, GrantInvariant, GrantTypeOK
<1>8. /\ answered \in MintedRow /\ answered.times = 1 /\ answered.by = {authCodes[x].client}
      /\ answered.scopes = authCodes[x].scopes /\ answered.late = FALSE
  <2>0. minted[x].times = 0 BY <1>3
  <2>1. minted[x].times + 1 = 1 BY <2>0
  <2>2. minted[x].by \cup {grantRequest[p].by} = {authCodes[x].client} BY <1>3, <1>5
  <2>3. minted[x].scopes \cup authCodes[x].scopes = authCodes[x].scopes BY <1>5
  <2>4. minted[x].late = FALSE BY <1>5
  <2>5. answered = [times |-> 1, by |-> {authCodes[x].client}, scopes |-> authCodes[x].scopes, late |-> FALSE]
    BY <2>1, <2>2, <2>3, <2>4
  <2> HIDE DEF answered
  <2> QED BY <1>6, <2>5 DEF MintedRow
<1> HIDE DEF answered
<1>9. /\ grants' \in [AuthCodes -> {"none", "live", "revoked"}]
      /\ minted' \in [AuthCodes -> MintedRow]
      /\ \A y \in AuthCodes \ {x} : grants'[y] = grants[y] /\ minted'[y] = minted[y]
      /\ (grants'[x] = grants[x] /\ minted'[x] = minted[x]) \/ (grants'[x] = "live" /\ minted'[x] = answered)
  BY <1>7, <1>8 DEF GrantInvariant, GrantTypeOK
<1>10. /\ grantRequest' \in [GrantRequests -> GrantDoings] /\ grantRequest'[p] = AtRest
       /\ \A q \in GrantRequests \ {p} : grantRequest'[q] = grantRequest[q]
  BY <1>2 DEF Does, GrantInvariant, GrantTypeOK, GrantDoings
<1>11. GrantTypeOK' BY <1>2, <1>9, <1>10 DEF GrantInvariant, GrantTypeOK
<1>12. \A y \in AuthCodes : CodeSound(y)'
  <2>0. \A y \in AuthCodes : MayCarry(y)' = MayCarry(y) BY <1>2 DEF MayCarry
  <2>1. CodeSound(x)'
    <3>1. CASE grants'[x] = grants[x] /\ minted'[x] = minted[x]
      BY <1>2, <1>4, <2>0, <3>1 DEF CodeSound
    <3>2. CASE grants'[x] = "live" /\ minted'[x] = answered
      <4>1. minted'[x].late = FALSE /\ minted'[x].times = 1 /\ minted'[x].by = {authCodes'[x].client}
        BY <1>2, <1>8, <3>2
      <4>2. minted'[x].scopes \subseteq MayCarry(x)' /\ authCodes'[x].scopes \subseteq MayCarry(x)'
        BY <1>2, <1>5, <1>8, <2>0, <3>2
      <4>3. authCodes'[x].at = "spent" BY <1>2, <1>3
      <4> QED BY <4>1, <4>2, <4>3 DEF CodeSound
    <3> QED BY <1>9, <3>1, <3>2
  <2>2. ASSUME NEW y \in AuthCodes \ {x} PROVE CodeSound(y)'
    BY <1>2, <1>9, <2>0 DEF GrantInvariant, CodeSound
  <2> QED BY <2>1, <2>2
<1>13. GrantRequestSound(p)' BY <1>10, RestIsSound
<1>14. ASSUME NEW q \in GrantRequests \ {p} PROVE GrantRequestSound(q)'
  <2> DEFINE d == grantRequest[q]
  <2>1. d \in GrantDoings /\ grantRequest'[q] = d BY <1>10 DEF GrantInvariant, GrantTypeOK
  <2>2. GrantRequestSound(q) BY DEF GrantInvariant
  <2>3. ASSUME d.at = "issue tokens"
        PROVE  /\ minted'[d.code].times = 0
               /\ \A o \in GrantRequests \ {q} : Stands(o, "issue tokens")' => grantRequest'[o].code # d.code
    <3>1. d.code \in AuthCodes BY <2>1, <2>3, GrantDoingShape DEF Issuing
    <3>2. d.code # x BY <1>3, <2>3 DEF Stands
    <3>3. minted[d.code].times = 0 BY <2>2, <2>3 DEF GrantRequestSound
    <3>4. ~Stands(p, "issue tokens")' BY <1>10 DEF AtRest, Stands
    <3>5. \A o \in GrantRequests \ {q} : Stands(o, "issue tokens")' => grantRequest'[o].code # d.code
      BY <1>10, <2>2, <2>3, <3>4 DEF GrantRequestSound, Stands
    <3> QED BY <1>9, <3>1, <3>2, <3>3, <3>5
  <2>4. ASSUME d.at \in {"find consent", "mark used", "end family"}
        PROVE  d.code \in AuthCodes /\ minted'[d.code].times = 1
    <3>1. PICK y \in AuthCodes : y = d.code
      BY <2>1, <2>4, GrantDoingShape DEF Finding, Marking, Ending
    <3>2. minted[y].times = 1 BY <2>2, <2>4, <3>1 DEF GrantRequestSound
    <3>3. minted[y].times # 0 BY <3>2
    <3>4. y # x BY <1>3, <3>3
    <3> QED BY <1>9, <3>1, <3>2, <3>4
  <2>5. \A y \in AuthCodes : MayCarry(y)' = MayCarry(y) BY <1>2 DEF MayCarry
  <2> QED BY <1>2, <2>1, <2>2, <2>3, <2>4, <2>5 DEF GrantRequestSound
<1>15. \A j \in ConsentIds : ConsentSound(consents[j])' /\ ConsentSound(listed[j])'
  BY <1>2 DEF GrantInvariant, ConsentSound
<1> QED BY <1>2, <1>11, <1>12, <1>13, <1>14, <1>15 DEF GrantInvariant

\* A refresh begins on a family that stands, and finds a consent of its code's
\* client and tenant.
LEMMA RefreshKeeps ==
    ASSUME GrantInvariant, NEW p \in GrantRequests, NEW x \in AuthCodes, NEW asked \in SUBSET OAuthScopes,
           NEW c \in OAuthClients \cup {""}, Refresh(p, x, c, asked)
    PROVE  GrantInvariant'
<1> DEFINE r == [at |-> "find consent", code |-> x, presenter |-> c, asked |-> asked]
<1>1. /\ grants[x] = "live" /\ Does(p, r)
      /\ UNCHANGED <<clients, consents, listed, authCodes, grants, withdrawn, approved, minted>>
  BY DEF Refresh
<1>2. r \in GrantDoings /\ r.at = "find consent" /\ r.code = x BY DEF GrantDoings, Finding
<1> HIDE DEF r
<1>3. minted[x].times = 1 BY <1>1 DEF GrantInvariant, CodeSound
<1>4. grantRequest'[p] = r BY <1>1 DEF Does, GrantInvariant, GrantTypeOK
<1>5. GrantRequestSound(p)' BY <1>1, <1>2, <1>3, <1>4 DEF GrantRequestSound
<1> QED BY <1>1, <1>2, <1>5, GrantStepKeeps

LEMMA ConsentForRefreshKeeps ==
    ASSUME GrantInvariant, NEW p \in GrantRequests, ConsentForRefresh(p)
    PROVE  GrantInvariant'
<1> DEFINE d == grantRequest[p]
<1>1. d.at = "find consent" /\ d \in GrantDoings
  BY DEF ConsentForRefresh, Stands, GrantInvariant, GrantTypeOK
<1>2. d \in Finding BY <1>1, GrantDoingShape
<1>3. PICK x \in AuthCodes : d.code = x BY <1>2 DEF Finding
<1>4. minted[x].times = 1 BY <1>1, <1>3 DEF GrantInvariant, GrantRequestSound
<1>5. UNCHANGED <<clients, consents, listed, authCodes, grants, withdrawn, approved, minted>>
  BY DEF ConsentForRefresh
<1>6. CASE Does(p, [at |-> "end family", code |-> x])
  <2> DEFINE r == [at |-> "end family", code |-> x]
  <2>1. r \in GrantDoings /\ r.at = "end family" /\ r.code = x BY DEF GrantDoings, Ending
  <2> HIDE DEF r
  <2>2. grantRequest'[p] = r BY <1>6 DEF r, Does, GrantInvariant, GrantTypeOK
  <2>3. GrantRequestSound(p)' BY <1>4, <1>5, <2>1, <2>2 DEF GrantRequestSound
  <2>4. Does(p, r) BY <1>6 DEF r
  <2> QED BY <1>5, <2>1, <2>3, <2>4, GrantStepKeeps
<1>7. ASSUME NEW i \in ConsentIds, listed[i].client = authCodes[x].client,
             authCodes[x].tenant \in {"", listed[i].tenant},
             Does(p, [at |-> "mark used", code |-> x, asked |-> d.asked, id |-> i, scopes |-> listed[i].scopes])
      PROVE  GrantInvariant'
  <2>1. PICK a \in SUBSET OAuthScopes : a = d.asked BY <1>2 DEF Finding
  <2> DEFINE r == [at |-> "mark used", code |-> x, asked |-> a, id |-> i, scopes |-> listed[i].scopes]
  <2>2. listed[i] \in ConsentRow /\ ConsentSound(listed[i]) BY DEF GrantInvariant, GrantTypeOK
  <2>3. listed[i].scopes \subseteq MayCarry(x) /\ listed[i].scopes \subseteq OAuthScopes
    <3>1. CASE listed[i] = Absent
      <4>1. Absent.scopes = {} BY DEF Absent
      <4> QED BY <3>1, <4>1
    <3>2. CASE listed[i] # Absent
      BY <1>7, <2>2, <3>2 DEF ConsentSound, ConsentRow, MayCarry
    <3> QED BY <3>1, <3>2
  <2>4. r \in GrantDoings BY <2>3 DEF GrantDoings, Marking
  <2>5. r.at = "mark used" /\ r.code = x /\ r.scopes = listed[i].scopes OBVIOUS
  <2>6. Does(p, r) BY <1>7, <2>1
  <2> HIDE DEF r
  <2>7. grantRequest'[p] = r BY <2>6 DEF Does, GrantInvariant, GrantTypeOK
  <2>8. MayCarry(x)' = MayCarry(x) BY <1>5 DEF MayCarry
  <2>9. GrantRequestSound(p)' BY <1>4, <1>5, <2>3, <2>5, <2>7, <2>8 DEF GrantRequestSound
  <2> QED BY <1>5, <2>4, <2>5, <2>6, <2>9, GrantStepKeeps
<1> QED BY <1>3, <1>6, <1>7 DEF ConsentForRefresh, ListForClient

\* What a refresh adds was approved, and its consent stood when it was stamped.
LEMMA MintRefreshedKeeps ==
    ASSUME GrantInvariant, NEW p \in GrantRequests, MintRefreshed(p)
    PROVE  GrantInvariant'
<1> DEFINE d == grantRequest[p]
<1>1. d.at = "mark used" /\ d \in GrantDoings
  BY DEF MintRefreshed, Stands, GrantInvariant, GrantTypeOK
<1>2. d \in Marking BY <1>1, GrantDoingShape
<1>3. PICK x \in AuthCodes : d.code = x BY <1>2 DEF Marking
<1>4. minted[x].times = 1 /\ d.scopes \subseteq MayCarry(x)
  BY <1>1, <1>3 DEF GrantInvariant, GrantRequestSound
<1>5. UNCHANGED <<clients, consents, listed, authCodes, grants, withdrawn, approved>>
  BY DEF MintRefreshed
<1>6. PICK n \in {AtRest, [at |-> "end family", code |-> x]} :
        Does(p, n) /\ (n # AtRest => UNCHANGED minted)
  BY <1>3 DEF MintRefreshed
<1>7. n \in GrantDoings /\ n.at \in {"idle", "end family"} /\ (n.at = "end family" => n.code = x)
  <2>1. [at |-> "end family", code |-> x] \in Ending BY DEF Ending
  <2>2. AtRest.at = "idle" BY DEF AtRest
  <2>3. CASE n = AtRest BY <2>2, <2>3 DEF GrantDoings
  <2>4. CASE n = [at |-> "end family", code |-> x] BY <2>1, <2>4 DEF GrantDoings
  <2> QED BY <1>6, <2>3, <2>4
<1>8. CASE UNCHANGED minted
  BY <1>4, <1>5, <1>6, <1>7, <1>8, GrantStepKeeps DEF Does, GrantInvariant, GrantTypeOK, GrantRequestSound
<1>9. CASE ~UNCHANGED minted
  <2>1. n = AtRest BY <1>6, <1>9
  <2>2. /\ consents[d.id] # Absent /\ d.asked \subseteq d.scopes
        /\ minted' = [minted EXCEPT ![x] = [times |-> @.times, by |-> @.by,
                                            scopes |-> @.scopes \cup RefreshScopes(d.scopes, d.asked),
                                            late |-> @.late \/ d.id \in withdrawn]]
    BY <1>3, <1>9 DEF MintRefreshed, Marked
  <2>3. d.id \notin withdrawn BY <2>2 DEF GrantInvariant
  <2>4. PICK more \in SUBSET OAuthScopes : /\ more = RefreshScopes(d.scopes, d.asked)
                                           /\ more \subseteq MayCarry(x)
    BY <1>2, <1>4, <2>2 DEF RefreshScopes, Marking
  <2>5. minted[x] \in MintedRow /\ CodeSound(x) BY DEF GrantInvariant, GrantTypeOK
  <2>6. minted[x].late = FALSE BY <2>5 DEF CodeSound
  <2>7. (minted[x].late \/ d.id \in withdrawn) = FALSE BY <2>3, <2>6
  <2> DEFINE m == [times |-> minted[x].times, by |-> minted[x].by, scopes |-> minted[x].scopes \cup more,
                   late |-> FALSE]
  <2>8. minted' = [minted EXCEPT ![x] = m] BY <2>2, <2>4, <2>7 DEF GrantInvariant, GrantTypeOK
  <2>9. m \in MintedRow BY <2>5 DEF MintedRow
  <2>10. m.times = minted[x].times /\ m.by = minted[x].by /\ m.scopes = minted[x].scopes \cup more /\ m.late = FALSE
    OBVIOUS
  <2> HIDE DEF m
  <2>11. /\ minted' \in [AuthCodes -> MintedRow] /\ minted'[x] = m
         /\ \A y \in AuthCodes : minted'[y].times = minted[y].times
         /\ \A y \in AuthCodes \ {x} : minted'[y] = minted[y]
    BY <2>8, <2>9, <2>10 DEF GrantInvariant, GrantTypeOK
  <2>12. /\ grantRequest' \in [GrantRequests -> GrantDoings] /\ grantRequest'[p] = AtRest
         /\ \A q \in GrantRequests \ {p} : grantRequest'[q] = grantRequest[q]
    BY <1>6, <2>1 DEF Does, GrantInvariant, GrantTypeOK, GrantDoings
  <2>13. GrantTypeOK' BY <1>5, <2>11, <2>12 DEF GrantInvariant, GrantTypeOK
  <2>14. \A y \in AuthCodes : MayCarry(y)' = MayCarry(y) BY <1>5 DEF MayCarry
  <2>15. CodeSound(x)'
    <3>0. minted[x].times = 1 BY <1>4
    <3>1. minted[x].times # 0 BY <3>0, OnceIsSome
    <3>2. /\ authCodes[x].at = "spent" /\ minted[x].by = {authCodes[x].client}
          /\ minted[x].scopes \subseteq MayCarry(x)
      BY <2>5, <3>1 DEF CodeSound
    <3>3. authCodes[x].scopes \subseteq MayCarry(x) BY <2>5, <3>2 DEF CodeSound
    <3>4. minted'[x].times = minted[x].times BY <2>11
    <3> QED BY <1>5, <2>4, <2>10, <2>11, <2>14, <3>0, <3>1, <3>2, <3>3, <3>4 DEF CodeSound
  <2>16. ASSUME NEW y \in AuthCodes \ {x} PROVE CodeSound(y)'
    BY <1>5, <2>11, <2>14 DEF GrantInvariant, CodeSound
  <2>17. GrantRequestSound(p)' BY <2>12, RestIsSound
  <2>18. ASSUME NEW q \in GrantRequests \ {p} PROVE GrantRequestSound(q)'
    <3>1. grantRequest[q] \in GrantDoings BY DEF GrantInvariant, GrantTypeOK
    <3>2. PICK e : e = grantRequest[q] OBVIOUS
    <3>3. e.at \in {"issue tokens", "find consent", "mark used", "end family"} => e.code \in AuthCodes
      BY <3>1, <3>2, GrantDoingShape DEF Issuing, Finding, Marking, Ending
    <3>4. GrantRequestSound(q) BY DEF GrantInvariant
    <3>5. ~Stands(p, "issue tokens")'
      <4>1. AtRest.at = "idle" BY DEF AtRest
      <4> QED BY <2>12, <4>1 DEF Stands
    <3>6. e.at = "issue tokens" => \A o \in GrantRequests \ {q} :
             Stands(o, "issue tokens")' => grantRequest'[o].code # e.code
      BY <2>12, <3>2, <3>4, <3>5 DEF GrantRequestSound, Stands
    <3> QED BY <1>5, <2>11, <2>12, <2>14, <3>2, <3>3, <3>4, <3>6 DEF GrantRequestSound
  <2>19. \A j \in ConsentIds : ConsentSound(consents[j])' /\ ConsentSound(listed[j])'
    BY <1>5 DEF GrantInvariant, ConsentSound
  <2> QED BY <1>5, <2>13, <2>15, <2>16, <2>17, <2>18, <2>19 DEF GrantInvariant
<1> QED BY <1>8, <1>9

\* Families end, and no family of a code without tokens begins.
LEMMA FamiliesEnd ==
    ASSUME GrantInvariant, UNCHANGED <<clients, consents, listed, authCodes, withdrawn, approved, minted>>,
           \A x \in AuthCodes : grants'[x] \in {grants[x], "revoked"},
           grants' \in [AuthCodes -> {"none", "live", "revoked"}],
           \A x \in AuthCodes : grants'[x] # grants[x] => minted[x].times # 0,
           \/ UNCHANGED grantRequest
           \/ \E p \in GrantRequests : Does(p, AtRest)
    PROVE  GrantInvariant'
<1>1. \A x \in AuthCodes : MayCarry(x)' = MayCarry(x) BY DEF MayCarry
<1>2. \A x \in AuthCodes : CodeSound(x)' BY <1>1 DEF GrantInvariant, CodeSound
<1>3. \A j \in ConsentIds : ConsentSound(consents[j])' /\ ConsentSound(listed[j])'
  BY DEF GrantInvariant, ConsentSound
<1>4. CASE UNCHANGED grantRequest
  <2>1. GrantTypeOK' BY <1>4 DEF GrantInvariant, GrantTypeOK
  <2>2. \A q \in GrantRequests : GrantRequestSound(q)'
    <3> SUFFICES ASSUME NEW q \in GrantRequests PROVE GrantRequestSound(q)' OBVIOUS
    <3>1. PICK e \in GrantDoings : e = grantRequest[q] /\ e = grantRequest'[q]
      BY <1>4 DEF GrantInvariant, GrantTypeOK
    <3>2. e.at = "mark used" => e.code \in AuthCodes BY GrantDoingShape DEF Marking
    <3>3. GrantRequestSound(q) BY DEF GrantInvariant
    <3> QED BY <1>1, <1>4, <3>1, <3>2, <3>3 DEF GrantRequestSound, Stands
  <2> QED BY <1>2, <1>3, <2>1, <2>2 DEF GrantInvariant
<1>5. ASSUME NEW p \in GrantRequests, Does(p, AtRest) PROVE GrantInvariant'
  <2>1. AtRest \in GrantDoings /\ AtRest.at = "idle" BY DEF AtRest, GrantDoings
  <2>2. Widened BY DEF Widened
  <2>3. AtRest.at # "issue tokens" BY <2>1
  <2>4. /\ grantRequest' \in [GrantRequests -> GrantDoings] /\ grantRequest'[p] = AtRest
        /\ \A q \in GrantRequests \ {p} : GrantRequestSound(q)'
    BY <1>5, <2>1, <2>2, <2>3, GrantRequestsKept
  <2>5. GrantRequestSound(p)' BY <2>4, RestIsSound
  <2>6. GrantTypeOK' BY <2>4 DEF GrantInvariant, GrantTypeOK
  <2> QED BY <1>2, <1>3, <2>4, <2>5, <2>6 DEF GrantInvariant
<1> QED BY <1>4, <1>5

LEMMA FamilyEndsKeep ==
    ASSUME GrantInvariant,
           \/ \E p \in GrantRequests : EndFamily(p) \/ RevokeDevices(p)
           \/ \E x \in AuthCodes : RevokeToken(x)
    PROVE  GrantInvariant'
<1>1. \A x \in AuthCodes : grants[x] = "live" => minted[x].times # 0
  BY DEF GrantInvariant, CodeSound
<1>2. ASSUME NEW p \in GrantRequests, EndFamily(p) PROVE GrantInvariant'
  <2>1. grantRequest[p].at = "end family" /\ grantRequest[p] \in GrantDoings
    BY <1>2 DEF EndFamily, Stands, GrantInvariant, GrantTypeOK
  <2>2. grantRequest[p] \in Ending BY <2>1, GrantDoingShape
  <2>3. PICK x \in AuthCodes : grantRequest[p].code = x BY <2>2 DEF Ending
  <2>4. minted[x].times = 1 BY <2>1, <2>3 DEF GrantInvariant, GrantRequestSound
  <2>5. minted[x].times # 0 BY <2>4
  <2>6. /\ grants' = [grants EXCEPT ![x] = "revoked"] /\ Does(p, AtRest)
        /\ UNCHANGED <<clients, consents, listed, authCodes, withdrawn, approved, minted>>
    BY <1>2, <2>3 DEF EndFamily
  <2>7. /\ grants' \in [AuthCodes -> {"none", "live", "revoked"}]
        /\ \A y \in AuthCodes : grants'[y] \in {grants[y], "revoked"}
        /\ \A y \in AuthCodes : grants'[y] # grants[y] => minted[y].times # 0
    BY <2>5, <2>6 DEF GrantInvariant, GrantTypeOK
  <2> QED BY <2>6, <2>7, FamiliesEnd
<1>3. ASSUME NEW p \in GrantRequests, RevokeDevices(p) PROVE GrantInvariant'
  BY <1>1, <1>3, FamiliesEnd DEF RevokeDevices, GrantInvariant, GrantTypeOK
<1>4. ASSUME NEW x \in AuthCodes, RevokeToken(x) PROVE GrantInvariant'
  BY <1>1, <1>4, FamiliesEnd DEF RevokeToken, GrantInvariant, GrantTypeOK
<1> QED BY <1>2, <1>3, <1>4

\* A withdrawn consent leaves the table with its id.
LEMMA RevokeAuthorizationKeeps ==
    ASSUME GrantInvariant, NEW p \in GrantRequests, NEW c \in OAuthClients, RevokeAuthorization(p, c)
    PROVE  GrantInvariant'
<1> DEFINE gone == ListForClient(c)
           r == [at |-> "revoke families", client |-> c, tenants |-> {listed[i].tenant : i \in gone}]
<1>1. /\ gone \subseteq ConsentIds
      /\ consents' = [i \in ConsentIds |-> IF i \in gone THEN Absent ELSE consents[i]]
      /\ withdrawn' = withdrawn \cup gone
      /\ Does(p, r)
      /\ UNCHANGED <<clients, listed, authCodes, grants, approved, minted>>
  BY DEF RevokeAuthorization, ListForClient
<1>2. {listed[i].tenant : i \in gone} \subseteq Tenants \cup {""}
  <2>1. \A i \in ConsentIds : listed[i].tenant \in Tenants \cup {""}
    <3>1. Absent.tenant = "" BY DEF Absent
    <3> QED BY <3>1 DEF GrantInvariant, GrantTypeOK, ConsentRow
  <2> QED BY <1>1, <2>1
<1>3. r \in GrantDoings BY <1>2 DEF GrantDoings, Revoking
<1>4. r.at = "revoke families" OBVIOUS
<1> HIDE DEF r, gone
<1>5. Widened BY <1>1 DEF Widened
<1>6. /\ grantRequest' \in [GrantRequests -> GrantDoings] /\ grantRequest'[p] = r
      /\ \A q \in GrantRequests \ {p} : GrantRequestSound(q)'
  BY <1>1, <1>3, <1>4, <1>5, GrantRequestsKept
<1>7. GrantRequestSound(p)' BY <1>4, <1>6 DEF GrantRequestSound
<1>8. consents' \in [ConsentIds -> ConsentRow] /\ withdrawn' \subseteq ConsentIds
  BY <1>1 DEF GrantInvariant, GrantTypeOK, ConsentRow
<1>9. GrantTypeOK' BY <1>1, <1>6, <1>8 DEF GrantInvariant, GrantTypeOK
<1>10. \A x \in AuthCodes : CodeSound(x)' BY <1>1, <1>5, CodesKept
<1>11. \A j \in ConsentIds : ConsentSound(consents[j])' /\ ConsentSound(listed[j])'
  BY <1>1 DEF GrantInvariant, ConsentSound
<1>12. \A j \in withdrawn' : consents'[j] = Absent BY <1>1 DEF GrantInvariant, GrantTypeOK
<1> QED BY <1>6, <1>7, <1>9, <1>10, <1>11, <1>12 DEF GrantInvariant

\* Clients come and lapse, the index follows the table, and requests die.
LEMMA GrantOthersKeep ==
    ASSUME GrantInvariant,
           \/ \E c \in OAuthClients : RegisterClient(c) \/ ClientLapses(c)
           \/ \E i \in ConsentIds : IndexConsent(i)
           \/ \E p \in GrantRequests : GrantRequestDies(p)
           \/ UNCHANGED grantVars
    PROVE  GrantInvariant'
<1>1. ASSUME NEW p \in GrantRequests, GrantRequestDies(p) PROVE GrantInvariant'
  <2>1. AtRest \in GrantDoings /\ AtRest.at = "idle" BY DEF AtRest, GrantDoings
  <2>2. /\ Does(p, AtRest)
        /\ UNCHANGED <<consents, listed, authCodes, grants, withdrawn, approved, minted>>
    BY <1>1 DEF GrantRequestDies
  <2>3. AtRest.at # "issue tokens" BY <2>1
  <2>4. grantRequest'[p] = AtRest BY <2>2 DEF Does, GrantInvariant, GrantTypeOK
  <2>5. GrantRequestSound(p)' BY <2>4, RestIsSound
  <2> QED BY <2>1, <2>2, <2>3, <2>5, GrantStepKeeps
<1>2. ASSUME UNCHANGED <<consents, authCodes, grants, grantRequest, withdrawn, approved, minted>>,
             listed' \in [ConsentIds -> ConsentRow], \A i \in ConsentIds : ConsentSound(listed'[i])
      PROVE  GrantInvariant'
  <2>1. GrantTypeOK' BY <1>2 DEF GrantInvariant, GrantTypeOK
  <2>2. \A j \in ConsentIds : ConsentSound(consents[j])' /\ ConsentSound(listed[j])'
    BY <1>2 DEF GrantInvariant, ConsentSound
  <2>0. \A x \in AuthCodes : MayCarry(x)' = MayCarry(x) BY <1>2 DEF MayCarry
  <2>3. \A x \in AuthCodes : CodeSound(x)' BY <1>2, <2>0 DEF GrantInvariant, CodeSound
  <2>4. \A q \in GrantRequests : GrantRequestSound(q)'
    <3> SUFFICES ASSUME NEW q \in GrantRequests PROVE GrantRequestSound(q)' OBVIOUS
    <3>1. PICK e \in GrantDoings : e = grantRequest[q] /\ e = grantRequest'[q]
      BY <1>2 DEF GrantInvariant, GrantTypeOK
    <3>2. e.at = "mark used" => e.code \in AuthCodes BY GrantDoingShape DEF Marking
    <3>3. GrantRequestSound(q) BY DEF GrantInvariant
    <3> QED BY <2>0, <1>2, <3>1, <3>2, <3>3 DEF GrantRequestSound, Stands
  <2> QED BY <1>2, <2>1, <2>2, <2>3, <2>4 DEF GrantInvariant
<1>3. ASSUME NEW i \in ConsentIds, IndexConsent(i) PROVE GrantInvariant'
  BY <1>2, <1>3 DEF IndexConsent, GrantInvariant, GrantTypeOK
<1>4. ASSUME UNCHANGED <<consents, listed, authCodes, grants, grantRequest, withdrawn, approved, minted>>
      PROVE  GrantInvariant'
  BY <1>2, <1>4 DEF GrantInvariant, GrantTypeOK
<1> QED BY <1>1, <1>3, <1>4 DEF RegisterClient, ClientLapses, grantVars

\* Nothing is registered, consented to or issued.
LEMMA GrantsStart == GrantInit => GrantInvariant
<1> SUFFICES ASSUME GrantInit PROVE GrantInvariant OBVIOUS
<1>1. /\ authCodes \in [AuthCodes -> CodeRow] /\ \A x \in AuthCodes : authCodes[x].at = "unused"
  BY DEF GrantInit, CodeRow
<1>2. minted \in [AuthCodes -> MintedRow] BY DEF GrantInit, MintedRow
<1>3. /\ consents \in [ConsentIds -> ConsentRow] /\ listed \in [ConsentIds -> ConsentRow]
      /\ \A i \in ConsentIds : consents[i] = Absent /\ listed[i] = Absent
  BY DEF GrantInit, ConsentRow
<1>4. /\ grantRequest \in [GrantRequests -> GrantDoings]
      /\ \A p \in GrantRequests : grantRequest[p].at = "idle"
  BY DEF AtRest, GrantInit, GrantDoings
<1>5. GrantTypeOK BY <1>1, <1>2, <1>3, <1>4 DEF GrantInit, Parties, GrantTypeOK
<1>6. \A x \in AuthCodes : CodeSound(x)
  <2> SUFFICES ASSUME NEW x \in AuthCodes PROVE CodeSound(x) OBVIOUS
  <2>1. minted[x].times = 0 /\ minted[x].by = {} /\ minted[x].scopes = {} /\ minted[x].late = FALSE
    BY DEF GrantInit
  <2>2. grants[x] = "none" BY DEF GrantInit
  <2> QED BY <1>1, <2>1, <2>2 DEF CodeSound
<1>7. \A p \in GrantRequests : GrantRequestSound(p) BY <1>4 DEF GrantRequestSound
<1>8. withdrawn = {} BY DEF GrantInit
<1> QED BY <1>3, <1>5, <1>6, <1>7, <1>8 DEF GrantInvariant, ConsentSound

\* Every step of the authorization server keeps it.
LEMMA GrantsKeep == GrantInvariant /\ [GrantNext]_grantVars => GrantInvariant'
<1> SUFFICES ASSUME GrantInvariant, [GrantNext]_grantVars PROVE GrantInvariant' OBVIOUS
<1>1. CASE UNCHANGED grantVars BY <1>1, GrantOthersKeep
<1>2. ASSUME NEW p \in GrantRequests, NEW x \in AuthCodes, NEW c \in OAuthClients \cup {""}, NEW asked \in Asks,
             Refresh(p, x, c, asked)
      PROVE  GrantInvariant'
  BY <1>2, RefreshKeeps DEF Asks
<1>3. CASE GrantNext
  BY <1>2, <1>3, ConsentKeeps, RecordKeeps, IssueCodeKeeps, ExchangeCodeKeeps, IssueTokensKeeps,
     ConsentForRefreshKeeps, MintRefreshedKeeps, FamilyEndsKeep, RevokeAuthorizationKeeps, GrantOthersKeep
     DEF GrantNext
<1> QED BY <1>1, <1>3

\* A code is worth one family, to the client whose verifier it was made with; no
\* token carries a scope its user never approved for that client, in the family's
\* tenant if it has one, and none is minted off a consent withdrawn by then, however many exchanges,
\* refreshes and withdrawals overlap and however far the index lags
\* (oauth_server.OAuthServerService).
THEOREM GrantsHold == GrantSpec => []GrantsNeedTheUser
<1>1. GrantInvariant => GrantsNeedTheUser
  <2> SUFFICES ASSUME GrantInvariant, NEW x \in AuthCodes, minted[x].times > 0
               PROVE  /\ minted[x].times = 1
                      /\ minted[x].by = {authCodes[x].client}
                      /\ minted[x].scopes \subseteq MayCarry(x)
                      /\ ~minted[x].late
    BY DEF GrantsNeedTheUser
  <2>1. CodeSound(x) /\ minted[x].times # 0 BY DEF GrantInvariant, GrantTypeOK, MintedRow
  <2> QED BY <2>1 DEF CodeSound
<1> QED BY <1>1, GrantsStart, GrantsKeep, PTL DEF GrantSpec

-----------------------------------------------------------------------------
(* Single sign-on.                                                         *)

Mailboxes == SsoEmails \cup {NoMember.email}
Persons == Members \cup [id : SsoStates, email : Mailboxes, verified : BOOLEAN]
Keys == Connections \X Subjects
StateRow == {[at |-> "unused"]} \cup [at : {"live", "spent"}, connection : Connections, binding : Browsers]
Signed == [by : Connections, nonce : SsoStates, subject : Subjects, email : SsoEmails]
Verifying == [at : {"verify"}, state : SsoStates, connection : Connections, assertion : Signed]
Resolving == [at : {"resolve"}, state : SsoStates, key : Keys, email : Mailboxes,
              trusted : SUBSET {Domains[c] : c \in Connections}]
Entering == [at : {"touch", "claim", "enter"}, state : SsoStates, key : Keys, member : Persons]
SsoDoings == {Waiting} \cup Verifying \cup Resolving \cup Entering
Connection == [enabled : BOOLEAN, domains : SUBSET {Domains[c] : c \in Connections}]

\* What the service and its product keep.
SsoTypeOK ==
    /\ connections \in [Connections -> Connection]
    /\ members \subseteq Persons /\ NoMember \notin members
    /\ ssoLinks \in [Keys -> Persons \cup {NoMember}]
    /\ ssoStates \in [SsoStates -> StateRow]
    /\ ssoRequest \in [SsoRequests -> SsoDoings]

HasState(p) == ssoRequest[p].at \in {"verify", "resolve", "touch", "claim", "enter"}

\* An account the connection may vouch for.
Vouched(m, c) == m.verified = TRUE /\ m.email.domain = Domains[c]

\* A request holds a spent state of its connection, alone, and the state has let
\* nobody in; what the request trusts is what the connection has proved.
SsoRequestSound(p) ==
    LET r == ssoRequest[p]
    IN HasState(p) =>
         /\ ssoStates[r.state].at = "spent"
         /\ ssoEntered[r.state] = <<>>
         /\ \A q \in SsoRequests \ {p} : HasState(q) => ssoRequest[q].state # r.state
         /\ r.at = "verify" => r.connection = ssoStates[r.state].connection
         /\ r.at # "verify" => r.key[1] = ssoStates[r.state].connection
         /\ r.at = "resolve" => r.trusted \subseteq {Domains[r.key[1]]}
         /\ r.at \in {"touch", "claim", "enter"} => Vouched(r.member, r.key[1])

\* A state lets in at most one account, which its connection may vouch for.
SsoStateSound(s) ==
    \/ ssoEntered[s] = <<>>
    \/ /\ ssoStates[s].at = "spent"
       /\ \E m \in Persons : /\ ssoEntered[s] = <<[connection |-> ssoStates[s].connection, member |-> m]>>
                             /\ Vouched(m, ssoStates[s].connection)

SsoInvariant ==
    /\ SsoTypeOK
    /\ \A c \in Connections : connections[c].domains \subseteq {Domains[c]}
    /\ \A k \in Keys : ssoLinks[k] # NoMember => Vouched(ssoLinks[k], k[1])
    /\ ssoEntered = [s \in SsoStates |-> ssoEntered[s]]
    /\ \A s \in SsoStates : SsoStateSound(s)
    /\ \A p \in SsoRequests : SsoRequestSound(p)

\* A request's record says what it is doing.
LEMMA SsoDoingShape ==
    ASSUME NEW r \in SsoDoings
    PROVE  /\ r.at \in {"idle", "verify", "resolve", "touch", "claim", "enter"}
           /\ r.at = "verify" => r \in Verifying
           /\ r.at = "resolve" => r \in Resolving
           /\ r.at \in {"touch", "claim", "enter"} => r \in Entering
           /\ r.at # "idle" => r.state \in SsoStates
<1>1. CASE r = Waiting BY <1>1 DEF Waiting
<1>2. CASE r \in Verifying BY <1>2 DEF Verifying
<1>3. CASE r \in Resolving BY <1>3 DEF Resolving
<1>4. CASE r \in Entering BY <1>4 DEF Entering
<1> QED BY <1>1, <1>2, <1>3, <1>4 DEF SsoDoings

\* The other requests keep their states when one goes on with its own, or lets
\* it go, and nobody enters.
LEMMA SsoRequestsKept ==
    ASSUME SsoInvariant, NEW p \in SsoRequests, NEW r \in SsoDoings, Moves(p, r),
           UNCHANGED <<ssoStates, ssoEntered>>,
           r.at # "idle" => HasState(p) /\ r.state = ssoRequest[p].state
    PROVE  /\ ssoRequest' \in [SsoRequests -> SsoDoings] /\ ssoRequest'[p] = r
           /\ \A q \in SsoRequests \ {p} : SsoRequestSound(q)'
           /\ r.at # "idle" => /\ ssoStates'[r.state].at = "spent"
                               /\ ssoEntered'[r.state] = <<>>
                               /\ \A q \in SsoRequests \ {p} : HasState(q)' => ssoRequest'[q].state # r.state
<1>1. /\ ssoRequest' \in [SsoRequests -> SsoDoings]
      /\ ssoRequest'[p] = r
      /\ \A q \in SsoRequests \ {p} : ssoRequest'[q] = ssoRequest[q]
  BY DEF Moves, SsoInvariant, SsoTypeOK
<1>2. HasState(p)' => HasState(p) /\ ssoRequest'[p].state = ssoRequest[p].state
  BY <1>1 DEF HasState
<1>3. ASSUME NEW q \in SsoRequests \ {p} PROVE SsoRequestSound(q)'
  <2>1. SsoRequestSound(q) BY DEF SsoInvariant
  <2>2. HasState(q) => \A o \in SsoRequests \ {q} : HasState(o)' => ssoRequest'[o].state # ssoRequest[q].state
    BY <1>1, <1>2, <2>1 DEF SsoRequestSound, HasState
  <2>3. HasState(q)' <=> HasState(q) BY <1>1 DEF HasState
  <2> QED BY <1>1, <2>1, <2>2, <2>3 DEF SsoRequestSound, Vouched
<1>4. ASSUME r.at # "idle"
      PROVE  /\ ssoStates'[r.state].at = "spent"
             /\ ssoEntered'[r.state] = <<>>
             /\ \A q \in SsoRequests \ {p} : HasState(q)' => ssoRequest'[q].state # r.state
  BY <1>1, <1>4 DEF SsoInvariant, SsoRequestSound, HasState
<1> QED BY <1>1, <1>3, <1>4

\* What was let in stays as it was while no state changes.
LEMMA SsoStatesKept ==
    ASSUME SsoInvariant, UNCHANGED <<ssoStates, ssoEntered>>
    PROVE  /\ \A s \in SsoStates : SsoStateSound(s)'
           /\ ssoEntered' = [s \in SsoStates |-> ssoEntered'[s]]
BY DEF SsoInvariant, SsoStateSound, Vouched

\* A request that goes on with its state keeps the invariant, if what it goes on
\* to and what it does to the accounts and links are sound.
LEMMA SsoStepKeeps ==
    ASSUME SsoInvariant, NEW p \in SsoRequests, NEW r \in SsoDoings, Moves(p, r),
           UNCHANGED <<connections, ssoStates, ssoEntered>>,
           r.at # "idle" => HasState(p) /\ r.state = ssoRequest[p].state,
           r.at # "idle" => /\ r.at # "verify"
                            /\ r.key[1] = ssoStates[r.state].connection
                            /\ r.at = "resolve" => r.trusted \subseteq {Domains[r.key[1]]}
                            /\ r.at \in {"touch", "claim", "enter"} => Vouched(r.member, r.key[1]),
           members' \subseteq Persons, NoMember \notin members',
           ssoLinks' \in [Keys -> Persons \cup {NoMember}],
           \A k \in Keys : ssoLinks'[k] # NoMember => Vouched(ssoLinks'[k], k[1])
    PROVE  SsoInvariant'
<1>1. /\ ssoRequest' \in [SsoRequests -> SsoDoings] /\ ssoRequest'[p] = r
      /\ \A q \in SsoRequests \ {p} : SsoRequestSound(q)'
      /\ r.at # "idle" => /\ ssoStates'[r.state].at = "spent"
                          /\ ssoEntered'[r.state] = <<>>
                          /\ \A q \in SsoRequests \ {p} : HasState(q)' => ssoRequest'[q].state # r.state
  BY SsoRequestsKept
<1>2. SsoRequestSound(p)' BY <1>1 DEF SsoRequestSound, HasState, Vouched
<1>3. SsoTypeOK' BY <1>1 DEF SsoInvariant, SsoTypeOK
<1>4. /\ \A s \in SsoStates : SsoStateSound(s)'
      /\ ssoEntered' = [s \in SsoStates |-> ssoEntered'[s]]
  BY SsoStatesKept
<1>5. \A c \in Connections : connections'[c].domains \subseteq {Domains[c]} BY DEF SsoInvariant
<1>6. \A k \in Keys : (ssoLinks[k] # NoMember => Vouched(ssoLinks[k], k[1]))' BY DEF Vouched
<1> QED BY <1>1, <1>2, <1>3, <1>4, <1>5, <1>6 DEF SsoInvariant

\* A request that lets go of its state leaves the accounts and links alone.
LEMMA SsoRests ==
    ASSUME SsoInvariant, NEW p \in SsoRequests, Moves(p, Waiting),
           UNCHANGED <<connections, members, ssoLinks, ssoStates, ssoEntered>>
    PROVE  SsoInvariant'
<1>1. Waiting \in SsoDoings /\ Waiting.at = "idle" BY DEF Waiting, SsoDoings
<1>2. /\ members' \subseteq Persons /\ NoMember \notin members'
      /\ ssoLinks' \in [Keys -> Persons \cup {NoMember}]
      /\ \A k \in Keys : ssoLinks'[k] # NoMember => Vouched(ssoLinks'[k], k[1])
  BY DEF SsoInvariant, SsoTypeOK
<1> QED BY <1>1, <1>2, SsoStepKeeps

\* What a request that verified goes on with: its state's connection, and the
\* domains that connection has proved.
LEMMA VerifiedKeeps ==
    ASSUME SsoInvariant, NEW p \in SsoRequests, Is(p, "verify"), NEW email \in Mailboxes,
           Moves(p, [at |-> "resolve", state |-> ssoRequest[p].state,
                     key |-> <<ssoRequest[p].connection, ssoRequest[p].assertion.subject>>,
                     email |-> email, trusted |-> connections[ssoRequest[p].connection].domains]),
           UNCHANGED <<connections, members, ssoLinks, ssoStates, ssoEntered>>
    PROVE  SsoInvariant'
<1>1. ssoRequest[p] \in SsoDoings /\ ssoRequest[p].at = "verify" BY DEF Is, SsoInvariant, SsoTypeOK
<1>2. ssoRequest[p] \in Verifying BY <1>1, SsoDoingShape
<1>3. PICK s \in SsoStates, c \in Connections, j \in Subjects, t \in SUBSET {Domains[x] : x \in Connections} :
        /\ s = ssoRequest[p].state /\ c = ssoRequest[p].connection /\ j = ssoRequest[p].assertion.subject
        /\ t = connections[c].domains
  BY <1>2 DEF Verifying, Signed, SsoInvariant, SsoTypeOK, Connection
<1>4. t \subseteq {Domains[c]} BY <1>3 DEF SsoInvariant
<1>5. c = ssoStates[s].connection BY <1>1, <1>3 DEF SsoInvariant, HasState, SsoRequestSound
<1> DEFINE r == [at |-> "resolve", state |-> s, key |-> <<c, j>>, email |-> email, trusted |-> t]
<1>6. r \in SsoDoings BY <1>3, <1>4 DEF SsoDoings, Resolving, Keys
<1>7. r.at = "resolve" /\ r.state = s /\ r.key[1] = c /\ r.trusted = t OBVIOUS
<1>8. Moves(p, r) BY <1>3
<1> HIDE DEF r
<1>9. r.at # "idle" => HasState(p) /\ r.state = ssoRequest[p].state BY <1>1, <1>3, <1>7 DEF HasState
<1>10. /\ members' \subseteq Persons /\ NoMember \notin members'
       /\ ssoLinks' \in [Keys -> Persons \cup {NoMember}]
       /\ \A k \in Keys : ssoLinks'[k] # NoMember => Vouched(ssoLinks'[k], k[1])
  BY DEF SsoInvariant, SsoTypeOK
<1>11. r.at # "idle" => /\ r.at # "verify"
                        /\ r.key[1] = ssoStates[r.state].connection
                        /\ r.at = "resolve" => r.trusted \subseteq {Domains[r.key[1]]}
                        /\ r.at \in {"touch", "claim", "enter"} => Vouched(r.member, r.key[1])
  BY <1>4, <1>5, <1>7
<1> QED BY <1>6, <1>8, <1>9, <1>10, <1>11, SsoStepKeeps

\* A verified assertion, or ID token, is resolved for its state's connection.
LEMMA VerifyKeeps ==
    ASSUME SsoInvariant, NEW p \in SsoRequests, VerifySso(p) \/ VerifyOidc(p)
    PROVE  SsoInvariant'
<1>1. /\ Is(p, "verify")
      /\ UNCHANGED <<connections, members, ssoLinks, ssoStates, ssoEntered>>
  BY DEF VerifySso, VerifyOidc
<1>2. ssoRequest[p] \in Verifying
  BY <1>1, SsoDoingShape DEF Is, SsoInvariant, SsoTypeOK
<1>3. ssoRequest[p].assertion.email \in Mailboxes BY <1>2 DEF Verifying, Signed, Mailboxes
<1>4. \/ Moves(p, Waiting)
      \/ \E email \in Mailboxes :
            Moves(p, [at |-> "resolve", state |-> ssoRequest[p].state,
                      key |-> <<ssoRequest[p].connection, ssoRequest[p].assertion.subject>>,
                      email |-> email, trusted |-> connections[ssoRequest[p].connection].domains])
  <2>1. CASE VerifySso(p) BY <1>3, <2>1 DEF VerifySso
  <2>2. CASE VerifyOidc(p) BY <1>3, <2>2 DEF UserinfoEmail, Mailboxes, VerifyOidc
  <2> QED BY <2>1, <2>2
<1>5. CASE Moves(p, Waiting) BY <1>1, <1>5, SsoRests
<1> QED BY <1>1, <1>4, <1>5, VerifiedKeeps

\* Whoever is resolved was linked, or is at a domain the tenant proved with a
\* verified address.
LEMMA ResolveKeeps ==
    ASSUME SsoInvariant, NEW p \in SsoRequests, ResolveSso(p)
    PROVE  SsoInvariant'
<1>1. ssoRequest[p] \in SsoDoings /\ ssoRequest[p].at = "resolve" BY DEF ResolveSso, Is, SsoInvariant, SsoTypeOK
<1>2. ssoRequest[p] \in Resolving BY <1>1, SsoDoingShape
<1>3. PICK s \in SsoStates, k \in Keys, email \in Mailboxes, trusted \in SUBSET {Domains[c] : c \in Connections} :
        s = ssoRequest[p].state /\ k = ssoRequest[p].key /\ email = ssoRequest[p].email /\ trusted = ssoRequest[p].trusted
  BY <1>2 DEF Resolving
<1>4. SsoRequestSound(p) /\ HasState(p) BY <1>1 DEF SsoInvariant, HasState
<1>5. k[1] = ssoStates[s].connection /\ trusted \subseteq {Domains[k[1]]}
  BY <1>1, <1>3, <1>4 DEF SsoRequestSound
<1>6. UNCHANGED <<connections, ssoStates, claims, ssoEntered>> BY DEF ResolveSso
<1>7. members \subseteq Persons /\ NoMember \notin members /\ ssoLinks \in [Keys -> Persons \cup {NoMember}]
  BY DEF SsoInvariant, SsoTypeOK
<1>8. ASSUME NEW at \in {"touch", "claim"}, NEW m \in Persons, Vouched(m, k[1]),
             Moves(p, [at |-> at, state |-> s, key |-> k, member |-> m]),
             UNCHANGED ssoLinks, members' \subseteq Persons, NoMember \notin members'
      PROVE  SsoInvariant'
  <2> DEFINE r == [at |-> at, state |-> s, key |-> k, member |-> m]
  <2>1. r \in SsoDoings BY DEF SsoDoings, Entering
  <2>2. r.at \in {"touch", "claim"} /\ r.state = s /\ r.key = k /\ r.member = m OBVIOUS
  <2>3. Moves(p, r) BY <1>8
  <2> HIDE DEF r
  <2>4. /\ ssoLinks' \in [Keys -> Persons \cup {NoMember}]
        /\ \A x \in Keys : ssoLinks'[x] # NoMember => Vouched(ssoLinks'[x], x[1])
    BY <1>8 DEF SsoInvariant, SsoTypeOK
  <2>5. r.at # "idle" => HasState(p) /\ r.state = ssoRequest[p].state BY <1>3, <1>4, <2>2
  <2>6. r.at # "idle" => /\ r.at # "verify"
                         /\ r.key[1] = ssoStates[r.state].connection
                         /\ r.at = "resolve" => r.trusted \subseteq {Domains[r.key[1]]}
                         /\ r.at \in {"touch", "claim", "enter"} => Vouched(r.member, r.key[1])
    BY <1>5, <1>8, <2>2
  <2> QED BY <1>6, <1>8, <2>1, <2>3, <2>4, <2>5, <2>6, SsoStepKeeps
<1>9. ASSUME Moves(p, Waiting), UNCHANGED members,
             ssoLinks' \in {ssoLinks, [ssoLinks EXCEPT ![k] = NoMember]}
      PROVE  SsoInvariant'
  <2>1. Waiting \in SsoDoings /\ Waiting.at = "idle" BY DEF Waiting, SsoDoings
  <2>2. /\ ssoLinks' \in [Keys -> Persons \cup {NoMember}]
        /\ \A x \in Keys : ssoLinks'[x] # NoMember => Vouched(ssoLinks'[x], x[1])
    BY <1>9 DEF SsoInvariant, SsoTypeOK
  <2>3. members' \subseteq Persons /\ NoMember \notin members' BY <1>7, <1>9
  <2> QED BY <1>6, <1>9, <2>1, <2>2, <2>3, SsoStepKeeps
<1>10. ASSUME ssoLinks[k] \in members, Moves(p, [at |-> "touch", state |-> s, key |-> k, member |-> ssoLinks[k]]),
              UNCHANGED <<members, ssoLinks>>
       PROVE  SsoInvariant'
  <2>1. ssoLinks[k] \in Persons /\ ssoLinks[k] # NoMember BY <1>7, <1>10
  <2>2. Vouched(ssoLinks[k], k[1]) BY <2>1 DEF SsoInvariant
  <2>3. members' \subseteq Persons /\ NoMember \notin members' BY <1>7, <1>10
  <2> QED BY <1>8, <1>10, <2>1, <2>2, <2>3
<1>11. ASSUME NEW m \in members, m.email = email, m.verified, TrustsEmail(trusted, email),
              Moves(p, [at |-> "claim", state |-> s, key |-> k, member |-> m]), UNCHANGED <<members, ssoLinks>>
       PROVE  SsoInvariant'
  <2>1. m \in Persons BY <1>7
  <2>2. m.verified = TRUE BY <1>11, <2>1, MembersAreThere DEF Persons
  <2>3. m.email.domain = Domains[k[1]] BY <1>5, <1>11 DEF TrustsEmail
  <2>4. members' \subseteq Persons /\ NoMember \notin members' BY <1>7, <1>11
  <2> QED BY <1>8, <1>11, <2>1, <2>2, <2>3, <2>4 DEF Vouched
<1>12. ASSUME NEW m, m = [id |-> s, email |-> email, verified |-> TRUE], TrustsEmail(trusted, email),
              members' = members \cup {m}, UNCHANGED ssoLinks,
              Moves(p, [at |-> "claim", state |-> s, key |-> k, member |-> m])
       PROVE  SsoInvariant'
  <2>1. m \in Persons /\ m.verified = TRUE /\ m.email = email BY <1>12 DEF Persons
  <2>2. m # NoMember
    <3>1. NoMember.verified = FALSE BY DEF NoMember
    <3> QED BY <2>1, <3>1
  <2>3. m.email.domain = Domains[k[1]] BY <1>5, <1>12, <2>1 DEF TrustsEmail
  <2>4. members' \subseteq Persons /\ NoMember \notin members' BY <1>7, <1>12, <2>1, <2>2
  <2> QED BY <1>8, <1>12, <2>1, <2>3, <2>4 DEF Vouched
<1>13. \/ /\ ssoLinks[k] \in members /\ UNCHANGED <<members, ssoLinks>>
          /\ Moves(p, [at |-> "touch", state |-> s, key |-> k, member |-> ssoLinks[k]])
       \/ /\ Moves(p, Waiting) /\ UNCHANGED members
          /\ ssoLinks' \in {ssoLinks, [ssoLinks EXCEPT ![k] = NoMember]}
       \/ /\ TrustsEmail(trusted, email) /\ UNCHANGED <<members, ssoLinks>>
          /\ \E m \in members : /\ m.email = email /\ m.verified
                                /\ Moves(p, [at |-> "claim", state |-> s, key |-> k, member |-> m])
       \/ /\ TrustsEmail(trusted, email) /\ UNCHANGED ssoLinks
          /\ \E m : /\ m = [id |-> s, email |-> email, verified |-> TRUE]
                    /\ members' = members \cup {m}
                    /\ Moves(p, [at |-> "claim", state |-> s, key |-> k, member |-> m])
  BY <1>3, Zenon DEF ResolveSso
<1> QED BY <1>9, <1>10, <1>11, <1>12, <1>13

\* A link is written for the account the request resolved.
LEMMA LinkKeeps ==
    ASSUME SsoInvariant, NEW p \in SsoRequests, ClaimSsoLink(p) \/ TouchSsoLink(p)
    PROVE  SsoInvariant'
<1>1. ssoRequest[p] \in SsoDoings /\ ssoRequest[p].at \in {"claim", "touch"}
  BY DEF ClaimSsoLink, TouchSsoLink, Is, SsoInvariant, SsoTypeOK
<1>2. ssoRequest[p] \in Entering BY <1>1, SsoDoingShape
<1>3. PICK s \in SsoStates, k \in Keys, m \in Persons :
        s = ssoRequest[p].state /\ k = ssoRequest[p].key /\ m = ssoRequest[p].member
  BY <1>2 DEF Entering
<1>4. SsoRequestSound(p) /\ HasState(p) BY <1>1 DEF SsoInvariant, HasState
<1>5. k[1] = ssoStates[s].connection /\ Vouched(m, k[1])
  BY <1>1, <1>3, <1>4 DEF SsoRequestSound
<1>6. UNCHANGED <<connections, members, ssoStates, ssoEntered>> BY DEF ClaimSsoLink, TouchSsoLink
<1>7. members \subseteq Persons /\ NoMember \notin members /\ ssoLinks \in [Keys -> Persons \cup {NoMember}]
  BY DEF SsoInvariant, SsoTypeOK
<1>8. ssoLinks' \in {ssoLinks, [ssoLinks EXCEPT ![k] = m]} BY <1>3 DEF ClaimSsoLink, TouchSsoLink
<1>9. /\ ssoLinks' \in [Keys -> Persons \cup {NoMember}]
      /\ \A x \in Keys : ssoLinks'[x] # NoMember => Vouched(ssoLinks'[x], x[1])
  BY <1>5, <1>7, <1>8 DEF SsoInvariant
<1>10. CASE Moves(p, Waiting) BY <1>6, <1>7, <1>9, <1>10, SsoStepKeeps DEF Waiting, SsoDoings
<1>11. CASE Moves(p, [ssoRequest[p] EXCEPT !.at = "enter"])
  <2> DEFINE r == [ssoRequest[p] EXCEPT !.at = "enter"]
  <2>1. r \in SsoDoings /\ r.at = "enter" /\ r.state = s /\ r.key = k /\ r.member = m
    BY <1>2, <1>3 DEF SsoDoings, Entering
  <2>2. Moves(p, r) BY <1>11
  <2> HIDE DEF r
  <2>3. r.at # "idle" => HasState(p) /\ r.state = ssoRequest[p].state BY <1>3, <1>4, <2>1
  <2>4. r.at # "idle" => /\ r.at # "verify"
                         /\ r.key[1] = ssoStates[r.state].connection
                         /\ r.at = "resolve" => r.trusted \subseteq {Domains[r.key[1]]}
                         /\ r.at \in {"touch", "claim", "enter"} => Vouched(r.member, r.key[1])
    BY <1>5, <2>1
  <2> QED BY <1>6, <1>7, <1>9, <2>1, <2>2, <2>3, <2>4, SsoStepKeeps
<1> QED BY <1>10, <1>11 DEF ClaimSsoLink, TouchSsoLink

\* The first to enter by a state is the last, and the account is one its
\* connection vouches for.
LEMMA EnterKeeps ==
    ASSUME SsoInvariant, NEW p \in SsoRequests, EnterBySso(p)
    PROVE  SsoInvariant'
<1>1. ssoRequest[p] \in SsoDoings /\ ssoRequest[p].at = "enter" BY DEF EnterBySso, Is, SsoInvariant, SsoTypeOK
<1>2. ssoRequest[p] \in Entering BY <1>1, SsoDoingShape
<1>3. PICK s \in SsoStates, k \in Keys, m \in Persons :
        s = ssoRequest[p].state /\ k = ssoRequest[p].key /\ m = ssoRequest[p].member
  BY <1>2 DEF Entering
<1>4. SsoRequestSound(p) /\ HasState(p) BY <1>1 DEF SsoInvariant, HasState
<1>5. /\ ssoStates[s].at = "spent" /\ ssoEntered[s] = <<>>
      /\ k[1] = ssoStates[s].connection /\ Vouched(m, k[1])
      /\ \A q \in SsoRequests \ {p} : HasState(q) => ssoRequest[q].state # s
  BY <1>1, <1>3, <1>4 DEF SsoRequestSound
<1>6. /\ UNCHANGED <<connections, members, ssoLinks, ssoStates, claims>>
      /\ Moves(p, Waiting)
      /\ ssoEntered' = [ssoEntered EXCEPT ![s] = Append(ssoEntered[s], [connection |-> k[1], member |-> m])]
  BY <1>3 DEF EnterBySso
<1>7. Append(<<>>, [connection |-> k[1], member |-> m]) = <<[connection |-> k[1], member |-> m]>> OBVIOUS
<1>8. /\ ssoEntered'[s] = <<[connection |-> ssoStates[s].connection, member |-> m]>>
      /\ \A t \in SsoStates \ {s} : ssoEntered'[t] = ssoEntered[t]
      /\ ssoEntered' = [t \in SsoStates |-> ssoEntered'[t]]
  BY <1>5, <1>6, <1>7 DEF SsoInvariant
<1>9. \A t \in SsoStates : SsoStateSound(t)'
  <2>1. SsoStateSound(s)' BY <1>5, <1>6, <1>8 DEF SsoStateSound, Vouched
  <2>2. ASSUME NEW t \in SsoStates \ {s} PROVE SsoStateSound(t)'
    BY <1>6, <1>8 DEF SsoInvariant, SsoStateSound, Vouched
  <2> QED BY <2>1, <2>2
<1>10. Waiting \in SsoDoings /\ Waiting.at = "idle" BY DEF Waiting, SsoDoings
<1>11. /\ ssoRequest' \in [SsoRequests -> SsoDoings] /\ ssoRequest'[p] = Waiting
       /\ \A q \in SsoRequests \ {p} : ssoRequest'[q] = ssoRequest[q]
  BY <1>6, <1>10 DEF Moves, SsoInvariant, SsoTypeOK
<1>12. ~HasState(p)' BY <1>10, <1>11 DEF HasState
<1>13. ASSUME NEW q \in SsoRequests \ {p} PROVE SsoRequestSound(q)'
  <2>1. SsoRequestSound(q) /\ ssoRequest[q] \in SsoDoings BY DEF SsoInvariant, SsoTypeOK
  <2>2. HasState(q)' <=> HasState(q) BY <1>11 DEF HasState
  <2>3. HasState(q) => ssoRequest[q].state \in SsoStates /\ ssoRequest[q].state # s
    BY <1>5, <2>1, SsoDoingShape DEF HasState
  <2>4. HasState(q) => ssoEntered'[ssoRequest[q].state] = <<>> BY <1>8, <2>1, <2>3 DEF SsoRequestSound
  <2>5. HasState(q) => \A o \in SsoRequests \ {q} : HasState(o)' => ssoRequest'[o].state # ssoRequest[q].state
    BY <1>11, <1>12, <2>1 DEF SsoRequestSound, HasState
  <2> QED BY <1>6, <1>11, <2>1, <2>2, <2>4, <2>5 DEF SsoRequestSound, Vouched
<1>14. SsoRequestSound(p)' BY <1>12 DEF SsoRequestSound
<1>15. SsoTypeOK' BY <1>6, <1>11 DEF SsoInvariant, SsoTypeOK
<1>16. /\ \A c \in Connections : connections'[c].domains \subseteq {Domains[c]}
       /\ \A x \in Keys : (ssoLinks[x] # NoMember => Vouched(ssoLinks[x], x[1]))'
  BY <1>6 DEF SsoInvariant, Vouched
<1> QED BY <1>8, <1>9, <1>13, <1>14, <1>15, <1>16 DEF SsoInvariant

\* A state is spent by the one callback that holds it from then on.
LEMMA SsoCallbackKeeps ==
    ASSUME SsoInvariant, NEW p \in SsoRequests, NEW s \in SsoStates, NEW c \in Connections, NEW b \in Browsers,
           NEW a \in Assertions, SsoCallback(p, s, c, b, a)
    PROVE  SsoInvariant'
<1> DEFINE row == [ssoStates[s] EXCEPT !.at = "spent"]
           verify == [at |-> "verify", state |-> s, connection |-> c, assertion |-> a]
<1>1. /\ ssoStates[s].at = "live"
      /\ ssoStates' = [ssoStates EXCEPT ![s] = row]
      /\ UNCHANGED <<connections, members, ssoLinks, claims, ssoEntered>>
      /\ Is(p, "idle")
  BY DEF SsoCallback, ConsumeSsoState
<1>2. ssoStates[s] \in [at : {"live", "spent"}, connection : Connections, binding : Browsers]
  BY <1>1 DEF SsoInvariant, SsoTypeOK, StateRow
<1>3. row \in StateRow /\ row.at = "spent" /\ row.connection = ssoStates[s].connection
  BY <1>2 DEF StateRow
<1> HIDE DEF row
<1>4. /\ ssoStates' \in [SsoStates -> StateRow] /\ ssoStates'[s] = row
      /\ \A t \in SsoStates \ {s} : ssoStates'[t] = ssoStates[t]
  BY <1>1, <1>3 DEF SsoInvariant, SsoTypeOK
<1>5. \A t \in SsoStates : ssoStates'[t].connection = ssoStates[t].connection BY <1>3, <1>4
<1>6. ssoEntered[s] = <<>> BY <1>1 DEF SsoInvariant, SsoStateSound
<1>7. \A q \in SsoRequests : HasState(q) => ssoRequest[q].state # s BY <1>1 DEF SsoInvariant, SsoRequestSound
<1>8. PICK n \in {Waiting, verify} : Moves(p, n) /\ (n = verify => ssoStates[s].connection = c)
  <2>1. Waiting # verify BY DEF Waiting
  <2> QED BY <2>1 DEF SsoCallback
<1>9. n \in SsoDoings /\ (n = Waiting \/ (n.at = "verify" /\ n.state = s /\ n.connection = c /\ n = verify))
  <2>1. a \in Signed BY DEF Assertions, Signed, UnusedStates
  <2>2. verify \in Verifying BY <2>1 DEF Verifying
  <2>3. verify.at = "verify" /\ verify.state = s /\ verify.connection = c OBVIOUS
  <2> QED BY <1>8, <2>2, <2>3 DEF SsoDoings
<1> HIDE DEF verify
<1>10. /\ ssoRequest' \in [SsoRequests -> SsoDoings] /\ ssoRequest'[p] = n
       /\ \A q \in SsoRequests \ {p} : ssoRequest'[q] = ssoRequest[q]
  BY <1>8, <1>9 DEF Moves, SsoInvariant, SsoTypeOK
<1>11. Waiting.at = "idle" BY DEF Waiting
<1>12. SsoRequestSound(p)'
  <2>1. CASE n = Waiting BY <1>10, <1>11, <2>1 DEF SsoRequestSound, HasState
  <2>2. CASE n # Waiting
    <3>1. n.at = "verify" /\ n.state = s /\ n.connection = ssoStates[s].connection BY <1>8, <1>9, <2>2
    <3>2. \A q \in SsoRequests \ {p} : HasState(q)' => ssoRequest'[q].state # s BY <1>7, <1>10 DEF HasState
    <3> QED BY <1>1, <1>3, <1>4, <1>6, <1>10, <3>1, <3>2 DEF SsoRequestSound, HasState
  <2> QED BY <2>1, <2>2
<1>13. ASSUME NEW q \in SsoRequests \ {p} PROVE SsoRequestSound(q)'
  <2>1. SsoRequestSound(q) /\ ssoRequest[q] \in SsoDoings BY DEF SsoInvariant, SsoTypeOK
  <2>2. PICK d : d = ssoRequest[q] OBVIOUS
  <2>3. HasState(q)' <=> HasState(q) BY <1>10 DEF HasState
  <2>4. HasState(q) => d.state \in SsoStates /\ d.state # s
    BY <1>7, <2>1, <2>2, SsoDoingShape DEF HasState
  <2>5. HasState(q) => /\ ssoStates'[d.state].at = "spent" /\ ssoEntered'[d.state] = <<>>
                       /\ ssoStates'[d.state].connection = ssoStates[d.state].connection
    BY <1>1, <1>4, <2>1, <2>2, <2>4 DEF SsoRequestSound
  <2>6. HasState(q) => \A o \in SsoRequests \ {q} : HasState(o)' => ssoRequest'[o].state # d.state
    BY <1>9, <1>10, <1>11, <2>1, <2>2, <2>4 DEF HasState, SsoRequestSound
  <2> QED BY <1>10, <2>1, <2>2, <2>3, <2>5, <2>6 DEF SsoRequestSound, Vouched
<1>14. \A t \in SsoStates : SsoStateSound(t)'
  BY <1>1, <1>3, <1>4, <1>6 DEF SsoInvariant, SsoStateSound, Vouched
<1>15. SsoTypeOK' BY <1>1, <1>4, <1>10 DEF SsoInvariant, SsoTypeOK
<1>16. /\ \A x \in Connections : connections'[x].domains \subseteq {Domains[x]}
       /\ \A x \in Keys : (ssoLinks[x] # NoMember => Vouched(ssoLinks[x], x[1]))'
       /\ ssoEntered' = [t \in SsoStates |-> ssoEntered'[t]]
  BY <1>1 DEF SsoInvariant, Vouched
<1> QED BY <1>12, <1>13, <1>14, <1>15, <1>16 DEF SsoInvariant

\* A new state is one nobody holds.
LEMMA StartKeeps ==
    ASSUME SsoInvariant, NEW c \in Connections, NEW b \in Browsers, StartSso(c, b)
    PROVE  SsoInvariant'
<1> DEFINE row == [at |-> "live", connection |-> c, binding |-> b]
<1>1. PICK s \in SsoStates : ssoStates[s].at = "unused" /\ ssoStates' = [ssoStates EXCEPT ![s] = row]
  <2>1. (CHOOSE s \in UnusedStates : TRUE) \in UnusedStates BY DEF StartSso
  <2> QED BY <2>1 DEF StartSso, UnusedStates
<1>2. UNCHANGED <<connections, members, ssoLinks, claims, ssoRequest, ssoEntered>> BY DEF StartSso
<1>3. row \in StateRow BY DEF StateRow
<1> HIDE DEF row
<1>4. /\ ssoStates' \in [SsoStates -> StateRow]
      /\ \A t \in SsoStates \ {s} : ssoStates'[t] = ssoStates[t]
  BY <1>1, <1>3 DEF SsoInvariant, SsoTypeOK
<1>5. ssoStates[s].at # "spent" BY <1>1
<1>6. \A t \in SsoStates : SsoStateSound(t)'
  BY <1>2, <1>4, <1>5 DEF SsoInvariant, SsoStateSound, Vouched
<1>7. ASSUME NEW p \in SsoRequests PROVE SsoRequestSound(p)'
  <2>1. SsoRequestSound(p) /\ ssoRequest[p] \in SsoDoings BY DEF SsoInvariant, SsoTypeOK
  <2>2. PICK d : d = ssoRequest[p] OBVIOUS
  <2>3. HasState(p) => d.state \in SsoStates /\ d.state # s
    BY <1>5, <2>1, <2>2, SsoDoingShape DEF HasState, SsoRequestSound
  <2>4. HasState(p) => ssoStates'[d.state] = ssoStates[d.state] BY <1>4, <2>3
  <2> QED BY <1>2, <2>1, <2>2, <2>4 DEF SsoRequestSound, HasState, Vouched
<1>8. SsoTypeOK' BY <1>2, <1>4 DEF SsoInvariant, SsoTypeOK
<1>9. /\ \A x \in Connections : connections'[x].domains \subseteq {Domains[x]}
      /\ \A x \in Keys : (ssoLinks[x] # NoMember => Vouched(ssoLinks[x], x[1]))'
      /\ ssoEntered' = [t \in SsoStates |-> ssoEntered'[t]]
  BY <1>2 DEF SsoInvariant, Vouched
<1> QED BY <1>6, <1>7, <1>8, <1>9 DEF SsoInvariant

\* A tenant proves its own domain and no other; the rest is the product's, the
\* replay store's and the worker's.
LEMMA SsoOthersKeep ==
    ASSUME SsoInvariant,
           \/ \E c \in Connections : VerifyDomain(c) \/ DisableConnection(c)
           \/ \E m \in members : DeleteMember(m)
           \/ \E a \in claims : ClaimLapses(a)
           \/ \E p \in SsoRequests : SsoDies(p)
           \/ UNCHANGED ssoVars
    PROVE  SsoInvariant'
<1>1. ASSUME NEW p \in SsoRequests, SsoDies(p) PROVE SsoInvariant'
  BY <1>1, SsoRests DEF SsoDies
<1>2. ASSUME UNCHANGED <<ssoLinks, ssoStates, ssoRequest, ssoEntered>>,
             connections' \in [Connections -> Connection],
             \A c \in Connections : connections'[c].domains \subseteq {Domains[c]},
             members' \subseteq members
      PROVE  SsoInvariant'
  <2>1. SsoTypeOK' BY <1>2 DEF SsoInvariant, SsoTypeOK
  <2>2. /\ \A s \in SsoStates : SsoStateSound(s)'
        /\ ssoEntered' = [s \in SsoStates |-> ssoEntered'[s]]
    BY <1>2, SsoStatesKept
  <2>3. \A p \in SsoRequests : SsoRequestSound(p)' BY <1>2 DEF SsoInvariant, SsoRequestSound, HasState, Vouched
  <2>4. \A x \in Keys : (ssoLinks[x] # NoMember => Vouched(ssoLinks[x], x[1]))'
    BY <1>2 DEF SsoInvariant, Vouched
  <2> QED BY <1>2, <2>1, <2>2, <2>3, <2>4 DEF SsoInvariant
<1>3. ASSUME NEW c \in Connections, VerifyDomain(c) PROVE SsoInvariant'
  <2>1. /\ connections' = [connections EXCEPT ![c].domains = @ \cup {Domains[c]}]
        /\ UNCHANGED <<members, ssoLinks, ssoStates, claims, ssoRequest, ssoEntered>>
    BY <1>3 DEF VerifyDomain
  <2>2. connections[c] \in Connection /\ connections[c].domains \subseteq {Domains[c]}
    BY DEF SsoInvariant, SsoTypeOK
  <2> DEFINE row == [connections[c] EXCEPT !.domains = @ \cup {Domains[c]}]
  <2>3. connections[c].domains \cup {Domains[c]} = {Domains[c]} BY <2>2
  <2>4. row \in Connection /\ row.domains = {Domains[c]} BY <2>2, <2>3 DEF Connection
  <2>5. connections' = [connections EXCEPT ![c] = row] BY <2>1
  <2> HIDE DEF row
  <2>6. /\ connections' \in [Connections -> Connection]
        /\ \A x \in Connections : connections'[x].domains \subseteq {Domains[x]}
    BY <2>4, <2>5 DEF SsoInvariant, SsoTypeOK
  <2> QED BY <1>2, <2>1, <2>6
<1>4. ASSUME NEW c \in Connections, DisableConnection(c) PROVE SsoInvariant'
  <2>1. /\ connections' = [connections EXCEPT ![c].enabled = FALSE]
        /\ UNCHANGED <<members, ssoLinks, ssoStates, claims, ssoRequest, ssoEntered>>
    BY <1>4 DEF DisableConnection
  <2>2. connections[c] \in Connection /\ connections[c].domains \subseteq {Domains[c]}
    BY DEF SsoInvariant, SsoTypeOK
  <2> DEFINE row == [connections[c] EXCEPT !.enabled = FALSE]
  <2>3. row \in Connection /\ row.domains = connections[c].domains BY <2>2 DEF Connection
  <2>4. connections' = [connections EXCEPT ![c] = row] BY <2>1
  <2> HIDE DEF row
  <2>5. /\ connections' \in [Connections -> Connection]
        /\ \A x \in Connections : connections'[x].domains \subseteq {Domains[x]}
    BY <2>2, <2>3, <2>4 DEF SsoInvariant, SsoTypeOK
  <2> QED BY <1>2, <2>1, <2>5
<1>5. ASSUME UNCHANGED <<connections, ssoLinks, ssoStates, ssoRequest, ssoEntered>>, members' \subseteq members
      PROVE  SsoInvariant'
  BY <1>2, <1>5 DEF SsoInvariant, SsoTypeOK
<1>6. ASSUME NEW m \in members, DeleteMember(m) PROVE SsoInvariant' BY <1>5, <1>6 DEF DeleteMember
<1>7. ASSUME NEW a \in claims, ClaimLapses(a) PROVE SsoInvariant' BY <1>5, <1>7 DEF ClaimLapses
<1>8. CASE UNCHANGED ssoVars BY <1>5, <1>8 DEF ssoVars
<1> QED BY <1>1, <1>3, <1>4, <1>6, <1>7, <1>8

\* Nobody is linked and nothing is proved.
LEMMA SsoStarts == SsoInit => SsoInvariant
<1> SUFFICES ASSUME SsoInit PROVE SsoInvariant OBVIOUS
<1>1. Waiting.at = "idle" /\ Waiting \in SsoDoings BY DEF Waiting, SsoDoings
<1>2. connections \in [Connections -> Connection] /\ \A c \in Connections : connections[c].domains = {}
  BY DEF SsoInit, Connection
<1>3. members \subseteq Persons /\ NoMember \notin members BY MembersAreThere DEF SsoInit, Persons
<1>4. ssoLinks \in [Keys -> Persons \cup {NoMember}] /\ \A k \in Keys : ssoLinks[k] = NoMember
  BY DEF SsoInit, Keys
<1>5. ssoStates \in [SsoStates -> StateRow] BY DEF SsoInit, StateRow
<1>6. ssoRequest \in [SsoRequests -> SsoDoings] /\ \A p \in SsoRequests : ~HasState(p)
  BY <1>1 DEF SsoInit, HasState
<1>7. ssoEntered = [s \in SsoStates |-> <<>>] BY DEF SsoInit
<1>8. SsoTypeOK BY <1>2, <1>3, <1>4, <1>5, <1>6 DEF SsoTypeOK
<1>9. \A s \in SsoStates : SsoStateSound(s) BY <1>7 DEF SsoStateSound
<1>10. \A p \in SsoRequests : SsoRequestSound(p) BY <1>6 DEF SsoRequestSound
<1> QED BY <1>2, <1>4, <1>7, <1>8, <1>9, <1>10 DEF SsoInvariant

\* Every step of single sign-on keeps it.
LEMMA SsoKeeps == SsoInvariant /\ [SsoNext]_ssoVars => SsoInvariant'
<1> SUFFICES ASSUME SsoInvariant, [SsoNext]_ssoVars PROVE SsoInvariant' OBVIOUS
<1>1. CASE UNCHANGED ssoVars BY <1>1, SsoOthersKeep
<1>2. CASE SsoNext
  BY <1>2, StartKeeps, SsoCallbackKeeps, VerifyKeeps, ResolveKeeps, LinkKeeps, EnterKeeps, SsoOthersKeep DEF SsoNext
<1> QED BY <1>1, <1>2

\* Whatever a tenant's provider signs, about anyone and for any state it has
\* seen, a state lets one session in, for the connection it was made for, into an
\* account at that connection's proven domain whose address is verified
\* (sso.SsoService, sso_saml.SamlSsoClient, sso_oidc.OidcSsoClient).
THEOREM TenantsKeepToTheirOwn == SsoSpec => []TenantsEnterTheirOwn
<1>1. SsoInvariant => TenantsEnterTheirOwn
  <2> SUFFICES ASSUME SsoInvariant, NEW s \in SsoStates
               PROVE  /\ Len(ssoEntered[s]) <= 1
                      /\ \A e \in ToSet(ssoEntered[s]) :
                           /\ e.connection = ssoStates[s].connection
                           /\ e.member.email.domain = Domains[e.connection]
                           /\ e.member.verified
    BY DEF TenantsEnterTheirOwn
  <2>1. CASE ssoEntered[s] = <<>> BY <2>1 DEF ToSet
  <2>2. ASSUME NEW m \in Persons, ssoEntered[s] = <<[connection |-> ssoStates[s].connection, member |-> m]>>,
               Vouched(m, ssoStates[s].connection)
        PROVE  /\ Len(ssoEntered[s]) <= 1
               /\ \A e \in ToSet(ssoEntered[s]) :
                    /\ e.connection = ssoStates[s].connection
                    /\ e.member.email.domain = Domains[e.connection]
                    /\ e.member.verified
    <3>1. PICK e : e = [connection |-> ssoStates[s].connection, member |-> m] OBVIOUS
    <3>2. ssoEntered[s] = <<e>> BY <2>2, <3>1
    <3>3. Len(ssoEntered[s]) = 1 /\ ToSet(ssoEntered[s]) = {e} BY <3>2 DEF ToSet
    <3>4. e.connection = ssoStates[s].connection /\ e.member = m BY <3>1
    <3> QED BY <2>2, <3>3, <3>4 DEF Vouched
  <2> QED BY <2>1, <2>2 DEF SsoInvariant, SsoStateSound
<1> QED BY <1>1, SsoStarts, SsoKeeps, PTL DEF SsoSpec

-----------------------------------------------------------------------------
(* Sign-in with a provider.                                                *)

Owners == Locals \cup {NewAccountOf(i) : i \in Identities}
FlowRow == {[at |-> "unused"]}
           \cup [at : {"live", "spent"}, mode : {"login", "link"}, account : Owners \cup {NoAccount}, binding : People]
Naming == [at : {"keep name"}, state : OAuthStates]
Answering == [at : {"login", "link"}, state : OAuthStates, identity : Identities]
Holding == [at : {"touch", "enter", "consent revoked", "account deleted"}, identity : Identities, account : Owners]
Claiming == [at : {"claim"}, identity : Identities, account : Owners, then : {"enter", "stay"}]
Identifying == [at : {"register", "delete link"}, identity : Identities]
CallbackDoings == {NoStep} \cup Naming \cup Answering \cup Holding \cup Claiming \cup Identifying

\* What the service keeps.
OAuthTypeOK ==
    /\ locals \subseteq Owners
    /\ links \in [Identities -> Owners \cup {NoAccount}]
    /\ linkIndex \in [Identities -> Owners \cup {NoAccount}]
    /\ states \in [OAuthStates -> FlowRow]
    /\ callback \in [Callbacks -> CallbackDoings]
    /\ answeredStates \in [OAuthStates -> {0, 1}]
    /\ entered \subseteq [identity : Identities, account : Owners]
    /\ unlinkRaced \in BOOLEAN

\* An account that has a link or a password; deletions that ran into each other
\* are not spoken of.
Kept(a) == ~unlinkRaced /\ a.who \notin PasswordHolders => \E i \in Identities : links[i] = a

\* A link whose account has another, or a password.
Spare(i) ==
    /\ links[i] # NoAccount
    /\ links[i].who \notin PasswordHolders => \E j \in Identities \ {i} : links[j] = links[i]

\* A request holds what was proved by its own browser's person, keeps the one
\* copy of a state it spends twice, and deletes a link that is not its account's last.
CallbackSound(p) ==
    LET r == callback[p]
    IN /\ r.at = "keep name" => /\ states[r.state].at = "spent" /\ answeredStates[r.state] = 0
                                /\ \A q \in Callbacks \ {p} : At(q, "keep name") => callback[q].state # r.state
       /\ r.at = "link" => /\ states[r.state].at # "unused" /\ states[r.state].mode = "link"
                           /\ r.identity.who = states[r.state].binding
       /\ r.at \in {"touch", "claim", "enter", "consent revoked", "account deleted"} => r.account.who = r.identity.who
       /\ r.at \in {"touch", "enter"} => Kept(r.account)
       /\ r.at = "delete link" /\ ~unlinkRaced =>
            Spare(r.identity) /\ \A q \in Callbacks \ {p} : ~At(q, "delete link")

\* A flow that links was started by the account's own person, and a state that
\* is still live has answered nobody.
FlowSound(s) ==
    /\ states[s].at # "unused" /\ states[s].mode = "link" =>
         states[s].account \in Owners /\ states[s].account.who = states[s].binding
    /\ states[s].at # "spent" => answeredStates[s] = 0

OAuthInvariant ==
    /\ OAuthTypeOK
    /\ \A i \in Identities : links[i] # NoAccount => links[i].who = i.who
    /\ \A s \in OAuthStates : FlowSound(s)
    /\ \A p \in Callbacks : CallbackSound(p)
    /\ \A e \in entered : e.account.who = e.identity.who /\ Kept(e.account)

\* A request's record says what it is doing.
LEMMA CallbackDoingShape ==
    ASSUME NEW r \in CallbackDoings
    PROVE  /\ r.at = "keep name" => r \in Naming
           /\ r.at \in {"login", "link"} => r \in Answering
           /\ r.at \in {"touch", "enter", "consent revoked", "account deleted"} => r \in Holding
           /\ r.at = "claim" => r \in Claiming
           /\ r.at \in {"register", "delete link"} => r \in Identifying
           /\ r.at \in {"touch", "claim", "enter", "consent revoked", "account deleted"} =>
                r.identity \in Identities /\ r.account \in Owners
<1>1. CASE r = NoStep BY <1>1 DEF NoStep
<1>2. CASE r \in Naming BY <1>2 DEF Naming
<1>3. CASE r \in Answering BY <1>3 DEF Answering
<1>4. CASE r \in Holding BY <1>4 DEF Holding
<1>5. CASE r \in Claiming BY <1>5 DEF Claiming
<1>6. CASE r \in Identifying BY <1>6 DEF Identifying
<1> QED BY <1>1, <1>2, <1>3, <1>4, <1>5, <1>6 DEF CallbackDoings

\* Nobody's account is no account.
LEMMA OwnersAreSomebody == NoAccount \notin Owners
<1> SUFFICES ASSUME NEW i \in Identities PROVE NewAccountOf(i) # NoAccount
  BY AddressesAreProven DEF Owners
<1>1. i.who # "" BY AddressesAreProven
<1>2. NewAccountOf(i).by = i.who BY DEF NewAccountOf
<1>3. NoAccount.by = "" BY DEF NoAccount
<1> QED BY <1>1, <1>2, <1>3

\* What a step may do to the links: whoever had a link or a password has one,
\* and a link somebody is deleting is still not the last.
LinksGiveWay(p) ==
    /\ unlinkRaced => unlinkRaced'
    /\ \A a \in Owners : Kept(a) => Kept(a)'
    /\ ~unlinkRaced' => \/ \A i \in Identities : Spare(i) => Spare(i)'
                        \/ \A q \in Callbacks \ {p} : ~At(q, "delete link")

LEMMA LinksAlone ==
    ASSUME NEW p, UNCHANGED <<links, unlinkRaced>>
    PROVE  LinksGiveWay(p)
BY DEF LinksGiveWay, Kept, Spare

\* The other requests keep what they hold, and the sessions their links.
LEMMA CallbacksKept ==
    ASSUME OAuthInvariant, NEW p \in Callbacks, NEW r \in CallbackDoings, Turns(p, r),
           UNCHANGED <<states, answeredStates>>, LinksGiveWay(p),
           r.at # "keep name",
           r.at = "delete link" => unlinkRaced' \/ \A q \in Callbacks \ {p} : ~At(q, "delete link")
    PROVE  /\ callback' \in [Callbacks -> CallbackDoings] /\ callback'[p] = r
           /\ \A q \in Callbacks \ {p} : CallbackSound(q)'
           /\ \A s \in OAuthStates : FlowSound(s)'
           /\ \A e \in entered : Kept(e.account)'
<1>1. /\ callback' \in [Callbacks -> CallbackDoings]
      /\ callback'[p] = r
      /\ \A q \in Callbacks \ {p} : callback'[q] = callback[q]
  BY DEF Turns, OAuthInvariant, OAuthTypeOK
<1>2. \A e \in entered : Kept(e.account)' BY DEF OAuthInvariant, OAuthTypeOK, LinksGiveWay
<1>3. \A s \in OAuthStates : FlowSound(s)' BY DEF OAuthInvariant, FlowSound
<1>4. ASSUME NEW q \in Callbacks \ {p} PROVE CallbackSound(q)'
  <2>1. CallbackSound(q) /\ callback[q] \in CallbackDoings BY DEF OAuthInvariant, OAuthTypeOK
  <2>2. PICK d : d = callback[q] OBVIOUS
  <2>3. d.at = "keep name" => \A o \in Callbacks \ {q} : At(o, "keep name")' => callback'[o].state # d.state
    BY <1>1, <2>1, <2>2 DEF CallbackSound, At
  <2>4. d.at \in {"touch", "enter"} => Kept(d.account)'
    BY <2>1, <2>2, CallbackDoingShape DEF CallbackSound, LinksGiveWay
  <2>5. ASSUME d.at = "delete link", ~unlinkRaced'
        PROVE  Spare(d.identity)' /\ \A o \in Callbacks \ {q} : ~At(o, "delete link")'
    <3>1. ~unlinkRaced BY <2>5 DEF LinksGiveWay
    <3>2. Spare(d.identity) /\ \A o \in Callbacks \ {q} : ~At(o, "delete link")
      BY <2>1, <2>2, <2>5, <3>1 DEF CallbackSound
    <3>3. At(q, "delete link") BY <2>2, <2>5 DEF At
    <3>4. r.at # "delete link" BY <2>5, <3>3
    <3>5. d.identity \in Identities BY <2>1, <2>2, <2>5, CallbackDoingShape DEF Identifying
    <3>6. Spare(d.identity)' BY <2>5, <3>2, <3>3, <3>5 DEF LinksGiveWay
    <3> QED BY <1>1, <3>2, <3>4, <3>6 DEF At
  <2> QED BY <1>1, <2>1, <2>2, <2>3, <2>4, <2>5 DEF CallbackSound
<1> QED BY <1>1, <1>2, <1>3, <1>4

\* A step of a request that leaves states, accounts and sessions alone.
LEMMA CallbackStepKeeps ==
    ASSUME OAuthInvariant, NEW p \in Callbacks, NEW r \in CallbackDoings, Turns(p, r),
           UNCHANGED <<states, answeredStates>>, LinksGiveWay(p), unlinkRaced' \in BOOLEAN,
           r.at # "keep name",
           r.at = "delete link" => unlinkRaced' \/ \A q \in Callbacks \ {p} : ~At(q, "delete link"),
           CallbackSound(p)',
           locals' \subseteq Owners, UNCHANGED linkIndex,
           links' \in [Identities -> Owners \cup {NoAccount}],
           \A i \in Identities : links'[i] # NoAccount => links'[i].who = i.who,
           entered' \subseteq [identity : Identities, account : Owners],
           \A e \in entered' : e \in entered \/ (e.account.who = e.identity.who /\ Kept(e.account)')
    PROVE  OAuthInvariant'
<1>1. /\ callback' \in [Callbacks -> CallbackDoings]
      /\ \A q \in Callbacks \ {p} : CallbackSound(q)'
      /\ \A s \in OAuthStates : FlowSound(s)'
      /\ \A e \in entered : Kept(e.account)'
  BY CallbacksKept
<1>2. OAuthTypeOK' BY <1>1 DEF OAuthInvariant, OAuthTypeOK
<1>3. \A e \in entered' : (e.account.who = e.identity.who /\ Kept(e.account)') BY <1>1 DEF OAuthInvariant
<1> QED BY <1>1, <1>2, <1>3 DEF OAuthInvariant

\* A step that leaves the links and sessions alone too.
LEMMA CallbackTurnKeeps ==
    ASSUME OAuthInvariant, NEW p \in Callbacks, NEW r \in CallbackDoings, Turns(p, r),
           UNCHANGED <<links, linkIndex, states, answeredStates, entered, unlinkRaced>>,
           locals' \subseteq Owners,
           r.at \notin {"keep name", "delete link"},
           CallbackSound(p)'
    PROVE  OAuthInvariant'
<1>1. LinksGiveWay(p) BY LinksAlone
<1>2. /\ unlinkRaced' \in BOOLEAN
      /\ links' \in [Identities -> Owners \cup {NoAccount}]
      /\ \A i \in Identities : links'[i] # NoAccount => links'[i].who = i.who
      /\ entered' \subseteq [identity : Identities, account : Owners]
  BY DEF OAuthInvariant, OAuthTypeOK
<1> QED BY <1>1, <1>2, CallbackStepKeeps

\* A request that stops holds nothing.
LEMMA StopIsSound ==
    ASSUME OAuthInvariant, NEW p \in Callbacks, Turns(p, NoStep)
    PROVE  NoStep \in CallbackDoings /\ NoStep.at = "idle" /\ CallbackSound(p)'
<1>1. NoStep \in CallbackDoings /\ NoStep.at = "idle" BY DEF CallbackDoings, NoStep
<1>2. callback'[p] = NoStep BY DEF Turns, OAuthInvariant, OAuthTypeOK
<1>3. CallbackSound(p)' BY <1>1, <1>2 DEF CallbackSound
<1> QED BY <1>1, <1>3

\* Addresses proved on both sides are one person's.
LEMMA AutoLinksAreOnes ==
    ASSUME NEW i \in Identities, NEW a \in Owners, a.email = i.email, AutoLinkAllowed(i, a)
    PROVE  a.who = i.who
<1>1. i.verified /\ a.verified BY DEF AutoLinkAllowed
<1>2. CASE a \in Locals BY <1>1, <1>2, AddressesAreProven
<1>3. ASSUME NEW j \in Identities, a = NewAccountOf(j) PROVE a.who = i.who
  BY <1>1, <1>3, AddressesAreProven DEF NewAccountOf
<1> QED BY <1>2, <1>3 DEF Owners

\* Whoever is signed in has the link, or proved the address on both sides.
LEMMA ResolveLoginKeeps ==
    ASSUME OAuthInvariant, NEW p \in Callbacks, ResolveLogin(p)
    PROVE  OAuthInvariant'
<1>1. callback[p] \in CallbackDoings /\ callback[p].at = "login" BY DEF ResolveLogin, At, OAuthInvariant, OAuthTypeOK
<1>2. callback[p] \in Answering BY <1>1, CallbackDoingShape
<1>3. PICK i \in Identities : i = callback[p].identity BY <1>2 DEF Answering
<1>4. UNCHANGED <<locals, links, linkIndex, states, answeredStates, entered, unlinkRaced>> BY DEF ResolveLogin
<1>5. locals \subseteq Owners /\ links \in [Identities -> Owners \cup {NoAccount}]
  BY DEF OAuthInvariant, OAuthTypeOK
<1>6. CASE Turns(p, NoStep) BY <1>4, <1>5, <1>6, StopIsSound, CallbackTurnKeeps
<1>7. ASSUME links[i] # NoAccount, Turns(p, [at |-> "touch", identity |-> i, account |-> links[i]])
      PROVE  OAuthInvariant'
  <2>1. PICK a \in Owners : a = links[i] BY <1>5, <1>7
  <2> DEFINE r == [at |-> "touch", identity |-> i, account |-> a]
  <2>2. r \in CallbackDoings BY DEF CallbackDoings, Holding
  <2>3. r.at = "touch" /\ r.identity = i /\ r.account = a OBVIOUS
  <2>4. Turns(p, r) BY <1>7, <2>1
  <2> HIDE DEF r
  <2>5. a.who = i.who BY <1>7, <2>1 DEF OAuthInvariant
  <2>6. Kept(a)' BY <1>4, <2>1 DEF Kept
  <2>7. callback'[p] = r BY <2>4 DEF Turns, OAuthInvariant, OAuthTypeOK
  <2>8. CallbackSound(p)' BY <2>3, <2>5, <2>6, <2>7 DEF CallbackSound
  <2>9. r.at \notin {"keep name", "delete link"} BY <2>3
  <2> QED BY <1>4, <1>5, <2>2, <2>4, <2>8, <2>9, CallbackTurnKeeps
<1>8. ASSUME NEW a \in locals, a.email = i.email, AutoLinkAllowed(i, a),
             Turns(p, [at |-> "claim", identity |-> i, account |-> a, then |-> "enter"])
      PROVE  OAuthInvariant'
  <2>1. a \in Owners BY <1>5
  <2> DEFINE r == [at |-> "claim", identity |-> i, account |-> a, then |-> "enter"]
  <2>2. r \in CallbackDoings BY <2>1 DEF CallbackDoings, Claiming
  <2>3. r.at = "claim" /\ r.identity = i /\ r.account = a OBVIOUS
  <2>4. Turns(p, r) BY <1>8
  <2> HIDE DEF r
  <2>5. a.who = i.who BY <1>8, <2>1, AutoLinksAreOnes
  <2>6. callback'[p] = r BY <2>4 DEF Turns, OAuthInvariant, OAuthTypeOK
  <2>7. CallbackSound(p)' BY <2>3, <2>5, <2>6 DEF CallbackSound
  <2>8. r.at \notin {"keep name", "delete link"} BY <2>3
  <2> QED BY <1>4, <1>5, <2>2, <2>4, <2>7, <2>8, CallbackTurnKeeps
<1>9. ASSUME Turns(p, [at |-> "register", identity |-> i]) PROVE OAuthInvariant'
  <2> DEFINE r == [at |-> "register", identity |-> i]
  <2>1. r \in CallbackDoings /\ r.at = "register" BY DEF CallbackDoings, Identifying
  <2>2. Turns(p, r) BY <1>9
  <2> HIDE DEF r
  <2>3. callback'[p] = r BY <2>1, <2>2 DEF Turns, OAuthInvariant, OAuthTypeOK
  <2>4. CallbackSound(p)' BY <2>1, <2>3 DEF CallbackSound
  <2>5. r.at \notin {"keep name", "delete link"} BY <2>1
  <2> QED BY <1>4, <1>5, <2>1, <2>2, <2>4, <2>5, CallbackTurnKeeps
<1>10. \/ Turns(p, NoStep)
       \/ links[i] # NoAccount /\ Turns(p, [at |-> "touch", identity |-> i, account |-> links[i]])
       \/ \E a \in locals : /\ a.email = i.email /\ AutoLinkAllowed(i, a)
                            /\ Turns(p, [at |-> "claim", identity |-> i, account |-> a, then |-> "enter"])
       \/ Turns(p, [at |-> "register", identity |-> i])
  BY <1>3, Zenon DEF ResolveLogin
<1> QED BY <1>6, <1>7, <1>8, <1>9, <1>10

\* A new account is its identity's person's.
LEMMA RegisterKeeps ==
    ASSUME OAuthInvariant, NEW p \in Callbacks, RegisterByProvider(p)
    PROVE  OAuthInvariant'
<1>1. callback[p] \in CallbackDoings /\ callback[p].at = "register"
  BY DEF RegisterByProvider, At, OAuthInvariant, OAuthTypeOK
<1>2. callback[p] \in Identifying BY <1>1, CallbackDoingShape
<1>3. PICK i \in Identities : i = callback[p].identity BY <1>2 DEF Identifying
<1>4. UNCHANGED <<links, linkIndex, states, answeredStates, entered, unlinkRaced>> BY DEF RegisterByProvider
<1>5. locals \subseteq Owners BY DEF OAuthInvariant, OAuthTypeOK
<1>6. PICK a \in Owners : a = NewAccountOf(i) BY DEF Owners
<1>7. a.who = i.who BY <1>6 DEF NewAccountOf
<1>8. CASE Turns(p, NoStep) /\ UNCHANGED locals BY <1>4, <1>5, <1>8, StopIsSound, CallbackTurnKeeps
<1>9. CASE /\ locals' = locals \cup {a}
           /\ Turns(p, [at |-> "claim", identity |-> i, account |-> a, then |-> "enter"])
  <2> DEFINE r == [at |-> "claim", identity |-> i, account |-> a, then |-> "enter"]
  <2>1. r \in CallbackDoings BY DEF CallbackDoings, Claiming
  <2>2. r.at = "claim" /\ r.identity = i /\ r.account = a OBVIOUS
  <2>3. Turns(p, r) BY <1>9
  <2> HIDE DEF r
  <2>4. callback'[p] = r BY <2>3 DEF Turns, OAuthInvariant, OAuthTypeOK
  <2>5. CallbackSound(p)' BY <1>7, <2>2, <2>4 DEF CallbackSound
  <2>6. r.at \notin {"keep name", "delete link"} /\ locals' \subseteq Owners BY <1>5, <1>9, <2>2
  <2> QED BY <1>4, <2>1, <2>3, <2>5, <2>6, CallbackTurnKeeps
<1> QED BY <1>3, <1>6, <1>8, <1>9 DEF RegisterByProvider

\* A link is made to the account that asked, whose person the identity's is.
LEMMA LinkProviderKeeps ==
    ASSUME OAuthInvariant, NEW p \in Callbacks, LinkProvider(p)
    PROVE  OAuthInvariant'
<1>1. callback[p] \in CallbackDoings /\ callback[p].at = "link" BY DEF LinkProvider, At, OAuthInvariant, OAuthTypeOK
<1>2. callback[p] \in Answering BY <1>1, CallbackDoingShape
<1>3. PICK i \in Identities, s \in OAuthStates : i = callback[p].identity /\ s = callback[p].state
  BY <1>2 DEF Answering
<1>4. UNCHANGED <<locals, links, linkIndex, states, answeredStates, entered, unlinkRaced>> BY DEF LinkProvider
<1>5. locals \subseteq Owners BY DEF OAuthInvariant, OAuthTypeOK
<1>6. CallbackSound(p) /\ FlowSound(s) BY DEF OAuthInvariant
<1>7. states[s].account \in Owners /\ states[s].account.who = i.who
  BY <1>1, <1>3, <1>6 DEF CallbackSound, FlowSound
<1>8. CASE Turns(p, NoStep) BY <1>4, <1>5, <1>8, StopIsSound, CallbackTurnKeeps
<1>9. CASE Turns(p, [at |-> "claim", identity |-> i, account |-> states[s].account, then |-> "stay"])
  <2>1. PICK a \in Owners : a = states[s].account BY <1>7
  <2> DEFINE r == [at |-> "claim", identity |-> i, account |-> a, then |-> "stay"]
  <2>2. r \in CallbackDoings BY DEF CallbackDoings, Claiming
  <2>3. r.at = "claim" /\ r.identity = i /\ r.account = a OBVIOUS
  <2>4. Turns(p, r) BY <1>9, <2>1
  <2> HIDE DEF r
  <2>5. callback'[p] = r BY <2>4 DEF Turns, OAuthInvariant, OAuthTypeOK
  <2>6. CallbackSound(p)' BY <1>7, <2>1, <2>3, <2>5 DEF CallbackSound
  <2>7. r.at \notin {"keep name", "delete link"} BY <2>3
  <2> QED BY <1>4, <1>5, <2>2, <2>4, <2>6, <2>7, CallbackTurnKeeps
<1> QED BY <1>3, <1>8, <1>9 DEF LinkProvider

\* A row of the links table, written for the identity's own person.
LEMMA LinkWritten ==
    ASSUME OAuthInvariant, NEW i \in Identities, NEW a \in Owners \cup {NoAccount}, a # NoAccount => a.who = i.who,
           links' = [links EXCEPT ![i] = a]
    PROVE  /\ links' \in [Identities -> Owners \cup {NoAccount}]
           /\ links'[i] = a
           /\ \A j \in Identities \ {i} : links'[j] = links[j]
           /\ \A j \in Identities : links'[j] # NoAccount => links'[j].who = j.who
<1>1. /\ links' \in [Identities -> Owners \cup {NoAccount}]
      /\ links'[i] = a
      /\ \A j \in Identities \ {i} : links'[j] = links[j]
  BY DEF OAuthInvariant, OAuthTypeOK
<1>2. \A j \in Identities : links[j] # NoAccount => links[j].who = j.who BY DEF OAuthInvariant
<1> QED BY <1>1, <1>2

\* A claim takes a free key, so nobody's link gives way to it.
LEMMA ClaimLinkKeeps ==
    ASSUME OAuthInvariant, NEW p \in Callbacks, ClaimLink(p)
    PROVE  OAuthInvariant'
<1>1. callback[p] \in CallbackDoings /\ callback[p].at = "claim" BY DEF ClaimLink, At, OAuthInvariant, OAuthTypeOK
<1>2. PICK i \in Identities, a \in Owners, then \in {"enter", "stay"} :
        i = callback[p].identity /\ a = callback[p].account /\ then = callback[p].then
  BY <1>1, CallbackDoingShape DEF Claiming
<1>3. UNCHANGED <<locals, linkIndex, states, answeredStates, entered, unlinkRaced>> BY DEF ClaimLink
<1>4. a.who = i.who BY <1>1, <1>2 DEF OAuthInvariant, CallbackSound
<1>5. /\ locals' \subseteq Owners /\ unlinkRaced' \in BOOLEAN /\ entered' \subseteq [identity : Identities, account : Owners]
      /\ \A e \in entered' : e \in entered
      /\ links \in [Identities -> Owners \cup {NoAccount}]
  BY <1>3 DEF OAuthInvariant, OAuthTypeOK
<1>6. ASSUME links[i] = NoAccount, links' = [links EXCEPT ![i] = a]
      PROVE  /\ LinksGiveWay(p) /\ Kept(a)'
             /\ links' \in [Identities -> Owners \cup {NoAccount}]
             /\ \A j \in Identities : links'[j] # NoAccount => links'[j].who = j.who
  <2>1. /\ links' \in [Identities -> Owners \cup {NoAccount}]
        /\ links'[i] = a
        /\ \A j \in Identities \ {i} : links'[j] = links[j]
        /\ \A j \in Identities : links'[j] # NoAccount => links'[j].who = j.who
    BY <1>4, <1>6, LinkWritten
  <2>2. \A j \in Identities : links[j] # NoAccount => links'[j] = links[j] BY <1>6, <2>1
  <2>3. ASSUME NEW b \in Owners, Kept(b) PROVE Kept(b)'
    BY <1>3, <2>2, <2>3, OwnersAreSomebody DEF Kept
  <2>4. ASSUME NEW j \in Identities, Spare(j) PROVE Spare(j)'
    BY <2>2, <2>4 DEF Spare
  <2>5. Kept(a)' BY <2>1 DEF Kept
  <2> QED BY <1>3, <2>1, <2>3, <2>4, <2>5 DEF LinksGiveWay
<1>7. ASSUME links[i] = NoAccount, links' = [links EXCEPT ![i] = a],
             Turns(p, [at |-> "enter", identity |-> i, account |-> a])
      PROVE  OAuthInvariant'
  <2> DEFINE r == [at |-> "enter", identity |-> i, account |-> a]
  <2>1. r \in CallbackDoings BY DEF CallbackDoings, Holding
  <2>2. r.at = "enter" /\ r.identity = i /\ r.account = a OBVIOUS
  <2>3. Turns(p, r) BY <1>7
  <2> HIDE DEF r
  <2>4. callback'[p] = r BY <2>3 DEF Turns, OAuthInvariant, OAuthTypeOK
  <2>5. CallbackSound(p)' BY <1>4, <1>6, <1>7, <2>2, <2>4 DEF CallbackSound
  <2>6. r.at # "keep name" /\ r.at # "delete link" BY <2>2
  <2> QED BY <1>3, <1>5, <1>6, <1>7, <2>1, <2>3, <2>5, <2>6, CallbackStepKeeps
<1>8. ASSUME links[i] = NoAccount, links' = [links EXCEPT ![i] = a], Turns(p, NoStep)
      PROVE  OAuthInvariant'
  BY <1>3, <1>5, <1>6, <1>8, StopIsSound, CallbackStepKeeps
<1>9. ASSUME Turns(p, NoStep), UNCHANGED links PROVE OAuthInvariant'
  BY <1>3, <1>5, <1>9, StopIsSound, CallbackTurnKeeps
<1> QED BY <1>2, <1>7, <1>8, <1>9 DEF ClaimLink

\* A touch that changes the table undoes another step, and says so.
LEMMA TouchLinkKeeps ==
    ASSUME OAuthInvariant, NEW p \in Callbacks, TouchLink(p)
    PROVE  OAuthInvariant'
<1>1. callback[p] \in CallbackDoings /\ callback[p].at = "touch" BY DEF TouchLink, At, OAuthInvariant, OAuthTypeOK
<1>2. PICK i \in Identities, a \in Owners : callback[p] = [at |-> "touch", identity |-> i, account |-> a]
  BY <1>1, CallbackDoingShape DEF Holding
<1>3. PICK d : d = callback[p] OBVIOUS
<1>4. d.identity = i /\ d.account = a /\ d.at = "touch" BY <1>2, <1>3
<1>5. a.who = i.who /\ Kept(a) BY <1>3, <1>4 DEF OAuthInvariant, CallbackSound
<1> DEFINE r == [at |-> "enter", identity |-> i, account |-> a]
<1>6. [d EXCEPT !.at = "enter"] = r BY <1>2, <1>3
<1>7. /\ UNCHANGED <<locals, linkIndex, states, answeredStates, entered>>
      /\ Turns(p, r)
      /\ links' = [links EXCEPT ![i] = a] \/ UNCHANGED links
      /\ unlinkRaced' = (unlinkRaced \/ links' # links)
  BY <1>3, <1>4, <1>6 DEF TouchLink
<1>8. r \in CallbackDoings BY DEF CallbackDoings, Holding
<1>9. r.at = "enter" /\ r.identity = i /\ r.account = a OBVIOUS
<1> HIDE DEF r
<1>10. unlinkRaced \in BOOLEAN BY DEF OAuthInvariant, OAuthTypeOK
<1>11. unlinkRaced' \in BOOLEAN /\ (unlinkRaced => unlinkRaced') /\ (~unlinkRaced' => UNCHANGED <<links, unlinkRaced>>)
  BY <1>7, <1>10, Zenon
<1>12. LinksGiveWay(p) /\ Kept(a)'
  <2>1. CASE unlinkRaced' BY <1>11, <2>1 DEF LinksGiveWay, Kept
  <2>2. CASE ~unlinkRaced' BY <1>5, <1>11, <2>2, LinksAlone DEF Kept
  <2> QED BY <2>1, <2>2
<1>13. /\ links' \in [Identities -> Owners \cup {NoAccount}]
       /\ \A j \in Identities : links'[j] # NoAccount => links'[j].who = j.who
  BY <1>5, <1>7, LinkWritten DEF OAuthInvariant, OAuthTypeOK
<1>14. callback'[p] = r BY <1>7 DEF Turns, OAuthInvariant, OAuthTypeOK
<1>15. CallbackSound(p)' BY <1>5, <1>9, <1>12, <1>14 DEF CallbackSound
<1>16. r.at # "keep name" /\ r.at # "delete link" BY <1>9
<1>17. /\ locals' \subseteq Owners /\ entered' \subseteq [identity : Identities, account : Owners]
       /\ \A e \in entered' : e \in entered
  BY <1>7 DEF OAuthInvariant, OAuthTypeOK
<1> QED BY <1>7, <1>8, <1>11, <1>12, <1>13, <1>15, <1>16, <1>17, CallbackStepKeeps

\* Who is let in holds the link.
LEMMA EnterByProviderKeeps ==
    ASSUME OAuthInvariant, NEW p \in Callbacks, EnterByProvider(p)
    PROVE  OAuthInvariant'
<1>1. callback[p] \in CallbackDoings /\ callback[p].at = "enter" BY DEF EnterByProvider, At, OAuthInvariant, OAuthTypeOK
<1>2. PICK i \in Identities, a \in Owners : i = callback[p].identity /\ a = callback[p].account
  BY <1>1, CallbackDoingShape DEF Holding
<1>3. a.who = i.who /\ Kept(a)
  <2>1. PICK d : d = callback[p] OBVIOUS
  <2>2. d.at = "enter" /\ d.identity = i /\ d.account = a BY <1>1, <1>2, <2>1
  <2>3. d.account.who = d.identity.who /\ Kept(d.account) BY <2>1, <2>2 DEF OAuthInvariant, CallbackSound
  <2> QED BY <2>2, <2>3
<1>4. PICK e : e = [identity |-> i, account |-> a] OBVIOUS
<1>5. /\ entered' = entered \cup {e} /\ Turns(p, NoStep)
      /\ UNCHANGED <<locals, links, linkIndex, states, answeredStates, unlinkRaced>>
  BY <1>2, <1>4 DEF EnterByProvider
<1>6. LinksGiveWay(p) BY <1>5, LinksAlone
<1>7. e \in [identity : Identities, account : Owners] /\ e.account = a /\ e.identity = i BY <1>4
<1>8. Kept(a)' BY <1>3, <1>5 DEF Kept
<1>9. /\ entered' \subseteq [identity : Identities, account : Owners]
      /\ \A x \in entered' : x \in entered \/ (x.account.who = x.identity.who /\ Kept(x.account)')
  BY <1>3, <1>5, <1>7, <1>8 DEF OAuthInvariant, OAuthTypeOK
<1>10. /\ locals' \subseteq Owners /\ unlinkRaced' \in BOOLEAN
       /\ links' \in [Identities -> Owners \cup {NoAccount}]
       /\ \A j \in Identities : links'[j] # NoAccount => links'[j].who = j.who
  BY <1>5 DEF OAuthInvariant, OAuthTypeOK
<1>11. NoStep \in CallbackDoings /\ NoStep.at = "idle" /\ CallbackSound(p)' BY <1>5, StopIsSound
<1>12. NoStep.at # "keep name" /\ NoStep.at # "delete link" BY <1>11
<1> QED BY <1>5, <1>6, <1>9, <1>10, <1>11, <1>12, CallbackStepKeeps

\* A link that is deleted was not its account's last, or the unlinks met.
LEMMA DeleteLinkKeeps ==
    ASSUME OAuthInvariant, NEW p \in Callbacks, DeleteLink(p)
    PROVE  OAuthInvariant'
<1>1. callback[p] \in CallbackDoings /\ callback[p].at = "delete link" BY DEF DeleteLink, At, OAuthInvariant, OAuthTypeOK
<1>2. callback[p] \in Identifying BY <1>1, CallbackDoingShape
<1>3. PICK i \in Identities : i = callback[p].identity BY <1>2 DEF Identifying
<1>4. /\ links' = [links EXCEPT ![i] = NoAccount] /\ Turns(p, NoStep)
      /\ UNCHANGED <<locals, linkIndex, states, answeredStates, entered, unlinkRaced>>
  BY <1>3 DEF DeleteLink
<1>5. /\ links' \in [Identities -> Owners \cup {NoAccount}]
      /\ links'[i] = NoAccount
      /\ \A j \in Identities \ {i} : links'[j] = links[j]
      /\ \A j \in Identities : links'[j] # NoAccount => links'[j].who = j.who
  <2>1. PICK a : a = NoAccount OBVIOUS
  <2>2. a \in Owners \cup {NoAccount} /\ (a # NoAccount => a.who = i.who) /\ links' = [links EXCEPT ![i] = a]
    BY <1>4, <2>1
  <2> QED BY <2>1, <2>2, LinkWritten
<1>6. LinksGiveWay(p)
  <2>1. ASSUME ~unlinkRaced PROVE Spare(i) /\ \A q \in Callbacks \ {p} : ~At(q, "delete link")
    <3>1. PICK d : d = callback[p] OBVIOUS
    <3>2. d.at = "delete link" /\ d.identity = i BY <1>1, <1>3, <3>1
    <3>3. Spare(d.identity) /\ \A q \in Callbacks \ {p} : ~At(q, "delete link")
      BY <2>1, <3>1, <3>2 DEF OAuthInvariant, CallbackSound
    <3> QED BY <3>2, <3>3
  <2>2. ASSUME NEW a \in Owners, Kept(a) PROVE Kept(a)'
    <3>1. SUFFICES ASSUME ~unlinkRaced, a.who \notin PasswordHolders PROVE \E j \in Identities : links'[j] = a
      BY <1>4 DEF Kept
    <3>2. PICK j \in Identities : links[j] = a BY <2>2, <3>1 DEF Kept
    <3>3. CASE j # i BY <1>5, <3>2, <3>3
    <3>4. CASE j = i
      <4>1. PICK k \in Identities \ {i} : links[k] = links[i] BY <2>1, <3>1, <3>2, <3>4 DEF Spare
      <4> QED BY <1>5, <3>2, <3>4, <4>1
    <3> QED BY <3>3, <3>4
  <2> QED BY <1>4, <2>1, <2>2 DEF LinksGiveWay
<1>7. NoStep \in CallbackDoings /\ NoStep.at = "idle" /\ CallbackSound(p)' BY <1>4, StopIsSound
<1>8. NoStep.at # "keep name" /\ NoStep.at # "delete link" BY <1>7
<1>9. /\ locals' \subseteq Owners /\ unlinkRaced' \in BOOLEAN /\ entered' \subseteq [identity : Identities, account : Owners]
      /\ \A e \in entered' : e \in entered
  BY <1>4 DEF OAuthInvariant, OAuthTypeOK
<1> QED BY <1>4, <1>5, <1>6, <1>7, <1>8, <1>9, CallbackStepKeeps

\* A notification holds the row it read.
LEMMA NotifyKeeps ==
    ASSUME OAuthInvariant, NEW p \in Callbacks, NEW i \in Identities,
           NEW type \in {"consent revoked", "account deleted"}, NotifyProvider(p, i, type)
    PROVE  OAuthInvariant'
<1>1. /\ links[i] # NoAccount
      /\ Turns(p, [at |-> type, identity |-> i, account |-> links[i]])
      /\ UNCHANGED <<locals, links, linkIndex, states, answeredStates, entered, unlinkRaced>>
  BY DEF NotifyProvider
<1>2. PICK a \in Owners : a = links[i] BY <1>1 DEF OAuthInvariant, OAuthTypeOK
<1> DEFINE r == [at |-> type, identity |-> i, account |-> a]
<1>3. r \in CallbackDoings BY DEF CallbackDoings, Holding
<1>4. r.at \in {"consent revoked", "account deleted"} /\ r.identity = i /\ r.account = a OBVIOUS
<1>5. Turns(p, r) BY <1>1, <1>2
<1> HIDE DEF r
<1>6. a.who = i.who BY <1>1, <1>2 DEF OAuthInvariant
<1>7. callback'[p] = r BY <1>5 DEF Turns, OAuthInvariant, OAuthTypeOK
<1>8. CallbackSound(p)' BY <1>4, <1>6, <1>7 DEF CallbackSound
<1>9. r.at \notin {"keep name", "delete link"} BY <1>4
<1>10. locals' \subseteq Owners BY <1>1 DEF OAuthInvariant, OAuthTypeOK
<1> QED BY <1>1, <1>3, <1>5, <1>8, <1>9, <1>10, CallbackTurnKeeps

\* Apple's notification ends the account's sessions, and is not unlink's to answer for.
LEMMA ApplyNotificationKeeps ==
    ASSUME OAuthInvariant, NEW p \in Callbacks, ApplyNotification(p)
    PROVE  OAuthInvariant'
<1>1. callback[p] \in CallbackDoings /\ callback[p].at \in {"consent revoked", "account deleted"}
  BY DEF ApplyNotification, At, OAuthInvariant, OAuthTypeOK
<1>2. PICK i \in Identities, a \in Owners : i = callback[p].identity /\ a = callback[p].account
  BY <1>1, CallbackDoingShape DEF Holding
<1>3. a.who = i.who BY <1>1, <1>2 DEF OAuthInvariant, CallbackSound
<1>4. /\ links' = [links EXCEPT ![i] = a] \/ links' = [links EXCEPT ![i] = NoAccount]
      /\ entered' = {e \in entered : e.account # a}
      /\ unlinkRaced' = TRUE
      /\ Turns(p, NoStep)
      /\ UNCHANGED <<locals, linkIndex, states, answeredStates>>
  BY <1>2, Zenon DEF ApplyNotification
<1>5. PICK x \in {a, NoAccount} : links' = [links EXCEPT ![i] = x] BY <1>4
<1>6. /\ links' \in [Identities -> Owners \cup {NoAccount}]
      /\ \A j \in Identities : links'[j] # NoAccount => links'[j].who = j.who
  BY <1>3, <1>5, LinkWritten
<1>7. unlinkRaced' BY <1>4
<1>8. LinksGiveWay(p) /\ unlinkRaced' \in BOOLEAN
  <2>1. \A b \in Owners : Kept(b)' BY <1>7 DEF Kept
  <2>2. unlinkRaced' \in BOOLEAN BY <1>4
  <2> QED BY <1>7, <2>1, <2>2, Zenon DEF LinksGiveWay
<1>9. NoStep \in CallbackDoings /\ NoStep.at = "idle" /\ CallbackSound(p)' BY <1>4, StopIsSound
<1>10. NoStep.at # "keep name" /\ NoStep.at # "delete link" BY <1>9
<1>11. /\ locals' \subseteq Owners /\ entered' \subseteq [identity : Identities, account : Owners]
       /\ \A e \in entered' : e \in entered
  BY <1>4 DEF OAuthInvariant, OAuthTypeOK
<1> QED BY <1>4, <1>6, <1>8, <1>9, <1>10, <1>11, CallbackStepKeeps

\* unlink counted another way in before it set out to delete this one.
LEMMA UnlinkKeeps ==
    ASSUME OAuthInvariant, NEW p \in Callbacks, NEW a \in locals, NEW i \in Identities, Unlink(p, a, i)
    PROVE  OAuthInvariant'
<1>1. /\ linkIndex[i] = a /\ OtherSignIn(a, {i})
      /\ Turns(p, [at |-> "delete link", identity |-> i])
      /\ unlinkRaced' = (unlinkRaced \/ links[i] # a \/ \E q \in Callbacks \ {p} : At(q, "delete link"))
      /\ UNCHANGED <<locals, links, linkIndex, states, answeredStates, entered>>
  BY Zenon DEF Unlink
<1>2. a \in Owners /\ unlinkRaced \in BOOLEAN BY DEF OAuthInvariant, OAuthTypeOK
<1>3. /\ unlinkRaced' \in BOOLEAN /\ (unlinkRaced => unlinkRaced')
      /\ ~unlinkRaced' => links[i] = a /\ \A q \in Callbacks \ {p} : ~At(q, "delete link")
  BY <1>1, <1>2, Zenon
<1> DEFINE r == [at |-> "delete link", identity |-> i]
<1>4. r \in CallbackDoings BY DEF CallbackDoings, Identifying
<1>5. r.at = "delete link" /\ r.identity = i OBVIOUS
<1>6. Turns(p, r) BY <1>1
<1> HIDE DEF r
<1>7. LinksGiveWay(p) BY <1>1, <1>3 DEF Kept, Spare, LinksGiveWay
<1>8. callback' = [callback EXCEPT ![p] = r] /\ callback \in [Callbacks -> CallbackDoings]
  BY <1>6 DEF Turns, OAuthInvariant, OAuthTypeOK
<1>9. ASSUME ~unlinkRaced' PROVE Spare(i)' /\ \A q \in Callbacks \ {p} : ~At(q, "delete link")'
  <2>1. links[i] = a /\ \A q \in Callbacks \ {p} : ~At(q, "delete link") BY <1>3, <1>9
  <2>2. links[i] # NoAccount BY <1>2, <2>1, OwnersAreSomebody
  <2>3. a.who \notin PasswordHolders => \E j \in Identities \ {i} : links[j] = a BY <1>1 DEF OtherSignIn
  <2>4. Spare(i)' BY <1>1, <2>1, <2>2, <2>3 DEF Spare
  <2>5. \A q \in Callbacks \ {p} : callback'[q] = callback[q] BY <1>8
  <2> QED BY <2>1, <2>4, <2>5 DEF At
<1>10. CallbackSound(p)' BY <1>5, <1>8, <1>9 DEF CallbackSound
<1>11. r.at # "keep name" /\ (r.at = "delete link" => unlinkRaced' \/ \A q \in Callbacks \ {p} : ~At(q, "delete link"))
  <2>1. r.at # "keep name" BY <1>5
  <2> QED BY <1>3, <2>1, Zenon
<1>12. /\ locals' \subseteq Owners /\ entered' \subseteq [identity : Identities, account : Owners]
       /\ \A e \in entered' : e \in entered
       /\ links' \in [Identities -> Owners \cup {NoAccount}]
       /\ \A j \in Identities : links'[j] # NoAccount => links'[j].who = j.who
  BY <1>1 DEF OAuthInvariant, OAuthTypeOK
<1> QED BY <1>1, <1>3, <1>4, <1>6, <1>7, <1>10, <1>11, <1>12, CallbackStepKeeps

\* A request that dies, and an index that catches up.
LEMMA CallbackDiesKeeps ==
    ASSUME OAuthInvariant, NEW p \in Callbacks, CallbackDies(p)
    PROVE  OAuthInvariant'
<1>1. Turns(p, NoStep) /\ UNCHANGED <<locals, links, linkIndex, states, answeredStates, entered, unlinkRaced>>
  BY DEF CallbackDies
<1>2. NoStep \in CallbackDoings /\ NoStep.at = "idle" /\ CallbackSound(p)' BY <1>1, StopIsSound
<1>3. NoStep.at \notin {"keep name", "delete link"} /\ locals' \subseteq Owners BY <1>1, <1>2 DEF OAuthInvariant, OAuthTypeOK
<1> QED BY <1>1, <1>2, <1>3, CallbackTurnKeeps

LEMMA IndexLinkKeeps ==
    ASSUME OAuthInvariant, linkIndex' \in [Identities -> Owners \cup {NoAccount}],
           UNCHANGED <<locals, links, states, callback, answeredStates, entered, unlinkRaced>>
    PROVE  OAuthInvariant'
<1>1. OAuthTypeOK' BY DEF OAuthInvariant, OAuthTypeOK
<1>2. ASSUME NEW p \in Callbacks PROVE CallbackSound(p)'
  <2>1. CallbackSound(p) /\ callback[p] \in CallbackDoings BY DEF OAuthInvariant, OAuthTypeOK
  <2>2. PICK d : d = callback[p] OBVIOUS
  <2>3. callback'[p] = d BY <2>2
  <2>4. d.at \in {"touch", "enter"} => Kept(d.account)' BY <2>1, <2>2 DEF CallbackSound, Kept
  <2>5. ASSUME d.at = "delete link", ~unlinkRaced'
        PROVE  Spare(d.identity)' /\ \A q \in Callbacks \ {p} : ~At(q, "delete link")'
    BY <2>1, <2>2, <2>5 DEF CallbackSound, Spare, At
  <2> QED BY <2>1, <2>2, <2>3, <2>4, <2>5 DEF CallbackSound, At
<1>3. \A p \in Callbacks : CallbackSound(p)' BY <1>2
<1>4. \A e \in entered' : (e.account.who = e.identity.who /\ Kept(e.account)')
  BY DEF OAuthInvariant, Kept
<1>5. \A s \in OAuthStates : FlowSound(s)' BY DEF OAuthInvariant, FlowSound
<1> QED BY <1>1, <1>3, <1>4, <1>5 DEF OAuthInvariant

\* A state is spent, or written again; the row says the same flow.
LEMMA StateMoves ==
    ASSUME states \in [OAuthStates -> FlowRow], NEW s \in OAuthStates, states[s].at # "unused",
           NEW w \in {"live", "spent"}, states' = [states EXCEPT ![s].at = w]
    PROVE  /\ states' \in [OAuthStates -> FlowRow]
           /\ states'[s].at = w /\ states'[s].mode = states[s].mode
           /\ states'[s].account = states[s].account /\ states'[s].binding = states[s].binding
           /\ \A t \in OAuthStates \ {s} : states'[t] = states[t]
<1>1. PICK row \in FlowRow : row = states[s] OBVIOUS
<1>2. PICK moved : moved = [row EXCEPT !.at = w] OBVIOUS
<1>3. row \in [at : {"live", "spent"}, mode : {"login", "link"}, account : Owners \cup {NoAccount}, binding : People]
  BY <1>1 DEF FlowRow
<1>4. /\ moved \in [at : {"live", "spent"}, mode : {"login", "link"}, account : Owners \cup {NoAccount}, binding : People]
      /\ moved.at = w /\ moved.mode = row.mode /\ moved.account = row.account /\ moved.binding = row.binding
  BY <1>2, <1>3
<1>5. states' = [states EXCEPT ![s] = moved] BY <1>1, <1>2
<1>6. moved \in FlowRow BY <1>4 DEF FlowRow
<1>7. states'[s] = moved /\ \A t \in OAuthStates \ {s} : states'[t] = states[t] BY <1>5
<1>8. states' \in [OAuthStates -> FlowRow] BY <1>5, <1>6
<1> QED BY <1>1, <1>4, <1>7, <1>8

\* A step that moves one flow's state along with its request.
LEMMA FlowStepKeeps ==
    ASSUME OAuthInvariant, NEW p \in Callbacks, NEW r \in CallbackDoings, Turns(p, r),
           UNCHANGED <<locals, links, linkIndex, entered, unlinkRaced>>,
           NEW s \in OAuthStates, states[s].at # "unused", NEW w \in {"live", "spent"},
           states' = [states EXCEPT ![s].at = w],
           NEW n \in {0, 1}, answeredStates' = [answeredStates EXCEPT ![s] = n], w # "spent" => n = 0,
           \A q \in Callbacks \ {p} : At(q, "keep name") => callback[q].state # s,
           r.at = "keep name" => r.state = s,
           r.at # "delete link",
           CallbackSound(p)'
    PROVE  OAuthInvariant'
<1>1. /\ callback' \in [Callbacks -> CallbackDoings]
      /\ callback'[p] = r
      /\ \A q \in Callbacks \ {p} : callback'[q] = callback[q]
  BY DEF Turns, OAuthInvariant, OAuthTypeOK
<1>2. /\ states' \in [OAuthStates -> FlowRow]
      /\ states'[s].at = w /\ states'[s].mode = states[s].mode
      /\ states'[s].account = states[s].account /\ states'[s].binding = states[s].binding
      /\ \A t \in OAuthStates \ {s} : states'[t] = states[t]
  BY StateMoves DEF OAuthInvariant, OAuthTypeOK
<1>3. /\ answeredStates' \in [OAuthStates -> {0, 1}] /\ answeredStates'[s] = n
      /\ \A t \in OAuthStates \ {s} : answeredStates'[t] = answeredStates[t]
  BY DEF OAuthInvariant, OAuthTypeOK
<1>4. OAuthTypeOK' BY <1>1, <1>2, <1>3 DEF OAuthInvariant, OAuthTypeOK
<1>5. ASSUME NEW t \in OAuthStates PROVE FlowSound(t)'
  <2>1. FlowSound(t) BY DEF OAuthInvariant
  <2>2. CASE t # s BY <1>2, <1>3, <2>1, <2>2 DEF FlowSound
  <2>3. CASE t = s BY <1>2, <1>3, <2>1, <2>3 DEF FlowSound
  <2> QED BY <2>2, <2>3
<1>6. ASSUME NEW q \in Callbacks \ {p} PROVE CallbackSound(q)'
  <2>1. CallbackSound(q) /\ callback[q] \in CallbackDoings BY DEF OAuthInvariant, OAuthTypeOK
  <2>2. PICK d : d = callback[q] OBVIOUS
  <2>3. callback'[q] = d BY <1>1, <2>2
  <2>4. ASSUME d.at = "keep name"
        PROVE  /\ states'[d.state].at = "spent" /\ answeredStates'[d.state] = 0
               /\ \A o \in Callbacks \ {q} : At(o, "keep name")' => callback'[o].state # d.state
    <3>1. d.state \in OAuthStates BY <2>1, <2>2, <2>4, CallbackDoingShape DEF Naming
    <3>2. d.state # s BY <2>2, <2>4 DEF At
    <3>3. /\ states[d.state].at = "spent" /\ answeredStates[d.state] = 0
          /\ \A o \in Callbacks \ {q} : At(o, "keep name") => callback[o].state # d.state
      BY <2>1, <2>2, <2>4 DEF CallbackSound
    <3>4. \A o \in Callbacks \ {q} : At(o, "keep name")' => callback'[o].state # d.state
      <4>1. SUFFICES ASSUME NEW o \in Callbacks \ {q}, callback'[o].at = "keep name"
                     PROVE  callback'[o].state # d.state
        BY DEF At
      <4>2. CASE o = p BY <1>1, <3>2, <4>1, <4>2
      <4>3. CASE o # p BY <1>1, <3>3, <4>1, <4>3 DEF At
      <4> QED BY <4>2, <4>3
    <3> QED BY <1>2, <1>3, <3>1, <3>2, <3>3, <3>4
  <2>5. ASSUME d.at = "link"
        PROVE  /\ states'[d.state].at # "unused" /\ states'[d.state].mode = "link"
               /\ d.identity.who = states'[d.state].binding
    <3>1. d.state \in OAuthStates BY <2>1, <2>2, <2>5, CallbackDoingShape DEF Answering
    <3>2. /\ states[d.state].at # "unused" /\ states[d.state].mode = "link"
          /\ d.identity.who = states[d.state].binding
      BY <2>1, <2>2, <2>5 DEF CallbackSound
    <3>3. w # "unused" OBVIOUS
    <3> QED BY <1>2, <3>1, <3>2, <3>3
  <2>6. d.at \in {"touch", "claim", "enter", "consent revoked", "account deleted"} => d.account.who = d.identity.who
    BY <2>1, <2>2 DEF CallbackSound
  <2>7. d.at \in {"touch", "enter"} => Kept(d.account)' BY <2>1, <2>2 DEF CallbackSound, Kept
  <2>8. ASSUME d.at = "delete link", ~unlinkRaced'
        PROVE  Spare(d.identity)' /\ \A o \in Callbacks \ {q} : ~At(o, "delete link")'
    BY <1>1, <2>1, <2>2, <2>8 DEF CallbackSound, Spare, At
  <2> QED BY <2>3, <2>4, <2>5, <2>6, <2>7, <2>8 DEF CallbackSound
<1>7. \A q \in Callbacks : CallbackSound(q)' BY <1>6
<1>8. \A e \in entered' : (e.account.who = e.identity.who /\ Kept(e.account)')
  BY DEF OAuthInvariant, Kept
<1>9. \A i \in Identities : links'[i] # NoAccount => links'[i].who = i.who BY DEF OAuthInvariant
<1> QED BY <1>4, <1>5, <1>7, <1>8, <1>9 DEF OAuthInvariant

\* The callback that spends a state answers it, if the browser is the one that
\* started the flow; a code it brings is that browser's person's.
LEMMA OAuthCallbackKeeps ==
    ASSUME OAuthInvariant, NEW p \in Callbacks, NEW s \in OAuthStates, NEW browser \in People,
           NEW code \in AuthorizationCodes, OAuthCallback(p, s, browser, code)
    PROVE  OAuthInvariant'
<1>1. /\ states[s].at = "live" /\ states' = [states EXCEPT ![s].at = "spent"]
      /\ Carries(browser, code, s)
      /\ UNCHANGED <<locals, links, linkIndex, entered, unlinkRaced>>
  BY DEF OAuthCallback, ConsumeState
<1>2. FlowSound(s) /\ answeredStates[s] = 0 BY <1>1 DEF OAuthInvariant, FlowSound
<1>3. states \in [OAuthStates -> FlowRow] /\ answeredStates \in [OAuthStates -> {0, 1}]
      /\ callback \in [Callbacks -> CallbackDoings]
  BY DEF OAuthInvariant, OAuthTypeOK
<1>4. states[s].mode \in {"login", "link"} BY <1>1, <1>3 DEF FlowRow
<1>5. \A q \in Callbacks \ {p} : At(q, "keep name") => callback[q].state # s
  BY <1>1 DEF At, OAuthInvariant, CallbackSound
<1>6. /\ states'[s].at = "spent" /\ states'[s].mode = states[s].mode /\ states'[s].binding = states[s].binding
  <2>1. states[s].at # "unused" BY <1>1
  <2>2. PICK w \in {"live", "spent"} : w = "spent" OBVIOUS
  <2>3. states' = [states EXCEPT ![s].at = w] BY <1>1, <2>2
  <2> QED BY <1>3, <2>1, <2>2, <2>3, StateMoves
<1>7. ASSUME NEW r \in CallbackDoings, Turns(p, r), r.at \notin {"keep name", "delete link"}, CallbackSound(p)',
             NEW n \in {0, 1}, answeredStates' = [answeredStates EXCEPT ![s] = n]
      PROVE  OAuthInvariant'
  <2>1. states[s].at # "unused" /\ r.at # "keep name" /\ r.at # "delete link" BY <1>1, <1>7
  <2>2. PICK w \in {"live", "spent"} : w = "spent" OBVIOUS
  <2>3. states' = [states EXCEPT ![s].at = w] /\ (w # "spent" => n = 0) BY <1>1, <2>2
  <2> QED BY <1>1, <1>5, <1>7, <2>1, <2>3, FlowStepKeeps
<1>8. ASSUME LinkBindingMatches(s, browser), answeredStates' = [answeredStates EXCEPT ![s] = @ + 1]
      PROVE  /\ answeredStates' = [answeredStates EXCEPT ![s] = 1]
             /\ IdentityOf(code.account) \in Identities
             /\ IdentityOf(code.account).who = states[s].binding
  <2>1. answeredStates[s] + 1 = 1 BY <1>2
  <2>2. code.account \in ProviderAccounts BY DEF AuthorizationCodes
  <2>3. IdentityOf(code.account) \in Identities BY <2>2 DEF Identities
  <2>4. code.account.who = states[s].binding BY <1>1, <1>8 DEF LinkBindingMatches, Carries
  <2>5. IdentityOf(code.account).who = code.account.who BY DEF IdentityOf
  <2> QED BY <1>8, <2>1, <2>3, <2>4, <2>5
<1>9. ASSUME LinkBindingMatches(s, browser), answeredStates' = [answeredStates EXCEPT ![s] = @ + 1],
             Turns(p, [at |-> states[s].mode, state |-> s, identity |-> IdentityOf(code.account)])
      PROVE  OAuthInvariant'
  <2>1. PICK i \in Identities, mode \in {"login", "link"} : i = IdentityOf(code.account) /\ mode = states[s].mode
    BY <1>4, <1>8, <1>9
  <2> DEFINE r == [at |-> mode, state |-> s, identity |-> i]
  <2>2. r \in CallbackDoings BY DEF CallbackDoings, Answering
  <2>3. r.at = mode /\ r.state = s /\ r.identity = i OBVIOUS
  <2>4. Turns(p, r) BY <1>9, <2>1
  <2> HIDE DEF r
  <2>5. callback'[p] = r BY <1>3, <2>4 DEF Turns
  <2>6. i.who = states[s].binding BY <1>8, <1>9, <2>1
  <2>7. mode = "link" => states'[s].at # "unused" /\ states'[s].mode = "link" /\ i.who = states'[s].binding
    BY <1>6, <2>1, <2>6
  <2>8. CallbackSound(p)' BY <2>3, <2>5, <2>7 DEF CallbackSound
  <2>9. r.at \notin {"keep name", "delete link"} BY <2>3
  <2> QED BY <1>7, <1>8, <1>9, <2>2, <2>4, <2>8, <2>9
<1>10. ASSUME Turns(p, NoStep), NEW n \in {0, 1}, answeredStates' = [answeredStates EXCEPT ![s] = n]
       PROVE  OAuthInvariant'
  BY <1>7, <1>10, StopIsSound
<1>11. UNCHANGED answeredStates => answeredStates' = [answeredStates EXCEPT ![s] = 0] BY <1>2, <1>3
<1>12. \/ /\ LinkBindingMatches(s, browser) /\ answeredStates' = [answeredStates EXCEPT ![s] = @ + 1]
          /\ \/ Turns(p, [at |-> states[s].mode, state |-> s, identity |-> IdentityOf(code.account)])
             \/ Turns(p, NoStep)
       \/ Turns(p, NoStep) /\ UNCHANGED answeredStates
  BY Zenon DEF OAuthCallback
<1> QED BY <1>8, <1>9, <1>10, <1>11, <1>12

\* The form post that keeps a name spends the state and writes it back, alone.
LEMMA KeepNameKeeps ==
    ASSUME OAuthInvariant, NEW p \in Callbacks, NEW s \in OAuthStates, KeepFormPostName(p, s)
    PROVE  OAuthInvariant'
<1>1. /\ states[s].at = "live" /\ states' = [states EXCEPT ![s].at = "spent"]
      /\ Turns(p, [at |-> "keep name", state |-> s])
      /\ UNCHANGED <<locals, links, linkIndex, answeredStates, entered, unlinkRaced>>
  BY DEF KeepFormPostName, ConsumeState
<1>2. answeredStates[s] = 0 BY <1>1 DEF OAuthInvariant, FlowSound
<1>3. states \in [OAuthStates -> FlowRow] /\ answeredStates \in [OAuthStates -> {0, 1}]
      /\ callback \in [Callbacks -> CallbackDoings]
  BY DEF OAuthInvariant, OAuthTypeOK
<1>4. \A q \in Callbacks \ {p} : At(q, "keep name") => callback[q].state # s
  BY <1>1 DEF At, OAuthInvariant, CallbackSound
<1> DEFINE r == [at |-> "keep name", state |-> s]
<1>5. r \in CallbackDoings BY DEF CallbackDoings, Naming
<1>6. r.at = "keep name" /\ r.state = s OBVIOUS
<1>7. Turns(p, r) BY <1>1
<1> HIDE DEF r
<1>8. callback'[p] = r /\ \A q \in Callbacks \ {p} : callback'[q] = callback[q] BY <1>3, <1>7 DEF Turns
<1>9. PICK w \in {"live", "spent"}, n \in {0, 1} : w = "spent" /\ n = 0 OBVIOUS
<1>10. /\ states[s].at # "unused" /\ states' = [states EXCEPT ![s].at = w] /\ (w # "spent" => n = 0)
       /\ answeredStates' = [answeredStates EXCEPT ![s] = n] /\ r.at # "delete link"
       /\ UNCHANGED <<locals, links, linkIndex, entered, unlinkRaced>>
  BY <1>1, <1>2, <1>3, <1>6, <1>9
<1>11. states'[s].at = "spent" BY <1>3, <1>9, <1>10, StateMoves
<1>12. CallbackSound(p)' BY <1>1, <1>2, <1>4, <1>6, <1>8, <1>11 DEF CallbackSound, At
<1> QED BY <1>4, <1>5, <1>6, <1>7, <1>9, <1>10, <1>12, FlowStepKeeps

LEMMA PutStateAgainKeeps ==
    ASSUME OAuthInvariant, NEW p \in Callbacks, PutStateAgain(p)
    PROVE  OAuthInvariant'
<1>1. callback[p] \in CallbackDoings /\ callback[p].at = "keep name" BY DEF PutStateAgain, At, OAuthInvariant, OAuthTypeOK
<1>2. PICK s \in OAuthStates : s = callback[p].state BY <1>1, CallbackDoingShape DEF Naming
<1>3. PICK d : d = callback[p] OBVIOUS
<1>4. d.at = "keep name" /\ d.state = s BY <1>1, <1>2, <1>3
<1>5. /\ states[s].at = "spent" /\ answeredStates[s] = 0
      /\ \A q \in Callbacks \ {p} : At(q, "keep name") => callback[q].state # s
  BY <1>3, <1>4 DEF OAuthInvariant, CallbackSound
<1>6. /\ states' = [states EXCEPT ![s].at = "live"] /\ Turns(p, NoStep)
      /\ UNCHANGED <<locals, links, linkIndex, answeredStates, entered, unlinkRaced>>
  BY <1>2 DEF PutStateAgain
<1>7. NoStep \in CallbackDoings /\ NoStep.at = "idle" /\ CallbackSound(p)' BY <1>6, StopIsSound
<1>8. PICK w \in {"live", "spent"}, n \in {0, 1} : w = "live" /\ n = 0 OBVIOUS
<1>9. answeredStates \in [OAuthStates -> {0, 1}] BY DEF OAuthInvariant, OAuthTypeOK
<1>10. /\ states[s].at # "unused" /\ states' = [states EXCEPT ![s].at = w] /\ (w # "spent" => n = 0)
       /\ answeredStates' = [answeredStates EXCEPT ![s] = n]
       /\ NoStep.at # "keep name" /\ NoStep.at # "delete link"
  BY <1>5, <1>6, <1>7, <1>8, <1>9
<1> QED BY <1>5, <1>6, <1>7, <1>10, FlowStepKeeps

\* A flow starts with the browser's own account, if with any.
LEMMA StartOAuthKeeps ==
    ASSUME OAuthInvariant, NEW b \in People, NEW mode \in {"login", "link"},
           NEW a \in Owners \cup {NoAccount}, StartOAuth(b, mode, a)
    PROVE  OAuthInvariant'
<1>1. PICK s \in FreshStates : s = CHOOSE x \in FreshStates : TRUE BY DEF StartOAuth
<1>2. s \in OAuthStates /\ states[s].at = "unused" BY DEF FreshStates
<1> DEFINE row == [at |-> "live", mode |-> mode, account |-> a, binding |-> b]
<1>3. row \in FlowRow BY DEF FlowRow
<1>4. row.at = "live" /\ row.mode = mode /\ row.account = a /\ row.binding = b OBVIOUS
<1>5. /\ states' = [states EXCEPT ![s] = row]
      /\ mode = "link" => a \in locals /\ a.who = b
      /\ UNCHANGED <<locals, links, linkIndex, callback, answeredStates, entered, unlinkRaced>>
  BY <1>1 DEF StartOAuth
<1> HIDE DEF row
<1>6. /\ states' \in [OAuthStates -> FlowRow] /\ states'[s] = row
      /\ \A t \in OAuthStates \ {s} : states'[t] = states[t]
  BY <1>2, <1>3, <1>5 DEF OAuthInvariant, OAuthTypeOK
<1>7. OAuthTypeOK' BY <1>5, <1>6 DEF OAuthInvariant, OAuthTypeOK
<1>8. ASSUME NEW t \in OAuthStates PROVE FlowSound(t)'
  <2>1. FlowSound(t) BY DEF OAuthInvariant
  <2>2. CASE t # s BY <1>5, <1>6, <2>1, <2>2 DEF FlowSound
  <2>3. CASE t = s BY <1>2, <1>4, <1>5, <1>6, <2>1, <2>3 DEF FlowSound, OAuthInvariant, OAuthTypeOK
  <2> QED BY <2>2, <2>3
<1>9. ASSUME NEW p \in Callbacks PROVE CallbackSound(p)'
  <2>1. CallbackSound(p) /\ callback[p] \in CallbackDoings BY DEF OAuthInvariant, OAuthTypeOK
  <2>2. PICK d : d = callback[p] OBVIOUS
  <2>3. callback'[p] = d BY <1>5, <2>2
  <2>4. d.at \in {"keep name", "link"} => d.state \in OAuthStates
    BY <2>1, <2>2, CallbackDoingShape DEF Naming, Answering
  <2>5. d.at \in {"keep name", "link"} => states'[d.state] = states[d.state]
    BY <1>2, <1>6, <2>1, <2>2, <2>4 DEF CallbackSound
  <2>6. d.at \in {"touch", "enter"} => Kept(d.account)' BY <1>5, <2>1, <2>2 DEF CallbackSound, Kept
  <2>7. ASSUME d.at = "delete link", ~unlinkRaced'
        PROVE  Spare(d.identity)' /\ \A q \in Callbacks \ {p} : ~At(q, "delete link")'
    BY <1>5, <2>1, <2>2, <2>7 DEF CallbackSound, Spare, At
  <2>8. d.at = "keep name" =>
          /\ states'[d.state].at = "spent" /\ answeredStates'[d.state] = 0
          /\ \A q \in Callbacks \ {p} : At(q, "keep name")' => callback'[q].state # d.state
    BY <1>5, <2>1, <2>2, <2>5 DEF CallbackSound, At
  <2>9. d.at = "link" => /\ states'[d.state].at # "unused" /\ states'[d.state].mode = "link"
                         /\ d.identity.who = states'[d.state].binding
    BY <2>1, <2>2, <2>5 DEF CallbackSound
  <2>10. d.at \in {"touch", "claim", "enter", "consent revoked", "account deleted"} => d.account.who = d.identity.who
    BY <2>1, <2>2 DEF CallbackSound
  <2> QED BY <2>3, <2>6, <2>7, <2>8, <2>9, <2>10 DEF CallbackSound
<1>10. \A e \in entered' : (e.account.who = e.identity.who /\ Kept(e.account)')
  BY <1>5 DEF OAuthInvariant, Kept
<1>11. \A i \in Identities : links'[i] # NoAccount => links'[i].who = i.who BY <1>5 DEF OAuthInvariant
<1> QED BY <1>7, <1>8, <1>9, <1>10, <1>11 DEF OAuthInvariant

LEMMA OAuthStarts == OAuthInit => OAuthInvariant
<1> SUFFICES ASSUME OAuthInit PROVE OAuthInvariant OBVIOUS
<1>1. OAuthTypeOK
  <2>1. NoStep \in CallbackDoings BY DEF CallbackDoings
  <2> QED BY <2>1 DEF OAuthInit, OAuthTypeOK, Owners, FlowRow
<1>2. \A p \in Callbacks : CallbackSound(p) BY DEF NoStep, OAuthInit, CallbackSound
<1>3. \A s \in OAuthStates : FlowSound(s) BY DEF OAuthInit, FlowSound
<1>4. /\ \A i \in Identities : links[i] # NoAccount => links[i].who = i.who
      /\ \A e \in entered : e.account.who = e.identity.who /\ Kept(e.account)
  BY DEF OAuthInit
<1> QED BY <1>1, <1>2, <1>3, <1>4 DEF OAuthInvariant

LEMMA OAuthKeeps == OAuthInvariant /\ [OAuthNext]_oauthVars => OAuthInvariant'
<1> SUFFICES ASSUME OAuthInvariant, [OAuthNext]_oauthVars PROVE OAuthInvariant' OBVIOUS
<1>1. locals \subseteq Owners /\ links \in [Identities -> Owners \cup {NoAccount}]
      /\ linkIndex \in [Identities -> Owners \cup {NoAccount}]
  BY DEF OAuthInvariant, OAuthTypeOK
<1>2. ASSUME NEW b \in People, StartOAuth(b, "login", NoAccount) PROVE OAuthInvariant' BY <1>2, StartOAuthKeeps
<1>3. ASSUME NEW b \in People, NEW a \in locals, StartOAuth(b, "link", a) PROVE OAuthInvariant'
  BY <1>1, <1>3, StartOAuthKeeps
<1>4. ASSUME NEW i \in Identities, IndexLink(i) PROVE OAuthInvariant' BY <1>1, <1>4, IndexLinkKeeps DEF IndexLink
<1>5. CASE UNCHANGED oauthVars BY <1>1, <1>5, IndexLinkKeeps DEF oauthVars
<1>6. ASSUME NEW p \in Callbacks,
             \/ \E s \in OAuthStates : KeepFormPostName(p, s) \/ \E b \in People, code \in AuthorizationCodes : OAuthCallback(p, s, b, code)
             \/ \E i \in Identities :
                  \/ \E a \in locals : Unlink(p, a, i)
                  \/ \E type \in {"consent revoked", "account deleted"} : NotifyProvider(p, i, type)
             \/ PutStateAgain(p) \/ ResolveLogin(p) \/ RegisterByProvider(p) \/ LinkProvider(p) \/ ClaimLink(p)
             \/ TouchLink(p) \/ EnterByProvider(p) \/ DeleteLink(p) \/ ApplyNotification(p) \/ CallbackDies(p)
      PROVE  OAuthInvariant'
  BY <1>6, KeepNameKeeps, OAuthCallbackKeeps, UnlinkKeeps, NotifyKeeps, PutStateAgainKeeps, ResolveLoginKeeps, RegisterKeeps,
     LinkProviderKeeps, ClaimLinkKeeps, TouchLinkKeeps, EnterByProviderKeeps, DeleteLinkKeeps, ApplyNotificationKeeps,
     CallbackDiesKeeps
<1>7. \/ \E b \in People : StartOAuth(b, "login", NoAccount) \/ \E a \in locals : StartOAuth(b, "link", a)
      \/ \E p \in Callbacks :
           \/ \E s \in OAuthStates : KeepFormPostName(p, s) \/ \E b \in People, code \in AuthorizationCodes : OAuthCallback(p, s, b, code)
           \/ \E i \in Identities :
                \/ \E a \in locals : Unlink(p, a, i)
                \/ \E type \in {"consent revoked", "account deleted"} : NotifyProvider(p, i, type)
           \/ PutStateAgain(p) \/ ResolveLogin(p) \/ RegisterByProvider(p) \/ LinkProvider(p) \/ ClaimLink(p)
           \/ TouchLink(p) \/ EnterByProvider(p) \/ DeleteLink(p) \/ ApplyNotification(p) \/ CallbackDies(p)
      \/ \E i \in Identities : IndexLink(i)
      \/ UNCHANGED oauthVars
  BY DEF OAuthNext
<1> QED BY <1>2, <1>3, <1>4, <1>5, <1>6, <1>7

\* _require_auto_link_allowed, the callback's binding and unlink's last-method
\* rule: whatever the people, their addresses and the number of requests, provider
\* sign-in joins nobody to another's account and unlink locks nobody out.
THEOREM ProvidersAreSafe == OAuthSpec => []ProviderSignInIsSafe
<1>1. OAuthInvariant => ProviderSignInIsSafe
  <2> SUFFICES ASSUME OAuthInvariant PROVE ProviderSignInIsSafe OBVIOUS
  <2>1. \A s \in OAuthStates : answeredStates[s] <= 1 BY DEF OAuthInvariant, OAuthTypeOK
  <2>2. LinksJoinOnePerson BY <2>1 DEF OAuthInvariant, LinksJoinOnePerson
  <2>3. UnlinkKeepsAWayIn BY DEF OAuthInvariant, UnlinkKeepsAWayIn, Kept
  <2> QED BY <2>2, <2>3 DEF ProviderSignInIsSafe
<1> QED BY <1>1, OAuthStarts, OAuthKeeps, PTL DEF OAuthSpec

-----------------------------------------------------------------------------
(* A tenant's directory.                                                   *)

Persona == [there : BOOLEAN, name : UserNames \cup {""}, active : BOOLEAN]
Creating == [at : {"create user"}, name : UserNames, active : BOOLEAN]
Replacing == [at : {"check name", "store user"}, user : ScimUsers, before : Persona,
              after : [there : {TRUE}, name : UserNames, active : BOOLEAN]]
Hooking == [at : {"deactivate", "reactivate", "idle"}, user : ScimUsers]
Grouping == [at : {"remove members", "add members"}, remove : SUBSET ScimUsers, add : SUBSET ScimUsers, saw : SUBSET ScimUsers]
ScimDoings == {Quiet} \cup Creating \cup Replacing \cup Hooking \cup Grouping
Present == {u \in ScimUsers : people[u].there}

\* What the service keeps.
ScimTypeOK ==
    /\ people \in [ScimUsers -> Persona]
    /\ blocked \subseteq ScimUsers
    /\ inGroup \subseteq ScimUsers
    /\ scimRequest \in [ScimRequests -> ScimDoings]
    /\ disturbed \subseteq ScimUsers
    /\ owed \subseteq ScimUsers
    /\ intended \in [clear : BOOLEAN, members : SUBSET ScimUsers]

\* A request that has an undisturbed user holds the row it read, or runs the hook
\* that the row asks for.
UserRequestSound(p) ==
    LET r == scimRequest[p]
    IN r.at \in UserSteps /\ r.user \notin disturbed =>
         /\ people[r.user].there
         /\ r.at \in {"check name", "store user"} =>
              people[r.user] = r.before /\ (r.user \in blocked <=> ~people[r.user].active)
         /\ r.at = "deactivate" => ~people[r.user].active
         /\ r.at = "reactivate" => people[r.user].active

\* An undisturbed user has one request at a time, and when it has none its block
\* is its row's.
UserSound(u) ==
    u \notin disturbed =>
      /\ \A p, q \in ScimRequests : OnUser(p, u) /\ OnUser(q, u) => p = q
      /\ (\A p \in ScimRequests : ~OnUser(p, u)) => (u \in blocked <=> people[u].there /\ ~people[u].active)

\* What the members will be once a request has run.
Outcome(r) ==
    (IF r.at = "remove members" THEN inGroup \ r.remove ELSE inGroup) \cup (r.add \cap Present)

\* A removal is of members that were seen, and a change that nobody meets will
\* leave what it intends.
GroupRequestSound(p) ==
    LET r == scimRequest[p]
    IN r.at \in GroupSteps =>
         /\ r.at = "remove members" => r.remove \subseteq r.saw
         /\ intended.clear => /\ Outcome(r) = intended.members
                              /\ \A q \in ScimRequests : OnGroup(q) => q = p

ScimInvariant ==
    /\ ScimTypeOK
    /\ inGroup \subseteq Present /\ owed \subseteq inGroup
    /\ \A u \in ScimUsers : UserSound(u)
    /\ \A p \in ScimRequests : UserRequestSound(p) /\ GroupRequestSound(p)
    /\ intended.clear /\ (\A p \in ScimRequests : ~OnGroup(p)) => inGroup = intended.members

\* A request's record says what it is doing.
LEMMA ScimDoingShape ==
    ASSUME NEW r \in ScimDoings
    PROVE  /\ r.at = "create user" => r \in Creating
           /\ r.at \in {"check name", "store user"} => r \in Replacing
           /\ r.at \in {"deactivate", "reactivate"} => r \in Hooking
           /\ r.at \in GroupSteps => r \in Grouping
           /\ r.at \in UserSteps => r.user \in ScimUsers
<1>1. CASE r = Quiet BY <1>1 DEF Quiet, GroupSteps, UserSteps
<1>2. CASE r \in Creating BY <1>2 DEF Creating, GroupSteps, UserSteps
<1>3. CASE r \in Replacing BY <1>3 DEF Replacing, GroupSteps, UserSteps
<1>4. CASE r \in Hooking BY <1>4 DEF Hooking, GroupSteps, UserSteps
<1>5. CASE r \in Grouping BY <1>5 DEF Grouping, GroupSteps, UserSteps
<1> QED BY <1>1, <1>2, <1>3, <1>4, <1>5 DEF ScimDoings

LEMMA RequestTurns ==
    ASSUME ScimTypeOK, NEW p \in ScimRequests, NEW r \in ScimDoings, NowAt(p, r)
    PROVE  /\ scimRequest' \in [ScimRequests -> ScimDoings]
           /\ scimRequest'[p] = r
           /\ \A q \in ScimRequests \ {p} : scimRequest'[q] = scimRequest[q]
BY DEF NowAt, ScimTypeOK

\* A step of a request on some users, who have no other request if they stay
\* undisturbed; the other users keep what they have.
LEMMA UsersKept ==
    ASSUME ScimInvariant, NEW p \in ScimRequests, NEW r \in ScimDoings, NowAt(p, r), NEW V \in SUBSET ScimUsers,
           \A u \in ScimUsers \ V : people'[u] = people[u] /\ (u \in blocked' <=> u \in blocked),
           disturbed \subseteq disturbed',
           scimRequest[p].at \in UserSteps => scimRequest[p].user \in V,
           r.at \in UserSteps => r.user \in V,
           \A v \in V : v \notin disturbed' => \A q \in ScimRequests \ {p} : ~OnUser(q, v),
           \A v \in V : v \notin disturbed' /\ ~(r.at \in UserSteps /\ r.user = v) =>
             (v \in blocked' <=> people'[v].there /\ ~people'[v].active),
           UserRequestSound(p)'
    PROVE  /\ \A u \in ScimUsers : UserSound(u)'
           /\ \A q \in ScimRequests : UserRequestSound(q)'
<1>1. scimRequest'[p] = r /\ \A q \in ScimRequests \ {p} : scimRequest'[q] = scimRequest[q]
  BY RequestTurns DEF ScimInvariant
<1>2. ASSUME NEW u \in ScimUsers PROVE UserSound(u)'
  <2>1. SUFFICES ASSUME u \notin disturbed'
                 PROVE  /\ \A q, o \in ScimRequests : OnUser(q, u)' /\ OnUser(o, u)' => q = o
                        /\ (\A q \in ScimRequests : ~OnUser(q, u)') => (u \in blocked' <=> people'[u].there /\ ~people'[u].active)
    BY DEF UserSound
  <2>2. CASE u \in V BY <1>1, <2>1, <2>2 DEF OnUser
  <2>3. CASE u \notin V
    <3>1. ~OnUser(p, u) /\ ~OnUser(p, u)' BY <1>1, <2>3 DEF OnUser
    <3>2. \A q \in ScimRequests : OnUser(q, u)' <=> OnUser(q, u) BY <1>1, <3>1 DEF OnUser
    <3>3. UserSound(u) /\ u \notin disturbed BY <2>1 DEF ScimInvariant
    <3> QED BY <2>3, <3>2, <3>3 DEF UserSound
  <2> QED BY <2>2, <2>3
<1>3. ASSUME NEW q \in ScimRequests, q # p PROVE UserRequestSound(q)'
  <2>1. UserRequestSound(q) /\ scimRequest[q] \in ScimDoings BY DEF ScimInvariant, ScimTypeOK
  <2>2. PICK d : d = scimRequest[q] OBVIOUS
  <2>3. scimRequest'[q] = d BY <1>1, <1>3, <2>2
  <2>4. SUFFICES ASSUME d.at \in UserSteps, d.user \notin disturbed'
                 PROVE  /\ people'[d.user].there
                        /\ d.at \in {"check name", "store user"} =>
                             people'[d.user] = d.before /\ (d.user \in blocked' <=> ~people'[d.user].active)
                        /\ d.at = "deactivate" => ~people'[d.user].active
                        /\ d.at = "reactivate" => people'[d.user].active
    BY <2>3 DEF UserRequestSound
  <2>5. PICK u \in ScimUsers : u = d.user BY <2>1, <2>2, <2>4, ScimDoingShape
  <2>6. OnUser(q, u) BY <2>2, <2>4, <2>5 DEF OnUser
  <2>7. u \notin V BY <1>3, <2>4, <2>5, <2>6
  <2>8. people'[u] = people[u] /\ (u \in blocked' <=> u \in blocked) /\ u \notin disturbed BY <2>4, <2>5, <2>7
  <2>9. /\ people[u].there
        /\ d.at \in {"check name", "store user"} => people[u] = d.before /\ (u \in blocked <=> ~people[u].active)
        /\ d.at = "deactivate" => ~people[u].active
        /\ d.at = "reactivate" => people[u].active
    BY <2>1, <2>2, <2>4, <2>5, <2>8 DEF UserRequestSound
  <2> QED BY <2>5, <2>8, <2>9
<1> QED BY <1>2, <1>3

\* A step that changes members, or that gives up what was intended.
LEMMA MembersKept ==
    ASSUME ScimInvariant, NEW p \in ScimRequests, NEW r \in ScimDoings, NowAt(p, r),
           inGroup' \subseteq Present', owed' \subseteq inGroup',
           r.at = "remove members" => r.remove \subseteq r.saw,
           intended'.clear =>
             /\ \A q \in ScimRequests \ {p} : ~OnGroup(q)
             /\ r.at \in GroupSteps => Outcome(r)' = intended'.members
             /\ r.at \notin GroupSteps => inGroup' = intended'.members
    PROVE  /\ \A q \in ScimRequests : GroupRequestSound(q)'
           /\ intended'.clear /\ (\A q \in ScimRequests : ~OnGroup(q)') => inGroup' = intended'.members
<1>1. scimRequest'[p] = r /\ \A q \in ScimRequests \ {p} : scimRequest'[q] = scimRequest[q]
  BY RequestTurns DEF ScimInvariant
<1>2. intended'.clear => \A q \in ScimRequests \ {p} : ~OnGroup(q)' BY <1>1 DEF OnGroup
<1>3. GroupRequestSound(p)' BY <1>1, <1>2 DEF GroupRequestSound
<1>4. ASSUME NEW q \in ScimRequests, q # p PROVE GroupRequestSound(q)'
  <2>1. GroupRequestSound(q) BY DEF ScimInvariant
  <2>2. PICK d : d = scimRequest[q] OBVIOUS
  <2>3. scimRequest'[q] = d BY <1>1, <1>4, <2>2
  <2>4. d.at \in GroupSteps => ~intended'.clear BY <1>4, <2>2 DEF OnGroup
  <2>5. d.at \in GroupSteps /\ d.at = "remove members" => d.remove \subseteq d.saw BY <2>1, <2>2 DEF GroupRequestSound
  <2> QED BY <2>3, <2>4, <2>5 DEF GroupRequestSound
<1>5. intended'.clear /\ ~OnGroup(p)' => inGroup' = intended'.members BY <1>1 DEF OnGroup
<1> QED BY <1>3, <1>4, <1>5

\* A step that leaves the members alone.
LEMMA MembersUntouched ==
    ASSUME ScimInvariant, NEW p \in ScimRequests, NEW r \in ScimDoings, NowAt(p, r),
           scimRequest[p].at \notin GroupSteps, r.at \notin GroupSteps,
           UNCHANGED <<inGroup, owed, intended>>, Present' = Present
    PROVE  /\ inGroup' \subseteq Present' /\ owed' \subseteq inGroup'
           /\ \A q \in ScimRequests : GroupRequestSound(q)'
           /\ intended'.clear /\ (\A q \in ScimRequests : ~OnGroup(q)') => inGroup' = intended'.members
<1>1. scimRequest'[p] = r /\ \A q \in ScimRequests \ {p} : scimRequest'[q] = scimRequest[q]
  BY RequestTurns DEF ScimInvariant
<1>2. \A q \in ScimRequests : OnGroup(q)' <=> OnGroup(q) BY <1>1 DEF OnGroup
<1>3. ASSUME NEW q \in ScimRequests PROVE GroupRequestSound(q)'
  <2>1. GroupRequestSound(q) BY DEF ScimInvariant
  <2>2. CASE q = p BY <1>1, <2>2 DEF GroupRequestSound
  <2>3. CASE q # p
    <3>1. PICK d : d = scimRequest[q] OBVIOUS
    <3>2. scimRequest'[q] = d BY <1>1, <2>3, <3>1
    <3>3. Outcome(d)' = Outcome(d) BY DEF Outcome
    <3>4. d.at \in GroupSteps =>
            /\ d.at = "remove members" => d.remove \subseteq d.saw
            /\ intended.clear => /\ Outcome(d) = intended.members
                                 /\ \A o \in ScimRequests : OnGroup(o) => o = q
      BY <2>1, <3>1 DEF GroupRequestSound
    <3> QED BY <1>2, <3>2, <3>3, <3>4 DEF GroupRequestSound
  <2> QED BY <2>2, <2>3
<1>4. inGroup \subseteq Present /\ owed \subseteq inGroup
      /\ (intended.clear /\ (\A q \in ScimRequests : ~OnGroup(q)) => inGroup = intended.members)
  BY DEF ScimInvariant
<1> QED BY <1>2, <1>3, <1>4

\* A step that leaves the users alone.
LEMMA UsersUntouched ==
    ASSUME ScimInvariant, NEW p \in ScimRequests, NEW r \in ScimDoings, NowAt(p, r),
           scimRequest[p].at \notin UserSteps, r.at \notin UserSteps,
           UNCHANGED <<people, blocked, disturbed>>
    PROVE  /\ \A u \in ScimUsers : UserSound(u)'
           /\ \A q \in ScimRequests : UserRequestSound(q)'
<1>1. scimRequest'[p] = r BY RequestTurns DEF ScimInvariant
<1>2. UserRequestSound(p)' BY <1>1 DEF UserRequestSound
<1>3. PICK V \in SUBSET ScimUsers : V = {} OBVIOUS
<1> QED BY <1>2, <1>3, UsersKept

LEMMA QuietIsIdle == Quiet \in ScimDoings /\ Quiet.at = "idle" /\ Quiet.at \notin UserSteps /\ Quiet.at \notin GroupSteps
<1>1. Quiet \in ScimDoings /\ Quiet.at = "idle" BY DEF ScimDoings, Quiet
<1> QED BY <1>1 DEF UserSteps, GroupSteps

LEMMA NoIntentTyped == NoIntent \in [clear : BOOLEAN, members : SUBSET ScimUsers] /\ ~NoIntent.clear
BY DEF NoIntent

\* The steps of a member patch.
LEMMA BeginsKeeps ==
    ASSUME ScimInvariant, NEW p \in ScimRequests, scimRequest[p].at = "idle",
           NEW remove \in SUBSET ScimUsers, NEW add \in SUBSET ScimUsers, NEW saw \in SUBSET ScimUsers,
           remove \subseteq saw, NEW result \in SUBSET ScimUsers, NEW clear \in BOOLEAN,
           NowAt(p, [at |-> "remove members", remove |-> remove, add |-> add, saw |-> saw]),
           intended' = IF clear /\ \A q \in ScimRequests : ~OnGroup(q) THEN [clear |-> TRUE, members |-> result] ELSE NoIntent,
           clear => result = (inGroup \ remove) \cup (add \cap Present),
           UNCHANGED <<people, blocked, inGroup, disturbed, owed>>
    PROVE  ScimInvariant'
<1> DEFINE r == [at |-> "remove members", remove |-> remove, add |-> add, saw |-> saw]
<1>1. r \in ScimDoings BY DEF ScimDoings, Grouping, GroupSteps
<1>2. r.at = "remove members" /\ r.remove = remove /\ r.add = add /\ r.saw = saw OBVIOUS
<1>3. NowAt(p, r) OBVIOUS
<1> HIDE DEF r
<1>4. r.at \notin UserSteps /\ scimRequest[p].at \notin UserSteps /\ r.at \in GroupSteps BY <1>2 DEF UserSteps, GroupSteps
<1>5. /\ \A u \in ScimUsers : UserSound(u)'
      /\ \A q \in ScimRequests : UserRequestSound(q)'
  BY <1>1, <1>3, <1>4, UsersUntouched
<1>6. inGroup' \subseteq Present' /\ owed' \subseteq inGroup' BY DEF ScimInvariant, Present
<1>7. /\ intended' \in [clear : BOOLEAN, members : SUBSET ScimUsers]
      /\ intended'.clear => clear /\ (\A q \in ScimRequests : ~OnGroup(q)) /\ intended'.members = result
  <2>1. CASE clear /\ \A q \in ScimRequests : ~OnGroup(q)
    <3>1. PICK i : i = [clear |-> TRUE, members |-> result] OBVIOUS
    <3>2. i \in [clear : BOOLEAN, members : SUBSET ScimUsers] /\ i.members = result BY <3>1
    <3>3. intended' = i BY <2>1, <3>1, Zenon
    <3> QED BY <2>1, <3>2, <3>3, Zenon
  <2>2. CASE ~(clear /\ \A q \in ScimRequests : ~OnGroup(q)) BY <2>2, NoIntentTyped
  <2> QED BY <2>1, <2>2
<1>8. Outcome(r)' = (inGroup \ remove) \cup (add \cap Present) BY <1>2 DEF Outcome, Present
<1>9. /\ \A q \in ScimRequests : GroupRequestSound(q)'
      /\ intended'.clear /\ (\A q \in ScimRequests : ~OnGroup(q)') => inGroup' = intended'.members
  <2>1. r.at = "remove members" => r.remove \subseteq r.saw BY <1>2
  <2>2. intended'.clear =>
             /\ \A q \in ScimRequests \ {p} : ~OnGroup(q)
             /\ r.at \in GroupSteps => Outcome(r)' = intended'.members
             /\ r.at \notin GroupSteps => inGroup' = intended'.members
    BY <1>4, <1>7, <1>8
  <2> QED BY <1>1, <1>3, <1>6, <2>1, <2>2, MembersKept
<1>10. ScimTypeOK' BY <1>1, <1>3, <1>7, RequestTurns DEF ScimInvariant, ScimTypeOK
<1> QED BY <1>5, <1>6, <1>9, <1>10 DEF ScimInvariant

\* What the operations of a body leave in order, when none adds what an earlier
\* one removed, is what all the removals and then all the additions leave.
LEMMA DirectIsInOrder ==
    ASSUME NEW was, NEW ops \in PatchBodies, Unambiguous(ops)
    PROVE  ApplyPatch(was, ops) = (was \ Named(ops, "remove")) \cup (Named(ops, "add") \ Named(ops, "remove"))
<1>1. ops \in Seq([op : {"add", "remove"}, ids : SUBSET ScimUsers]) BY BodiesNameUsers
<1>2. \A op : Named(ops, op) = UNION {ops[i].ids : i \in {i \in 1..Len(ops) : ops[i].op = op}}
  BY <1>1 DEF Named, ToSet
<1>3. ASSUME NEW u, NEW i \in 1..Len(ops), ops[i].op = "add", u \in ops[i].ids
      PROVE  (\E j \in i..Len(ops) : ops[j].op = "remove" /\ u \in ops[j].ids) <=> u \in Named(ops, "remove")
  <2>1. ASSUME u \in Named(ops, "remove") PROVE \E j \in i..Len(ops) : ops[j].op = "remove" /\ u \in ops[j].ids
    <3>1. PICK j \in 1..Len(ops) : ops[j].op = "remove" /\ u \in ops[j].ids BY <1>2, <2>1
    <3>2. ~(j < i) BY <1>3, <3>1 DEF Unambiguous
    <3>3. Len(ops) \in Nat BY <1>1
    <3> QED BY <3>1, <3>2, <3>3
  <2>2. ASSUME NEW j \in i..Len(ops), ops[j].op = "remove", u \in ops[j].ids PROVE u \in Named(ops, "remove")
    BY <1>1, <1>2, <2>2
  <2> QED BY <2>1, <2>2
<1> DEFINE after(i) == UNION {ops[j].ids : j \in {j \in i..Len(ops) : ops[j].op = "remove"}}
<1>4. ASSUME NEW u, NEW i \in 1..Len(ops), ops[i].op = "add", u \in ops[i].ids
      PROVE  u \in after(i) <=> u \in Named(ops, "remove")
  BY <1>3, <1>4
<1> HIDE DEF after
<1>5. UNION {ops[i].ids \ after(i) : i \in {i \in 1..Len(ops) : ops[i].op = "add"}}
        = (UNION {ops[i].ids : i \in {i \in 1..Len(ops) : ops[i].op = "add"}}) \ Named(ops, "remove")
  BY <1>4
<1>6. UNION {ops[i].ids : i \in {i \in 1..Len(ops) : ops[i].op = "add"}} = Named(ops, "add") BY <1>2
<1> QED BY <1>5, <1>6 DEF ApplyPatch, after

LEMMA PatchMembersKeeps ==
    ASSUME ScimInvariant, NEW p \in ScimRequests, NEW ops \in PatchBodies, PatchMembers(p, ops)
    PROVE  ScimInvariant'
<1>1. scimRequest[p].at = "idle" /\ UNCHANGED <<people, blocked, inGroup, disturbed, owed>>
  BY DEF PatchMembers, AtStep
<1>2. ops \in Seq([op : {"add", "remove"}, ids : SUBSET ScimUsers]) BY BodiesNameUsers
<1>3. \A op : Named(ops, op) \subseteq ScimUsers
  <2> DEFINE T == [op : {"add", "remove"}, ids : SUBSET ScimUsers]
  <2>1. \A i \in 1..Len(ops) : ops[i] \in T
    <3>1. ops \in Seq(T) BY <1>2
    <3> HIDE DEF T
    <3> QED BY <3>1
  <2>2. \A o \in [op : {"add", "remove"}, ids : SUBSET ScimUsers] : o.ids \subseteq ScimUsers OBVIOUS
  <2>3. \A o \in ToSet(ops) : o.ids \subseteq ScimUsers BY <2>1, <2>2 DEF ToSet
  <2> QED BY <2>3 DEF Named
<1>4. PICK remove \in SUBSET ScimUsers, add \in SUBSET ScimUsers, saw \in SUBSET ScimUsers :
        remove = Named(ops, "remove") /\ add = Named(ops, "add") \ Named(ops, "remove") /\ saw = ScimUsers
  BY <1>3
<1>5. MemberChanges(ops).remove = remove /\ MemberChanges(ops).add = add BY <1>4 DEF MemberChanges
<1>6. PICK clear \in BOOLEAN : clear = Unambiguous(ops) BY DEF Unambiguous
<1>7. PICK result \in SUBSET ScimUsers : result = ApplyPatch(inGroup, ops) \cap {u \in ScimUsers : people[u].there}
  OBVIOUS
<1>8. clear => result = (inGroup \ remove) \cup (add \cap Present)
  <2>1. SUFFICES ASSUME clear PROVE result = (inGroup \ remove) \cup (add \cap Present) OBVIOUS
  <2>2. ApplyPatch(inGroup, ops) = (inGroup \ remove) \cup add BY <1>4, <1>6, <2>1, DirectIsInOrder
  <2>3. inGroup \subseteq Present BY DEF ScimInvariant
  <2> QED BY <1>7, <2>2, <2>3 DEF Present
<1>9. /\ NowAt(p, [at |-> "remove members", remove |-> remove, add |-> add, saw |-> saw])
      /\ intended' = IF clear /\ \A q \in ScimRequests : ~OnGroup(q) THEN [clear |-> TRUE, members |-> result] ELSE NoIntent
  BY <1>4, <1>5, <1>6, <1>7 DEF PatchMembers, Begins
<1>10. remove \subseteq saw BY <1>4
<1> QED BY <1>1, <1>8, <1>9, <1>10, BeginsKeeps

LEMMA ReplaceGroupKeeps ==
    ASSUME ScimInvariant, NEW p \in ScimRequests, NEW wanted \in SUBSET ScimUsers, ReplaceGroup(p, wanted)
    PROVE  ScimInvariant'
<1>1. scimRequest[p].at = "idle" /\ UNCHANGED <<people, blocked, inGroup, disturbed, owed>>
  BY DEF ReplaceGroup, AtStep
<1>2. inGroup \subseteq ScimUsers /\ inGroup \subseteq Present BY DEF ScimInvariant, ScimTypeOK
<1>3. PICK remove \in SUBSET ScimUsers, add \in SUBSET ScimUsers, saw \in SUBSET ScimUsers :
        remove = inGroup \ wanted /\ add = wanted \ inGroup /\ saw = inGroup
  BY <1>2
<1>4. Difference(inGroup, wanted).remove = remove /\ Difference(inGroup, wanted).add = add BY <1>3 DEF Difference
<1>5. PICK result \in SUBSET ScimUsers, clear \in BOOLEAN :
        result = wanted \cap {u \in ScimUsers : people[u].there} /\ clear = TRUE
  OBVIOUS
<1>6. clear => result = (inGroup \ remove) \cup (add \cap Present) BY <1>2, <1>3, <1>5 DEF Present
<1>7. /\ NowAt(p, [at |-> "remove members", remove |-> remove, add |-> add, saw |-> saw])
      /\ intended' = IF clear /\ \A q \in ScimRequests : ~OnGroup(q) THEN [clear |-> TRUE, members |-> result] ELSE NoIntent
  BY <1>3, <1>4, <1>5 DEF ReplaceGroup, Begins
<1>8. remove \subseteq saw BY <1>3
<1> QED BY <1>1, <1>6, <1>7, <1>8, BeginsKeeps

LEMMA RemoveMembersKeeps ==
    ASSUME ScimInvariant, NEW p \in ScimRequests, RemoveMembers(p)
    PROVE  ScimInvariant'
<1>1. scimRequest[p] \in ScimDoings /\ scimRequest[p].at = "remove members"
  BY DEF RemoveMembers, AtStep, ScimInvariant, ScimTypeOK
<1>2. PICK d : d = scimRequest[p] OBVIOUS
<1>3. d \in Grouping /\ d.at = "remove members" BY <1>1, <1>2, ScimDoingShape DEF GroupSteps
<1>4. PICK r : r = [d EXCEPT !.at = "add members"] OBVIOUS
<1>5. r \in Grouping /\ r.at = "add members" /\ r.remove = d.remove /\ r.add = d.add /\ r.saw = d.saw
  BY <1>3, <1>4 DEF Grouping, GroupSteps
<1>6. /\ inGroup' = inGroup \ d.remove /\ owed' = owed \ (d.remove \cap d.saw)
      /\ NowAt(p, r) /\ UNCHANGED <<people, blocked, disturbed, intended>>
  BY <1>2, <1>4 DEF RemoveMembers
<1>7. r \in ScimDoings BY <1>5 DEF ScimDoings
<1>8. r.at \notin UserSteps /\ scimRequest[p].at \notin UserSteps /\ r.at \in GroupSteps /\ d.at \in GroupSteps
  BY <1>1, <1>3, <1>5 DEF UserSteps, GroupSteps
<1>9. d.remove \subseteq d.saw /\ (intended.clear => /\ Outcome(d) = intended.members
                                                     /\ \A q \in ScimRequests : OnGroup(q) => q = p)
  BY <1>2, <1>3, <1>8 DEF ScimInvariant, GroupRequestSound
<1>10. inGroup' \subseteq Present' /\ owed' \subseteq inGroup' BY <1>6, <1>9 DEF ScimInvariant, Present
<1>11. Outcome(r)' = Outcome(d) BY <1>3, <1>5, <1>6 DEF Outcome, Present
<1>12. /\ \A q \in ScimRequests : GroupRequestSound(q)'
       /\ intended'.clear /\ (\A q \in ScimRequests : ~OnGroup(q)') => inGroup' = intended'.members
  <2>1. r.at = "remove members" => r.remove \subseteq r.saw BY <1>5
  <2>2. intended'.clear =>
             /\ \A q \in ScimRequests \ {p} : ~OnGroup(q)
             /\ r.at \in GroupSteps => Outcome(r)' = intended'.members
             /\ r.at \notin GroupSteps => inGroup' = intended'.members
    BY <1>6, <1>8, <1>9, <1>11
  <2> QED BY <1>6, <1>7, <1>10, <2>1, <2>2, MembersKept
<1>13. /\ \A u \in ScimUsers : UserSound(u)'
       /\ \A q \in ScimRequests : UserRequestSound(q)'
  BY <1>6, <1>7, <1>8, UsersUntouched
<1>14. ScimTypeOK' BY <1>6, <1>7, RequestTurns DEF ScimInvariant, ScimTypeOK
<1> QED BY <1>10, <1>12, <1>13, <1>14 DEF ScimInvariant

LEMMA AddMembersKeeps ==
    ASSUME ScimInvariant, NEW p \in ScimRequests, AddMembers(p)
    PROVE  ScimInvariant'
<1>1. scimRequest[p] \in ScimDoings /\ scimRequest[p].at = "add members"
  BY DEF AddMembers, AtStep, ScimInvariant, ScimTypeOK
<1>2. PICK d : d = scimRequest[p] OBVIOUS
<1>3. d \in Grouping /\ d.at = "add members" BY <1>1, <1>2, ScimDoingShape DEF GroupSteps
<1>4. d.add \subseteq ScimUsers BY <1>3 DEF Grouping
<1>5. PICK added : added = d.add \cap Present OBVIOUS
<1>6. {u \in d.add : people[u].there} = added BY <1>4, <1>5 DEF Present
<1>7. /\ inGroup' = inGroup \cup added /\ owed' = owed \cup added
      /\ NowAt(p, Quiet) /\ UNCHANGED <<people, blocked, disturbed, intended>>
  BY <1>2, <1>6 DEF AddMembers
<1>8. scimRequest[p].at \notin UserSteps /\ d.at \in GroupSteps BY <1>1, <1>3 DEF UserSteps, GroupSteps
<1>9. intended.clear => Outcome(d) = intended.members /\ \A q \in ScimRequests : OnGroup(q) => q = p
  BY <1>2, <1>8 DEF ScimInvariant, GroupRequestSound
<1>10. inGroup' \subseteq Present' /\ owed' \subseteq inGroup' BY <1>5, <1>7 DEF ScimInvariant, Present
<1>11. Outcome(d) = inGroup' BY <1>3, <1>5, <1>7 DEF Outcome
<1>12. /\ \A q \in ScimRequests : GroupRequestSound(q)'
       /\ intended'.clear /\ (\A q \in ScimRequests : ~OnGroup(q)') => inGroup' = intended'.members
  BY <1>7, <1>9, <1>10, <1>11, QuietIsIdle, MembersKept
<1>13. /\ \A u \in ScimUsers : UserSound(u)'
       /\ \A q \in ScimRequests : UserRequestSound(q)'
  BY <1>7, <1>8, QuietIsIdle, UsersUntouched
<1>14. ScimTypeOK' BY <1>4, <1>5, <1>7, QuietIsIdle, RequestTurns DEF ScimInvariant, ScimTypeOK
<1> QED BY <1>10, <1>12, <1>13, <1>14 DEF ScimInvariant

\* The steps of a change of a user that leave who is there.
LEMMA UserStepKeeps ==
    ASSUME ScimInvariant, NEW p \in ScimRequests, NEW r \in ScimDoings, NowAt(p, r),
           scimRequest[p].at \notin GroupSteps, r.at \notin GroupSteps,
           UNCHANGED <<inGroup, owed, intended>>, Present' = Present,
           people' \in [ScimUsers -> Persona], blocked' \subseteq ScimUsers, disturbed' \subseteq ScimUsers,
           \A u \in ScimUsers : UserSound(u)',
           \A q \in ScimRequests : UserRequestSound(q)'
    PROVE  ScimInvariant'
<1>1. /\ inGroup' \subseteq Present' /\ owed' \subseteq inGroup'
      /\ \A q \in ScimRequests : GroupRequestSound(q)'
      /\ intended'.clear /\ (\A q \in ScimRequests : ~OnGroup(q)') => inGroup' = intended'.members
  BY MembersUntouched
<1>2. ScimTypeOK' BY RequestTurns DEF ScimInvariant, ScimTypeOK
<1> QED BY <1>1, <1>2 DEF ScimInvariant

LEMMA CreateScimUserKeeps ==
    ASSUME ScimInvariant, NEW p \in ScimRequests, NEW name \in UserNames, NEW active \in BOOLEAN,
           CreateScimUser(p, name, active)
    PROVE  ScimInvariant'
<1> DEFINE r == [at |-> "create user", name |-> name, active |-> active]
<1>1. r \in ScimDoings BY DEF ScimDoings, Creating
<1>2. r.at = "create user" OBVIOUS
<1>4. NowAt(p, r) /\ scimRequest[p].at = "idle" /\ UNCHANGED <<people, blocked, inGroup, disturbed, owed, intended>>
  BY DEF CreateScimUser, AtStep
<1> HIDE DEF r
<1>5. /\ r.at \notin UserSteps /\ r.at \notin GroupSteps
      /\ scimRequest[p].at \notin UserSteps /\ scimRequest[p].at \notin GroupSteps
  BY <1>2, <1>4 DEF UserSteps, GroupSteps
<1>6. /\ \A u \in ScimUsers : UserSound(u)'
      /\ \A q \in ScimRequests : UserRequestSound(q)'
  BY <1>1, <1>4, <1>5, UsersUntouched
<1>7. /\ Present' = Present /\ people' \in [ScimUsers -> Persona]
      /\ blocked' \subseteq ScimUsers /\ disturbed' \subseteq ScimUsers
  BY <1>4 DEF Present, ScimInvariant, ScimTypeOK
<1> QED BY <1>1, <1>4, <1>5, <1>6, <1>7, UserStepKeeps

\* A user that was read while another request had it is disturbed.
LEMMA ReadScimUserKeeps ==
    ASSUME ScimInvariant, NEW p \in ScimRequests, NEW u \in ScimUsers, NEW name \in UserNames, NEW active \in BOOLEAN,
           ReadScimUser(p, u, name, active)
    PROVE  ScimInvariant'
<1>1. PICK before \in Persona, after \in [there : {TRUE}, name : UserNames, active : BOOLEAN],
           at \in {"check name", "store user"} :
        /\ before = people[u] /\ after = [there |-> TRUE, name |-> name, active |-> active]
        /\ at = IF name # people[u].name THEN "check name" ELSE "store user"
  BY DEF ScimInvariant, ScimTypeOK
<1> DEFINE r == [at |-> at, user |-> u, before |-> before, after |-> after]
<1>2. r \in ScimDoings BY DEF ScimDoings, Replacing
<1>3. r.at = at /\ r.user = u /\ r.before = before OBVIOUS
<1>4. /\ scimRequest[p].at = "idle" /\ people[u].there
      /\ NowAt(p, r)
      /\ disturbed' = IF \E q \in ScimRequests : OnUser(q, u) THEN disturbed \cup {u} ELSE disturbed
      /\ UNCHANGED <<people, blocked, inGroup, owed, intended>>
  BY <1>1 DEF ReadScimUser, AtStep
<1> HIDE DEF r
<1>5. /\ r.at \in UserSteps /\ r.at \notin GroupSteps
      /\ scimRequest[p].at \notin UserSteps /\ scimRequest[p].at \notin GroupSteps
  BY <1>3, <1>4 DEF UserSteps, GroupSteps
<1>6. /\ disturbed \subseteq disturbed' /\ disturbed' \subseteq ScimUsers
      /\ u \notin disturbed' => u \notin disturbed /\ \A q \in ScimRequests : ~OnUser(q, u)
  BY <1>4 DEF ScimInvariant, ScimTypeOK
<1>7. UserRequestSound(p)'
  <2>1. scimRequest'[p] = r BY <1>2, <1>4, RequestTurns DEF ScimInvariant
  <2>2. u \notin disturbed' => (u \in blocked <=> ~people[u].active)
    BY <1>4, <1>6 DEF ScimInvariant, UserSound
  <2>3. r.at # "deactivate" /\ r.at # "reactivate" BY <1>3
  <2>4. r.user \notin disturbed' => people'[r.user].there /\ people'[r.user] = r.before
                                     /\ (r.user \in blocked' <=> ~people'[r.user].active)
    BY <1>1, <1>3, <1>4, <2>2
  <2> QED BY <2>1, <2>3, <2>4 DEF UserRequestSound
<1>8. PICK V \in SUBSET ScimUsers : V = {u} OBVIOUS
<1>9. /\ \A v \in ScimUsers \ V : people'[v] = people[v] /\ (v \in blocked' <=> v \in blocked)
      /\ \A v \in V : v \notin disturbed' => \A q \in ScimRequests \ {p} : ~OnUser(q, v)
      /\ \A v \in V : v \notin disturbed' /\ ~(r.at \in UserSteps /\ r.user = v) =>
           (v \in blocked' <=> people'[v].there /\ ~people'[v].active)
      /\ scimRequest[p].at \in UserSteps => scimRequest[p].user \in V
      /\ r.at \in UserSteps => r.user \in V
  BY <1>3, <1>4, <1>5, <1>6, <1>8
<1>10. /\ \A v \in ScimUsers : UserSound(v)'
       /\ \A q \in ScimRequests : UserRequestSound(q)'
  BY <1>2, <1>4, <1>5, <1>6, <1>7, <1>9, UsersKept
<1>11. Present' = Present /\ people' \in [ScimUsers -> Persona] /\ blocked' \subseteq ScimUsers
  BY <1>4 DEF Present, ScimInvariant, ScimTypeOK
<1> QED BY <1>2, <1>4, <1>5, <1>6, <1>10, <1>11, UserStepKeeps

\* A request on one user, alone if the user is undisturbed, takes a step.
LEMMA OwnUserKeeps ==
    ASSUME ScimInvariant, NEW p \in ScimRequests, NEW r \in ScimDoings, NowAt(p, r),
           scimRequest[p].at \in UserSteps, NEW u \in ScimUsers, u = scimRequest[p].user,
           r.at \notin GroupSteps, r.at \in UserSteps => r.user = u,
           people' \in [ScimUsers -> Persona], blocked' \subseteq ScimUsers,
           \A v \in ScimUsers \ {u} : people'[v] = people[v] /\ (v \in blocked' <=> v \in blocked),
           people'[u].there = people[u].there,
           u \notin disturbed =>
             /\ r.at \in UserSteps => UserRequestSound(p)'
             /\ r.at \notin UserSteps => (u \in blocked' <=> people'[u].there /\ ~people'[u].active),
           UNCHANGED <<inGroup, disturbed, owed, intended>>
    PROVE  ScimInvariant'
<1>1. scimRequest'[p] = r BY RequestTurns DEF ScimInvariant
<1>2. UserRequestSound(p)' BY <1>1 DEF UserRequestSound
<1>3. PICK V \in SUBSET ScimUsers : V = {u} OBVIOUS
<1>4. u \notin disturbed => \A q \in ScimRequests \ {p} : ~OnUser(q, u)
  BY DEF ScimInvariant, UserSound, OnUser
<1>5. /\ disturbed \subseteq disturbed' /\ scimRequest[p].user \in V /\ (r.at \in UserSteps => r.user \in V)
      /\ \A v \in V : v \notin disturbed' => \A q \in ScimRequests \ {p} : ~OnUser(q, v)
      /\ \A v \in ScimUsers \ V : people'[v] = people[v] /\ (v \in blocked' <=> v \in blocked)
  BY <1>3, <1>4
<1>6. \A v \in V : v \notin disturbed' /\ ~(r.at \in UserSteps /\ r.user = v) =>
        (v \in blocked' <=> people'[v].there /\ ~people'[v].active)
  BY <1>3
<1>7. /\ \A v \in ScimUsers : UserSound(v)'
      /\ \A q \in ScimRequests : UserRequestSound(q)'
  BY <1>2, <1>5, <1>6, UsersKept
<1>8. Present' = Present BY DEF Present
<1>9. scimRequest[p].at \notin GroupSteps BY DEF UserSteps, GroupSteps
<1>10. disturbed' \subseteq ScimUsers BY DEF ScimInvariant, ScimTypeOK
<1> QED BY <1>7, <1>8, <1>9, <1>10, UserStepKeeps

LEMMA CheckNameKeeps ==
    ASSUME ScimInvariant, NEW p \in ScimRequests, CheckName(p)
    PROVE  ScimInvariant'
<1>1. scimRequest[p] \in ScimDoings /\ scimRequest[p].at = "check name"
  BY DEF CheckName, AtStep, ScimInvariant, ScimTypeOK
<1>2. PICK d : d = scimRequest[p] OBVIOUS
<1>3. d \in Replacing /\ d.at = "check name" BY <1>1, <1>2, ScimDoingShape
<1>4. PICK u \in ScimUsers : u = d.user BY <1>3 DEF Replacing
<1>5. PICK r : r = [d EXCEPT !.at = "store user"] OBVIOUS
<1>6. r \in Replacing /\ r.at = "store user" /\ r.user = u /\ r.before = d.before BY <1>3, <1>4, <1>5 DEF Replacing
<1>7. UNCHANGED <<people, blocked, inGroup, disturbed, owed, intended>> /\ (NowAt(p, r) \/ NowAt(p, Quiet))
  BY <1>2, <1>5 DEF CheckName
<1>8. d.at \in UserSteps /\ r.at \in UserSteps /\ r.at \notin GroupSteps BY <1>3, <1>6 DEF UserSteps, GroupSteps
<1>9. u \notin disturbed => people[u].there /\ people[u] = d.before /\ (u \in blocked <=> ~people[u].active)
  BY <1>2, <1>3, <1>4, <1>8 DEF ScimInvariant, UserRequestSound
<1>10. people' \in [ScimUsers -> Persona] /\ blocked' \subseteq ScimUsers BY <1>7 DEF ScimInvariant, ScimTypeOK
<1>11. CASE NowAt(p, r)
  <2>1. r \in ScimDoings BY <1>6 DEF ScimDoings
  <2>2. scimRequest'[p] = r BY <1>11, <2>1, RequestTurns DEF ScimInvariant
  <2>3. u \notin disturbed => UserRequestSound(p)' BY <1>6, <1>7, <1>9, <2>2 DEF UserRequestSound
  <2> QED BY <1>2, <1>4, <1>6, <1>7, <1>8, <1>10, <1>11, <2>1, <2>3, OwnUserKeeps
<1>12. CASE NowAt(p, Quiet)
  BY <1>2, <1>4, <1>7, <1>8, <1>9, <1>10, <1>12, QuietIsIdle, OwnUserKeeps
<1> QED BY <1>7, <1>11, <1>12

LEMMA StoreScimUserKeeps ==
    ASSUME ScimInvariant, NEW p \in ScimRequests, StoreScimUser(p)
    PROVE  ScimInvariant'
<1>1. scimRequest[p] \in ScimDoings /\ scimRequest[p].at = "store user"
  BY DEF StoreScimUser, AtStep, ScimInvariant, ScimTypeOK
<1>2. PICK d : d = scimRequest[p] OBVIOUS
<1>3. d \in Replacing /\ d.at = "store user" BY <1>1, <1>2, ScimDoingShape
<1>4. PICK u \in ScimUsers : u = d.user BY <1>3 DEF Replacing
<1>5. PICK after \in [there : {TRUE}, name : UserNames, active : BOOLEAN], before \in Persona :
        after = d.after /\ before = d.before
  BY <1>3 DEF Replacing
<1>6. after \in Persona /\ after.there = TRUE BY <1>5 DEF Persona
<1>7. d.at \in UserSteps BY <1>3 DEF UserSteps
<1>8. u \notin disturbed => people[u].there /\ people[u] = before /\ (u \in blocked <=> ~people[u].active)
  BY <1>2, <1>3, <1>4, <1>5, <1>7 DEF ScimInvariant, UserRequestSound
<1>9. people \in [ScimUsers -> Persona] /\ blocked \subseteq ScimUsers BY DEF ScimInvariant, ScimTypeOK
<1>10. UNCHANGED <<blocked, inGroup, disturbed, owed, intended>> BY DEF StoreScimUser
<1>11. ASSUME people[u].there, people' = [people EXCEPT ![u] = after],
              NowAt(p, [at |-> SideEffect(before, after), user |-> u])
       PROVE  ScimInvariant'
  <2>1. PICK effect \in {"deactivate", "reactivate", "idle"} : effect = SideEffect(before, after) BY DEF SideEffect
  <2> DEFINE r == [at |-> effect, user |-> u]
  <2>2. r \in ScimDoings BY DEF ScimDoings, Hooking
  <2>3. r.at = effect /\ r.user = u OBVIOUS
  <2>4. NowAt(p, r) BY <1>11, <2>1
  <2> HIDE DEF r
  <2>5. /\ people' \in [ScimUsers -> Persona] /\ people'[u] = after
        /\ \A v \in ScimUsers \ {u} : people'[v] = people[v]
    BY <1>6, <1>9, <1>11
  <2>6. people[u].there = TRUE BY <1>9, <1>11 DEF Persona
  <2>7. people'[u].there = people[u].there BY <1>6, <2>5, <2>6
  <2>8. scimRequest'[p] = r BY <2>2, <2>4, RequestTurns DEF ScimInvariant
  <2>9. /\ effect = "deactivate" => ~after.active
        /\ effect = "reactivate" => after.active
        /\ effect = "idle" => (before.active <=> after.active)
    BY <2>1 DEF SideEffect
  <2>10. r.at \in UserSteps => UserRequestSound(p)' BY <1>6, <2>3, <2>5, <2>8, <2>9 DEF UserRequestSound
  <2>11. u \notin disturbed /\ r.at \notin UserSteps => (u \in blocked' <=> people'[u].there /\ ~people'[u].active)
    BY <1>6, <1>8, <1>10, <2>3, <2>5, <2>9 DEF UserSteps
  <2>12. r.at \notin GroupSteps BY <2>3 DEF GroupSteps
  <2>13. blocked' \subseteq ScimUsers /\ \A v \in ScimUsers \ {u} : people'[v] = people[v] /\ (v \in blocked' <=> v \in blocked)
    BY <1>9, <1>10, <2>5
  <2> QED BY <1>2, <1>4, <1>7, <1>10, <2>2, <2>3, <2>4, <2>5, <2>7, <2>10, <2>11, <2>12, <2>13, OwnUserKeeps
<1>12. ASSUME ~people[u].there, NowAt(p, Quiet), UNCHANGED people PROVE ScimInvariant'
  BY <1>2, <1>4, <1>7, <1>8, <1>9, <1>10, <1>12, QuietIsIdle, OwnUserKeeps
<1> QED BY <1>2, <1>4, <1>5, <1>11, <1>12 DEF StoreScimUser

LEMMA RunHookKeeps ==
    ASSUME ScimInvariant, NEW p \in ScimRequests, RunHook(p)
    PROVE  ScimInvariant'
<1>1. scimRequest[p] \in ScimDoings /\ scimRequest[p].at \in {"deactivate", "reactivate"}
  BY DEF RunHook, AtStep, ScimInvariant, ScimTypeOK
<1>2. PICK d : d = scimRequest[p] OBVIOUS
<1>3. d \in Hooking /\ d.at \in {"deactivate", "reactivate"} BY <1>1, <1>2, ScimDoingShape
<1>4. PICK u \in ScimUsers : u = d.user BY <1>3 DEF Hooking
<1>5. d.at \in UserSteps BY <1>3 DEF UserSteps
<1>6. u \notin disturbed => /\ people[u].there
                            /\ d.at = "deactivate" => ~people[u].active
                            /\ d.at = "reactivate" => people[u].active
  BY <1>2, <1>4, <1>5 DEF ScimInvariant, UserRequestSound
<1>7. /\ NowAt(p, Quiet) /\ UNCHANGED <<people, inGroup, disturbed, owed, intended>>
      /\ \/ d.at = "deactivate" /\ blocked' = blocked \cup {u}
         \/ d.at = "reactivate" /\ blocked' = blocked \ {u}
  BY <1>2, <1>4 DEF RunHook, AtStep
<1>8. /\ people' \in [ScimUsers -> Persona] /\ blocked' \subseteq ScimUsers
      /\ \A v \in ScimUsers \ {u} : people'[v] = people[v] /\ (v \in blocked' <=> v \in blocked)
      /\ u \in blocked' <=> d.at = "deactivate"
  BY <1>7 DEF ScimInvariant, ScimTypeOK
<1>9. u \notin disturbed => (u \in blocked' <=> people'[u].there /\ ~people'[u].active) BY <1>3, <1>6, <1>7, <1>8
<1> QED BY <1>2, <1>4, <1>5, <1>7, <1>8, <1>9, QuietIsIdle, OwnUserKeeps

\* A user that is created has no other request and was never blocked.
LEMMA StoreNewUserKeeps ==
    ASSUME ScimInvariant, NEW p \in ScimRequests, StoreNewUser(p)
    PROVE  ScimInvariant'
<1>1. scimRequest[p] \in ScimDoings /\ scimRequest[p].at = "create user"
  BY DEF StoreNewUser, AtStep, ScimInvariant, ScimTypeOK
<1>2. PICK d : d = scimRequest[p] OBVIOUS
<1>3. d \in Creating BY <1>1, <1>2, ScimDoingShape
<1>4. intended' = NoIntent /\ UNCHANGED <<blocked, inGroup, disturbed, owed>> BY DEF StoreNewUser
<1>5. intended' \in [clear : BOOLEAN, members : SUBSET ScimUsers] /\ ~intended'.clear BY <1>4, NoIntentTyped
<1>6. scimRequest[p].at \notin UserSteps /\ scimRequest[p].at \notin GroupSteps BY <1>1 DEF UserSteps, GroupSteps
<1>7. people \in [ScimUsers -> Persona] /\ blocked \subseteq ScimUsers /\ disturbed \subseteq ScimUsers
  BY DEF ScimInvariant, ScimTypeOK
<1>8. ASSUME NEW r \in ScimDoings, NowAt(p, r), r.at \notin GroupSteps, people' \in [ScimUsers -> Persona],
             Present \subseteq Present',
             \A v \in ScimUsers : UserSound(v)', \A q \in ScimRequests : UserRequestSound(q)'
      PROVE  ScimInvariant'
  <2>1. inGroup' \subseteq Present' /\ owed' \subseteq inGroup' BY <1>4, <1>8 DEF ScimInvariant
  <2>2. r.at # "remove members" BY <1>8 DEF GroupSteps
  <2>3. /\ \A q \in ScimRequests : GroupRequestSound(q)'
        /\ intended'.clear /\ (\A q \in ScimRequests : ~OnGroup(q)') => inGroup' = intended'.members
    BY <1>5, <1>8, <2>1, <2>2, MembersKept
  <2>4. scimRequest' \in [ScimRequests -> ScimDoings] BY <1>8, RequestTurns DEF ScimInvariant
  <2>5. ScimTypeOK' BY <1>4, <1>5, <1>8, <2>4 DEF ScimInvariant, ScimTypeOK
  <2> QED BY <1>8, <2>1, <2>3, <2>5 DEF ScimInvariant
<1>9. ASSUME NowAt(p, Quiet), UNCHANGED people PROVE ScimInvariant'
  <2>1. /\ \A u \in ScimUsers : UserSound(u)'
        /\ \A q \in ScimRequests : UserRequestSound(q)'
    BY <1>4, <1>6, <1>9, QuietIsIdle, UsersUntouched
  <2>2. Present' = Present BY <1>9 DEF Present
  <2> QED BY <1>7, <1>8, <1>9, <2>1, <2>2, QuietIsIdle
<1>10. ASSUME NEW u \in ScimUsers, ~people[u].there, u \notin disturbed, \A q \in ScimRequests : ~OnUser(q, u),
              people' = [people EXCEPT ![u] = [there |-> TRUE, name |-> d.name, active |-> d.active]],
              NowAt(p, IF d.active THEN Quiet ELSE [at |-> "deactivate", user |-> u])
       PROVE  ScimInvariant'
  <2>1. PICK row : row = [there |-> TRUE, name |-> d.name, active |-> d.active] OBVIOUS
  <2>2. row \in Persona /\ row.there = TRUE /\ row.active = d.active BY <1>3, <2>1 DEF Persona, Creating
  <2>3. /\ people' \in [ScimUsers -> Persona] /\ people'[u] = row
        /\ \A v \in ScimUsers \ {u} : people'[v] = people[v]
    BY <1>7, <1>10, <2>1, <2>2
  <2>4. Present \subseteq Present' BY <1>10, <2>3 DEF Present
  <2>5. u \notin blocked BY <1>10 DEF ScimInvariant, UserSound
  <2>6. PICK V \in SUBSET ScimUsers : V = {u} OBVIOUS
  <2>7. /\ \A v \in ScimUsers \ V : people'[v] = people[v] /\ (v \in blocked' <=> v \in blocked)
        /\ disturbed \subseteq disturbed'
        /\ \A v \in V : v \notin disturbed' => \A q \in ScimRequests \ {p} : ~OnUser(q, v)
    BY <1>4, <1>10, <2>3, <2>6
  <2>8. ASSUME d.active, NowAt(p, Quiet) PROVE ScimInvariant'
    <3>1. scimRequest'[p] = Quiet BY <2>8, QuietIsIdle, RequestTurns DEF ScimInvariant
    <3>2. UserRequestSound(p)' BY <3>1, QuietIsIdle DEF UserRequestSound
    <3>3. \A v \in V : v \notin disturbed' /\ ~(Quiet.at \in UserSteps /\ Quiet.user = v) =>
            (v \in blocked' <=> people'[v].there /\ ~people'[v].active)
      BY <1>4, <2>2, <2>3, <2>5, <2>6, <2>8
    <3>4. /\ \A v \in ScimUsers : UserSound(v)'
          /\ \A q \in ScimRequests : UserRequestSound(q)'
      BY <1>6, <2>7, <2>8, <3>2, <3>3, QuietIsIdle, UsersKept
    <3> QED BY <1>8, <2>3, <2>4, <2>8, <3>4, QuietIsIdle
  <2>9. ASSUME ~d.active, NowAt(p, [at |-> "deactivate", user |-> u]) PROVE ScimInvariant'
    <3> DEFINE r == [at |-> "deactivate", user |-> u]
    <3>1. r \in ScimDoings BY DEF ScimDoings, Hooking
    <3>2. r.at = "deactivate" /\ r.user = u OBVIOUS
    <3>3. NowAt(p, r) BY <2>9
    <3> HIDE DEF r
    <3>4. scimRequest'[p] = r /\ r.at \in UserSteps /\ r.at \notin GroupSteps
      BY <3>1, <3>2, <3>3, RequestTurns DEF ScimInvariant, UserSteps, GroupSteps
    <3>5. UserRequestSound(p)' BY <2>2, <2>3, <2>9, <3>2, <3>4 DEF UserRequestSound
    <3>6. /\ \A v \in V : v \notin disturbed' /\ ~(r.at \in UserSteps /\ r.user = v) =>
               (v \in blocked' <=> people'[v].there /\ ~people'[v].active)
          /\ r.at \in UserSteps => r.user \in V
      BY <2>6, <3>2, <3>4
    <3>7. /\ \A v \in ScimUsers : UserSound(v)'
          /\ \A q \in ScimRequests : UserRequestSound(q)'
      BY <1>6, <2>7, <3>1, <3>3, <3>5, <3>6, UsersKept
    <3> QED BY <1>8, <2>3, <2>4, <3>1, <3>3, <3>4, <3>7
  <2> QED BY <1>10, <2>8, <2>9
<1> QED BY <1>2, <1>9, <1>10 DEF StoreNewUser

\* A user that is deleted leaves the group, and its requests are no longer spoken of.
LEMMA DeleteScimUserKeeps ==
    ASSUME ScimInvariant, NEW u \in ScimUsers, DeleteScimUser(u)
    PROVE  ScimInvariant'
<1>1. /\ people' = [people EXCEPT ![u] = Nobody] /\ inGroup' = inGroup \ {u} /\ owed' = owed \ {u}
      /\ disturbed' = disturbed \cup {u} /\ intended' = NoIntent
      /\ UNCHANGED <<blocked, scimRequest>>
  BY DEF DeleteScimUser
<1>2. Nobody \in Persona /\ Nobody.there = FALSE BY DEF Nobody, Persona
<1>3. /\ people' \in [ScimUsers -> Persona] /\ people'[u].there = FALSE
      /\ \A v \in ScimUsers \ {u} : people'[v] = people[v]
  BY <1>1, <1>2 DEF ScimInvariant, ScimTypeOK
<1>4. intended' \in [clear : BOOLEAN, members : SUBSET ScimUsers] /\ ~intended'.clear BY <1>1, NoIntentTyped
<1>5. ScimTypeOK' BY <1>1, <1>3, <1>4 DEF ScimInvariant, ScimTypeOK
<1>6. inGroup' \subseteq Present' /\ owed' \subseteq inGroup' BY <1>1, <1>3 DEF ScimInvariant, Present
<1>7. ASSUME NEW v \in ScimUsers PROVE UserSound(v)'
  <2>1. UserSound(v) BY DEF ScimInvariant
  <2>2. CASE v = u BY <1>1, <2>2 DEF UserSound
  <2>3. CASE v # u BY <1>1, <1>3, <2>1, <2>3 DEF UserSound, OnUser
  <2> QED BY <2>2, <2>3
<1>8. ASSUME NEW p \in ScimRequests PROVE UserRequestSound(p)' /\ GroupRequestSound(p)'
  <2>1. UserRequestSound(p) /\ GroupRequestSound(p) /\ scimRequest[p] \in ScimDoings BY DEF ScimInvariant, ScimTypeOK
  <2>2. PICK d : d = scimRequest[p] OBVIOUS
  <2>3. scimRequest'[p] = d BY <1>1, <2>2
  <2>4. GroupRequestSound(p)' BY <1>4, <2>1, <2>2, <2>3 DEF GroupRequestSound
  <2>5. SUFFICES ASSUME d.at \in UserSteps, d.user \notin disturbed'
                 PROVE  /\ people'[d.user].there
                        /\ d.at \in {"check name", "store user"} =>
                             people'[d.user] = d.before /\ (d.user \in blocked' <=> ~people'[d.user].active)
                        /\ d.at = "deactivate" => ~people'[d.user].active
                        /\ d.at = "reactivate" => people'[d.user].active
    BY <2>3, <2>4 DEF UserRequestSound
  <2>6. PICK v \in ScimUsers : v = d.user BY <2>1, <2>2, <2>5, ScimDoingShape
  <2>7. v # u /\ v \notin disturbed BY <1>1, <2>5, <2>6
  <2>8. people'[v] = people[v] BY <1>3, <2>7
  <2> QED BY <1>1, <2>1, <2>2, <2>5, <2>6, <2>7, <2>8 DEF UserRequestSound
<1> QED BY <1>4, <1>5, <1>6, <1>7, <1>8 DEF ScimInvariant

\* A request that dies disturbs its user, and gives up its group's change.
LEMMA ScimDiesKeeps ==
    ASSUME ScimInvariant, NEW p \in ScimRequests, ScimDies(p)
    PROVE  ScimInvariant'
<1>1. /\ disturbed' = disturbed \cup {u \in ScimUsers : OnUser(p, u)}
      /\ intended' = IF OnGroup(p) THEN NoIntent ELSE intended
      /\ NowAt(p, Quiet) /\ UNCHANGED <<people, blocked, inGroup, owed>>
  BY DEF ScimDies
<1>2. scimRequest[p] \in ScimDoings /\ scimRequest'[p] = Quiet
  BY <1>1, QuietIsIdle, RequestTurns DEF ScimInvariant, ScimTypeOK
<1>3. PICK V \in SUBSET ScimUsers : V = {u \in ScimUsers : OnUser(p, u)} OBVIOUS
<1>4. /\ scimRequest[p].at \in UserSteps => scimRequest[p].user \in V
      /\ \A v \in V : v \in disturbed'
      /\ disturbed \subseteq disturbed' /\ disturbed' \subseteq ScimUsers
      /\ \A v \in ScimUsers \ V : people'[v] = people[v] /\ (v \in blocked' <=> v \in blocked)
  BY <1>1, <1>2, <1>3, ScimDoingShape DEF OnUser, ScimInvariant, ScimTypeOK
<1>5. UserRequestSound(p)' BY <1>2, QuietIsIdle DEF UserRequestSound
<1>6. /\ \A v \in ScimUsers : UserSound(v)'
      /\ \A q \in ScimRequests : UserRequestSound(q)'
  BY <1>1, <1>4, <1>5, QuietIsIdle, UsersKept
<1>7. CASE OnGroup(p)
  <2>1. intended' \in [clear : BOOLEAN, members : SUBSET ScimUsers] /\ ~intended'.clear BY <1>1, <1>7, NoIntentTyped
  <2>2. inGroup' \subseteq Present' /\ owed' \subseteq inGroup' BY <1>1 DEF ScimInvariant, Present
  <2>3. Quiet.at # "remove members" BY QuietIsIdle
  <2>4. /\ \A q \in ScimRequests : GroupRequestSound(q)'
        /\ intended'.clear /\ (\A q \in ScimRequests : ~OnGroup(q)') => inGroup' = intended'.members
    BY <1>1, <2>1, <2>2, <2>3, QuietIsIdle, MembersKept
  <2>5. scimRequest' \in [ScimRequests -> ScimDoings] BY <1>1, QuietIsIdle, RequestTurns DEF ScimInvariant
  <2>6. ScimTypeOK' BY <1>1, <1>4, <2>1, <2>5 DEF ScimInvariant, ScimTypeOK
  <2> QED BY <1>6, <2>2, <2>4, <2>6 DEF ScimInvariant
<1>8. CASE ~OnGroup(p)
  BY <1>1, <1>4, <1>6, <1>8, QuietIsIdle, UserStepKeeps DEF OnGroup, Present, ScimInvariant, ScimTypeOK
<1> QED BY <1>7, <1>8

LEMMA ScimStarts == ScimInit => ScimInvariant
<1> SUFFICES ASSUME ScimInit PROVE ScimInvariant OBVIOUS
<1>1. intended \in [clear : BOOLEAN, members : SUBSET ScimUsers] /\ ~intended.clear BY NoIntentTyped DEF ScimInit
<1>2. Nobody \in Persona /\ ~Nobody.there BY DEF Nobody, Persona
<1>3. ScimTypeOK BY <1>1, <1>2, QuietIsIdle DEF ScimInit, ScimTypeOK
<1>4. \A p \in ScimRequests : scimRequest[p].at \notin UserSteps /\ scimRequest[p].at \notin GroupSteps
  BY QuietIsIdle DEF ScimInit
<1>5. \A p \in ScimRequests : UserRequestSound(p) /\ GroupRequestSound(p) BY <1>4 DEF UserRequestSound, GroupRequestSound
<1>6. \A u \in ScimUsers : UserSound(u) BY <1>2, <1>4 DEF ScimInit, UserSound, OnUser
<1>7. inGroup \subseteq Present /\ owed \subseteq inGroup BY DEF ScimInit
<1> QED BY <1>1, <1>3, <1>5, <1>6, <1>7 DEF ScimInvariant

LEMMA ScimKeeps == ScimInvariant /\ [ScimNext]_scimVars => ScimInvariant'
<1> SUFFICES ASSUME ScimInvariant, [ScimNext]_scimVars PROVE ScimInvariant' OBVIOUS
<1>1. CASE UNCHANGED scimVars
  <2>1. ScimTypeOK' BY <1>1 DEF scimVars, ScimInvariant, ScimTypeOK
  <2>2. \A u \in ScimUsers : UserSound(u)' BY <1>1 DEF scimVars, ScimInvariant, UserSound, OnUser
  <2>3. \A p \in ScimRequests : UserRequestSound(p)' BY <1>1 DEF scimVars, ScimInvariant, UserRequestSound
  <2>4. \A p \in ScimRequests : GroupRequestSound(p)'
    BY <1>1 DEF scimVars, ScimInvariant, GroupRequestSound, OnGroup, Outcome, Present
  <2>5. inGroup' \subseteq Present' /\ owed' \subseteq inGroup'
        /\ (intended'.clear /\ (\A q \in ScimRequests : ~OnGroup(q)') => inGroup' = intended'.members)
    BY <1>1 DEF scimVars, ScimInvariant, OnGroup, Present
  <2> QED BY <2>1, <2>2, <2>3, <2>4, <2>5 DEF ScimInvariant
<1>2. ASSUME NEW p \in ScimRequests,
             \/ \E n \in UserNames, a \in BOOLEAN : CreateScimUser(p, n, a) \/ \E u \in ScimUsers : ReadScimUser(p, u, n, a)
             \/ \E ops \in PatchBodies : PatchMembers(p, ops)
             \/ \E wanted \in SUBSET ScimUsers : ReplaceGroup(p, wanted)
             \/ StoreNewUser(p) \/ CheckName(p) \/ StoreScimUser(p) \/ RunHook(p)
             \/ RemoveMembers(p) \/ AddMembers(p) \/ ScimDies(p)
      PROVE  ScimInvariant'
  BY <1>2, CreateScimUserKeeps, ReadScimUserKeeps, PatchMembersKeeps, ReplaceGroupKeeps, StoreNewUserKeeps, CheckNameKeeps,
     StoreScimUserKeeps, RunHookKeeps, RemoveMembersKeeps, AddMembersKeeps, ScimDiesKeeps
<1> QED BY <1>1, <1>2, DeleteScimUserKeeps DEF ScimNext

\* deactivate_user's contract, _store_group's difference and patch_group's direct
\* path: whatever the requests and bodies, a user whose requests ran to the end
\* and never met is blocked exactly while it is inactive, a member added unseen
\* stays, and a patch nobody met leaves what its operations leave in order.
THEOREM DirectoriesAreFollowed == ScimSpec => []DirectoryIsFollowed
<1>1. ScimInvariant => DirectoryIsFollowed
  <2> SUFFICES ASSUME ScimInvariant PROVE DirectoryIsFollowed OBVIOUS
  <2>1. BlockedWhileInactive BY DEF ScimInvariant, UserSound, BlockedWhileInactive
  <2>2. MembersAreKept BY DEF ScimInvariant, MembersAreKept
  <2> QED BY <2>1, <2>2 DEF DirectoryIsFollowed
<1> QED BY <1>1, ScimStarts, ScimKeeps, PTL DEF ScimSpec
=============================================================================
