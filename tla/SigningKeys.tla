----------------------------- MODULE SigningKeys -----------------------------
(***************************************************************************)
(* identity/service.py, tokens.py, verifier.py and claims.py: the keys     *)
(* tokens are signed with, the key set that is served, and who verifies    *)
(* what, while the keys are rotated.  Execution environments keep a JWK    *)
(* per key for their lifetime; the gateway, or a resource server, keeps    *)
(* the key set it fetched; and each environment learns of a deploy when it *)
(* is replaced.                                                            *)
(*                                                                         *)
(* KMS, API Gateway and the operator who rotates are other parties: the    *)
(* operator follows identity-standard.md, section 3.5.  Time is in steps   *)
(* of about an hour, kept as ages and as what is left; the audience is the *)
(* part of a token that says whose it is.                                  *)
(***************************************************************************)
EXTENDS Integers, Sequences, SequencesExt, FiniteSets

CONSTANTS
  Environments,       \* execution environments of the identity function
  TokenLife,          \* MAX_ACCESS_TOKEN_TTL
  GatewayCache,       \* how long the gateway may keep a key set
  RotationWait,       \* what the operator waits after a deploy
  MaxTokens,          \* bound: tokens alive at once
  MaxKmsFaults        \* bound: GetPublicKey calls that fail

Retiring == "old"
Coming == "new"
SigningKeyIds == {Retiring, Coming}

\* signing_key_arns, deploy by deploy: the head signs.
Stages == <<<<Retiring>>, <<Retiring, Coming>>, <<Coming, Retiring>>, <<Coming>>>>

Purposes == {"session", "device", "client", "mfa"}
Audience(purpose) == purpose
ClientClaims(purpose) ==
  (IF purpose = "device" THEN {"grant", "client_id"} ELSE {}) \cup (IF purpose = "client" THEN {"client_id"} ELSE {})
TypeOf(purpose) == IF purpose = "mfa" THEN "mfa_ticket" ELSE "access"
Audiences(devices) == {Audience("session")} \cup (IF devices THEN {Audience("device")} ELSE {})

\* The operator waits until a token and a cached key set from before have run out.
ASSUME RotationsWait ==
  /\ Environments # {} /\ TokenLife \in Nat /\ GatewayCache \in Nat /\ RotationWait \in Nat
  /\ TokenLife <= RotationWait /\ GatewayCache <= RotationWait

VARIABLES
  stage,        \* [at: the stage deployed, age: since the last environment took it]
  env,          \* Environments -> [stage, jwks: the keys whose JWK it holds]
  held,         \* a key set the gateway or a JwksVerifier keeps: [keys, left, lacking: keys that failed]
  verifiers,    \* a server's verifiers: key -> whether it accepts device tokens
  issued,       \* tokens alive: [kid, aud, typ, client: its claims of one, purpose, left]
  kmsFaults

keyVars == <<stage, env, held, verifiers, issued, kmsFaults>>

NoKeySet == [keys |-> {}, left |-> 0, lacking |-> {}]
FreshEnvironment(s) == [stage |-> s, jwks |-> {}]

KeysInit ==
  /\ stage = [at |-> 1, age |-> 0] /\ env = [e \in Environments |-> FreshEnvironment(1)]
  /\ held = NoKeySet /\ verifiers = <<>> /\ issued = {} /\ kmsFaults = 0

Arns(e) == Stages[env[e].stage]

\* GetPublicKey fails for some of the keys.
MayFail(failing) == kmsFaults + Cardinality(failing) <= MaxKmsFaults
Spend(failing) == kmsFaults' = kmsFaults + Cardinality(failing)

\* _jwk_for over some of the configured keys: the JWKs held afterwards.  A failure is
\* not kept, and the key is asked for again the next time.
JwksAfter(e, keys, failing) == env[e].jwks \cup (keys \ failing)

\* jwks(): those configured, and fatal when there is none.  The variant serves the
\* active key only.
ServedKeys_active(e, failing) == JwksAfter(e, ToSet(Arns(e)), failing) \cap {Head(Arns(e))}
ServedKeys(e, failing) == JwksAfter(e, ToSet(Arns(e)), failing) \cap ToSet(Arns(e))

-------------------------------------------------------------------------------
\* What a product's claims hook may set, of the registered claims.
Hooked == [aud : {"", Audience("session"), Audience("mfa")}, typ : {"", "mfa_ticket"}]

\* The payload: registered claims of the product's are dropped.
Payload(purpose, hooked) == [aud |-> Audience(purpose), typ |-> TypeOf(purpose)]

\* mint_access_token, whose lifetime may be any up to the most, and mint_mfa_ticket,
\* which takes no claims of the product's.
Mint(e, purpose, hooked, life) ==
  LET payload == Payload(purpose, hooked) IN
  /\ Cardinality(issued) < MaxTokens /\ life \in 1 .. TokenLife
  /\ purpose = "mfa" => hooked = [aud |-> "", typ |-> ""]
  /\ issued' = issued \cup {[kid |-> Head(Arns(e)), aud |-> payload.aud, typ |-> payload.typ,
                                client |-> ClientClaims(purpose), purpose |-> purpose, left |-> life]}
  /\ UNCHANGED <<stage, env, held, verifiers, kmsFaults>>

\* The gateway or the verifier fetches the key set, when its own is too old and, for a
\* kid it does not know, before.  A fetch that finds no key fails and changes nothing there.
FetchKeySet(e, failing) ==
  /\ MayFail(failing) /\ Spend(failing) /\ failing \subseteq ToSet(Arns(e)) \ env[e].jwks
  /\ ServedKeys(e, failing) # {}
  /\ env' = [env EXCEPT ![e].jwks = JwksAfter(e, ToSet(Arns(e)), failing)]
  /\ held' = [keys |-> ServedKeys(e, failing), left |-> GatewayCache, lacking |-> failing]
  /\ UNCHANGED <<stage, verifiers, issued>>

\* verify_access_token in the identity function: _jwk_by_kid reads the keys in order, up
\* to the one the token names, into the same cache.
VerifyHere(e, upTo, failing) ==
  LET keys == ToSet(SubSeq(Arns(e), 1, upTo)) IN
  /\ MayFail(failing) /\ Spend(failing) /\ failing \subseteq keys \ env[e].jwks
  /\ env' = [env EXCEPT ![e].jwks = JwksAfter(e, keys, failing)]
  /\ UNCHANGED <<stage, held, verifiers, issued>>

\* An environment is replaced: by a deploy, or for reasons of the platform's.
Replaced(e) ==
  /\ env' = [env EXCEPT ![e] = FreshEnvironment(stage.at)]
  /\ stage' = IF env[e].stage < stage.at THEN [stage EXCEPT !.age = 0] ELSE stage
  /\ UNCHANGED <<held, verifiers, issued, kmsFaults>>

\* The next deploy of the rotation, not before the last one is everywhere and the
\* wait is over.
Deploy ==
  /\ stage.at < Len(Stages) /\ \A e \in Environments : env[e].stage = stage.at
  /\ stage.age = RotationWait
  /\ stage' = [stage EXCEPT !.at = @ + 1]
  /\ UNCHANGED <<env, held, verifiers, issued, kmsFaults>>

\* A token that has expired is nobody's concern, and a key set past its time is dropped.
KeyTick ==
  /\ stage' = [stage EXCEPT !.age = IF @ < RotationWait THEN @ + 1 ELSE @]
  /\ issued' = {[t EXCEPT !.left = @ - 1] : t \in {u \in issued : u.left > 1}}
  /\ held' = IF held.left <= 1 THEN NoKeySet ELSE [held EXCEPT !.left = @ - 1]
  /\ UNCHANGED <<env, verifiers, kmsFaults>>

\* cached_verifier: one per issuer and audiences, in a process that asks for either.
VerifierKey(devices) == Audiences(devices)
CachedVerifier(devices) ==
  /\ VerifierKey(devices) \notin DOMAIN verifiers
  /\ verifiers' = [k \in DOMAIN verifiers \cup {VerifierKey(devices)} |-> IF k \in DOMAIN verifiers THEN verifiers[k] ELSE devices]
  /\ UNCHANGED <<stage, env, held, issued, kmsFaults>>

KeysNext ==
  \/ \E e \in Environments :
       \/ \E purpose \in Purposes, hooked \in Hooked : Mint(e, purpose, hooked, TokenLife)
       \/ \E failing \in SUBSET SigningKeyIds : 
            FetchKeySet(e, failing) \/ \E upTo \in 1 .. Len(Arns(e)) : VerifyHere(e, upTo, failing)
       \/ Replaced(e)
  \/ \E devices \in BOOLEAN : CachedVerifier(devices)
  \/ Deploy \/ KeyTick

SigningSpec == KeysInit /\ [][KeysNext]_keyVars

-------------------------------------------------------------------------------
(* Who accepts a token.                                                    *)

\* The identity function, when it can read the keys: by the kid among those configured,
\* and by audience; the check of a ticket asks for the type as well.
ServiceAccepts(e, t, auds) == t.kid \in ServedKeys(e, {}) /\ t.aud \in auds
TicketAccepted(e, t) == ServiceAccepts(e, t, {Audience("mfa")}) /\ t.typ = "mfa_ticket"

\* The gateway's authorizer and JwksVerifier, each with the key set it holds.
GatewayAccepts(t) == t.kid \in held.keys /\ t.aud = Audience("session")
VerifierAccepts(t, devices) == t.kid \in held.keys /\ t.typ = "access" /\ t.aud \in Audiences(devices)

-------------------------------------------------------------------------------
(* claims.py: what a route is told of the token an authorizer accepted.  A claim *)
(* is [kind, of]: the kind is the type it has, or the spelling it arrives in.    *)

Claim(kind, of) == [kind |-> kind, of |-> of]
Verifieds == {"unsaid", "true", "false"}

\* stamp_email_verified: the user row's word, never the hook's, and none where the
\* row has none.
StampEmailVerified(hooked, row) == IF row = "unsaid" THEN <<>> ELSE [email_verified |-> Claim("bool", row)]

ClaimsOf(t, stamped) ==
  [c \in DOMAIN stamped \cup {"aud"} \cup t.client |->
     CASE c \in DOMAIN stamped -> stamped[c]
       [] c \notin DOMAIN stamped /\ c = "aud" -> Claim("list", <<t.aud>>)
       [] OTHER -> Claim("text", c)]

\* The native authorizer writes every claim as text, a list bare or in brackets.
Flattened(claims, spelling) ==
  [c \in DOMAIN claims |-> Claim(IF claims[c].kind = "list" THEN spelling ELSE "text", claims[c].of)]

\* coerce_claims: by name, and whatever does not read as its type stays as it came.
CoerceArray(v) == Claim("list", v.of)
CoerceBool(v) == IF v.of \in {"true", "false"} THEN Claim("bool", v.of) ELSE v
CoerceClaims(claims) ==
  [c \in DOMAIN claims |-> CASE c = "aud" -> CoerceArray(claims[c]) [] c = "email_verified" -> CoerceBool(claims[c]) [] OTHER -> claims[c]]

\* The request context a request comes with: from the JWT authorizer, from the
\* staging gate, or without either's claims.
Context(by, claims) == [by |-> by, claims |-> claims]
WithoutClaims == {Context(by, <<>>) : by \in {"missing", "unparseable", "no section"}}

\* Each reader's claims: a set with one member, or none.
ReadAuthorizerClaims(context) == IF context.by = "jwt" THEN {CoerceClaims(context.claims)} ELSE {}
GateClaims(context) == IF context.by = "lambda" THEN {context.claims} ELSE {}
IdentityClaims(context) ==
  LET native == ReadAuthorizerClaims(context) IN
  IF native # {} THEN native ELSE {CoerceClaims(claims) : claims \in GateClaims(context)}

\* authorizer_claims: a fallback is what a workstation has, and no production
\* service is built with one.
Buildable(environment, fallback) == fallback # {} => environment \notin {"production", "prod"}
AuthorizerClaims(context, fallback) ==
  LET native == ReadAuthorizerClaims(context) IN IF native # {} THEN native ELSE {CoerceClaims(claims) : claims \in fallback}

\* LocalAuthorizerMiddleware, which local_authorizer adds where the application and
\* the identity settings are both local: it drops the context a caller sends, and
\* attaches the claims of a bearer token that this process's own keys verify.
StandsIn(application, identity) == application = "local" /\ identity = "local"
LocalVerifies(e, t, devices) == t.kid \in ServedKeys(e, {}) /\ t.typ = "access" /\ t.aud \in Audiences(devices)
LocalAuthorizer(e, inbound, t, claims, devices) ==
  IF LocalVerifies(e, t, devices) THEN Context("jwt", claims) ELSE [inbound EXCEPT !.by = "missing", !.claims = <<>>]

\* is_browser_session tells a person's session from a client's token.
IsBrowserSession(claims) ==
  /\ DOMAIN claims \cap {"grant", "client_id"} = {}
  /\ "aud" \in DOMAIN claims => Audience("session") \in ToSet(CoerceArray(claims["aud"]).of)

EmailUnverified(claims) ==
  "email_verified" \in DOMAIN claims /\ CoerceBool(claims["email_verified"]) = Claim("bool", "false")

-------------------------------------------------------------------------------
(* Properties.                                                             *)

\* Through a rotation, and however environments are replaced and keys cannot be
\* read: a token that has not expired verifies in every environment, and wherever a
\* key set no older than the cache allows is used, unless its own key could not be
\* read when that set was fetched.  A key that cannot be read costs only its own.
RotationsLockNobodyOut ==
  \A t \in issued :
    /\ \A e \in Environments : ServiceAccepts(e, t, {t.aud})
    /\ (held.left > 0 /\ t.kid \notin held.lacking) => t.kid \in held.keys

\* A token is taken only for what it was issued for, whatever a product's hook asked
\* for and whichever verifiers share a process.
TokensKeepTheirPurpose ==
  \A t \in issued :
    /\ GatewayAccepts(t) => t.purpose = "session"
    /\ \A e \in Environments : /\ TicketAccepted(e, t) => t.purpose = "mfa"
                               /\ ServiceAccepts(e, t, Audiences(FALSE)) => t.purpose = "session"
    /\ \A devices \in BOOLEAN :
         (VerifierKey(devices) \in DOMAIN verifiers /\ VerifierAccepts(t, verifiers[VerifierKey(devices)])) =>
           t.purpose = "session" \/ (devices /\ t.purpose = "device")

\* Whichever authorizer ran and however it spells the claims, a route takes a
\* token for a person's session exactly when it is one, and for an unconfirmed
\* caller's exactly when the user row says so; and without an authorizer a
\* production route is told of nobody.  On a workstation, where the stand-in runs, a
\* route is told of the token the request bears and never what the caller claims.
RoutesKnowTheCaller ==
  /\ \A t \in issued : \A hooked, row \in Verifieds :
       LET claims == ClaimsOf(t, StampEmailVerified(hooked, row)) IN
       \A context \in {Context("jwt", Flattened(claims, s)) : s \in {"bare", "bracketed"}} \cup {Context("lambda", claims)} :
         \A told \in IdentityClaims(context) :
           /\ IsBrowserSession(told) <=> t.purpose = "session"
           /\ EmailUnverified(told) <=> row = "false"
  /\ \A e \in Environments, t \in issued, other \in issued, devices \in BOOLEAN : StandsIn("local", "local") =>
       LET inbound == Context("jwt", ClaimsOf(other, StampEmailVerified("true", "true")))
           claims == ClaimsOf(t, StampEmailVerified("true", "unsaid")) IN
       \A told \in IdentityClaims(LocalAuthorizer(e, inbound, t, claims, devices)) :
         told = CoerceClaims(claims) /\ t.purpose \in {"session"} \cup (IF devices THEN {"device"} ELSE {})
  /\ \A context \in WithoutClaims, fallback \in {{}, {<<>>}} :
       Buildable("production", fallback) => AuthorizerClaims(context, fallback) \cup IdentityClaims(context) = {}

\* What the issuer owes those who hold its tokens.
KeysAreTrusted == RotationsLockNobodyOut /\ TokensKeepTheirPurpose /\ RoutesKnowTheCaller
===============================================================================
