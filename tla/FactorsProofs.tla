---------------------------- MODULE FactorsProofs ----------------------------
(***************************************************************************)
(* Proofs about the ways to prove who one is after a password: the desktop *)
(* handoff, passkey ceremonies and second factors, for every number of     *)
(* requests, users and codes and every bound on a clock or a counter.      *)
(***************************************************************************)
EXTENDS SecondFactors, Passkeys, DesktopHandoff, FiniteSetTheorems, TLAPS

-----------------------------------------------------------------------------
(* The desktop handoff.                                                    *)

Methods == {"pwd", "otp", "swk"}
Browser == [amr : SUBSET Methods, proven : SUBSET Methods, auth : Nat, signedIn : BOOLEAN]
MintedRow == [at : {"live", "spent"}, challenge : HandoffApps, scheme : HandoffApps,
              amr : SUBSET Methods, auth : Nat, expires : Nat, had : Browser]
Redeemed(c) == [at |-> "redeemed", code |-> c]

\* What the handoff keeps.
HandoffTypeOK ==
    /\ time \in Nat
    /\ browser \in Browser
    /\ disabled \in BOOLEAN
    /\ handoffs \in [HandoffCodes -> {[at |-> "unused"]} \cup MintedRow]
    /\ exchange \in [HandoffApps -> {NoExchange} \cup {Redeemed(c) : c \in HandoffCodes}]
    /\ \A d \in desktops : d.code \in HandoffCodes

\* A row says what the browser had when it minted, for a scheme on the allowlist.
HandoffRowSound(h) ==
    h.at # "unused" =>
        /\ h.scheme \in AllowedSchemes
        /\ h.amr \subseteq h.had.proven /\ h.had.amr \subseteq h.amr
        /\ h.auth = h.had.auth

\* An exchange holds a spent code of its own app, which has started no session.
ExchangeSound(a) ==
    exchange[a].at = "redeemed" =>
        LET c == exchange[a].code
        IN /\ handoffs[c].at = "spent" /\ handoffs[c].challenge = a
           /\ \A d \in desktops : d.code # c

\* A session is its row's, and its row is spent.
DesktopSound(d) ==
    LET h == handoffs[d.code]
    IN /\ h.at = "spent" /\ h.challenge = d.app
       /\ d.amr = h.amr /\ d.auth = h.auth
       /\ \A e \in desktops : e.code = d.code => e = d

HandoffInvariant ==
    /\ HandoffTypeOK
    /\ browser.amr \subseteq browser.proven
    /\ \A c \in HandoffCodes : HandoffRowSound(handoffs[c])
    /\ \A a \in HandoffApps : ExchangeSound(a)
    /\ \A d \in desktops : DesktopSound(d)

\* A new row says what the browser has.
LEMMA MintKeeps ==
    ASSUME HandoffInvariant, NEW a \in HandoffApps, NEW s \in HandoffApps, MintHandoff(a, s)
    PROVE  HandoffInvariant'
<1> DEFINE c == CHOOSE x \in Unminted : TRUE
<1>1. c \in HandoffCodes /\ handoffs[c].at = "unused" BY DEF MintHandoff, Unminted
<1>2. PICK amr \in SignInAmr :
        handoffs' = [handoffs EXCEPT ![c] =
                       [at |-> "live", challenge |-> a, scheme |-> s, amr |-> amr, auth |-> browser.auth,
                        expires |-> time + CodeTtl, had |-> browser]]
  BY DEF MintHandoff
<1> DEFINE h == [at |-> "live", challenge |-> a, scheme |-> s, amr |-> amr, auth |-> browser.auth,
                 expires |-> time + CodeTtl, had |-> browser]
<1>3. /\ amr \subseteq browser.proven /\ browser.amr \subseteq amr
      /\ amr \in SUBSET Methods /\ s \in AllowedSchemes /\ browser.auth \in Nat
      /\ time + CodeTtl \in Nat
  BY HandoffTimes DEF HandoffInvariant, HandoffTypeOK, SignInAmr, Browser, MintHandoff
<1>4. h \in MintedRow BY <1>3 DEF MintedRow, HandoffInvariant, HandoffTypeOK
<1>5. HandoffRowSound(h) BY <1>3 DEF HandoffRowSound
<1>6. /\ handoffs' \in [HandoffCodes -> {[at |-> "unused"]} \cup MintedRow]
      /\ handoffs'[c] = h
      /\ \A x \in HandoffCodes \ {c} : handoffs'[x] = handoffs[x]
  BY <1>1, <1>2, <1>4 DEF HandoffInvariant, HandoffTypeOK
<1>7. UNCHANGED <<time, browser, disabled, exchange, desktops>> BY DEF MintHandoff
<1>8. HandoffTypeOK' BY <1>6, <1>7 DEF HandoffInvariant, HandoffTypeOK
<1>9. \A x \in HandoffCodes : HandoffRowSound(handoffs'[x])
  BY <1>5, <1>6 DEF HandoffInvariant
<1>10. \A x \in HandoffApps : ExchangeSound(x)'
  <2> SUFFICES ASSUME NEW x \in HandoffApps, exchange[x].at = "redeemed" PROVE ExchangeSound(x)'
    BY <1>7 DEF ExchangeSound
  <2>1. exchange[x].code \in HandoffCodes BY DEF HandoffInvariant, HandoffTypeOK, NoExchange, Redeemed
  <2>2. exchange[x].code # c BY <1>1 DEF HandoffInvariant, ExchangeSound
  <2> QED BY <1>6, <1>7, <2>1, <2>2 DEF HandoffInvariant, ExchangeSound
<1>11. \A d \in desktops : DesktopSound(d)'
  BY <1>1, <1>6, <1>7 DEF HandoffInvariant, HandoffTypeOK, DesktopSound
<1> QED BY <1>7, <1>8, <1>9, <1>10, <1>11 DEF HandoffInvariant

\* A row is spent once, for the app whose verifier it names.
LEMMA RedeemKeeps ==
    ASSUME HandoffInvariant, NEW a \in HandoffApps, NEW s \in HandoffApps, NEW c \in HandoffCodes,
           RedeemHandoff(a, s, c)
    PROVE  HandoffInvariant'
<1> DEFINE h == handoffs[c]
<1>1. h \in MintedRow /\ h.at = "live"
  BY DEF RedeemHandoff, HandoffInvariant, HandoffTypeOK
<1>2. UNCHANGED <<time, browser, disabled, desktops>> BY DEF RedeemHandoff
<1>3. /\ handoffs' = [handoffs EXCEPT ![c].at = "spent"]
      /\ handoffs'[c] = [h EXCEPT !.at = "spent"]
      /\ [h EXCEPT !.at = "spent"] \in MintedRow
      /\ \A x \in HandoffCodes \ {c} : handoffs'[x] = handoffs[x]
  BY <1>1 DEF RedeemHandoff, HandoffInvariant, HandoffTypeOK, MintedRow
<1>4. handoffs' \in [HandoffCodes -> {[at |-> "unused"]} \cup MintedRow]
  BY <1>3 DEF HandoffInvariant, HandoffTypeOK
<1>5. \A x \in HandoffApps \ {a} : exchange'[x] = exchange[x]
  BY DEF RedeemHandoff, HandoffInvariant, HandoffTypeOK
<1>6. \/ exchange'[a] = NoExchange
      \/ exchange'[a] = Redeemed(c) /\ h.challenge = a
  BY DEF RedeemHandoff, HandoffInvariant, HandoffTypeOK, Matches, Redeemed
<1>7. exchange' \in [HandoffApps -> {NoExchange} \cup {Redeemed(x) : x \in HandoffCodes}]
  BY <1>6 DEF RedeemHandoff, HandoffInvariant, HandoffTypeOK
<1>8. HandoffTypeOK' BY <1>2, <1>4, <1>7 DEF HandoffInvariant, HandoffTypeOK
<1>9. \A x \in HandoffCodes : HandoffRowSound(handoffs'[x])
  BY <1>1, <1>3 DEF HandoffInvariant, HandoffRowSound, MintedRow
<1>10. \A d \in desktops : d.code # c
  BY <1>1 DEF HandoffInvariant, DesktopSound
<1>11. ExchangeSound(a)'
  BY <1>1, <1>2, <1>3, <1>6, <1>10 DEF ExchangeSound, NoExchange, Redeemed, MintedRow
<1>12. \A x \in HandoffApps \ {a} : ExchangeSound(x)'
  <2> SUFFICES ASSUME NEW x \in HandoffApps \ {a}, exchange[x].at = "redeemed" PROVE ExchangeSound(x)'
    BY <1>5 DEF ExchangeSound
  <2>1. exchange[x].code \in HandoffCodes BY DEF HandoffInvariant, HandoffTypeOK, NoExchange, Redeemed
  <2>2. exchange[x].code # c BY <1>1 DEF HandoffInvariant, ExchangeSound
  <2> QED BY <1>2, <1>3, <1>5, <2>1, <2>2 DEF HandoffInvariant, ExchangeSound
<1>13. \A d \in desktops : DesktopSound(d)'
  BY <1>2, <1>3, <1>10 DEF HandoffInvariant, HandoffTypeOK, DesktopSound
<1> QED BY <1>2, <1>8, <1>9, <1>11, <1>12, <1>13 DEF HandoffInvariant

\* The session an app starts is the first of its row, and has what the row has.
LEMMA ExchangeKeeps ==
    ASSUME HandoffInvariant, NEW a \in HandoffApps, ExchangeHandoff(a) \/ ExchangeDies(a)
    PROVE  HandoffInvariant'
<1> DEFINE c == exchange[a].code
           d == [id |-> Cardinality(desktops), app |-> a, code |-> c,
                 amr |-> handoffs[c].amr, auth |-> handoffs[c].auth]
<1>1. /\ UNCHANGED <<time, browser, disabled, handoffs>>
      /\ exchange[a].at = "redeemed"
      /\ exchange' = [exchange EXCEPT ![a] = NoExchange]
      /\ desktops' = desktops \/ desktops' = desktops \cup {d}
  BY DEF ExchangeHandoff, ExchangeDies
<1>2. c \in HandoffCodes BY <1>1 DEF HandoffInvariant, HandoffTypeOK, NoExchange, Redeemed
<1>3. /\ handoffs[c].at = "spent" /\ handoffs[c].challenge = a
      /\ \A e \in desktops : e.code # c
  BY <1>1 DEF HandoffInvariant, ExchangeSound
<1>4. HandoffTypeOK' BY <1>1, <1>2 DEF HandoffInvariant, HandoffTypeOK
<1>5. \A x \in HandoffApps : ExchangeSound(x)'
  <2> SUFFICES ASSUME NEW x \in HandoffApps, exchange'[x].at = "redeemed" PROVE ExchangeSound(x)'
    BY DEF ExchangeSound
  <2>1. x # a /\ exchange'[x] = exchange[x] BY <1>1 DEF HandoffInvariant, HandoffTypeOK, NoExchange
  <2>2. ExchangeSound(x) /\ exchange[x].at = "redeemed" BY <2>1 DEF HandoffInvariant
  <2>3. exchange[x].code # c BY <2>1, <2>2, <1>3 DEF ExchangeSound
  <2> QED BY <1>1, <2>1, <2>2, <2>3 DEF ExchangeSound
<1>6. \A e \in desktops' : DesktopSound(e)'
  BY <1>1, <1>3 DEF HandoffInvariant, DesktopSound
<1> QED BY <1>1, <1>4, <1>5, <1>6 DEF HandoffInvariant

\* The browser, the account and the clock go their own way.
LEMMA BrowserKeeps ==
    ASSUME HandoffInvariant,
           (\E m \in Methods : StepUpBrowser(m)) \/ SignOutBrowser \/ DisableAccount \/ HandoffTick
    PROVE  HandoffInvariant'
<1>1. UNCHANGED <<handoffs, exchange, desktops>>
  BY DEF StepUpBrowser, SignOutBrowser, DisableAccount, HandoffTick
<1>2. time' \in Nat /\ disabled' \in BOOLEAN
  <2>1. time' = time \/ time' = time + 1
    BY DEF StepUpBrowser, SignOutBrowser, DisableAccount, HandoffTick
  <2>2. disabled' = disabled \/ disabled' = TRUE
    BY DEF StepUpBrowser, SignOutBrowser, DisableAccount, HandoffTick
  <2>3. time \in Nat /\ disabled \in BOOLEAN BY DEF HandoffInvariant, HandoffTypeOK
  <2>4. time' \in Nat BY <2>1, <2>3
  <2>5. disabled' \in BOOLEAN BY <2>2, <2>3, Zenon
  <2> QED BY <2>4, <2>5
<1>3. browser' \in Browser /\ browser'.amr \subseteq browser'.proven
  <2>1. CASE \E m \in Methods : StepUpBrowser(m)
    <3>1. PICK m \in Methods : browser' = [browser EXCEPT !.auth = time, !.proven = @ \cup {m}] BY <2>1 DEF StepUpBrowser
    <3>2. browser \in Browser /\ browser.amr \subseteq browser.proven /\ time \in Nat BY DEF HandoffInvariant, HandoffTypeOK
    <3>3. browser' \in Browser BY <3>1, <3>2 DEF Browser
    <3>4. browser'.amr = browser.amr /\ browser'.proven = browser.proven \cup {m} BY <3>1, <3>2 DEF Browser
    <3> QED BY <3>2, <3>3, <3>4
  <2>2. CASE SignOutBrowser BY <2>2 DEF SignOutBrowser, HandoffInvariant, HandoffTypeOK, Browser
  <2>3. CASE DisableAccount \/ HandoffTick
    BY <2>3 DEF DisableAccount, HandoffTick, HandoffInvariant, HandoffTypeOK
  <2> QED BY <2>1, <2>2, <2>3
<1>4. HandoffTypeOK' BY <1>1, <1>2, <1>3 DEF HandoffInvariant, HandoffTypeOK
<1>5. /\ \A a \in HandoffApps : ExchangeSound(a)'
      /\ \A d \in desktops' : DesktopSound(d)'
  BY <1>1 DEF HandoffInvariant, ExchangeSound, DesktopSound
<1> QED BY <1>1, <1>3, <1>4, <1>5 DEF HandoffInvariant

\* No code is minted and nobody redeems.
LEMMA HandoffStarts == HandoffInit => HandoffInvariant
<1> SUFFICES ASSUME HandoffInit PROVE HandoffInvariant OBVIOUS
<1>1. browser \in Browser /\ browser.amr = browser.proven
  BY DEF HandoffInit, Browser, Methods
<1>2. HandoffTypeOK BY <1>1 DEF HandoffInit, HandoffTypeOK
<1> QED BY <1>1, <1>2 DEF HandoffInit, HandoffInvariant, HandoffRowSound, ExchangeSound, NoExchange

\* Every step of the handoff keeps it.
LEMMA HandoffKeeps == HandoffInvariant /\ [HandoffNext]_handoffVars => HandoffInvariant'
<1> SUFFICES ASSUME HandoffInvariant, [HandoffNext]_handoffVars PROVE HandoffInvariant' OBVIOUS
<1>1. CASE UNCHANGED handoffVars
  BY <1>1 DEF handoffVars, HandoffInvariant, HandoffTypeOK, ExchangeSound, DesktopSound
<1>2. CASE HandoffNext
  BY <1>2, MintKeeps, RedeemKeeps, ExchangeKeeps, BrowserKeeps DEF HandoffNext, Methods
<1> QED BY <1>1, <1>2

\* A code starts one session, of the app that made its challenge, and with the
\* methods and the sign-in time the browser had proved when it minted, whatever
\* the browser does between mint and redeem and however many apps race for the
\* code (desktop_handoff.DesktopHandoffService, flows.mint_desktop_handoff).
THEOREM DesktopSessions == HandoffSpec => []DesktopsCarryTheBrowser
<1>1. HandoffInvariant => DesktopsCarryTheBrowser
  <2> SUFFICES ASSUME HandoffInvariant, NEW d \in desktops
               PROVE  LET h == handoffs[d.code]
                      IN /\ h.challenge = d.app
                         /\ h.scheme \in AllowedSchemes
                         /\ d.amr \subseteq h.had.proven /\ h.had.amr \subseteq d.amr
                         /\ d.auth = h.had.auth
                         /\ \A e \in desktops : e.code = d.code => e = d
    BY DEF DesktopsCarryTheBrowser
  <2>1. DesktopSound(d) /\ d.code \in HandoffCodes BY DEF HandoffInvariant, HandoffTypeOK
  <2>2. HandoffRowSound(handoffs[d.code]) BY <2>1 DEF HandoffInvariant
  <2> QED BY <2>1, <2>2 DEF DesktopSound, HandoffRowSound
<1> QED BY <1>1, HandoffStarts, HandoffKeeps, PTL DEF HandoffSpec

-----------------------------------------------------------------------------
(* Passkeys.                                                               *)

KeyRow == [key : BOOLEAN, count : Nat, there : BOOLEAN]
Challenge == [at : {"live", "spent"}, purpose : {"register", "login", "step_up"}, user : PasskeyUsers \cup {""}]
Registering == [at : {"attested", "put"}, purpose : {"register"}, challenge : Challenges,
                user : PasskeyUsers, credential : Credentials]
Asserting == [at : {"asserted"}, purpose : {"login", "step_up"}, challenge : Challenges,
              user : PasskeyUsers \cup {""}, credential : Credentials, count : Nat]
Using == [at : {"use"}, purpose : {"login", "step_up"}, challenge : Challenges,
          user : PasskeyUsers, credential : Credentials, count : Nat]
Deleting == [at : {"delete"}, user : PasskeyUsers, credential : Credentials]
Doings == {Quiet} \cup Registering \cup Asserting \cup Using \cup Deleting

\* What the service keeps, and what a request knows of its ceremony.
PasskeyTypeOK ==
    /\ passkeys \in [Ids -> KeyRow]
    /\ challenges \in [Challenges -> {[at |-> "unused"]} \cup Challenge]
    /\ ceremony \in [Ceremonies -> Doings]
    /\ deleted \subseteq Ids
    /\ \A a \in answered : a.challenge \in Challenges

HasChallenge(p) == ceremony[p].at \in {"attested", "put", "asserted", "use"}

\* A ceremony holds a challenge of its purpose that is spent and that neither
\* another ceremony holds nor one has been finished with.
CeremonySound(p) ==
    HasChallenge(p) =>
        LET r == ceremony[p] c == challenges[r.challenge]
        IN /\ c.at = "spent" /\ c.purpose = r.purpose
           /\ \A q \in Ceremonies \ {p} : HasChallenge(q) => ceremony[q].challenge # r.challenge
           /\ \A a \in answered : a.challenge # r.challenge
           /\ r.at = "put" => c.user = r.user
           /\ r.at = "use" => r.purpose = "login" \/ c.user = r.user

\* What is finished was spent, for its purpose and by its subject, once.
AnswerSound(a) ==
    LET c == challenges[a.challenge]
    IN /\ c.at = "spent" /\ c.purpose = a.purpose
       /\ a.purpose = "login" \/ c.user = a.user
       /\ \A b \in answered : b.challenge = a.challenge => b = a

Deletes(p, u) == ceremony[p].at = "delete" /\ ceremony[p].user = u

\* An account whose deletes met nothing: its rows have their keys, one delete
\* runs at a time and spares another key, and what is left after one is a key.
Unstranded(u) ==
    /\ \A k \in Credentials : passkeys[<<u, k>>].there => passkeys[<<u, k>>].key
    /\ \A p, q \in Ceremonies : Deletes(p, u) /\ Deletes(q, u) => p = q
    /\ \A p \in Ceremonies : Deletes(p, u) =>
          \E k \in Credentials \ {ceremony[p].credential} : passkeys[<<u, k>>].key
    /\ (\E i \in deleted : i[1] = u) => \E k \in Credentials : passkeys[<<u, k>>].key

NeedsAKey == PasskeyUsers \ (PasswordUsers \cup raced)

PasskeyInvariant ==
    /\ PasskeyTypeOK
    /\ \A p \in Ceremonies : CeremonySound(p)
    /\ \A a \in answered : AnswerSound(a)
    /\ DeletedKeysStayDead
    /\ \A u \in NeedsAKey : Unstranded(u)

Advancing == {"attested", "put", "asserted", "use"}

\* A request's record says what it is doing.
LEMMA DoingShape ==
    ASSUME NEW r \in Doings
    PROVE  /\ r.at \in {"idle", "delete"} \cup Advancing
           /\ r.at \in {"attested", "put"} => r \in Registering
           /\ r.at = "asserted" => r \in Asserting
           /\ r.at = "use" => r \in Using
           /\ r.at = "delete" => r \in Deleting
           /\ r.at \in Advancing => r.challenge \in Challenges
<1>1. CASE r = Quiet BY <1>1 DEF Quiet, Advancing
<1>2. CASE r \in Registering BY <1>2 DEF Registering, Advancing
<1>3. CASE r \in Asserting BY <1>3 DEF Asserting, Advancing
<1>4. CASE r \in Using BY <1>4 DEF Using, Advancing
<1>5. CASE r \in Deleting BY <1>5 DEF Deleting, Advancing
<1> QED BY <1>1, <1>2, <1>3, <1>4, <1>5 DEF Doings

\* A step that takes away no key, and no delete's spare, strands nobody.
LEMMA KeysKept ==
    ASSUME PasskeyInvariant, deleted' = deleted, raced \subseteq raced',
           \A i \in Ids : passkeys'[i].key => passkeys[i].key,
           \A u \in NeedsAKey', k \in Credentials :
              passkeys'[<<u, k>>].key = passkeys[<<u, k>>].key /\ (passkeys'[<<u, k>>].there => passkeys[<<u, k>>].there),
           \A q \in Ceremonies : ceremony'[q].at = "delete" => ceremony'[q] = ceremony[q]
    PROVE  DeletedKeysStayDead' /\ \A u \in NeedsAKey' : Unstranded(u)'
<1>1. DeletedKeysStayDead' BY DEF PasskeyInvariant, PasskeyTypeOK, DeletedKeysStayDead
<1>2. ASSUME NEW u \in NeedsAKey' PROVE Unstranded(u)'
  <2>1. Unstranded(u) BY DEF NeedsAKey, PasskeyInvariant
  <2>2. \A q \in Ceremonies :
          Deletes(q, u)' => Deletes(q, u) /\ ceremony'[q].credential = ceremony[q].credential
    BY DEF Deletes
  <2>3. \A p, q \in Ceremonies : Deletes(p, u)' /\ Deletes(q, u)' => p = q
    BY <2>1, <2>2 DEF Unstranded
  <2>4. \A p \in Ceremonies : Deletes(p, u)' =>
          \E k \in Credentials \ {ceremony'[p].credential} : passkeys'[<<u, k>>].key
    BY <2>1, <2>2 DEF Unstranded
  <2> QED BY <2>1, <2>3, <2>4 DEF Unstranded
<1> QED BY <1>1, <1>2

\* A ceremony that goes on with its challenge, or lets it go, stays sound.
LEMMA CeremoniesKept ==
    ASSUME PasskeyInvariant, NEW p \in Ceremonies, NEW r,
           UNCHANGED <<challenges, answered>>, ceremony' = [ceremony EXCEPT ![p] = r],
           r.at \in Advancing =>
              /\ HasChallenge(p)
              /\ r.challenge = ceremony[p].challenge /\ r.purpose = ceremony[p].purpose
              /\ r.at = "put" => challenges[r.challenge].user = r.user
              /\ r.at = "use" => r.purpose = "login" \/ challenges[r.challenge].user = r.user
    PROVE  /\ \A q \in Ceremonies : CeremonySound(q)'
           /\ \A a \in answered' : AnswerSound(a)'
<1>1. ceremony'[p] = r /\ \A q \in Ceremonies \ {p} : ceremony'[q] = ceremony[q]
  BY DEF PasskeyInvariant, PasskeyTypeOK
<1>2. CeremonySound(p)'
  BY <1>1 DEF PasskeyInvariant, CeremonySound, HasChallenge, Advancing
<1>3. \A q \in Ceremonies \ {p} : CeremonySound(q)'
  BY <1>1 DEF PasskeyInvariant, CeremonySound, HasChallenge, Advancing
<1> QED BY <1>2, <1>3 DEF PasskeyInvariant, AnswerSound

\* A challenge is minted over an unused one, which nobody holds.
LEMMA NewChallengeKeeps ==
    ASSUME PasskeyInvariant, NEW purpose \in {"register", "login", "step_up"},
           NEW u \in PasskeyUsers \cup {""}, NewChallenge(purpose, u)
    PROVE  PasskeyInvariant'
<1> DEFINE c == CHOOSE x \in Unused : TRUE
<1>1. c \in Challenges /\ challenges[c].at = "unused" BY DEF NewChallenge, Unused
<1>2. /\ UNCHANGED <<passkeys, shown, ceremony, answered, deleted, raced>>
      /\ challenges' = [challenges EXCEPT ![c] = [at |-> "live", purpose |-> purpose, user |-> u]]
  BY DEF NewChallenge
<1>3. \A x \in Challenges \ {c} : challenges'[x] = challenges[x]
  BY <1>2 DEF PasskeyInvariant, PasskeyTypeOK
<1>4. PasskeyTypeOK' BY <1>2 DEF PasskeyInvariant, PasskeyTypeOK, Challenge
<1>5. \A p \in Ceremonies : CeremonySound(p)'
  <2> SUFFICES ASSUME NEW p \in Ceremonies, HasChallenge(p) PROVE CeremonySound(p)'
    BY <1>2 DEF CeremonySound, HasChallenge
  <2>1. ceremony[p] \in Doings BY DEF PasskeyInvariant, PasskeyTypeOK
  <2>2. ceremony[p].challenge \in Challenges BY <2>1, DoingShape DEF HasChallenge, Advancing
  <2>3. CeremonySound(p) /\ ceremony[p].challenge # c
    BY <1>1 DEF PasskeyInvariant, CeremonySound
  <2> QED BY <1>2, <1>3, <2>2, <2>3 DEF CeremonySound, HasChallenge
<1>6. \A a \in answered' : AnswerSound(a)'
  BY <1>1, <1>2, <1>3 DEF PasskeyInvariant, PasskeyTypeOK, AnswerSound
<1>7. DeletedKeysStayDead' /\ \A x \in NeedsAKey' : Unstranded(x)'
  BY <1>2, KeysKept DEF NeedsAKey
<1> QED BY <1>4, <1>5, <1>6, <1>7 DEF PasskeyInvariant

\* A challenge is spent by one request, which alone may go on with it.
LEMMA SpendKeeps ==
    ASSUME PasskeyInvariant, NEW p \in Ceremonies, NEW c \in Challenges,
           NEW what \in Registering \cup Asserting, what.at \in {"attested", "asserted"},
           what.challenge = c, SpendChallenge(p, c, what)
    PROVE  PasskeyInvariant'
<1>1. /\ challenges[c] \in Challenge /\ challenges[c].at = "live"
      /\ UNCHANGED <<passkeys, shown, answered, deleted, raced>>
      /\ challenges' = [challenges EXCEPT ![c].at = "spent"]
  BY DEF SpendChallenge, PasskeyInvariant, PasskeyTypeOK
<1>2. /\ challenges'[c] = [challenges[c] EXCEPT !.at = "spent"]
      /\ challenges'[c] \in Challenge
      /\ \A x \in Challenges \ {c} : challenges'[x] = challenges[x]
  BY <1>1 DEF PasskeyInvariant, PasskeyTypeOK, Challenge
<1>3. PICK r \in {Quiet, what} : /\ ceremony' = [ceremony EXCEPT ![p] = r]
                                 /\ r = what => challenges[c].purpose = what.purpose
  <2>1. Quiet # what BY DEF Quiet, Registering, Asserting
  <2>2. CASE Becomes(p, Quiet) BY <2>1, <2>2 DEF Becomes
  <2>3. CASE challenges[c].purpose = what.purpose /\ Becomes(p, what) BY <2>3 DEF Becomes
  <2> QED BY <2>2, <2>3 DEF SpendChallenge
<1>4. ceremony'[p] = r /\ \A q \in Ceremonies \ {p} : ceremony'[q] = ceremony[q]
  BY <1>3 DEF PasskeyInvariant, PasskeyTypeOK
<1>5. PasskeyTypeOK'
  BY <1>1, <1>2, <1>3 DEF PasskeyInvariant, PasskeyTypeOK, Doings
<1>6. \A q \in Ceremonies : HasChallenge(q) => ceremony[q].challenge \in Challenges \ {c}
  <2> SUFFICES ASSUME NEW q \in Ceremonies, HasChallenge(q) PROVE ceremony[q].challenge \in Challenges \ {c}
    OBVIOUS
  <2>1. ceremony[q] \in Doings BY DEF PasskeyInvariant, PasskeyTypeOK
  <2>2. ceremony[q].challenge \in Challenges BY <2>1, DoingShape DEF HasChallenge, Advancing
  <2> QED BY <1>1, <2>2 DEF PasskeyInvariant, CeremonySound
<1>7. \A a \in answered : a.challenge # c
  BY <1>1 DEF PasskeyInvariant, AnswerSound
<1>8. CeremonySound(p)'
  <2> SUFFICES ASSUME HasChallenge(p)' PROVE CeremonySound(p)' BY DEF CeremonySound
  <2>1. r = what BY <1>3, <1>4 DEF HasChallenge, Quiet
  <2>2. challenges'[c].at = "spent" /\ challenges'[c].purpose = what.purpose
    BY <1>2, <1>3, <2>1 DEF Challenge
  <2>3. \A q \in Ceremonies \ {p} : HasChallenge(q)' => ceremony'[q].challenge # c
    BY <1>4, <1>6 DEF HasChallenge
  <2> QED BY <1>1, <1>4, <1>7, <2>1, <2>2, <2>3 DEF CeremonySound
<1>9. \A q \in Ceremonies \ {p} : CeremonySound(q)'
  <2> SUFFICES ASSUME NEW q \in Ceremonies \ {p}, HasChallenge(q) PROVE CeremonySound(q)'
    BY <1>4 DEF CeremonySound, HasChallenge
  <2>1. ceremony[q].challenge # c /\ ceremony'[q] = ceremony[q] BY <1>4, <1>6
  <2>2. HasChallenge(p)' => ceremony'[p].challenge = c BY <1>3, <1>4 DEF HasChallenge, Quiet
  <2>3. challenges'[ceremony[q].challenge] = challenges[ceremony[q].challenge] BY <1>2, <1>6
  <2>4. \A x \in Ceremonies \ {p, q} : HasChallenge(x)' => ceremony'[x].challenge # ceremony[q].challenge
    BY <1>4 DEF HasChallenge, PasskeyInvariant, CeremonySound
  <2> QED BY <1>1, <2>1, <2>2, <2>3, <2>4 DEF PasskeyInvariant, CeremonySound
<1>10. \A a \in answered' : AnswerSound(a)'
  BY <1>1, <1>2, <1>7 DEF PasskeyInvariant, PasskeyTypeOK, AnswerSound
<1>11. \A q \in Ceremonies : ceremony'[q].at = "delete" => ceremony'[q] = ceremony[q]
  BY <1>3, <1>4 DEF Quiet
<1>12. DeletedKeysStayDead' /\ \A x \in NeedsAKey' : Unstranded(x)'
  BY <1>1, <1>11, KeysKept DEF NeedsAKey
<1> QED BY <1>5, <1>8, <1>9, <1>10, <1>12 DEF PasskeyInvariant

\* What was read of the challenge and of the row is what the ceremony goes on with.
LEMMA CheckKeeps ==
    ASSUME PasskeyInvariant, NEW p \in Ceremonies,
           CheckAttestation(p) \/ CheckAssertion(p) \/ CeremonyDies(p)
    PROVE  PasskeyInvariant'
<1>1. UNCHANGED <<passkeys, shown, challenges, answered, deleted, raced>>
  BY DEF CheckAttestation, CheckAssertion, CeremonyDies
<1>2. PICK r \in Doings :
        /\ ceremony' = [ceremony EXCEPT ![p] = r]
        /\ r.at # "delete"
        /\ r.at \in Advancing =>
              /\ HasChallenge(p)
              /\ r.challenge = ceremony[p].challenge /\ r.purpose = ceremony[p].purpose
              /\ r.at = "put" => challenges[r.challenge].user = r.user
              /\ r.at = "use" => r.purpose = "login" \/ challenges[r.challenge].user = r.user
  <2>1. ceremony[p] \in Doings BY DEF PasskeyInvariant, PasskeyTypeOK
  <2>2. CASE Becomes(p, Quiet)
    <3>1. Quiet \in Doings /\ Quiet.at = "idle" BY DEF Doings, Quiet
    <3> QED BY <2>2, <3>1 DEF Becomes, Advancing
  <2>3. CASE CheckAttestation(p) /\ ~Becomes(p, Quiet)
    <3> DEFINE r == [ceremony[p] EXCEPT !.at = "put"]
    <3>1. ceremony[p] \in Registering BY <2>1, <2>3, DoingShape DEF CheckAttestation, Busy
    <3>2. Becomes(p, r) /\ challenges[ceremony[p].challenge].user = ceremony[p].user /\ ceremony[p].at = "attested"
      BY <2>3 DEF CheckAttestation, Busy
    <3>3. /\ r \in Registering /\ r.at = "put"
          /\ r.challenge = ceremony[p].challenge /\ r.purpose = ceremony[p].purpose /\ r.user = ceremony[p].user
      BY <3>1 DEF Registering
    <3> QED BY <3>2, <3>3 DEF Becomes, HasChallenge, Doings
  <2>4. CASE CheckAssertion(p) /\ ~Becomes(p, Quiet)
    <3>1. ceremony[p] \in Asserting BY <2>1, <2>4, DoingShape DEF CheckAssertion, Busy
    <3>2. PICK u \in PasskeyUsers : /\ CredentialFor(ceremony[p], u) /\ ceremony[p].at = "asserted"
                                    /\ Becomes(p, [ceremony[p] EXCEPT !.at = "use", !.user = u])
      BY <2>4 DEF CheckAssertion, Busy, FindByCredentialId
    <3> DEFINE r == [ceremony[p] EXCEPT !.at = "use", !.user = u]
    <3>3. /\ r \in Using /\ r.at = "use" /\ r.user = u
          /\ r.challenge = ceremony[p].challenge /\ r.purpose = ceremony[p].purpose
      BY <3>1 DEF Asserting, Using
    <3>4. r.purpose = "login" \/ challenges[r.challenge].user = r.user
      BY <3>2, <3>3 DEF CredentialFor
    <3> QED BY <3>2, <3>3, <3>4 DEF Becomes, HasChallenge, Doings
  <2> QED BY <2>2, <2>3, <2>4 DEF CeremonyDies
<1>3. PasskeyTypeOK' BY <1>1, <1>2 DEF PasskeyInvariant, PasskeyTypeOK
<1>4. /\ \A q \in Ceremonies : CeremonySound(q)'
      /\ \A a \in answered' : AnswerSound(a)'
  BY <1>1, <1>2, CeremoniesKept
<1>5. \A q \in Ceremonies : ceremony'[q].at = "delete" => ceremony'[q] = ceremony[q]
  BY <1>2 DEF PasskeyInvariant, PasskeyTypeOK
<1>6. DeletedKeysStayDead' /\ \A x \in NeedsAKey' : Unstranded(x)'
  BY <1>1, <1>5, KeysKept DEF NeedsAKey
<1> QED BY <1>3, <1>4, <1>6 DEF PasskeyInvariant

\* The ceremony that ends is the only one of its challenge.
LEMMA AnswersKept ==
    ASSUME PasskeyInvariant, NEW p \in Ceremonies, ceremony[p].at \in {"put", "use"},
           challenges' = challenges, ceremony' = [ceremony EXCEPT ![p] = Quiet],
           answered \subseteq answered',
           \A a \in answered' \ answered :
              /\ a.challenge = ceremony[p].challenge /\ a.user = ceremony[p].user
              /\ a.purpose = ceremony[p].purpose
              /\ answered' = answered \cup {a}
    PROVE  /\ \A q \in Ceremonies : CeremonySound(q)'
           /\ \A b \in answered' : AnswerSound(b)'
           /\ \A b \in answered' : b.challenge \in Challenges
<1>1. ceremony'[p] = Quiet /\ \A q \in Ceremonies \ {p} : ceremony'[q] = ceremony[q]
  BY DEF PasskeyInvariant, PasskeyTypeOK
<1>2. ceremony[p].challenge \in Challenges
  <2>1. ceremony[p] \in Doings BY DEF PasskeyInvariant, PasskeyTypeOK
  <2> QED BY <2>1, DoingShape DEF Advancing
<1>3. CeremonySound(p) /\ HasChallenge(p) BY DEF PasskeyInvariant, HasChallenge
<1>4. CeremonySound(p)' BY <1>1 DEF CeremonySound, HasChallenge, Quiet
<1>5. ASSUME NEW q \in Ceremonies \ {p}, HasChallenge(q)' PROVE CeremonySound(q)'
  <2>1. ceremony'[q] = ceremony[q] /\ HasChallenge(q) /\ CeremonySound(q)
    BY <1>1, <1>5 DEF HasChallenge, PasskeyInvariant
  <2>2. ceremony[q].challenge # ceremony[p].challenge BY <1>3, <2>1 DEF CeremonySound
  <2>3. \A x \in Ceremonies \ {q} : HasChallenge(x)' => ceremony'[x].challenge # ceremony[q].challenge
    BY <1>1, <2>1 DEF HasChallenge, CeremonySound, Quiet
  <2>4. \A b \in answered' : b.challenge # ceremony[q].challenge
    BY <2>1, <2>2 DEF CeremonySound
  <2> QED BY <2>1, <2>3, <2>4 DEF CeremonySound
<1>6. \A b \in answered' : AnswerSound(b)'
  <2>1. \A b \in answered : b.challenge # ceremony[p].challenge BY <1>3 DEF CeremonySound
  <2>2. ASSUME NEW a \in answered' \ answered PROVE AnswerSound(a)'
    <3>1. /\ challenges[a.challenge].at = "spent" /\ challenges[a.challenge].purpose = a.purpose
          /\ a.purpose = "login" \/ challenges[a.challenge].user = a.user
      BY <1>3 DEF CeremonySound, PasskeyInvariant, PasskeyTypeOK, Challenge
    <3> QED BY <2>1, <3>1 DEF AnswerSound
  <2>3. \A b \in answered : AnswerSound(b)' BY <2>1 DEF AnswerSound, PasskeyInvariant
  <2> QED BY <2>2, <2>3
<1>7. \A b \in answered' : b.challenge \in Challenges BY <1>2 DEF PasskeyInvariant, PasskeyTypeOK
<1> QED BY <1>4, <1>5, <1>6, <1>7 DEF CeremonySound

\* A registration puts a key where no row is, and so takes none away.
LEMMA PutKeeps ==
    ASSUME PasskeyInvariant, NEW p \in Ceremonies, PutPasskey(p)
    PROVE  PasskeyInvariant'
<1> DEFINE r == ceremony[p]
           i == <<r.user, r.credential>>
           a == [challenge |-> r.challenge, by |-> p, user |-> r.user, purpose |-> "register"]
<1>1. r \in Doings /\ r.at = "put" BY DEF PutPasskey, Busy, PasskeyInvariant, PasskeyTypeOK
<1>2. r \in Registering BY <1>1, DoingShape
<1>3. i \in Ids /\ r.purpose = "register" BY <1>2 DEF Registering, Ids
<1>4. /\ challenges' = challenges /\ raced' = raced /\ ceremony' = [ceremony EXCEPT ![p] = Quiet]
      /\ answered' \in {answered, answered \cup {a}}
  BY DEF PutPasskey, Becomes
<1>5. /\ \A q \in Ceremonies : CeremonySound(q)'
      /\ \A b \in answered' : AnswerSound(b)'
      /\ \A b \in answered' : b.challenge \in Challenges
  <2>1. /\ ceremony[p].at \in {"put", "use"}
        /\ a.challenge = ceremony[p].challenge /\ a.user = ceremony[p].user /\ a.purpose = ceremony[p].purpose
    BY <1>1, <1>3
  <2> HIDE DEF a
  <2>2. /\ challenges' = challenges /\ ceremony' = [ceremony EXCEPT ![p] = Quiet]
        /\ answered \subseteq answered'
        /\ \A b \in answered' \ answered : b = a /\ answered' = answered \cup {b}
    BY <1>4
  <2> HIDE DEF r, i, a
  <2> QED BY <2>1, <2>2, AnswersKept
<1>6. /\ Row(0) \in KeyRow /\ Row(0).key /\ Row(0).there
      /\ \A q \in Ceremonies : ceremony'[q].at = "delete" => ceremony'[q] = ceremony[q]
  BY <1>4 DEF KeyRow, Row, Quiet, PasskeyInvariant, PasskeyTypeOK
<1>7. ceremony' \in [Ceremonies -> Doings] BY <1>4 DEF PasskeyInvariant, PasskeyTypeOK, Doings
<1>8. CASE UNCHANGED <<passkeys, deleted>>
  <2>1. PasskeyTypeOK' BY <1>4, <1>5, <1>7, <1>8 DEF PasskeyInvariant, PasskeyTypeOK
  <2>2. DeletedKeysStayDead' /\ \A x \in NeedsAKey' : Unstranded(x)'
    BY <1>4, <1>6, <1>8, KeysKept DEF NeedsAKey
  <2> QED BY <1>5, <2>1, <2>2 DEF PasskeyInvariant
<1>9. CASE ~passkeys[i].there /\ passkeys' = [passkeys EXCEPT ![i] = Row(0)] /\ deleted' = deleted \ {i}
  <2>1. PasskeyTypeOK' BY <1>3, <1>4, <1>5, <1>6, <1>7, <1>9 DEF PasskeyInvariant, PasskeyTypeOK
  <2>2. passkeys'[i] = Row(0) /\ \A j \in Ids \ {i} : passkeys'[j] = passkeys[j]
    BY <1>3, <1>9 DEF PasskeyInvariant, PasskeyTypeOK
  <2>3. DeletedKeysStayDead' BY <1>9, <2>2 DEF PasskeyInvariant, PasskeyTypeOK, DeletedKeysStayDead
  <2>4. ASSUME NEW u \in NeedsAKey' PROVE Unstranded(u)'
    <3>1. Unstranded(u) /\ u \in PasskeyUsers BY <1>4 DEF NeedsAKey, PasskeyInvariant
    <3>2. \A k \in Credentials : <<u, k>> \in Ids BY <3>1 DEF Ids
    <3>3. \A k \in Credentials : passkeys[<<u, k>>].key => passkeys'[<<u, k>>].key
      BY <1>6, <2>2, <3>2
    <3>4. \A k \in Credentials : passkeys'[<<u, k>>].there => passkeys'[<<u, k>>].key
      BY <1>6, <2>2, <3>1, <3>2 DEF Unstranded
    <3>5. \A q \in Ceremonies :
            Deletes(q, u)' => Deletes(q, u) /\ ceremony'[q].credential = ceremony[q].credential
      BY <1>6 DEF Deletes
    <3>6. \A q, q2 \in Ceremonies : Deletes(q, u)' /\ Deletes(q2, u)' => q = q2
      BY <3>1, <3>5 DEF Unstranded
    <3>7. \A q \in Ceremonies : Deletes(q, u)' =>
            \E k \in Credentials \ {ceremony'[q].credential} : passkeys'[<<u, k>>].key
      BY <3>1, <3>3, <3>5 DEF Unstranded
    <3>8. (\E j \in deleted' : j[1] = u) => \E k \in Credentials : passkeys'[<<u, k>>].key
      BY <1>9, <3>1, <3>3 DEF Unstranded
    <3> QED BY <3>4, <3>6, <3>7, <3>8 DEF Unstranded
  <2> QED BY <1>5, <2>1, <2>3, <2>4 DEF PasskeyInvariant
<1> QED BY <1>8, <1>9 DEF PutPasskey

\* A use puts no key where there is none: a row that a delete took meanwhile comes
\* back as a ghost, and its user is one whose delete met another step.
LEMMA UseKeeps ==
    ASSUME PasskeyInvariant, NEW p \in Ceremonies, RecordPasskeyUse(p)
    PROVE  PasskeyInvariant'
<1> DEFINE r == ceremony[p]
           i == <<r.user, r.credential>>
           a == [challenge |-> r.challenge, by |-> p, user |-> r.user, purpose |-> r.purpose]
<1>1. r \in Doings /\ r.at = "use" BY DEF RecordPasskeyUse, Busy, PasskeyInvariant, PasskeyTypeOK
<1>2. r \in Using BY <1>1, DoingShape
<1>3. i \in Ids /\ r.count \in Nat BY <1>2 DEF Using, Ids
<1>4. /\ challenges' = challenges /\ deleted' = deleted /\ ceremony' = [ceremony EXCEPT ![p] = Quiet]
      /\ answered' \in {answered, answered \cup {a}}
      /\ passkeys' = [passkeys EXCEPT ![i] = RecordUseOf(i, r.count)]
      /\ raced' = IF passkeys[i].there THEN raced ELSE raced \cup {r.user}
  BY DEF RecordPasskeyUse, Becomes
<1>5. /\ \A q \in Ceremonies : CeremonySound(q)'
      /\ \A b \in answered' : AnswerSound(b)'
      /\ \A b \in answered' : b.challenge \in Challenges
  <2>1. /\ ceremony[p].at \in {"put", "use"}
        /\ a.challenge = ceremony[p].challenge /\ a.user = ceremony[p].user /\ a.purpose = ceremony[p].purpose
    BY <1>1
  <2> HIDE DEF a
  <2>2. /\ challenges' = challenges /\ ceremony' = [ceremony EXCEPT ![p] = Quiet]
        /\ answered \subseteq answered'
        /\ \A b \in answered' \ answered : b = a /\ answered' = answered \cup {b}
    BY <1>4
  <2> HIDE DEF r, i, a
  <2> QED BY <2>1, <2>2, AnswersKept
<1>6. /\ RecordUseOf(i, r.count) \in KeyRow
      /\ RecordUseOf(i, r.count).key => passkeys[i].key
      /\ passkeys[i].there => /\ RecordUseOf(i, r.count).key = passkeys[i].key
                              /\ RecordUseOf(i, r.count).there
  <2>1. passkeys[i] \in KeyRow BY <1>3 DEF PasskeyInvariant, PasskeyTypeOK
  <2>2. CASE passkeys[i].there BY <1>3, <2>1, <2>2 DEF RecordUseOf, KeyRow
  <2>3. CASE ~passkeys[i].there BY <1>3, <2>3 DEF RecordUseOf, KeyRow, Ghost
  <2> QED BY <2>2, <2>3
<1>7. passkeys'[i] = RecordUseOf(i, r.count) /\ \A j \in Ids \ {i} : passkeys'[j] = passkeys[j]
  BY <1>3, <1>4 DEF PasskeyInvariant, PasskeyTypeOK
<1>8. PasskeyTypeOK'
  BY <1>3, <1>4, <1>5, <1>6 DEF PasskeyInvariant, PasskeyTypeOK, Doings
<1>9. \A j \in Ids : passkeys'[j].key => passkeys[j].key BY <1>6, <1>7
<1>10. \A q \in Ceremonies : ceremony'[q].at = "delete" => ceremony'[q] = ceremony[q]
  BY <1>4 DEF Quiet, PasskeyInvariant, PasskeyTypeOK
<1>11. ASSUME NEW u \in NeedsAKey', NEW k \in Credentials
       PROVE  /\ passkeys'[<<u, k>>].key = passkeys[<<u, k>>].key
              /\ passkeys'[<<u, k>>].there => passkeys[<<u, k>>].there
  <2>1. <<u, k>> \in Ids BY DEF NeedsAKey, Ids
  <2>2. CASE passkeys[i].there BY <1>6, <1>7, <2>1, <2>2
  <2>3. CASE ~passkeys[i].there
    <3>1. u # r.user BY <1>4, <2>3 DEF NeedsAKey
    <3> QED BY <1>7, <2>1, <3>1
  <2> QED BY <2>2, <2>3
<1>12. raced \subseteq raced' BY <1>4
<1>13. DeletedKeysStayDead' /\ \A x \in NeedsAKey' : Unstranded(x)'
  BY <1>4, <1>9, <1>10, <1>11, <1>12, KeysKept
<1> QED BY <1>5, <1>8, <1>13 DEF PasskeyInvariant

\* A set with two members has one besides any given one.
LEMMA AnotherMember ==
    ASSUME NEW S, NEW x \in S, Cardinality(S) > 1
    PROVE  \E y \in S : y # x
<1> SUFFICES ASSUME S = {x} PROVE FALSE OBVIOUS
<1> QED BY FS_Singleton

\* A delete that starts alone leaves a key besides the one it names.
LEMMA StartDeleteKeeps ==
    ASSUME PasskeyInvariant, NEW p \in Ceremonies, NEW u \in PasskeyUsers, NEW k \in Credentials,
           StartDelete(p, u, k)
    PROVE  PasskeyInvariant'
<1> DEFINE r == [at |-> "delete", user |-> u, credential |-> k]
<1>1. /\ UNCHANGED <<passkeys, shown, challenges, answered, deleted>>
      /\ ceremony' = [ceremony EXCEPT ![p] = r]
      /\ raced \subseteq raced'
      /\ (\E q \in Ceremonies : Deletes(q, u)) => u \in raced'
      /\ ceremony[p].at = "idle" /\ k \in ListForUser(u)
      /\ Cardinality(ListForUser(u)) > 1 \/ u \in PasswordUsers
  BY DEF StartDelete, Becomes, Busy, Deletes
<1>2. ceremony'[p] = r /\ \A q \in Ceremonies \ {p} : ceremony'[q] = ceremony[q]
  BY <1>1 DEF PasskeyInvariant, PasskeyTypeOK
<1>3. PasskeyTypeOK' BY <1>1 DEF PasskeyInvariant, PasskeyTypeOK, Doings, Deleting
<1>4. /\ \A q \in Ceremonies : CeremonySound(q)'
      /\ \A a \in answered' : AnswerSound(a)'
  <2>1. r.at \notin Advancing BY DEF Advancing
  <2> HIDE DEF r
  <2> QED BY <1>1, <2>1, CeremoniesKept
<1>5. DeletedKeysStayDead' BY <1>1 DEF PasskeyInvariant, DeletedKeysStayDead
<1>6. ASSUME NEW v \in NeedsAKey' PROVE Unstranded(v)'
  <2>1. Unstranded(v) BY <1>1, <1>6 DEF NeedsAKey, PasskeyInvariant
  <2>2. CASE v # u
    <3>1. \A q \in Ceremonies : Deletes(q, v)' => Deletes(q, v) /\ ceremony'[q] = ceremony[q]
      BY <1>2, <2>2 DEF Deletes
    <3> QED BY <1>1, <2>1, <3>1 DEF Unstranded
  <2>3. CASE v = u
    <3>1. \A q \in Ceremonies : ~Deletes(q, u) BY <1>1, <2>3 DEF NeedsAKey
    <3>2. \A q \in Ceremonies : Deletes(q, u)' => q = p BY <1>2, <3>1 DEF Deletes
    <3>3. PICK k2 \in ListForUser(u) : k2 # k
      <4>1. Cardinality(ListForUser(u)) > 1 BY <1>1, <2>3 DEF NeedsAKey
      <4> QED BY <1>1, <4>1, AnotherMember
    <3>4. k2 \in Credentials \ {k} /\ passkeys[<<u, k2>>].key
      BY <2>1, <2>3, <3>3 DEF ListForUser, Unstranded
    <3> QED BY <1>1, <1>2, <2>1, <2>3, <3>2, <3>4 DEF Unstranded
  <2> QED BY <2>2, <2>3
<1> QED BY <1>3, <1>4, <1>5, <1>6 DEF PasskeyInvariant

\* A delete takes the row it named; its spare is still there.
LEMMA DeleteKeeps ==
    ASSUME PasskeyInvariant, NEW p \in Ceremonies, DeletePasskey(p)
    PROVE  PasskeyInvariant'
<1> DEFINE r == ceremony[p]
           i == <<r.user, r.credential>>
<1>1. r \in Doings /\ r.at = "delete" BY DEF DeletePasskey, Busy, PasskeyInvariant, PasskeyTypeOK
<1>2. r \in Deleting BY <1>1, DoingShape
<1>3. i \in Ids /\ Deletes(p, r.user) BY <1>1, <1>2 DEF Deleting, Ids, Deletes
<1>4. /\ UNCHANGED <<shown, challenges, answered, raced>>
      /\ ceremony' = [ceremony EXCEPT ![p] = Quiet]
      /\ passkeys' = [passkeys EXCEPT ![i] = None]
      /\ deleted' \in {deleted, deleted \cup {i}}
  BY DEF DeletePasskey, Becomes
<1>5. /\ None \in KeyRow /\ ~None.key /\ ~None.there
      /\ passkeys'[i] = None /\ \A j \in Ids \ {i} : passkeys'[j] = passkeys[j]
  BY <1>3, <1>4 DEF None, KeyRow, PasskeyInvariant, PasskeyTypeOK
<1>6. ceremony'[p] = Quiet /\ \A q \in Ceremonies \ {p} : ceremony'[q] = ceremony[q]
  BY <1>4 DEF PasskeyInvariant, PasskeyTypeOK
<1>7. PasskeyTypeOK' BY <1>3, <1>4, <1>5 DEF PasskeyInvariant, PasskeyTypeOK, Doings
<1>8. /\ \A q \in Ceremonies : CeremonySound(q)'
      /\ \A a \in answered' : AnswerSound(a)'
  <2>1. Quiet.at \notin Advancing BY DEF Quiet, Advancing
  <2> QED BY <1>4, <2>1, CeremoniesKept
<1>9. DeletedKeysStayDead'
  BY <1>4, <1>5 DEF PasskeyInvariant, PasskeyTypeOK, DeletedKeysStayDead
<1>10. ASSUME NEW v \in NeedsAKey' PROVE Unstranded(v)'
  <2>1. Unstranded(v) /\ v \in PasskeyUsers BY <1>4, <1>10 DEF NeedsAKey, PasskeyInvariant
  <2>2. \A k \in Credentials : <<v, k>> \in Ids BY <2>1 DEF Ids
  <2>3. \A q \in Ceremonies : Deletes(q, v)' => q # p /\ Deletes(q, v) /\ ceremony'[q] = ceremony[q]
    BY <1>6 DEF Deletes, Quiet
  <2>4. \A k \in Credentials : passkeys'[<<v, k>>].there => passkeys'[<<v, k>>].key
    BY <1>5, <2>1, <2>2 DEF Unstranded
  <2>5. \A q, q2 \in Ceremonies : Deletes(q, v)' /\ Deletes(q2, v)' => q = q2
    BY <2>1, <2>3 DEF Unstranded
  <2>6. CASE v # r.user
    <3>1. \A k \in Credentials : passkeys'[<<v, k>>] = passkeys[<<v, k>>] BY <1>5, <2>2, <2>6
    <3>2. \A q \in Ceremonies : Deletes(q, v)' =>
            \E k \in Credentials \ {ceremony'[q].credential} : passkeys'[<<v, k>>].key
      BY <2>1, <2>3, <3>1 DEF Unstranded
    <3>3. (\E j \in deleted' : j[1] = v) => (\E j \in deleted : j[1] = v) BY <1>4, <2>6
    <3> QED BY <2>1, <2>4, <2>5, <3>1, <3>2, <3>3 DEF Unstranded
  <2>7. CASE v = r.user
    <3>1. \A q \in Ceremonies : ~Deletes(q, v)' BY <1>3, <2>1, <2>3, <2>7 DEF Unstranded
    <3>2. PICK k \in Credentials \ {r.credential} : passkeys[<<v, k>>].key
      BY <1>3, <2>1, <2>7 DEF Unstranded
    <3>3. passkeys'[<<v, k>>].key BY <1>5, <2>2, <3>2
    <3> QED BY <2>4, <2>5, <3>1, <3>3 DEF Unstranded
  <2> QED BY <2>6, <2>7
<1> QED BY <1>7, <1>8, <1>9, <1>10 DEF PasskeyInvariant

\* No passkey is registered and nobody is at a ceremony.
LEMMA PasskeyStarts == PasskeyInit => PasskeyInvariant
<1> SUFFICES ASSUME PasskeyInit PROVE PasskeyInvariant OBVIOUS
<1>1. None \in KeyRow /\ ~None.key /\ ~None.there BY DEF None, KeyRow
<1>2. \A p \in Ceremonies : ceremony[p] = Quiet /\ Quiet.at = "idle" BY DEF PasskeyInit, Quiet
<1>3. PasskeyTypeOK BY <1>1 DEF PasskeyInit, PasskeyTypeOK, Doings
<1>4. \A p \in Ceremonies : CeremonySound(p) BY <1>2 DEF CeremonySound, HasChallenge
<1>5. \A i \in Ids : passkeys[i] = None BY DEF PasskeyInit
<1>6. \A u \in PasskeyUsers : Unstranded(u)
  BY <1>1, <1>2, <1>5 DEF PasskeyInit, Unstranded, Deletes, Ids
<1> QED BY <1>3, <1>4, <1>6 DEF PasskeyInit, PasskeyInvariant, DeletedKeysStayDead, NeedsAKey

\* Every step of the passkey service keeps it.
LEMMA PasskeyKeeps == PasskeyInvariant /\ [PasskeyNext]_keyVars => PasskeyInvariant'
<1> SUFFICES ASSUME PasskeyInvariant, [PasskeyNext]_keyVars PROVE PasskeyInvariant' OBVIOUS
<1>1. CASE UNCHANGED keyVars
  BY <1>1 DEF keyVars, PasskeyInvariant, PasskeyTypeOK, CeremonySound, HasChallenge, AnswerSound,
              DeletedKeysStayDead, NeedsAKey, Unstranded, Deletes
<1>2. CASE BeginLogin \/ \E u \in PasskeyUsers : BeginRegistration(u) \/ BeginStepUp(u)
  BY <1>2, NewChallengeKeeps DEF BeginLogin, BeginRegistration, BeginStepUp
<1>3. ASSUME NEW p \in Ceremonies, NEW c \in Challenges, NEW k \in Credentials, NEW u \in PasskeyUsers,
             FinishRegistration(p, c, u, k)
      PROVE  PasskeyInvariant'
  <2> DEFINE r == [at |-> "attested", purpose |-> "register", challenge |-> c, user |-> u, credential |-> k]
  <2>1. r \in Registering /\ r.at = "attested" /\ r.challenge = c BY DEF Registering
  <2>2. SpendChallenge(p, c, r) BY <1>3 DEF FinishRegistration
  <2> HIDE DEF r
  <2> QED BY <2>1, <2>2, SpendKeeps
<1>4. ASSUME NEW p \in Ceremonies, NEW c \in Challenges, NEW k \in Credentials, NEW n \in 0..MaxCount,
             LoginWithPasskey(p, c, k, n) \/ \E u \in PasskeyUsers : FinishStepUp(p, c, u, k, n)
      PROVE  PasskeyInvariant'
  <2>1. n \in Nat BY CountsAreNumbers
  <2>2. PICK purpose \in {"login", "step_up"}, u \in PasskeyUsers \cup {""} :
          SpendChallenge(p, c, [at |-> "asserted", purpose |-> purpose, challenge |-> c, user |-> u,
                                credential |-> k, count |-> n])
    <3>1. CASE LoginWithPasskey(p, c, k, n) BY <3>1 DEF LoginWithPasskey
    <3>2. CASE \E u \in PasskeyUsers : FinishStepUp(p, c, u, k, n) BY <3>2 DEF FinishStepUp
    <3> QED BY <1>4, <3>1, <3>2
  <2> DEFINE r == [at |-> "asserted", purpose |-> purpose, challenge |-> c, user |-> u,
                   credential |-> k, count |-> n]
  <2>3. r \in Asserting /\ r.at = "asserted" /\ r.challenge = c BY <2>1 DEF Asserting
  <2>4. SpendChallenge(p, c, r) BY <2>2
  <2> HIDE DEF r
  <2> QED BY <2>3, <2>4, SpendKeeps
<1>5. CASE IndexPasskey
  BY <1>5 DEF IndexPasskey, PasskeyInvariant, PasskeyTypeOK, CeremonySound, HasChallenge, AnswerSound,
              DeletedKeysStayDead, NeedsAKey, Unstranded, Deletes
<1> QED BY <1>1, <1>2, <1>3, <1>4, <1>5, CheckKeeps, PutKeeps, UseKeeps, StartDeleteKeeps, DeleteKeeps
        DEF PasskeyNext

\* A challenge answers one ceremony, of its purpose and its subject; a passkey
\* that was deleted never answers again, whatever use of it was in flight; and an
\* account without a password keeps a key unless its deletes raced, for any number
\* of requests over an index that lags (passkeys.PasskeyService).
THEOREM PasskeysSound == PasskeySpec => []PasskeysAnswerForThemselves
<1>1. PasskeyInvariant => PasskeysAnswerForThemselves
  BY DEF PasskeyInvariant, AnswerSound, NeedsAKey, Unstranded, PasskeysAnswerForThemselves,
         ChallengesAnswerOnce, StrandedOnlyByARace
<1> QED BY <1>1, PasskeyStarts, PasskeyKeeps, PTL DEF PasskeySpec

-----------------------------------------------------------------------------
(* Authenticator codes, recovery codes and login tickets.                  *)

TotpShape == {"totp"} \X Nat \X Nat
RecoveryShape == {"recovery"} \X Nat \X Nat
Shape == TotpShape \cup RecoveryShape
Stages == {"idle", "verify", "record use", "issue", "drop factor", "drop all codes", "drop codes",
           "put codes", "put factor", "activate"}
Purposes == {"login", "step_up", "disable", "regenerate"}
Request == [at : Stages, op : Purposes \cup {"", "confirm"}, code : Shape \cup {<<>>, <<"swk">>},
            ticket : Tickets \cup {""}]

\* What the service and its requests keep.
MfaTypeOK ==
    /\ step \in Nat /\ seeds \in Nat /\ sets \in Nat
    /\ factor \in [state : {"none", "pending", "active"}, seed : Nat, last : Nat]
    /\ codes \subseteq [code : RecoveryShape, used : BOOLEAN]
    /\ tickets \in [Tickets -> {"none", "live", "spent"}]
    /\ request \in [MfaRequests -> Request]
    /\ DOMAIN accepted \subseteq Shape
    /\ accepted \in [DOMAIN accepted -> Nat]
    /\ replaced \subseteq RecoveryShape

\* A code was generated by the enrolment or the set it names.
Generated(c) == c[2] <= IF c[1] = "totp" THEN seeds ELSE sets

\* A code of the enrolment in force was accepted once, once it was confirmed, and
\* the watermark has passed it; a recovery code was accepted once and is not unused.
AcceptedSound(c) ==
    /\ Generated(c)
    /\ c[1] = "totp" /\ factor.state # "none" /\ c[2] = factor.seed =>
          accepted[c] = 1 /\ factor.state = "active" /\ c[3] <= factor.last
    /\ c[1] = "recovery" => accepted[c] = 1 /\ [code |-> c, used |-> FALSE] \notin codes

\* A request proves the code it was given, and a use it is about to record is never
\* of an enrolment still pending.
RequestSound(p) ==
    LET r == request[p]
    IN /\ r.at = "verify" => r.op \in Purposes /\ r.code \in Shape
       /\ r.at = "record use" => /\ r.op \in Purposes /\ r.code \in TotpShape /\ Generated(r.code)
                                 /\ factor.state = "pending" => r.code[2] # factor.seed
       /\ r.at = "activate" => r.code \in TotpShape /\ Generated(r.code)
       /\ r.at = "issue" => r.op = "login"

\* The requests of a login whose ticket is spent.
Holds(r) == r.at \in {"verify", "record use", "issue"} /\ r.op = "login"

\* A login holds a ticket that is spent, alone, and before any session of it.
HolderSound(p) ==
    Holds(request[p]) =>
        LET t == request[p].ticket
        IN /\ t \in Tickets /\ tickets[t] = "spent"
           /\ \A q \in MfaRequests \ {p} : Holds(request[q]) => request[q].ticket # t
           /\ \A s \in sessions : s.ticket # t

\* A session is the only one of its ticket, which is spent.
SessionSound(s) ==
    /\ s.ticket \in Tickets /\ tickets[s.ticket] = "spent"
    /\ \A s2 \in sessions : s2.ticket = s.ticket => s2 = s

MfaInvariant ==
    /\ MfaTypeOK
    /\ factor.seed <= seeds
    /\ \A c \in DOMAIN accepted : AcceptedSound(c)
    /\ \A row \in codes : Generated(row.code) /\ row.code \notin replaced
    /\ \A c \in replaced : Generated(c)
    /\ \A p \in MfaRequests : RequestSound(p) /\ HolderSound(p)
    /\ \A s \in sessions : SessionSound(s)

\* The codes a device has shown and a printout lists.
LEMMA Shown ==
    ASSUME MfaTypeOK
    PROVE  /\ \A c \in TotpCodes : c \in TotpShape /\ c[1] = "totp" /\ c[2] <= seeds
           /\ \A n \in Nat : \A c \in RecoverySet(n) : c \in RecoveryShape /\ c[1] = "recovery" /\ c[2] = n
           /\ Presentable \subseteq Shape
<1>1. \A c \in TotpCodes : c \in TotpShape /\ c[1] = "totp" /\ c[2] <= seeds
  BY DEF MfaTypeOK, TotpCodes, TotpShape
<1>2. ASSUME NEW n \in Nat, NEW c \in RecoverySet(n)
      PROVE  c \in RecoveryShape /\ c[1] = "recovery" /\ c[2] = n
  BY CodesAreNumbered DEF RecoverySet, RecoveryShape
<1>3. 1..sets \subseteq Nat BY DEF MfaTypeOK
<1>4. Presentable \subseteq Shape BY <1>1, <1>2, <1>3 DEF Presentable, Shape
<1> QED BY <1>1, <1>2, <1>4

\* A code is of one kind.
LEMMA Kinds ==
    /\ \A c \in TotpShape : c[1] = "totp" /\ c[2] \in Nat /\ c[3] \in Nat
    /\ \A c \in RecoveryShape : c[1] = "recovery" /\ c[2] \in Nat /\ c[3] \in Nat
    /\ \A c \in Shape : (c[1] = "totp" <=> c \in TotpShape) /\ (c[1] = "recovery" <=> c \in RecoveryShape)
BY DEF TotpShape, RecoveryShape, Shape

\* What an acceptance adds to the history.
LEMMA AcceptShape ==
    ASSUME MfaTypeOK, NEW c \in Shape, Accept(c)
    PROVE  /\ DOMAIN accepted' = DOMAIN accepted \cup {c}
           /\ DOMAIN accepted' \subseteq Shape
           /\ accepted' \in [DOMAIN accepted' -> Nat]
           /\ \A d \in DOMAIN accepted \ {c} : accepted'[d] = accepted[d]
           /\ c \notin DOMAIN accepted => accepted'[c] = 1
<1>1. Count(c) \in Nat /\ (c \notin DOMAIN accepted => Count(c) = 0) BY DEF MfaTypeOK, Count
<1>2. accepted' = [d \in DOMAIN accepted \cup {c} |-> IF d = c THEN Count(c) + 1 ELSE accepted[d]]
  BY DEF Accept
<1>3. \A d \in DOMAIN accepted : accepted[d] \in Nat BY DEF MfaTypeOK
<1>4. DOMAIN accepted' = DOMAIN accepted \cup {c} BY <1>2
<1>5. accepted' \in [DOMAIN accepted \cup {c} -> Nat] BY <1>1, <1>2, <1>3
<1> QED BY <1>1, <1>2, <1>4, <1>5 DEF MfaTypeOK

\* A request that moves on, keeps the ticket it holds or lets it go.
LEMMA HoldersKept ==
    ASSUME MfaInvariant, NEW p \in MfaRequests, NEW r \in Request,
           request' = [request EXCEPT ![p] = r], UNCHANGED <<tickets, sessions>>,
           Holds(r) => Holds(request[p]) /\ r.ticket = request[p].ticket
    PROVE  /\ request' \in [MfaRequests -> Request]
           /\ request'[p] = r /\ \A q \in MfaRequests \ {p} : request'[q] = request[q]
           /\ \A q \in MfaRequests : HolderSound(q)'
           /\ \A s \in sessions' : SessionSound(s)'
<1>1. request' \in [MfaRequests -> Request] BY DEF MfaInvariant, MfaTypeOK
<1>2. request'[p] = r /\ \A q \in MfaRequests \ {p} : request'[q] = request[q]
  BY DEF MfaInvariant, MfaTypeOK
<1>3. \A q \in MfaRequests : Holds(request'[q]) => Holds(request[q]) /\ request'[q].ticket = request[q].ticket
  BY <1>2
<1>4. \A q \in MfaRequests : HolderSound(q) BY DEF MfaInvariant
<1>5. \A q \in MfaRequests : HolderSound(q)'
  <2> SUFFICES ASSUME NEW q \in MfaRequests, Holds(request'[q]) PROVE HolderSound(q)'
    BY DEF HolderSound
  <2>1. Holds(request[q]) /\ request'[q].ticket = request[q].ticket /\ HolderSound(q) BY <1>3, <1>4
  <2>2. \A x \in MfaRequests \ {q} : Holds(request'[x]) => request'[x].ticket # request'[q].ticket
    BY <1>3, <2>1 DEF HolderSound
  <2> QED BY <2>1, <2>2 DEF HolderSound
<1>6. \A s \in sessions' : SessionSound(s)' BY DEF MfaInvariant, SessionSound
<1> QED BY <1>1, <1>2, <1>5, <1>6

LEMMA Successor == \A m, n \in Nat : n <= m => n # m + 1
OBVIOUS

\* A request that stays where it is minds neither a new enrolment nor a new set.
LEMMA OthersKept ==
    ASSUME MfaInvariant, NEW q \in MfaRequests, request'[q] = request[q],
           seeds' \in Nat, sets' \in Nat, seeds <= seeds', sets <= sets',
           factor'.state = "pending" =>
              \/ factor.state = "pending" /\ factor'.seed = factor.seed
              \/ factor'.seed = seeds + 1
    PROVE  RequestSound(q)'
<1>1. RequestSound(q) /\ seeds \in Nat /\ sets \in Nat BY DEF MfaInvariant, MfaTypeOK
<1>2. ASSUME NEW c \in TotpShape, Generated(c) PROVE c[2] \in Nat /\ c[2] <= seeds /\ Generated(c)'
  BY <1>1, <1>2, Kinds DEF Generated
<1>3. request[q].at = "record use" /\ factor'.state = "pending" => request[q].code[2] # factor'.seed
  <2> SUFFICES ASSUME request[q].at = "record use", factor'.state = "pending"
               PROVE  request[q].code[2] # factor'.seed
    OBVIOUS
  <2>1. /\ request[q].code[2] \in Nat /\ request[q].code[2] <= seeds
        /\ factor.state = "pending" => request[q].code[2] # factor.seed
    BY <1>1, <1>2 DEF RequestSound
  <2>2. CASE factor.state = "pending" /\ factor'.seed = factor.seed BY <2>1, <2>2
  <2>3. CASE factor'.seed = seeds + 1
    <3> QED BY <1>1, <2>1, <2>3, Successor, Zenon
  <2> QED BY <2>2, <2>3
<1> QED BY <1>1, <1>2, <1>3 DEF RequestSound

\* A step of one request that touches only that request.
LEMMA RequestMoves ==
    ASSUME MfaInvariant, NEW p \in MfaRequests, NEW r \in Request,
           request' = [request EXCEPT ![p] = r],
           UNCHANGED <<step, factor, codes, tickets, seeds, sets, accepted, replaced, sessions>>,
           Holds(r) => Holds(request[p]) /\ r.ticket = request[p].ticket,
           r.at = "verify" => r.op \in Purposes /\ r.code \in Shape,
           r.at = "record use" => r.op \in Purposes /\ r.code \in TotpShape /\ Generated(r.code)
                                  /\ (factor.state = "pending" => r.code[2] # factor.seed),
           r.at = "activate" => r.code \in TotpShape /\ Generated(r.code),
           r.at = "issue" => r.op = "login"
    PROVE  MfaInvariant'
<1>1. /\ request' \in [MfaRequests -> Request]
      /\ request'[p] = r /\ \A q \in MfaRequests \ {p} : request'[q] = request[q]
      /\ \A q \in MfaRequests : HolderSound(q)'
      /\ \A s \in sessions' : SessionSound(s)'
  BY HoldersKept
<1>2. RequestSound(p)' BY <1>1 DEF RequestSound, Generated
<1>3. \A q \in MfaRequests \ {p} : RequestSound(q)' BY <1>1 DEF RequestSound, Generated, MfaInvariant
<1>4. MfaTypeOK' BY <1>1 DEF MfaInvariant, MfaTypeOK
<1> QED BY <1>1, <1>2, <1>3, <1>4 DEF MfaInvariant, AcceptedSound, Generated

\* Idle is a request, and one at a stage of its own is one too.
LEMMA RequestShape ==
    /\ Idle \in Request /\ Idle.at = "idle" /\ ~Holds(Idle)
    /\ \A r \in Request, at \in Stages :
          /\ [r EXCEPT !.at = at] \in Request /\ [r EXCEPT !.at = at].at = at
          /\ [r EXCEPT !.at = at].op = r.op /\ [r EXCEPT !.at = at].code = r.code
          /\ [r EXCEPT !.at = at].ticket = r.ticket
<1>1. Idle \in Request /\ Idle.at = "idle" BY DEF Asking, Request, Idle, Stages
<1>2. ~Holds(Idle) BY <1>1 DEF Holds
<1> QED BY <1>1, <1>2 DEF Request

\* What a proved request may become.
LEMMA ProvedShape ==
    ASSUME MfaInvariant, NEW p \in MfaRequests, request[p].op \in Purposes,
           request[p].at \in {"verify", "record use"}, Proved(p)
    PROVE  /\ sessions' = sessions
           /\ \E r \in Request :
                /\ request' = [request EXCEPT ![p] = r]
                /\ r.at \in {"issue", "idle", "drop factor", "drop codes"}
                /\ r.at = "issue" => r.op = "login"
                /\ Holds(r) => Holds(request[p]) /\ r.ticket = request[p].ticket
<1> DEFINE r(at) == [request[p] EXCEPT !.at = at]
<1>1. request[p] \in Request /\ request \in [MfaRequests -> Request] BY DEF MfaInvariant, MfaTypeOK
<1>2. \A at \in {"issue", "drop factor", "drop codes"} :
        /\ r(at) \in Request /\ r(at).at = at /\ r(at).op = request[p].op /\ r(at).ticket = request[p].ticket
        /\ Goes(p, at) => request' = [request EXCEPT ![p] = r(at)]
  <2> SUFFICES ASSUME NEW at \in {"issue", "drop factor", "drop codes"}
               PROVE  /\ r(at) \in Request /\ r(at).at = at /\ r(at).op = request[p].op
                      /\ r(at).ticket = request[p].ticket
                      /\ Goes(p, at) => request' = [request EXCEPT ![p] = r(at)]
    OBVIOUS
  <2>1. at \in Stages BY DEF Stages
  <2>2. Goes(p, at) => request' = [request EXCEPT ![p] = r(at)] BY DEF Goes
  <2> QED BY <1>1, <2>1, <2>2, RequestShape
<1>3. CASE request[p].op = "login"
  <2>1. Goes(p, "issue") /\ sessions' = sessions BY <1>3 DEF Proved
  <2> QED BY <1>2, <1>3, <2>1 DEF Holds
<1>4. CASE request[p].op = "step_up"
  <2>1. Refused(p) /\ sessions' = sessions BY <1>4 DEF Proved
  <2> QED BY <2>1, RequestShape DEF Refused
<1>5. CASE request[p].op = "disable"
  <2>1. Goes(p, "drop factor") /\ sessions' = sessions BY <1>5 DEF Proved
  <2> QED BY <1>2, <2>1 DEF Holds
<1>6. CASE request[p].op = "regenerate"
  <2>1. Goes(p, "drop codes") /\ sessions' = sessions BY <1>6 DEF Proved
  <2> QED BY <1>2, <2>1 DEF Holds
<1> QED BY <1>3, <1>4, <1>5, <1>6 DEF Purposes

\* A ticket is issued, or a session to an account without a factor.
LEMMA ChallengeKeeps ==
    ASSUME MfaInvariant, NEW t \in Tickets, ChallengeFor(t)
    PROVE  MfaInvariant'
<1> DEFINE s0 == [ticket |-> t, amr |-> AccessTokenAmr({"pwd"})]
<1>1. /\ tickets[t] = "none"
      /\ UNCHANGED <<step, factor, codes, request, seeds, sets, accepted, replaced>>
      /\ \/ tickets' = [tickets EXCEPT ![t] = "live"] /\ sessions' = sessions
         \/ tickets' = [tickets EXCEPT ![t] = "spent"] /\ sessions' = sessions \cup {s0}
  BY DEF ChallengeFor, IssueChallenge
<1>2. /\ tickets' \in [Tickets -> {"none", "live", "spent"}]
      /\ \A x \in Tickets \ {t} : tickets'[x] = tickets[x]
      /\ sessions' # sessions => tickets'[t] = "spent"
  BY <1>1 DEF MfaInvariant, MfaTypeOK
<1>3. MfaTypeOK' BY <1>1, <1>2 DEF MfaInvariant, MfaTypeOK
<1>4. \A s \in sessions : SessionSound(s) /\ s.ticket # t BY <1>1 DEF MfaInvariant, SessionSound
<1>5. s0.ticket = t OBVIOUS
<1>6. \A s \in sessions' : SessionSound(s)'
  <2> HIDE DEF s0
  <2> QED BY <1>1, <1>2, <1>4, <1>5 DEF SessionSound
<1>7. \A p \in MfaRequests : HolderSound(p)'
  <2> SUFFICES ASSUME NEW p \in MfaRequests, Holds(request[p]) PROVE HolderSound(p)'
    BY <1>1 DEF HolderSound
  <2>1. HolderSound(p) /\ request[p].ticket # t BY <1>1 DEF MfaInvariant, HolderSound
  <2> HIDE DEF s0
  <2> QED BY <1>1, <1>2, <1>5, <2>1 DEF HolderSound
<1> QED BY <1>1, <1>3, <1>6, <1>7 DEF MfaInvariant, AcceptedSound, Generated, RequestSound

\* One request takes a live ticket, and only it goes on with that login.
LEMMA RedeemTicketKeeps ==
    ASSUME MfaInvariant, NEW p \in MfaRequests, NEW t \in Tickets,
           CompleteMfaWithPasskey(p, t) \/ \E c \in Presentable : CompleteMfa(p, t, c)
    PROVE  MfaInvariant'
<1>1. /\ tickets[t] = "live" /\ tickets' = [tickets EXCEPT ![t] = "spent"]
      /\ UNCHANGED <<step, factor, codes, seeds, sets, accepted, replaced, sessions>>
  BY DEF CompleteMfaWithPasskey, CompleteMfa, RedeemTicket
<1>2. PICK r \in Request :
        /\ request' = [request EXCEPT ![p] = r]
        /\ \/ r = request[p] /\ r.at = "idle"
           \/ Holds(r) /\ r.ticket = t
        /\ r.at \in {"idle", "verify", "issue"}
        /\ r.at # "idle" => r.op = "login"
        /\ r.at = "verify" => r.code \in Shape
  <2>1. CASE \E c \in Presentable : CompleteMfa(p, t, c)
    <3>1. PICK c \in Presentable :
            request' = [request EXCEPT ![p] = Asking("verify", "login", c, t)]
      BY <2>1 DEF CompleteMfa
    <3>2. c \in Shape BY Shown DEF MfaInvariant
    <3> DEFINE r == Asking("verify", "login", c, t)
    <3>3. r \in Request /\ r.at = "verify" /\ r.op = "login" /\ r.code = c /\ r.ticket = t
      BY <3>2 DEF Asking, Request, Stages, Purposes
    <3>4. request' = [request EXCEPT ![p] = r] BY <3>1
    <3> HIDE DEF r
    <3> QED BY <3>2, <3>3, <3>4 DEF Holds
  <2>2. CASE CompleteMfaWithPasskey(p, t)
    <3>1. \/ request' = [request EXCEPT ![p] = Asking("issue", "login", <<"swk">>, t)]
          \/ request' = request
      BY <2>2 DEF CompleteMfaWithPasskey
    <3>2. request[p].at = "idle" /\ request[p] \in Request /\ request \in [MfaRequests -> Request]
      BY <2>2 DEF CompleteMfaWithPasskey, MfaInvariant, MfaTypeOK
    <3>3. CASE request' = request
      <4>1. request' = [request EXCEPT ![p] = request[p]] BY <3>2, <3>3
      <4>2. request[p].at \notin {"verify", "issue"} BY <3>2
      <4> QED BY <3>2, <4>1, <4>2
    <3>4. CASE request' # request
      <4> DEFINE r == Asking("issue", "login", <<"swk">>, t)
      <4>1. r \in Request /\ r.at = "issue" /\ r.op = "login" /\ r.ticket = t
        BY DEF Asking, Request, Stages, Purposes
      <4>2. request' = [request EXCEPT ![p] = r] BY <3>1, <3>4
      <4> HIDE DEF r
      <4> QED BY <4>1, <4>2 DEF Holds
    <3> QED BY <3>3, <3>4
  <2> QED BY <2>1, <2>2
<1>3. /\ request' \in [MfaRequests -> Request]
      /\ request'[p] = r /\ \A q \in MfaRequests \ {p} : request'[q] = request[q]
      /\ tickets' \in [Tickets -> {"none", "live", "spent"}]
      /\ tickets'[t] = "spent" /\ \A x \in Tickets \ {t} : tickets'[x] = tickets[x]
  BY <1>1, <1>2 DEF MfaInvariant, MfaTypeOK
<1>4. MfaTypeOK' BY <1>1, <1>3 DEF MfaInvariant, MfaTypeOK
<1>5. \A s \in sessions : SessionSound(s) /\ s.ticket # t BY <1>1 DEF MfaInvariant, SessionSound
<1>6. \A s \in sessions' : SessionSound(s)' BY <1>1, <1>3, <1>5 DEF SessionSound
<1>7. \A q \in MfaRequests : Holds(request[q]) => HolderSound(q) /\ request[q].ticket # t
  BY <1>1 DEF MfaInvariant, HolderSound
<1>8. HolderSound(p)'
  <2> SUFFICES ASSUME Holds(r) PROVE HolderSound(p)' BY <1>3 DEF HolderSound
  <2>1. r.ticket = t BY <1>2 DEF Holds
  <2> QED BY <1>1, <1>3, <1>5, <1>7, <2>1 DEF HolderSound
<1>9. \A q \in MfaRequests \ {p} : HolderSound(q)'
  <2> SUFFICES ASSUME NEW q \in MfaRequests \ {p}, Holds(request[q]) PROVE HolderSound(q)'
    BY <1>3 DEF HolderSound
  <2>1. HolderSound(q) /\ request[q].ticket # t BY <1>7
  <2>2. \A x \in MfaRequests \ {q} : Holds(request'[x]) => request'[x].ticket # request[q].ticket
    BY <1>2, <1>3, <2>1 DEF HolderSound, Holds
  <2> QED BY <1>1, <1>3, <2>1, <2>2 DEF HolderSound
<1>10. RequestSound(p)'
  BY <1>2, <1>3 DEF RequestSound, Purposes
<1>11. \A q \in MfaRequests \ {p} : RequestSound(q)'
  <2> SUFFICES ASSUME NEW q \in MfaRequests \ {p} PROVE RequestSound(q)' OBVIOUS
  <2>1. RequestSound(q) /\ request'[q] = request[q] BY <1>3 DEF MfaInvariant
  <2> QED BY <1>1, <2>1 DEF RequestSound, Generated
<1> QED BY <1>1, <1>4, <1>6, <1>8, <1>9, <1>10, <1>11 DEF MfaInvariant, AcceptedSound, Generated

\* A request reads, or gives up.
LEMMA ReadsKeep ==
    ASSUME MfaInvariant, NEW p \in MfaRequests,
           \/ \E op \in {"step_up", "disable", "regenerate"}, c \in Presentable : StepUp(p, op, c)
           \/ \E c \in TotpCodes : ConfirmEnrolment(p, c)
           \/ LockedOut(p) \/ VerifyTotp(p) \/ BeginEnrolment(p) \/ MfaCrash(p)
    PROVE  MfaInvariant'
<1>1. request[p] \in Request /\ RequestSound(p) /\ factor.seed <= seeds
  BY DEF MfaInvariant, MfaTypeOK
<1>2. CASE Refused(p) /\ UNCHANGED <<step, factor, codes, tickets, seeds, sets, accepted, replaced, sessions>>
  BY <1>2, RequestShape, RequestMoves DEF Refused
<1>3. CASE \E op \in {"step_up", "disable", "regenerate"}, c \in Presentable : StepUp(p, op, c)
  <2>1. PICK op \in {"step_up", "disable", "regenerate"}, c \in Presentable : StepUp(p, op, c) BY <1>3
  <2> DEFINE r == Asking("verify", op, c, "")
  <2>2. c \in Shape BY Shown DEF MfaInvariant
  <2>3. /\ r \in Request /\ r.at = "verify" /\ r.op = op /\ r.code = c /\ op \in Purposes
        /\ ~Holds(r)
    BY <2>2 DEF Asking, Request, Stages, Purposes, Holds
  <2>4. /\ request' = [request EXCEPT ![p] = r]
        /\ UNCHANGED <<step, factor, codes, tickets, seeds, sets, accepted, replaced, sessions>>
    BY <2>1 DEF StepUp
  <2> HIDE DEF r
  <2> QED BY <2>2, <2>3, <2>4, RequestMoves
<1>4. CASE \E c \in TotpCodes : ConfirmEnrolment(p, c)
  <2>1. PICK c \in TotpCodes : ConfirmEnrolment(p, c) BY <1>4
  <2> DEFINE r == Asking("activate", "confirm", c, "")
  <2>2. c \in TotpShape /\ Generated(c) BY Shown DEF MfaInvariant, Generated
  <2>3. r \in Request /\ r.at = "activate" /\ r.code = c /\ ~Holds(r)
    BY <2>2 DEF Asking, Request, Stages, Shape, Holds
  <2>4. /\ request' = [request EXCEPT ![p] = r]
        /\ UNCHANGED <<step, factor, codes, tickets, seeds, sets, accepted, replaced, sessions>>
    BY <2>1 DEF ConfirmEnrolment
  <2> HIDE DEF r
  <2> QED BY <2>2, <2>3, <2>4, RequestMoves
<1>5. CASE BeginEnrolment(p)
  <2> DEFINE r == [request[p] EXCEPT !.at = "put factor"]
  <2>1. r \in Request /\ r.at = "put factor" /\ ~Holds(r) BY <1>1, RequestShape DEF Stages, Holds
  <2>2. /\ request' = [request EXCEPT ![p] = r]
        /\ UNCHANGED <<step, factor, codes, tickets, seeds, sets, accepted, replaced, sessions>>
    BY <1>5 DEF BeginEnrolment, Goes
  <2> HIDE DEF r
  <2> QED BY <2>1, <2>2, RequestMoves
<1>6. CASE VerifyTotp(p) /\ ~Refused(p)
  <2> DEFINE r == [request[p] EXCEPT !.at = "record use"]
             c == request[p].code
  <2>1. /\ request[p].at = "verify" /\ c[1] = "totp" /\ factor.state = "active"
        /\ VerifyCode(factor.seed, c, factor.last) # 0
        /\ request' = [request EXCEPT ![p] = r]
        /\ UNCHANGED <<step, factor, codes, tickets, seeds, sets, accepted, replaced, sessions>>
    BY <1>6 DEF VerifyTotp, FactorsFor
  <2>2. c \in TotpShape BY <1>1, <2>1, Kinds DEF RequestSound
  <2>3. c[2] = factor.seed BY <2>1 DEF VerifyCode
  <2>4. Generated(c) BY <1>1, <2>1, <2>3 DEF Generated
  <2>5. /\ r \in Request /\ r.at = "record use" /\ r.op = request[p].op /\ r.code = c
        /\ r.ticket = request[p].ticket
    BY <1>1, RequestShape DEF Stages
  <2>6. Holds(r) => Holds(request[p]) BY <2>1, <2>5 DEF Holds
  <2>7. r.op \in Purposes BY <1>1, <2>1, <2>5 DEF RequestSound
  <2> HIDE DEF r, c
  <2> QED BY <2>1, <2>2, <2>4, <2>5, <2>6, <2>7, RequestMoves
<1> QED BY <1>2, <1>3, <1>4, <1>5, <1>6 DEF LockedOut, VerifyTotp, MfaCrash

\* A recovery code that is accepted was never accepted before and is used from then on.
LEMMA VerifyRecoveryCodeKeeps ==
    ASSUME MfaInvariant, NEW p \in MfaRequests, VerifyRecoveryCode(p)
    PROVE  MfaInvariant'
<1>0. PICK c : c = request[p].code OBVIOUS
<1> DEFINE row == [code |-> c, used |-> FALSE]
           spent == [row EXCEPT !.used = TRUE]
<1>1. /\ request[p].at = "verify" /\ c[1] = "recovery"
      /\ UNCHANGED <<step, factor, tickets, seeds, sets, replaced>>
  BY <1>0 DEF VerifyRecoveryCode
<1>2. request[p].op \in Purposes /\ c \in RecoveryShape /\ c \in Shape
  BY <1>0, <1>1, Kinds DEF MfaInvariant, RequestSound
<1>3. CASE row \notin codes /\ Refused(p) /\ UNCHANGED <<codes, accepted, sessions>>
  BY <1>1, <1>3, RequestShape, RequestMoves DEF Refused
<1>4. CASE row \in codes /\ codes' = (codes \ {row}) \cup {spent} /\ Accept(c) /\ Proved(p)
  <2>1. row.code = c /\ row.used = FALSE /\ spent.code = c /\ spent.used = TRUE
    OBVIOUS
  <2>2. spent \in [code : RecoveryShape, used : BOOLEAN] BY <1>2
  <2>3. c \notin DOMAIN accepted
    BY <1>1, <1>4 DEF MfaInvariant, AcceptedSound
  <2>4. /\ DOMAIN accepted' = DOMAIN accepted \cup {c}
        /\ DOMAIN accepted' \subseteq Shape
        /\ accepted' \in [DOMAIN accepted' -> Nat]
        /\ \A d \in DOMAIN accepted : accepted'[d] = accepted[d]
        /\ accepted'[c] = 1
    BY <1>2, <1>4, <2>3, AcceptShape DEF MfaInvariant
  <2>5. /\ sessions' = sessions
        /\ \E r \in Request :
             /\ request' = [request EXCEPT ![p] = r]
             /\ r.at \in {"issue", "idle", "drop factor", "drop codes"}
             /\ r.at = "issue" => r.op = "login"
             /\ Holds(r) => Holds(request[p]) /\ r.ticket = request[p].ticket
    BY <1>1, <1>2, <1>4, ProvedShape
  <2>6. PICK r \in Request :
             /\ request' = [request EXCEPT ![p] = r]
             /\ r.at \in {"issue", "idle", "drop factor", "drop codes"}
             /\ r.at = "issue" => r.op = "login"
             /\ Holds(r) => Holds(request[p]) /\ r.ticket = request[p].ticket
    BY <2>5
  <2>7. /\ request' \in [MfaRequests -> Request]
        /\ request'[p] = r /\ \A q \in MfaRequests \ {p} : request'[q] = request[q]
        /\ \A q \in MfaRequests : HolderSound(q)'
        /\ \A s \in sessions' : SessionSound(s)'
    BY <1>1, <2>5, <2>6, HoldersKept
  <2>8. RequestSound(p)' BY <2>6, <2>7 DEF RequestSound
  <2>9. \A q \in MfaRequests \ {p} : RequestSound(q)'
    <3> SUFFICES ASSUME NEW q \in MfaRequests \ {p} PROVE RequestSound(q)' OBVIOUS
    <3>1. RequestSound(q) /\ request'[q] = request[q] BY <2>7 DEF MfaInvariant
    <3> QED BY <1>1, <3>1 DEF RequestSound, Generated
  <2>10. \A x \in codes' : Generated(x.code)' /\ x.code \notin replaced'
    BY <1>1, <1>4, <2>1 DEF MfaInvariant, Generated
  <2>11. AcceptedSound(c)'
    <3>1. Generated(c) BY <1>4, <2>1 DEF MfaInvariant
    <3>2. row \notin codes' BY <1>4, <2>1
    <3> QED BY <1>1, <2>4, <3>1, <3>2 DEF AcceptedSound, Generated
  <2>12. \A d \in DOMAIN accepted : AcceptedSound(d)'
    <3> SUFFICES ASSUME NEW d \in DOMAIN accepted PROVE AcceptedSound(d)' OBVIOUS
    <3>1. AcceptedSound(d) BY DEF MfaInvariant
    <3>2. d[1] = "recovery" => [code |-> d, used |-> FALSE] \notin codes'
      BY <1>4, <2>1, <3>1 DEF AcceptedSound
    <3> QED BY <1>1, <2>4, <3>1, <3>2 DEF AcceptedSound, Generated
  <2>13. codes' \subseteq [code : RecoveryShape, used : BOOLEAN]
    BY <1>4, <2>2 DEF MfaInvariant, MfaTypeOK
  <2>14. MfaTypeOK' BY <1>1, <2>4, <2>7, <2>13 DEF MfaInvariant, MfaTypeOK
  <2> QED BY <1>1, <2>4, <2>7, <2>8, <2>9, <2>10, <2>11, <2>12, <2>14 DEF MfaInvariant, Generated
<1> QED BY <1>0, <1>3, <1>4 DEF VerifyRecoveryCode

\* A step of the authenticator is accepted above the watermark, which passes it.
LEMMA RecordUseKeeps ==
    ASSUME MfaInvariant, NEW p \in MfaRequests, RecordUse(p)
    PROVE  MfaInvariant'
<1>0. PICK c : c = request[p].code OBVIOUS
<1>1. /\ request[p].at = "record use"
      /\ UNCHANGED <<step, codes, tickets, seeds, sets, replaced>>
  BY <1>0 DEF RecordUse
<1>2. /\ request[p].op \in Purposes /\ c \in TotpShape /\ c \in Shape /\ Generated(c)
      /\ factor.state = "pending" => c[2] # factor.seed
      /\ c[1] = "totp" /\ c[2] \in Nat /\ c[3] \in Nat
  BY <1>0, <1>1, Kinds DEF MfaInvariant, RequestSound, Shape
<1>3. CASE Refused(p) /\ UNCHANGED <<factor, accepted, sessions>>
  BY <1>1, <1>3, RequestShape, RequestMoves DEF Refused
<1>4. CASE Newer(c[3]) /\ factor' = [factor EXCEPT !.last = c[3]] /\ Accept(c) /\ Proved(p)
  <2>1. /\ factor \in [state : {"none", "pending", "active"}, seed : Nat, last : Nat]
        /\ factor.state # "none" /\ factor.last < c[3]
    BY <1>4 DEF Newer, MfaInvariant, MfaTypeOK
  <2>2. /\ factor' \in [state : {"none", "pending", "active"}, seed : Nat, last : Nat]
        /\ factor'.state = factor.state /\ factor'.seed = factor.seed /\ factor'.last = c[3]
    BY <1>2, <1>4, <2>1
  <2>3. c[2] = factor.seed => factor.state = "active" /\ c \notin DOMAIN accepted
    <3> SUFFICES ASSUME c[2] = factor.seed PROVE factor.state = "active" /\ c \notin DOMAIN accepted
      OBVIOUS
    <3>1. factor.state = "active" BY <1>2, <2>1
    <3>2. c \in DOMAIN accepted => c[3] <= factor.last
      BY <1>2, <2>1 DEF MfaInvariant, AcceptedSound
    <3> QED BY <1>2, <2>1, <3>1, <3>2
  <2>4. /\ DOMAIN accepted' = DOMAIN accepted \cup {c}
        /\ DOMAIN accepted' \subseteq Shape
        /\ accepted' \in [DOMAIN accepted' -> Nat]
        /\ \A d \in DOMAIN accepted \ {c} : accepted'[d] = accepted[d]
        /\ c \notin DOMAIN accepted => accepted'[c] = 1
    BY <1>2, <1>4, AcceptShape DEF MfaInvariant
  <2>5. /\ sessions' = sessions
        /\ \E r \in Request :
             /\ request' = [request EXCEPT ![p] = r]
             /\ r.at \in {"issue", "idle", "drop factor", "drop codes"}
             /\ r.at = "issue" => r.op = "login"
             /\ Holds(r) => Holds(request[p]) /\ r.ticket = request[p].ticket
    BY <1>1, <1>2, <1>4, ProvedShape
  <2>6. PICK r \in Request :
             /\ request' = [request EXCEPT ![p] = r]
             /\ r.at \in {"issue", "idle", "drop factor", "drop codes"}
             /\ r.at = "issue" => r.op = "login"
             /\ Holds(r) => Holds(request[p]) /\ r.ticket = request[p].ticket
    BY <2>5
  <2>7. /\ request' \in [MfaRequests -> Request]
        /\ request'[p] = r /\ \A q \in MfaRequests \ {p} : request'[q] = request[q]
        /\ \A q \in MfaRequests : HolderSound(q)'
        /\ \A s \in sessions' : SessionSound(s)'
    BY <1>1, <2>5, <2>6, HoldersKept
  <2>8. RequestSound(p)' BY <2>6, <2>7 DEF RequestSound
  <2>9. \A q \in MfaRequests \ {p} : RequestSound(q)'
    <3> SUFFICES ASSUME NEW q \in MfaRequests \ {p} PROVE RequestSound(q)' OBVIOUS
    <3>1. RequestSound(q) /\ request'[q] = request[q] BY <2>7 DEF MfaInvariant
    <3> QED BY <1>1, <2>2, <3>1 DEF RequestSound, Generated
  <2>10. AcceptedSound(c)'
    <3>1. Generated(c)' BY <1>1, <1>2 DEF Generated
    <3>2. c[3] <= factor'.last BY <1>2, <2>2
    <3>3. c[2] = factor'.seed => accepted'[c] = 1 /\ factor'.state = "active" BY <2>2, <2>3, <2>4
    <3>4. c[1] # "recovery" BY <1>2
    <3> QED BY <3>1, <3>2, <3>3, <3>4 DEF AcceptedSound
  <2>11. \A d \in DOMAIN accepted \ {c} : AcceptedSound(d)'
    <3> SUFFICES ASSUME NEW d \in DOMAIN accepted \ {c} PROVE AcceptedSound(d)' OBVIOUS
    <3>1. AcceptedSound(d) /\ d \in Shape BY DEF MfaInvariant, MfaTypeOK
    <3>2. d[3] \in Nat BY <3>1, Kinds DEF Shape
    <3>3. d[3] <= factor.last => d[3] <= factor'.last BY <1>2, <2>1, <2>2, <3>2
    <3> QED BY <1>1, <2>1, <2>2, <2>4, <3>1, <3>3 DEF AcceptedSound, Generated
  <2>12. MfaTypeOK' BY <1>1, <2>2, <2>4, <2>7 DEF MfaInvariant, MfaTypeOK
  <2> QED BY <1>1, <2>2, <2>4, <2>7, <2>8, <2>9, <2>10, <2>11, <2>12 DEF MfaInvariant, Generated
<1> QED BY <1>0, <1>3, <1>4 DEF RecordUse

\* The session of a login is the first of its ticket.
LEMMA IssueKeeps ==
    ASSUME MfaInvariant, NEW p \in MfaRequests, IssueSession(p)
    PROVE  MfaInvariant'
<1> DEFINE t == request[p].ticket
           s0 == [ticket |-> t, amr |-> AccessTokenAmr({"pwd", request[p].code[1]})]
<1>1. /\ request[p].at = "issue" /\ request' = [request EXCEPT ![p] = Idle]
      /\ sessions' = sessions \cup {s0} /\ s0.ticket = t
      /\ UNCHANGED <<step, factor, codes, tickets, seeds, sets, accepted, replaced>>
  BY DEF IssueSession, Refused
<1>2. Holds(request[p]) /\ HolderSound(p) BY <1>1 DEF MfaInvariant, RequestSound, Holds
<1>3. /\ t \in Tickets /\ tickets[t] = "spent" /\ \A s \in sessions : s.ticket # t
      /\ \A q \in MfaRequests \ {p} : Holds(request[q]) => request[q].ticket # t
  BY <1>2 DEF HolderSound
<1>4. /\ request' \in [MfaRequests -> Request]
      /\ request'[p] = Idle /\ ~Holds(Idle) /\ Idle.at = "idle"
      /\ \A q \in MfaRequests \ {p} : request'[q] = request[q]
  BY <1>1, RequestShape DEF MfaInvariant, MfaTypeOK
<1> HIDE DEF s0, t
<1>5. \A s \in sessions' : SessionSound(s)' BY <1>1, <1>3 DEF MfaInvariant, SessionSound
<1>6. \A q \in MfaRequests : HolderSound(q)'
  <2> SUFFICES ASSUME NEW q \in MfaRequests, Holds(request'[q]) PROVE HolderSound(q)'
    BY DEF HolderSound
  <2>1. q # p /\ Holds(request[q]) /\ HolderSound(q) /\ request'[q] = request[q]
    BY <1>4 DEF MfaInvariant
  <2>2. \A x \in MfaRequests \ {q} : Holds(request'[x]) => request'[x].ticket # request[q].ticket
    BY <1>4, <2>1 DEF HolderSound
  <2> QED BY <1>1, <1>3, <2>1, <2>2 DEF HolderSound
<1>7. RequestSound(p)' BY <1>4 DEF RequestSound
<1>8. \A q \in MfaRequests \ {p} : RequestSound(q)'
  <2> SUFFICES ASSUME NEW q \in MfaRequests \ {p} PROVE RequestSound(q)' OBVIOUS
  <2>1. RequestSound(q) /\ request'[q] = request[q] BY <1>4 DEF MfaInvariant
  <2> QED BY <1>1, <2>1 DEF RequestSound, Generated
<1>9. MfaTypeOK' BY <1>1, <1>4 DEF MfaInvariant, MfaTypeOK
<1> QED BY <1>1, <1>5, <1>6, <1>7, <1>8, <1>9 DEF MfaInvariant, AcceptedSound, Generated

\* A step after which a request is one that holds nothing, reads nothing and proves
\* nothing more.
LEMMA Settles ==
    ASSUME MfaInvariant, NEW p \in MfaRequests, NEW r \in Request,
           request' = [request EXCEPT ![p] = r], UNCHANGED <<tickets, sessions>>,
           r.at \in {"idle", "drop all codes", "drop codes", "put codes"},
           seeds' \in Nat, sets' \in Nat, seeds <= seeds', sets <= sets',
           factor'.state = "pending" =>
              \/ factor.state = "pending" /\ factor'.seed = factor.seed
              \/ factor'.seed = seeds + 1
    PROVE  /\ request' \in [MfaRequests -> Request]
           /\ \A q \in MfaRequests : RequestSound(q)' /\ HolderSound(q)'
           /\ \A s \in sessions' : SessionSound(s)'
<1>1. ~Holds(r) BY DEF Holds
<1>2. /\ request' \in [MfaRequests -> Request]
      /\ request'[p] = r /\ \A q \in MfaRequests \ {p} : request'[q] = request[q]
      /\ \A q \in MfaRequests : HolderSound(q)'
      /\ \A s \in sessions' : SessionSound(s)'
  BY <1>1, HoldersKept
<1>3. RequestSound(p)' BY <1>2 DEF RequestSound
<1>4. \A q \in MfaRequests \ {p} : RequestSound(q)' BY <1>2, OthersKept
<1> QED BY <1>2, <1>3, <1>4

\* Without a factor no code of one is in force.
LEMMA DisableKeeps ==
    ASSUME MfaInvariant, NEW p \in MfaRequests, DisableTotp(p)
    PROVE  MfaInvariant'
<1> DEFINE r == [request[p] EXCEPT !.at = "drop all codes"]
<1>1. /\ factor' = NoFactor /\ request' = [request EXCEPT ![p] = r]
      /\ UNCHANGED <<step, codes, tickets, seeds, sets, accepted, replaced, sessions>>
  BY DEF DisableTotp, Goes
<1>2. /\ factor' \in [state : {"none", "pending", "active"}, seed : Nat, last : Nat]
      /\ factor'.state = "none" /\ factor'.seed = 0
  BY <1>1 DEF NoFactor
<1>3. r \in Request /\ r.at = "drop all codes"
  <2>1. request[p] \in Request /\ "drop all codes" \in Stages BY DEF MfaInvariant, MfaTypeOK, Stages
  <2> QED BY <2>1, RequestShape
<1> HIDE DEF r
<1>4. seeds \in Nat /\ sets \in Nat /\ seeds <= seeds' /\ sets <= sets'
  BY <1>1 DEF MfaInvariant, MfaTypeOK
<1>5. /\ request' \in [MfaRequests -> Request]
      /\ \A q \in MfaRequests : RequestSound(q)' /\ HolderSound(q)'
      /\ \A s \in sessions' : SessionSound(s)'
  BY <1>1, <1>2, <1>3, <1>4, Settles
<1>6. MfaTypeOK' BY <1>1, <1>2, <1>5 DEF MfaInvariant, MfaTypeOK
<1>7. \A c \in DOMAIN accepted' : AcceptedSound(c)'
  BY <1>1, <1>2 DEF MfaInvariant, AcceptedSound, Generated
<1> QED BY <1>1, <1>2, <1>4, <1>5, <1>6, <1>7 DEF MfaInvariant, Generated

\* The codes that go are the ones that are replaced.
LEMMA DeleteCodesKeeps ==
    ASSUME MfaInvariant, NEW p \in MfaRequests, DeleteRecoveryCodes(p)
    PROVE  MfaInvariant'
<1>1. /\ codes' = {} /\ replaced' = replaced \cup {row.code : row \in codes}
      /\ UNCHANGED <<step, factor, tickets, seeds, sets, accepted, sessions>>
  BY DEF DeleteRecoveryCodes
<1>2. seeds \in Nat /\ sets \in Nat /\ seeds <= seeds' /\ sets <= sets'
  BY <1>1 DEF MfaInvariant, MfaTypeOK
<1>3. PICK r \in Request : /\ request' = [request EXCEPT ![p] = r]
                           /\ r.at \in {"idle", "put codes"}
  <2>1. CASE Refused(p) BY <2>1, RequestShape DEF Refused
  <2>2. CASE Goes(p, "put codes")
    <3> DEFINE r == [request[p] EXCEPT !.at = "put codes"]
    <3>1. r \in Request /\ r.at = "put codes" BY RequestShape DEF MfaInvariant, MfaTypeOK, Stages
    <3>2. request' = [request EXCEPT ![p] = r] BY <2>2 DEF Goes
    <3> QED BY <3>1, <3>2
  <2> QED BY <2>1, <2>2 DEF DeleteRecoveryCodes
<1>4. /\ request' \in [MfaRequests -> Request]
      /\ \A q \in MfaRequests : RequestSound(q)' /\ HolderSound(q)'
      /\ \A s \in sessions' : SessionSound(s)'
  BY <1>1, <1>2, <1>3, Settles
<1>5. MfaTypeOK' BY <1>1, <1>4 DEF MfaInvariant, MfaTypeOK
<1>6. \A c \in DOMAIN accepted' : AcceptedSound(c)'
  BY <1>1 DEF MfaInvariant, AcceptedSound, Generated
<1>7. \A c \in replaced' : Generated(c)' BY <1>1 DEF MfaInvariant, Generated
<1> QED BY <1>1, <1>4, <1>5, <1>6, <1>7 DEF MfaInvariant

\* A new set was never accepted, nor replaced.
LEMMA RegenerateKeeps ==
    ASSUME MfaInvariant, NEW p \in MfaRequests, RegenerateRecoveryCodes(p)
    PROVE  MfaInvariant'
<1> DEFINE new == RecoverySet(sets + 1)
<1>1. /\ sets' = sets + 1 /\ codes' = codes \cup {[code |-> c, used |-> FALSE] : c \in new}
      /\ request' = [request EXCEPT ![p] = Idle]
      /\ UNCHANGED <<step, factor, tickets, seeds, accepted, replaced, sessions>>
  BY DEF RegenerateRecoveryCodes, Refused
<1>2. sets \in Nat /\ sets + 1 \in Nat /\ sets <= sets' /\ seeds \in Nat /\ seeds <= seeds'
  BY <1>1 DEF MfaInvariant, MfaTypeOK
<1>3. \A c \in new : c \in RecoveryShape /\ c[1] = "recovery" /\ c[2] = sets + 1
  BY <1>2, Shown DEF MfaInvariant
<1> HIDE DEF new
<1>4. /\ request' \in [MfaRequests -> Request]
      /\ \A q \in MfaRequests : RequestSound(q)' /\ HolderSound(q)'
      /\ \A s \in sessions' : SessionSound(s)'
  BY <1>1, <1>2, RequestShape, Settles
<1>5. \A c \in RecoveryShape : Generated(c) => c \notin new /\ Generated(c)'
  <2> SUFFICES ASSUME NEW c \in RecoveryShape, Generated(c) PROVE c \notin new /\ Generated(c)'
    OBVIOUS
  <2>1. c[1] = "recovery" /\ c[2] \in Nat /\ c[2] <= sets BY Kinds DEF Generated
  <2>2. c[2] # sets + 1 /\ c[2] <= sets + 1 BY <1>2, <2>1
  <2> QED BY <1>1, <1>3, <2>1, <2>2 DEF Generated
<1>6. \A c \in replaced : c \notin new /\ Generated(c)'
  BY <1>5 DEF MfaInvariant, MfaTypeOK
<1>7. \A c \in new : Generated(c)' BY <1>1, <1>2, <1>3 DEF Generated
<1>8. \A row \in codes' : Generated(row.code)' /\ row.code \notin replaced'
  <2>1. \A row \in codes : Generated(row.code)' /\ row.code \notin replaced'
    BY <1>1, <1>5 DEF MfaInvariant, MfaTypeOK
  <2>2. ASSUME NEW c \in new PROVE Generated(c)' /\ c \notin replaced' BY <1>1, <1>6, <1>7
  <2>3. \A row \in codes' : row \in codes \/ \E c \in new : row = [code |-> c, used |-> FALSE]
    BY <1>1
  <2> QED BY <2>1, <2>2, <2>3
<1>9. \A c \in DOMAIN accepted' : AcceptedSound(c)'
  <2> SUFFICES ASSUME NEW c \in DOMAIN accepted PROVE AcceptedSound(c)' BY <1>1
  <2>1. AcceptedSound(c) /\ c \in Shape BY DEF MfaInvariant, MfaTypeOK
  <2>2. CASE c \in TotpShape BY <1>1, <2>1, <2>2, Kinds DEF AcceptedSound, Generated
  <2>3. CASE c \in RecoveryShape
    <3>1. c \notin new /\ Generated(c)' /\ c[1] = "recovery" BY <1>5, <2>1, <2>3, Kinds DEF AcceptedSound
    <3>2. [code |-> c, used |-> FALSE] \notin codes'
      <4>1. \A d \in new : [code |-> d, used |-> FALSE] # [code |-> c, used |-> FALSE] BY <3>1
      <4> QED BY <1>1, <2>1, <3>1, <4>1 DEF AcceptedSound
    <3> QED BY <1>1, <2>1, <3>1, <3>2 DEF AcceptedSound
  <2> QED BY <2>1, <2>2, <2>3 DEF Shape
<1>10. codes' \subseteq [code : RecoveryShape, used : BOOLEAN]
  <2>1. \A c \in new : [code |-> c, used |-> FALSE] \in [code : RecoveryShape, used : BOOLEAN] BY <1>3
  <2>2. codes \subseteq [code : RecoveryShape, used : BOOLEAN] BY DEF MfaInvariant, MfaTypeOK
  <2> QED BY <1>1, <2>1, <2>2
<1>11. MfaTypeOK' BY <1>1, <1>2, <1>4, <1>10 DEF MfaInvariant, MfaTypeOK
<1> QED BY <1>1, <1>4, <1>6, <1>8, <1>9, <1>11 DEF MfaInvariant

\* No code of a new enrolment was accepted yet, and no use of one is under way.
LEMMA PutFactorKeeps ==
    ASSUME MfaInvariant, NEW p \in MfaRequests, PutFactor(p)
    PROVE  MfaInvariant'
<1>1. /\ seeds' = seeds + 1 /\ factor' = [state |-> "pending", seed |-> seeds + 1, last |-> 0]
      /\ request' = [request EXCEPT ![p] = Idle]
      /\ UNCHANGED <<step, codes, tickets, sets, accepted, replaced, sessions>>
  BY DEF PutFactor, Refused
<1>2. sets \in Nat /\ sets <= sets' /\ seeds \in Nat /\ seeds' \in Nat /\ seeds <= seeds'
  BY <1>1 DEF MfaInvariant, MfaTypeOK
<1>3. /\ factor' \in [state : {"none", "pending", "active"}, seed : Nat, last : Nat]
      /\ factor'.seed = seeds + 1
  BY <1>1, <1>2
<1>4. /\ request' \in [MfaRequests -> Request]
      /\ \A q \in MfaRequests : RequestSound(q)' /\ HolderSound(q)'
      /\ \A s \in sessions' : SessionSound(s)'
  BY <1>1, <1>2, <1>3, RequestShape, Settles
<1>5. \A c \in Shape : Generated(c) => Generated(c)' /\ (c[1] = "totp" => c[2] # seeds + 1)
  <2> SUFFICES ASSUME NEW c \in Shape, Generated(c)
               PROVE  Generated(c)' /\ (c[1] = "totp" => c[2] # seeds + 1)
    OBVIOUS
  <2>1. c[2] \in Nat BY Kinds DEF Shape
  <2>2. CASE c[1] = "totp"
    <3>1. c[2] <= seeds BY <2>2 DEF Generated
    <3>2. c[2] <= seeds + 1 /\ c[2] # seeds + 1 BY <1>2, <2>1, <3>1
    <3> QED BY <1>1, <2>2, <3>2 DEF Generated
  <2>3. CASE c[1] # "totp" BY <1>1, <2>3 DEF Generated
  <2> QED BY <2>2, <2>3
<1>6. \A c \in DOMAIN accepted' : AcceptedSound(c)'
  <2> SUFFICES ASSUME NEW c \in DOMAIN accepted PROVE AcceptedSound(c)' BY <1>1
  <2>1. AcceptedSound(c) /\ c \in Shape BY DEF MfaInvariant, MfaTypeOK
  <2>2. Generated(c)' /\ (c[1] = "totp" => c[2] # seeds + 1) BY <1>5, <2>1 DEF AcceptedSound
  <2> QED BY <1>1, <1>3, <2>1, <2>2 DEF AcceptedSound
<1>7. /\ \A c \in replaced' : Generated(c)'
      /\ \A row \in codes' : Generated(row.code)' /\ row.code \notin replaced'
  BY <1>1, <1>5 DEF MfaInvariant, MfaTypeOK, Shape
<1>8. MfaTypeOK' BY <1>1, <1>2, <1>3, <1>4 DEF MfaInvariant, MfaTypeOK
<1>9. factor'.seed <= seeds' BY <1>1, <1>2, <1>3
<1> QED BY <1>4, <1>6, <1>7, <1>8, <1>9 DEF MfaInvariant

\* The row that is there is confirmed once, by the first code accepted of it.
LEMMA ActivateKeeps ==
    ASSUME MfaInvariant, NEW p \in MfaRequests, Activate(p)
    PROVE  MfaInvariant'
<1>0. PICK c : c = request[p].code OBVIOUS
<1>1. /\ request[p].at = "activate"
      /\ UNCHANGED <<step, codes, tickets, seeds, sets, replaced, sessions>>
  BY DEF Activate
<1>2. /\ c \in TotpShape /\ c \in Shape /\ Generated(c)
      /\ c[1] = "totp" /\ c[2] \in Nat /\ c[3] \in Nat
  BY <1>0, <1>1, Kinds DEF MfaInvariant, RequestSound, Shape
<1>3. CASE Refused(p) /\ UNCHANGED <<factor, accepted>>
  BY <1>1, <1>3, RequestShape, RequestMoves DEF Refused
<1>4. CASE /\ factor.state = "pending"
           /\ factor' = [factor EXCEPT !.state = "active", !.last = c[3]]
           /\ Accept(c) /\ Goes(p, "drop codes")
  <2> DEFINE r == [request[p] EXCEPT !.at = "drop codes"]
  <2>1. /\ factor' \in [state : {"none", "pending", "active"}, seed : Nat, last : Nat]
        /\ factor'.state = "active" /\ factor'.seed = factor.seed /\ factor'.last = c[3]
    BY <1>2, <1>4 DEF MfaInvariant, MfaTypeOK
  <2>2. \A d \in DOMAIN accepted : d[1] = "totp" => d[2] # factor.seed
    BY <1>4 DEF MfaInvariant, AcceptedSound
  <2>3. /\ DOMAIN accepted' = DOMAIN accepted \cup {c}
        /\ DOMAIN accepted' \subseteq Shape
        /\ accepted' \in [DOMAIN accepted' -> Nat]
        /\ \A d \in DOMAIN accepted \ {c} : accepted'[d] = accepted[d]
        /\ c \notin DOMAIN accepted => accepted'[c] = 1
    <3>1. MfaTypeOK /\ c \in Shape BY <1>2 DEF MfaInvariant
    <3>2. Accept(c) BY <1>4
    <3> QED BY <3>1, <3>2, AcceptShape
  <2>4. r \in Request /\ r.at = "drop codes"
    BY RequestShape DEF MfaInvariant, MfaTypeOK, Stages
  <2>5. request' = [request EXCEPT ![p] = r] BY <1>4 DEF Goes
  <2>6. seeds \in Nat /\ sets \in Nat /\ seeds <= seeds' /\ sets <= sets'
    BY <1>1 DEF MfaInvariant, MfaTypeOK
  <2> HIDE DEF r
  <2>7. /\ request' \in [MfaRequests -> Request]
        /\ \A q \in MfaRequests : RequestSound(q)' /\ HolderSound(q)'
        /\ \A s \in sessions' : SessionSound(s)'
    BY <1>1, <2>1, <2>4, <2>5, <2>6, Settles
  <2>8. AcceptedSound(c)'
    <3>1. Generated(c)' BY <1>1, <1>2 DEF Generated
    <3>2. c[3] <= factor'.last BY <1>2, <2>1
    <3>3. c[2] = factor'.seed => accepted'[c] = 1 BY <1>2, <2>1, <2>2, <2>3
    <3> QED BY <1>2, <2>1, <3>1, <3>2, <3>3 DEF AcceptedSound
  <2>9. \A d \in DOMAIN accepted \ {c} : AcceptedSound(d)'
    <3> SUFFICES ASSUME NEW d \in DOMAIN accepted \ {c} PROVE AcceptedSound(d)' OBVIOUS
    <3>1. AcceptedSound(d) BY DEF MfaInvariant
    <3> QED BY <1>1, <2>1, <2>2, <2>3, <3>1 DEF AcceptedSound, Generated
  <2>10. MfaTypeOK' BY <1>1, <2>1, <2>3, <2>7 DEF MfaInvariant, MfaTypeOK
  <2> QED BY <1>1, <2>1, <2>3, <2>7, <2>8, <2>9, <2>10 DEF MfaInvariant, Generated
<1> QED BY <1>0, <1>3, <1>4 DEF Activate

\* Nothing is enrolled, issued or asked.
LEMMA MfaStarts == MfaInit => MfaInvariant
<1> SUFFICES ASSUME MfaInit PROVE MfaInvariant OBVIOUS
<1>1. \A p \in MfaRequests : request[p] = Idle BY DEF MfaInit
<1>2. factor \in [state : {"none", "pending", "active"}, seed : Nat, last : Nat] /\ factor.seed = 0
  BY DEF MfaInit, NoFactor
<1>3. DOMAIN accepted = {} /\ accepted \in [DOMAIN accepted -> Nat] BY DEF MfaInit
<1>4. MfaTypeOK BY <1>2, <1>3, RequestShape DEF MfaInit, MfaTypeOK
<1>5. \A p \in MfaRequests : RequestSound(p) /\ HolderSound(p)
  BY <1>1, RequestShape DEF RequestSound, HolderSound
<1> QED BY <1>2, <1>3, <1>4, <1>5 DEF MfaInit, MfaInvariant

\* Every step keeps it.
LEMMA MfaKeeps == MfaInvariant /\ [MfaNext]_mfaVars => MfaInvariant'
<1> SUFFICES ASSUME MfaInvariant, [MfaNext]_mfaVars PROVE MfaInvariant' OBVIOUS
<1>1. CASE UNCHANGED mfaVars
  <2>1. UNCHANGED <<step, factor, codes, tickets, request, seeds, sets, accepted, replaced, sessions>>
    BY <1>1 DEF mfaVars
  <2>2. MfaTypeOK' BY <2>1 DEF MfaInvariant, MfaTypeOK
  <2> QED BY <2>1, <2>2 DEF MfaInvariant, AcceptedSound, Generated, RequestSound, HolderSound, SessionSound
<1>2. CASE MfaTick
  <2>1. UNCHANGED <<factor, codes, tickets, request, seeds, sets, accepted, replaced, sessions>>
    BY <1>2 DEF MfaTick
  <2>2. step' \in Nat BY <1>2 DEF MfaTick, MfaInvariant, MfaTypeOK
  <2>3. MfaTypeOK' BY <2>1, <2>2 DEF MfaInvariant, MfaTypeOK
  <2> QED BY <2>1, <2>3 DEF MfaInvariant, AcceptedSound, Generated, RequestSound, HolderSound, SessionSound
<1>3. CASE \E t \in Tickets : ChallengeFor(t) BY <1>3, ChallengeKeeps
<1>4. ASSUME NEW p \in MfaRequests,
             \/ \E t \in Tickets : CompleteMfaWithPasskey(p, t) \/ \E c \in Presentable : CompleteMfa(p, t, c)
             \/ \E op \in {"step_up", "disable", "regenerate"}, c \in Presentable : StepUp(p, op, c)
             \/ \E c \in TotpCodes : ConfirmEnrolment(p, c)
             \/ LockedOut(p) \/ VerifyTotp(p) \/ BeginEnrolment(p) \/ MfaCrash(p)
      PROVE  MfaInvariant'
  BY <1>4, RedeemTicketKeeps, ReadsKeep
<1>5. ASSUME NEW p \in MfaRequests,
             \/ VerifyRecoveryCode(p) \/ RecordUse(p) \/ IssueSession(p) \/ DisableTotp(p)
             \/ DeleteRecoveryCodes(p) \/ RegenerateRecoveryCodes(p) \/ PutFactor(p) \/ Activate(p)
      PROVE  MfaInvariant'
  BY <1>5, VerifyRecoveryCodeKeeps, RecordUseKeeps, IssueKeeps, DisableKeeps, DeleteCodesKeeps,
     RegenerateKeeps, PutFactorKeeps, ActivateKeeps
<1> QED BY <1>1, <1>2, <1>3, <1>4, <1>5 DEF MfaNext

\* A code of the enrolment in force and a recovery code are accepted once, a
\* replaced code never, and a login ticket issues one session, however many
\* requests present them and wherever one of them dies (mfa.MfaService,
\* flows.IdentityFlows.complete_mfa).
THEOREM FactorsProved == MfaSpec => []FactorsProveOnce
<1>1. MfaInvariant => FactorsProveOnce
  <2> SUFFICES ASSUME MfaInvariant PROVE FactorsProveOnce OBVIOUS
  <2>1. ASSUME NEW c \in DOMAIN accepted, accepted[c] > 1
        PROVE  c[1] = "totp" /\ (factor.state = "none" \/ c[2] # factor.seed)
    <3>1. AcceptedSound(c) /\ c \in Shape BY DEF MfaInvariant, MfaTypeOK
    <3>2. accepted[c] # 1 BY <2>1
    <3> QED BY <3>1, <3>2, Kinds DEF AcceptedSound, Shape
  <2>2. ASSUME NEW t \in Tickets
        PROVE  Cardinality({s \in sessions : s.ticket = t}) <= 1
    <3> DEFINE S == {s \in sessions : s.ticket = t}
    <3>1. \A s, s2 \in S : s = s2 BY DEF MfaInvariant, SessionSound
    <3>2. CASE S = {} BY <3>2, FS_EmptySet
    <3>3. CASE \E s \in S : TRUE
      <4>1. PICK s \in S : TRUE BY <3>3
      <4>2. S = {s} BY <3>1, <4>1
      <4>3. Cardinality(S) = 1 BY <4>2, FS_Singleton
      <4> QED BY <4>3
    <3> QED BY <3>2, <3>3
  <2>3. LostPrintoutsAreDead BY DEF MfaInvariant, LostPrintoutsAreDead
  <2> QED BY <2>1, <2>2, <2>3 DEF FactorsProveOnce, CodesAreSpentOnce
<1> QED BY <1>1, MfaStarts, MfaKeeps, PTL DEF MfaSpec

=============================================================================
