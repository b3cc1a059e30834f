--------------------------- MODULE DesktopHandoff ---------------------------
(***************************************************************************)
(* The desktop handoff of webbpulse.identity.desktop_handoff: a signed-in  *)
(* browser mints a code over the identity-tokens table, an app redeems it  *)
(* for a session of its own.  A PKCE verifier is named by the app that     *)
(* made it, and a challenge by its verifier.                               *)
(***************************************************************************)
EXTENDS Naturals, FiniteSets

CONSTANTS HandoffApps,      \* desktop apps, each with a verifier and a scheme of its own
          AllowedSchemes,   \* desktop_handoff_schemes, by app
          HandoffCodes,     \* bound on codes minted
          MaxHandoffTime,   \* bound on the clock
          CodeTtl           \* desktop_handoff_code_ttl

ASSUME HandoffTimes == MaxHandoffTime \in Nat /\ CodeTtl \in Nat

VARIABLES time,       \* the clock
          browser,    \* the browser's family and its token: [amr, proven, auth, signedIn]
          disabled,   \* may_authenticate refuses the account
          handoffs,   \* the identity-tokens rows
          exchange,   \* what each app's exchange is doing
          desktops    \* history: the sessions apps started

handoffVars == <<time, browser, disabled, handoffs, exchange, desktops>>

NoExchange == [at |-> "idle"]

HandoffInit ==
  /\ time = 1
  /\ \E amr \in {{"pwd"}, {"pwd", "otp"}} : browser = [amr |-> amr, proven |-> amr, auth |-> 1, signedIn |-> TRUE]
  /\ disabled = FALSE
  /\ handoffs = [c \in HandoffCodes |-> [at |-> "unused"]]
  /\ exchange = [a \in HandoffApps |-> NoExchange]
  /\ desktops = {}

\* A step-up refreshes the token's auth_time; the family keeps its sign-in amr.
StepUpBrowser(method) ==
  /\ browser.signedIn
  /\ browser' = [browser EXCEPT !.auth = time, !.proven = @ \cup {method}]
  /\ UNCHANGED <<time, disabled, handoffs, exchange, desktops>>

\* The family's amr, and the token's when the family cannot be read.
SignInAmr == {browser.amr, browser.proven}

Unminted == {c \in HandoffCodes : handoffs[c].at = "unused"}

\* mint: the scheme is on the allowlist, and the row carries what the browser had.
MintHandoff(a, s) ==
  /\ browser.signedIn
  /\ s \in AllowedSchemes
  /\ Unminted # {}
  /\ \E amr \in SignInAmr :
       handoffs' = [handoffs EXCEPT ![CHOOSE c \in Unminted : TRUE] =
                                           [at |-> "live", challenge |-> a, scheme |-> s, amr |-> amr, auth |-> browser.auth,
                                            expires |-> time + CodeTtl, had |-> browser]]
  /\ UNCHANGED <<time, browser, disabled, exchange, desktops>>

Expired(h) == time >= h.expires

\* What a spent row must still match: its scheme, the allowlist and the verifier.
Matches(h, a, s) == ~Expired(h) /\ h.scheme = s /\ s \in AllowedSchemes /\ h.challenge = a

\* Variant: the row is read rather than consumed, so a spent one still answers.
RedeemHandoffRead(a, s, c) ==
  LET h == handoffs[c]
  IN /\ exchange[a].at = "idle"
     /\ h.at # "unused"
     /\ handoffs' = [handoffs EXCEPT ![c].at = "spent"]
     /\ exchange' = [exchange EXCEPT ![a] = IF Matches(h, a, s) THEN [at |-> "redeemed", code |-> c] ELSE NoExchange]
     /\ UNCHANGED <<time, browser, disabled, desktops>>

\* redeem: the row is consumed before anything in it is checked.
RedeemHandoff(a, s, c) ==
  LET h == handoffs[c]
  IN /\ exchange[a].at = "idle"
     /\ h.at = "live"
     /\ handoffs' = [handoffs EXCEPT ![c].at = "spent"]
     /\ exchange' = [exchange EXCEPT ![a] = IF Matches(h, a, s) THEN [at |-> "redeemed", code |-> c] ELSE NoExchange]
     /\ UNCHANGED <<time, browser, disabled, desktops>>

\* The account is asked about again, and the app's own family begins with the
\* browser's amr and auth_time.
ExchangeHandoff(a) ==
  LET h == handoffs[exchange[a].code]
  IN /\ exchange[a].at = "redeemed"
     /\ exchange' = [exchange EXCEPT ![a] = NoExchange]
     /\ desktops' = IF disabled THEN desktops
                    ELSE desktops \cup {[id |-> Cardinality(desktops), app |-> a, code |-> exchange[a].code,
                                         amr |-> h.amr, auth |-> h.auth]}
     /\ UNCHANGED <<time, browser, disabled, handoffs>>

ExchangeDies(a) ==
  /\ exchange[a].at = "redeemed"
  /\ exchange' = [exchange EXCEPT ![a] = NoExchange]
  /\ UNCHANGED <<time, browser, disabled, handoffs, desktops>>

\* The browser signs out; its codes are not looked at.
SignOutBrowser ==
  /\ browser.signedIn
  /\ browser' = [browser EXCEPT !.signedIn = FALSE]
  /\ UNCHANGED <<time, disabled, handoffs, exchange, desktops>>

DisableAccount ==
  /\ ~disabled
  /\ disabled' = TRUE
  /\ UNCHANGED <<time, browser, handoffs, exchange, desktops>>

HandoffTick ==
  /\ time < MaxHandoffTime
  /\ time' = time + 1
  /\ UNCHANGED <<browser, disabled, handoffs, exchange, desktops>>

HandoffNext ==
  \/ \E m \in {"pwd", "otp", "swk"} : StepUpBrowser(m)
  \/ \E a \in HandoffApps :
       \/ \E s \in HandoffApps : MintHandoff(a, s) \/ \E c \in HandoffCodes : RedeemHandoff(a, s, c)
       \/ ExchangeHandoff(a) \/ ExchangeDies(a)
  \/ SignOutBrowser \/ DisableAccount \/ HandoffTick

HandoffSpec == HandoffInit /\ [][HandoffNext]_handoffVars

-------------------------------------------------------------------------------
\* mint_desktop_handoff's "same MFA level and no fresher sign-in than the
\* browser had" (flows.py 523) and redeem's single spend (desktop_handoff.py
\* 160): a code starts one session, of the app that made its challenge, with
\* methods and a sign-in time the browser had proved when it minted.
DesktopsCarryTheBrowser ==
  \A d \in desktops :
    LET h == handoffs[d.code]
    IN /\ h.challenge = d.app
       /\ h.scheme \in AllowedSchemes
       /\ d.amr \subseteq h.had.proven /\ h.had.amr \subseteq d.amr
       /\ d.auth = h.had.auth
       /\ \A e \in desktops : e.code = d.code => e = d
===============================================================================
