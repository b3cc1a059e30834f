------------------------------ MODULE MCFactors ------------------------------
(***************************************************************************)
(* The ways to prove who one is after a password, each on its own small    *)
(* instance: they share no state, so a behaviour follows one of them,      *)
(* chosen in the initial state, and the others stay where they start.      *)
(***************************************************************************)
EXTENDS SecondFactors, Passkeys, DesktopHandoff, TLC

VARIABLE part

vars == <<part, mfaVars, keyVars, handoffVars>>

Part(name) == part = name /\ part' = name

Init ==
  /\ part \in {"mfa", "passkeys", "handoff"}
  /\ MfaInit /\ PasskeyInit /\ HandoffInit
  /\ part # "handoff" => browser.amr = {"pwd"}

Next ==
  \/ Part("mfa") /\ MfaNext /\ UNCHANGED <<keyVars, handoffVars>>
  \/ Part("passkeys") /\ PasskeyNext /\ UNCHANGED <<mfaVars, handoffVars>>
  \/ Part("handoff") /\ HandoffNext /\ UNCHANGED <<mfaVars, keyVars>>

Spec == Init /\ [][Next]_vars

Sym == Permutations(MfaRequests) \cup Permutations(Ceremonies)
===============================================================================
