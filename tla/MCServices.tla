------------------------------ MODULE MCServices ------------------------------
(***************************************************************************)
(* What a product's requests pass before its own code, and how an account  *)
(* leaves: leased rate limits, windows and mail limits, API keys and share *)
(* links, and the removal of users.  They share no state here, so a        *)
(* behaviour follows one of them.                                          *)
(***************************************************************************)
EXTENDS RateLimits, BearerKeys, AccountRemoval, TLC

\* Requests are the same in every part, so permuting them permutes all parts at once.
CONSTANT Requests

VARIABLE part

vars == <<part, tierVars, windowVars, keyVars, removalVars>>

Part(name) == part = name /\ part' = name

\* No request counts in a window and in a mail's counters, so they are followed apart.
WindowsAre(steps) == \A p \in WindowRequests : windowRequest'[p].at \in steps

Init ==
  /\ part \in {"leases", "windows", "mails", "keys", "removal"}
  /\ TierInit /\ WindowInit /\ KeyInit /\ RemovalInit
  /\ part # "removal" => \A u \in UserIds : userRow[u] = "whole"

Next ==
  \/ Part("leases") /\ TierNext /\ UNCHANGED <<windowVars, keyVars, removalVars>>
  \/ Part("windows") /\ WindowNext /\ WindowsAre({"idle", "first", "open"}) /\ UNCHANGED <<tierVars, keyVars, removalVars>>
  \/ Part("mails") /\ WindowNext /\ WindowsAre({"idle", "mail"}) /\ UNCHANGED <<tierVars, keyVars, removalVars>>
  \/ Part("keys") /\ KeyNext /\ UNCHANGED <<tierVars, windowVars, removalVars>>
  \/ Part("removal") /\ RemovalNext /\ UNCHANGED <<tierVars, windowVars, keyVars>>

Spec == Init /\ [][Next]_vars

Sym == Permutations(Requests) \cup Permutations(Containers)

-------------------------------------------------------------------------------
\* One key per subject, on a plan of three a minute and four a day.
TokenScope == <<"token">>
ThreeAMinute == [s \in {"token"} |-> 3]
FourADay == [s \in {"token"} |-> 4]

\* Sign-in mail has limits of its own.
CategoryLimits ==
  [c \in {"standard", "identity"} |->
     IF c = "standard" THEN [recipient |-> 1, tenant |-> 2, daily |-> 2] ELSE [recipient |-> 2, tenant |-> 2, daily |-> 3]]

\* API keys are listed by an index, credentials by the key, and one
\* table cannot be listed by user.
PurgeTables == <<"credentials", "identity_tokens", "api_keys">>

\* Leases and windows, for whichever way a limit is counted.
LimitsHold == LeasesKeepTheCap /\ WindowsKeepTheirLimit
===============================================================================
