------------------------------- MODULE MCSignIn -------------------------------
(***************************************************************************)
(* Signing in, each part on a small instance: the throttle on failed       *)
(* attempts, accounts with their passwords and mailed links, and commands  *)
(* signed in through a browser that share a keyring.  They share no state, *)
(* so a behaviour follows one of them.                                     *)
(***************************************************************************)
EXTENDS LoginThrottle, Accounts, DeviceLogin

VARIABLE part

MCInit == ThrottleInit /\ AccountsInit /\ CInit /\ part \in {"throttle", "accounts", "devices"}

MCNext ==
    \/ part = "throttle" /\ ThrottleNext /\ UNCHANGED <<accountVars, cvars, part>>
    \/ part = "accounts" /\ AccountsNext /\ UNCHANGED <<throttleVars, cvars, part>>
    \/ part = "devices" /\ CNext /\ UNCHANGED <<throttleVars, accountVars, part>>

MCSpec == MCInit /\ [][MCNext]_<<throttleVars, accountVars, cvars, part>>

\* Nothing compares or orders these.
Alike == UNION {Permutations(S) : S \in {User, Address, Password, Link, Family, Tries, Requests, Proc, Command}}
===============================================================================
