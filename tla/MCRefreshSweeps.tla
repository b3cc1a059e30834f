---------------------------- MODULE MCRefreshSweeps ----------------------------
(***************************************************************************)
(* Three instances of RefreshFamilies over one set of variables, of which  *)
(* a behaviour follows one: this module's own, one family rotated by two   *)
(* requests at once, each of which may stop anywhere; S, two sessions on   *)
(* two devices and every way to end some of them; and L, one family whose  *)
(* indexes lag, whose rows expire and are purged.                          *)
(***************************************************************************)
EXTENDS RefreshFamilies, TLC

\* Two rotations at once, each of which may end in a replay, need five tokens; the
\* other instances take Few of them.
CONSTANTS Few, f1, f2, d1, d2

OneFamily == {f1}
Devices == {d1, d2}
Label == (f1 :> d1)
TwoFamilies == {f1, f2}
TwoLabels == (f1 :> d1 @@ f2 :> d2)

VARIABLE part

S == INSTANCE RefreshFamilies WITH
       Token <- Few, Family <- TwoFamilies, DeviceOf <- TwoLabels, MaxNow <- 2,
       Ops <- {"logoutAll", "revokeOwned", "revokeOthers", "revokeDevice", "endAll", "refresh", "stepUp"}

L == INSTANCE RefreshFamilies WITH
       Token <- Few, RollingTTL <- 1, AbsoluteTTL <- 2,
       Ops <- {"refresh", "logout", "lag", "reclaim", "purge", "deactivate"}

MCInit == (part = "rotation" /\ Init) \/ (part = "sessions" /\ S!Init) \/ (part = "lag" /\ L!Init)

MCNext ==
    \/ part = "rotation" /\ Next /\ UNCHANGED part
    \/ part = "sessions" /\ S!Next /\ UNCHANGED part
    \/ part = "lag" /\ L!Next /\ UNCHANGED part

MCSpec == MCInit /\ [][MCNext]_<<vars, part>>

\* This module's own instance alone, for a run that gives it constants of its own.
TwoSessionsSpec == part = "sessions" /\ Init /\ [][Next /\ UNCHANGED part]_<<vars, part>>

\* Tokens and requests are interchangeable: no operation compares or orders them.
Interchangeable == Permutations(Few) \cup Permutations(Proc)
TokensAlike == Permutations(Token)

\* The properties of this module's instance are those of the other instances too: they
\* read the same variables and have the same window of grace and shorter or equal lives.
================================================================================
