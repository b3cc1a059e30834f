---------------------------- MODULE FailureStreak ----------------------------
(***************************************************************************)
(* What the login-attempts table is read for: the unbroken run of          *)
(* failures of the last Lookback, which a success ends.                    *)
(***************************************************************************)
EXTENDS Integers

CONSTANTS Lookback, MaxNow

VARIABLES now, streak

vars == <<now, streak>>

Init == now = 1 /\ streak = {}

Fail == streak' = streak \cup {now} /\ UNCHANGED now

Succeed == streak' = {} /\ UNCHANGED now

Tick == /\ now < MaxNow
        /\ now' = now + 1
        /\ streak' = {t \in streak : t >= now' - Lookback}

Next == Fail \/ Succeed \/ Tick

Spec == Init /\ [][Next]_vars
=============================================================================
