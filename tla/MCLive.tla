-------------------------------- MODULE MCLive --------------------------------
(***************************************************************************)
(* What must come to an end, each on a small instance: refresh requests    *)
(* and the sweeps that revoke families, the commands of a device login,    *)
(* and the records of a stream.  They share no state, so a behaviour       *)
(* follows one.                                                            *)
(***************************************************************************)
EXTENDS RefreshFamilies, StreamConsumer, TLC

CONSTANTS f1, d1, d2, Grant, Command, Nobody, NoCall

OneFamily == {f1}
Devices == {d1, d2}
Label == (f1 :> d1)

VARIABLES moment, grant, call, cache, check, handedOut, endedAt, keyring, lock, cmd, late, part

deviceVars == <<moment, grant, call, cache, check, handedOut, endedAt, keyring, lock, cmd, late>>

\* Two commands on one machine, whose requests may time out while the server works on them.
D == INSTANCE DeviceLogin WITH
       now <- moment, issued <- handedOut, Thread <- {}, Grace <- 1, SessionTTL <- 2, AccessTTL <- 1,
       CacheTTL <- 0, MaxNow <- 2, MaxGen <- 2, Ops <- {"login", "timeout", "logout", "revoke"}

\* Tokens are numbers here and a request that mints takes the lowest left: which one
\* it takes makes no difference to any operation.
InOrder == \A t \in used : 1..t \subseteq used

LInit == Init /\ D!CInit /\ StreamInit /\ part \in {"refresh", "devices", "stream"}

LNext ==
    \/ part = "refresh" /\ Next /\ InOrder' /\ UNCHANGED <<deviceVars, streamVars, part>>
    \/ part = "devices" /\ D!CNext /\ UNCHANGED <<vars, streamVars, part>>
    \/ part = "stream" /\ StreamNext /\ UNCHANGED <<vars, deviceVars, part>>

\* The fairness of each: of a part that does not move, no action is enabled.
LiveSpec ==
    /\ LInit /\ [][LNext]_<<vars, deviceVars, streamVars, part>>
    /\ \A p \in Proc : WF_vars(Work(p))
    /\ D!Fairness /\ StreamFairness

\* The property of DeviceLogin, and that of StreamConsumer: a command ends whatever
\* its requests met, and a batch is retried until the shard is left behind.
WorkIsTakenToItsEnd == D!CommandsEnd /\ EveryRecordIsLeftBehind
===============================================================================
