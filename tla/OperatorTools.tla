---------------------------- MODULE OperatorTools ----------------------------
(***************************************************************************)
(* ops/config.py and ops/admin.py: operators change keys of a secret, keys *)
(* of a config parameter, or the admin flag of a user, at the same time.   *)
(* The targets share no state, so the commands of a behaviour have one in  *)
(* common.  Each call to AWS is one step; a command may be interrupted     *)
(* between any two.                                                        *)
(***************************************************************************)
EXTENDS Integers, FiniteSets, Sequences, SequencesExt

CONSTANTS
  Commands,       \* each runs once, under an operator's name of its own
  ConfigKeys, ConfigValues,
  Changes,        \* what a command may change: partial functions from keys to values
  Absent,         \* the value of a key that is not there; unset changes to it
  Retries         \* retries of SecretStore and ConfigStore

VARIABLES
  target,         \* what the commands change
  command,
  versions,       \* the values of the secret's versions, oldest first
  current,        \* the version staged AWSCURRENT, 0 for none
  pendingLabel,   \* the version staged AWSPENDING, 0 for none
  wasCurrent,     \* history: every version that has been current, and 0
  parameter,      \* the parameter's value and version, version 0 before it is created
  adminRow, shown,  \* the user's row, and what the index shows of it
  latest,         \* history: who last changed a key to what, by the order the changes took effect
  lost            \* history: keys a config write put back, having checked before another write

opsVars == <<target, command, versions, current, pendingLabel, wasCurrent, parameter, adminRow, shown, latest, lost>>
secretVars == <<versions, current, pendingLabel, wasCurrent>>
adminVars == <<adminRow, shown>>

Empty == [k \in ConfigKeys |-> Absent]
NoVersion == 0
Nobody == "nobody"

\* Changes are of the keys there are, and no operator goes by nobody's name.
ASSUME ChangesAreOfKeys ==
  /\ Nobody \notin Commands /\ Retries \in Nat
  /\ \A change \in Changes : \A k \in DOMAIN change : k \in ConfigKeys /\ change[k] \in ConfigValues \cup {Absent}

\* History: whether one of the command's changes took effect.
NewCommand == [at |-> "start", change |-> <<>>, base |-> 0, value |-> Empty, version |-> 0, tries |-> 0,
               outcome |-> "", wrote |-> FALSE, grant |-> FALSE, known |-> FALSE]

OpsInit ==
  /\ target \in {"secret", "config", "admin"}
  /\ command = [c \in Commands |-> NewCommand]
  /\ versions = <<>> /\ current = NoVersion /\ pendingLabel = NoVersion /\ wasCurrent = {NoVersion}
  /\ parameter = [version |-> 0, value |-> Empty]
  /\ adminRow = [there |-> TRUE, admin |-> FALSE, grantedBy |-> Nobody, revokedBy |-> Nobody] /\ shown = adminRow
  /\ latest = Empty /\ lost = {}

At(c, where) == command[c].at = where
Becomes(c, record) == command' = [command EXCEPT ![c] = record]
Ends(c, outcome) == Becomes(c, [command[c] EXCEPT !.at = "done", !.outcome = outcome])

\* The mutation a command applies to what it read, and the history of one that took effect.
Mutated(value, change) == [k \in ConfigKeys |-> IF k \in DOMAIN change THEN change[k] ELSE value[k]]
TookEffect(c) == latest' = Mutated(latest, command[c].change)
ValueOf(version) == IF version = NoVersion THEN Empty ELSE versions[version]

\* A swap or a check that another change got ahead of: read again, or give up.
Again(c) ==
  IF command[c].tries < Retries THEN [command[c] EXCEPT !.at = "read", !.tries = @ + 1]
  ELSE [command[c] EXCEPT !.at = "done", !.outcome = "conflict"]

-------------------------------------------------------------------------------
Start(c, change) ==
  /\ target \in {"secret", "config"} /\ At(c, "start")
  /\ Becomes(c, [command[c] EXCEPT !.at = "read", !.change = change])
  /\ UNCHANGED <<target, secretVars, parameter, adminVars, latest, lost>>

\* Whatever version was current at some time: the read may be stale.
ReadSecret(c) ==
  /\ target = "secret" /\ At(c, "read")
  /\ \E base \in wasCurrent :
       LET updated == Mutated(ValueOf(base), command[c].change) IN
       Becomes(c, IF updated = ValueOf(base) THEN [command[c] EXCEPT !.at = "done", !.outcome = "unchanged"]
                  ELSE [command[c] EXCEPT !.at = "stage", !.base = base, !.value = updated])
  /\ UNCHANGED <<target, secretVars, parameter, adminVars, latest, lost>>

\* The new version takes the pending label; the very first is current at once.
StageVersion(c) ==
  LET n == Len(versions) + 1 IN
  /\ target = "secret" /\ At(c, "stage")
  /\ versions' = Append(versions, command[c].value) /\ pendingLabel' = n
  /\ IF n = 1
     THEN /\ current' = n /\ wasCurrent' = wasCurrent \cup {n} /\ TookEffect(c)
          /\ Becomes(c, [command[c] EXCEPT !.at = "release", !.version = n, !.outcome = "changed", !.wrote = TRUE])
     ELSE /\ Becomes(c, [command[c] EXCEPT !.at = "promote", !.version = n])
          /\ UNCHANGED <<current, wasCurrent, latest>>
  /\ UNCHANGED <<target, parameter, adminVars, lost>>

\* Secrets Manager moves the label only from the version it is said to be on.
\* variant: it is moved from wherever it is
LabelIsOn_anywhere(base) == TRUE
LabelIsOn(base) == current = base

Promote(c) ==
  LET mine == command[c] IN
  /\ target = "secret" /\ At(c, "promote")
  /\ \/ /\ LabelIsOn(mine.base)
        /\ current' = mine.version /\ wasCurrent' = wasCurrent \cup {mine.version} /\ TookEffect(c)
        /\ \E outcome \in {"changed", "unconfirmed"} :
             Becomes(c, [mine EXCEPT !.at = "release", !.outcome = outcome, !.wrote = TRUE])
     \/ /\ \E outcome \in {"unconfirmed"} \cup (IF LabelIsOn(mine.base) THEN {} ELSE {"lost"}) :
             Becomes(c, [mine EXCEPT !.at = "release", !.outcome = outcome])
        /\ UNCHANGED <<current, wasCurrent, latest>>
  /\ UNCHANGED <<target, versions, pendingLabel, parameter, adminVars, lost>>

\* The label may be on another command's version by now; then nothing happens.
ReleasePending(c) ==
  LET mine == command[c] IN
  /\ target = "secret" /\ At(c, "release")
  /\ pendingLabel' = IF pendingLabel = mine.version THEN NoVersion ELSE pendingLabel
  /\ Becomes(c, IF mine.outcome = "lost" THEN Again(c) ELSE [mine EXCEPT !.at = "done"])
  /\ UNCHANGED <<target, versions, current, wasCurrent, parameter, adminVars, latest, lost>>

-------------------------------------------------------------------------------
Sets(change) == Absent \notin {change[k] : k \in DOMAIN change}

\* A parameter that is missing is created by a set and refused to an unset; after
\* another command created it first, the set goes on as a merge.
ReadParameter(c) ==
  LET updated == Mutated(parameter.value, command[c].change) IN
  /\ target = "config" /\ At(c, "read")
  /\ Becomes(c,
       IF parameter.version = 0 THEN [command[c] EXCEPT !.at = IF Sets(command[c].change) THEN "create" ELSE "done", !.outcome = "missing"]
       ELSE IF updated = parameter.value THEN [command[c] EXCEPT !.at = "done", !.outcome = "unchanged"]
       ELSE [command[c] EXCEPT !.at = "check", !.base = parameter.version, !.value = updated])
  /\ UNCHANGED <<target, secretVars, parameter, adminVars, latest, lost>>

CreateParameter(c) ==
  /\ target = "config" /\ At(c, "create")
  /\ IF parameter.version = 0
     THEN /\ parameter' = [version |-> 1, value |-> Mutated(Empty, command[c].change)] /\ TookEffect(c)
          /\ Becomes(c, [command[c] EXCEPT !.at = "done", !.outcome = "changed", !.wrote = TRUE])
     ELSE Becomes(c, [command[c] EXCEPT !.at = "read"]) /\ UNCHANGED <<parameter, latest>>
  /\ UNCHANGED <<target, secretVars, adminVars, lost>>

SameVersion(c) == parameter.version = command[c].base

CheckVersion(c) ==
  /\ target = "config" /\ At(c, "check")
  /\ Becomes(c, IF SameVersion(c) THEN [command[c] EXCEPT !.at = "write", !.known = parameter.version = command[c].base] ELSE Again(c))
  /\ UNCHANGED <<target, secretVars, parameter, adminVars, latest, lost>>

\* The write has no condition: a change since the check is undone.
WriteParameter(c) ==
  LET mine == command[c] undone == {k \in ConfigKeys \ DOMAIN mine.change : mine.value[k] # parameter.value[k]} IN
  /\ target = "config" /\ At(c, "write")
  /\ parameter' = [version |-> parameter.version + 1, value |-> mine.value]
  /\ TookEffect(c)
  /\ lost' = (lost \ DOMAIN mine.change) \cup (IF mine.known THEN undone ELSE {})
  /\ Becomes(c, [mine EXCEPT !.at = "done", !.outcome = "changed", !.wrote = TRUE])
  /\ UNCHANGED <<target, secretVars, adminVars>>

-------------------------------------------------------------------------------
\* By id the row is read, by address the index, which may lag.
FindUser(c, grant, row) ==
  /\ target = "admin" /\ At(c, "start") /\ row \in {adminRow, shown}
  /\ Becomes(c, IF ~row.there THEN [command[c] EXCEPT !.at = "done", !.outcome = "missing"]
                ELSE IF row.admin = grant THEN [command[c] EXCEPT !.at = "done", !.outcome = "unchanged"]
                ELSE [command[c] EXCEPT !.at = "flag", !.grant = grant])
  /\ UNCHANGED <<target, secretVars, parameter, adminVars, latest, lost>>

MayFlag(grant) == adminRow.there /\ adminRow.admin # grant

\* The flag, who set it and the other pair of attributes change in one update.
WriteFlag(c) ==
  LET grant == command[c].grant IN
  /\ target = "admin" /\ At(c, "flag") /\ MayFlag(grant)
  /\ adminRow' = [adminRow EXCEPT !.admin = grant, !.grantedBy = IF grant THEN c ELSE Nobody, !.revokedBy = IF grant THEN Nobody ELSE c]
  /\ Becomes(c, [command[c] EXCEPT !.at = "done", !.outcome = "changed", !.wrote = adminRow.admin # grant])
  /\ UNCHANGED <<target, secretVars, parameter, shown, latest, lost>>

\* A refused condition is looked into: the row is gone, or the flag was there first.
FlagRefused(c) ==
  /\ target = "admin" /\ At(c, "flag") /\ ~MayFlag(command[c].grant)
  /\ Becomes(c, [command[c] EXCEPT !.at = "look"])
  /\ UNCHANGED <<target, secretVars, parameter, adminVars, latest, lost>>

LookAgain(c) ==
  /\ target = "admin" /\ At(c, "look")
  /\ Ends(c, IF adminRow.there THEN "unchanged" ELSE "missing")
  /\ UNCHANGED <<target, secretVars, parameter, adminVars, latest, lost>>

IndexShows ==
  /\ target = "admin" /\ shown # adminRow /\ shown' = adminRow
  /\ UNCHANGED <<target, command, secretVars, parameter, adminRow, latest, lost>>

UserDeleted ==
  /\ target = "admin" /\ adminRow.there
  /\ adminRow' = [there |-> FALSE, admin |-> FALSE, grantedBy |-> Nobody, revokedBy |-> Nobody]
  /\ UNCHANGED <<target, command, secretVars, parameter, shown, latest, lost>>

\* A refused call, or the operator's interrupt, ends the command where it stands.
Interrupted(c) ==
  /\ command[c].at \notin {"start", "done"} /\ Ends(c, "interrupted")
  /\ UNCHANGED <<target, secretVars, parameter, adminVars, latest, lost>>

OpsNext ==
  \/ IndexShows \/ UserDeleted
  \/ \E c \in Commands :
       \/ \E change \in Changes : Start(c, change)
       \/ ReadSecret(c) \/ StageVersion(c) \/ Promote(c) \/ ReleasePending(c)
       \/ ReadParameter(c) \/ CreateParameter(c) \/ CheckVersion(c) \/ WriteParameter(c)
       \/ \E grant \in BOOLEAN, row \in {adminRow, shown} : FindUser(c, grant, row)
       \/ WriteFlag(c) \/ FlagRefused(c) \/ LookAgain(c)
       \/ Interrupted(c)

-------------------------------------------------------------------------------
Outcomes(outcome) == {c \in Commands : At(c, "done") /\ command[c].outcome = outcome}
AllEnded == \A c \in Commands : At(c, "done")

\* The secret holds every key as it was last changed, whatever commands crossed and
\* however stale their reads.  A command that ends in a conflict changed nothing, as
\* its error says, one reported done did, and no pending label is left behind.
SecretsSurvive ==
  target = "secret" =>
    /\ ValueOf(current) = latest
    /\ \A c \in Outcomes("conflict") \cup Outcomes("unchanged") : ~command[c].wrote
    /\ \A c \in Outcomes("changed") : command[c].wrote
    /\ AllEnded /\ Outcomes("interrupted") = {} => pendingLabel = NoVersion

\* The parameter too, but for keys another command changed between this one's check
\* of the version and its write.
ConfigLosesOnlyTheWindow ==
  target = "config" =>
    /\ \A k \in ConfigKeys \ lost : parameter.value[k] = latest[k]
    /\ \A c \in Outcomes("conflict") : ~command[c].wrote

\* Of two operators that make the same change one is told it did, and is the one the
\* row names; a deleted row is not made again by a grant.
AdminsAreAttributed ==
  target = "admin" =>
    /\ \A c \in Outcomes("changed") : command[c].wrote
    /\ adminRow.admin = (adminRow.grantedBy # Nobody)
    /\ {adminRow.grantedBy, adminRow.revokedBy} \ {Nobody} \subseteq Outcomes("changed")
    /\ adminRow.there \/ ~adminRow.admin

OperatorsDoNotCross == SecretsSurvive /\ ConfigLosesOnlyTheWindow /\ AdminsAreAttributed
===============================================================================
