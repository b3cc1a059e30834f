---------------------------- MODULE TerraformRuns ----------------------------
(***************************************************************************)
(* tf/cli.py and tf/client.py: the wp-tf commands that start, follow,      *)
(* confirm, discard and cancel one run of the control plane, while other   *)
(* people use its pages, and the commands that set a workspace's variable. *)
(* Each request is one step and may be carried out without being heard.    *)
(*                                                                         *)
(* The control plane is another program: a run moves through its statuses, *)
(* writes log lines that become readable a moment later, and refuses what  *)
(* its status does not allow.                                              *)
(***************************************************************************)
EXTENDS Integers, FiniteSets

CONSTANTS
  Terminals,          \* terminals in which one command runs
  MaxLines,           \* bound: lines of a phase's log
  PageLines,          \* lines of a page of it
  DrainEmptyPages,    \* DRAIN_EMPTY_PAGES
  ConfirmAttempts     \* CONFIRM_ATTEMPTS

VARIABLES
  run,                \* the plane's run: status, shape, whether it can be confirmed yet, who confirmed it
  written, readable,  \* phase -> lines of its log, and those a request is answered with
  terminal,           \* the commands
  variable,           \* the stored variable: there, sensitive
  exposed             \* history: a set stored it readable that had read it sensitive

terraformVars == <<run, written, readable, terminal, variable, exposed>>
planeVars == <<run, written>>

Phases == {"plan", "apply"}
TERMINAL_STATUSES == {"applied", "planned_and_finished", "errored", "cancelled", "discarded"}
SUCCESS_STATUSES == {"planned_and_finished", "planned", "awaiting_confirmation", "applied"}
CONFIRMABLE_STATUSES == {"awaiting_confirmation"}
DISCARDABLE_STATUSES == {"planned", "awaiting_confirmation"}
APPLY_STATUSES == {"applying", "applied"}

Somebody == "a page"
Unasked == "unconfirmed"
NoRun == [status |-> "none", planOnly |-> FALSE, ready |-> FALSE, confirmedBy |-> Unasked]

\* A terminal is neither of these, a page of a log has a line, and a drain takes two
\* empty pages: the first may have been cut before the last lines were readable.
ASSUME DrainsTakeTwoPages ==
  /\ {Somebody, Unasked} \cap Terminals = {}
  /\ PageLines \in Nat \ {0} /\ DrainEmptyPages \in Nat \ {0, 1} /\ MaxLines \in Nat /\ ConfirmAttempts \in Nat

\* "after" is the cursor, "printed" the lines on the screen, "heard" the lines
\* written when the last page was asked for.
NewTerminal == [at |-> "idle", cmd |-> "", auto |-> FALSE, phase |-> "plan", status |-> "", after |-> 0, printed |-> [p \in Phases |-> 0],
                heard |-> 0, empty |-> 0, tries |-> 0, answer |-> "none", outcome |-> "", sensitive |-> FALSE]

TerraformInit ==
  /\ run = NoRun /\ written = [p \in Phases |-> 0] /\ readable = written
  /\ terminal = [c \in Terminals |-> NewTerminal]
  /\ variable \in [there : BOOLEAN, sensitive : {FALSE}] /\ exposed = FALSE

Is(c, where) == terminal[c].at = where
Shows(c, record) == terminal' = [terminal EXCEPT ![c] = record]
Exits(c, outcome) == Shows(c, [terminal[c] EXCEPT !.at = "done", !.outcome = outcome])
Follows(c, phase) == [terminal[c] EXCEPT !.at = "status", !.phase = phase, !.after = 0, !.heard = 0]

-------------------------------------------------------------------------------
(* The control plane.                                                      *)

Moves(from, to) == run.status \in from /\ run' = [run EXCEPT !.status = to]

PlaneMoves ==
  /\ \/ Moves({"planning"}, "errored")
     \/ run.planOnly /\ Moves({"planning"}, "planned_and_finished")
     \/ ~run.planOnly /\ \E to \in {"planned_and_finished", "planned", "awaiting_confirmation"} : Moves({"planning"}, to)
     \/ Moves({"planned"}, "awaiting_confirmation")
     \/ \E to \in {"applied", "errored"} : Moves({"applying"}, to)
     \/ run.status = "awaiting_confirmation" /\ ~run.ready /\ run' = [run EXCEPT !.ready = TRUE]
  /\ UNCHANGED <<written, readable, terminal, variable, exposed>>

PlaneWrites(p) ==
  /\ run.status = (IF p = "plan" THEN "planning" ELSE "applying") /\ written[p] < MaxLines
  /\ written' = [written EXCEPT ![p] = @ + 1]
  /\ UNCHANGED <<run, readable, terminal, variable, exposed>>

\* What a request does to the run, and whether the plane agrees to it.
MayConfirm == run.status \in CONFIRMABLE_STATUSES /\ run.ready
Confirmed(by) == run' = [run EXCEPT !.status = "applying", !.confirmedBy = by]
MayDiscard == run.status \in DISCARDABLE_STATUSES
Discarded == run' = [run EXCEPT !.status = "discarded"]
MayCancel == run.status \notin TERMINAL_STATUSES \cup {"none"}
Cancelled == run' = [run EXCEPT !.status = "cancelled"]

OtherPeople ==
  /\ (MayConfirm /\ Confirmed(Somebody)) \/ (MayDiscard /\ Discarded) \/ (MayCancel /\ Cancelled)
  /\ UNCHANGED <<written, readable, terminal, variable, exposed>>

-------------------------------------------------------------------------------
\* The directory is uploaded and the run created; either may fail, or be carried
\* out unheard.
StartRun(c, cmd) ==
  /\ Is(c, "idle") /\ cmd \in {"plan", "apply"} /\ run = NoRun
  /\ \E created, heard \in BOOLEAN :
       /\ run' = IF created THEN [NoRun EXCEPT !.status = "planning", !.planOnly = cmd = "plan"] ELSE run
       /\ \E auto \in {FALSE, cmd = "apply"} :
            Shows(c, IF created /\ heard THEN [Follows(c, "plan") EXCEPT !.cmd = cmd, !.auto = auto]
                     ELSE [terminal[c] EXCEPT !.at = "done", !.cmd = cmd, !.outcome = "error"])
  /\ UNCHANGED <<written, readable, variable, exposed>>

\* confirm, discard and logs name a run that is there.
NameRun(c, cmd) ==
  /\ Is(c, "idle") /\ cmd \in {"confirm", "discard", "logs"} /\ run # NoRun
  /\ Shows(c, [(IF cmd = "logs" THEN Follows(c, "plan") ELSE terminal[c]) EXCEPT !.cmd = cmd, !.answer = IF cmd = "confirm" THEN "yes" ELSE "none",
                  !.at = IF cmd = "logs" THEN "status" ELSE cmd, !.tries = 1])
  /\ UNCHANGED <<planeVars, readable, variable, exposed>>

\* The statuses a follow stops at: for the plan of an apply, those that need a decision too.
Until(c) ==
  IF terminal[c].cmd = "apply" /\ terminal[c].phase = "plan"
  THEN TERMINAL_STATUSES \cup DISCARDABLE_STATUSES \cup APPLY_STATUSES ELSE TERMINAL_STATUSES

ReadStatus(c) ==
  /\ Is(c, "status")
  /\ Shows(c, [terminal[c] EXCEPT !.at = "page", !.status = run.status])
  /\ UNCHANGED <<planeVars, readable, variable, exposed>>

\* One page.  Lines older than the page before are readable by now.  After the
\* status that ends the follow, pages are read until enough in a row are empty.
\* drain_log: so many empty pages in a row end the drain, and each line read moves
\* the cursor.
Enough(empty) == empty >= DrainEmptyPages
Cursor(after, n) == after + n

ReadPage(c) ==
  LET t == terminal[c] p == t.phase IN
  /\ Is(c, "page")
  /\ \E seen \in readable[p] .. written[p] :
       LET n == IF seen - t.after > PageLines THEN PageLines ELSE seen - t.after
           empty == IF n > 0 THEN 0 ELSE t.empty + 1
           ended == t.status \in Until(c)
           next == [t EXCEPT !.after = Cursor(@, n), !.printed[p] = @ + n, !.heard = written[p],
                             !.empty = IF ended THEN empty ELSE 0]
       IN  /\ seen >= t.heard
           /\ readable' = [readable EXCEPT ![p] = seen]
           /\ Shows(c, [next EXCEPT !.at = IF ~ended THEN "status" ELSE IF Enough(empty) THEN "ended" ELSE "page"])
  /\ UNCHANGED <<planeVars, variable, exposed>>

\* What a command does with the run it followed to its stop.
FollowEnds(c) ==
  LET t == terminal[c] IN
  /\ Is(c, "ended")
  /\ \/ t.phase = "apply" /\ Exits(c, IF t.status = "applied" THEN "applied" ELSE "failed")
     \/ t.phase = "plan" /\ t.cmd = "logs" /\ Exits(c, "ok")
     \/ t.phase = "plan" /\ t.cmd = "plan" /\ Exits(c, IF t.status \in SUCCESS_STATUSES THEN "ok" ELSE "failed")
     \/ /\ t.phase = "plan" /\ t.cmd = "apply"
        /\ Shows(c, CASE t.status = "planned_and_finished" -> [t EXCEPT !.at = "done", !.outcome = "no changes"]
                      [] t.status \in APPLY_STATUSES -> [Follows(c, "apply") EXCEPT !.empty = 0]
                      [] t.status \in CONFIRMABLE_STATUSES -> [t EXCEPT !.at = IF t.auto THEN "confirm" ELSE "prompt", !.tries = 1, !.empty = 0]
                      [] OTHER -> [t EXCEPT !.at = "done", !.outcome = "failed"])
  /\ UNCHANGED <<planeVars, readable, variable, exposed>>

\* Only "yes" approves; an interrupt or the end of the input declines.
Prompt(c) ==
  /\ Is(c, "prompt")
  /\ \E yes \in BOOLEAN : Shows(c, [terminal[c] EXCEPT !.answer = IF yes THEN "yes" ELSE "no", !.at = IF yes THEN "confirm" ELSE "discard"])
  /\ UNCHANGED <<planeVars, readable, variable, exposed>>

\* A refused confirmation is retried while the run still awaits one; a request not
\* heard, or refused for the scope, ends the command.
Confirm(c) ==
  LET t == terminal[c] IN
  /\ Is(c, "confirm")
  /\ \/ MayConfirm /\ Confirmed(c) /\ Shows(c, [Follows(c, "apply") EXCEPT !.empty = 0])
     \/ MayConfirm /\ Confirmed(c) /\ Exits(c, "error")
     \/ UNCHANGED run /\ Exits(c, "error")
     \/ ~MayConfirm /\ t.tries < ConfirmAttempts /\ Shows(c, [t EXCEPT !.at = "recheck"]) /\ UNCHANGED run
  /\ UNCHANGED <<written, readable, variable, exposed>>

StillConfirmable(c) ==
  /\ Is(c, "recheck")
  /\ IF run.status \in CONFIRMABLE_STATUSES
     THEN Shows(c, [terminal[c] EXCEPT !.at = "confirm", !.tries = @ + 1])
     ELSE Exits(c, "error")
  /\ UNCHANGED <<planeVars, readable, variable, exposed>>

\* "was not applied" is said only if the plane agreed.
SaysDiscarded(agreed) == agreed

Discard(c) ==
  /\ Is(c, "discard")
  /\ \E heard \in BOOLEAN :
       /\ IF MayDiscard THEN Discarded ELSE UNCHANGED run
       /\ Exits(c, IF SaysDiscarded(MayDiscard /\ heard) THEN "discarded" ELSE "error")
  /\ UNCHANGED <<written, readable, variable, exposed>>

\* An interrupt while the plan is followed cancels the run; one while an apply or
\* an existing run's log is followed only stops following.
Interrupt(c) ==
  /\ terminal[c].at \in {"status", "page"}
  /\ IF terminal[c].phase = "plan" /\ terminal[c].cmd \in {"plan", "apply"}
     THEN Shows(c, [terminal[c] EXCEPT !.at = "cancel"])
     ELSE Exits(c, "stopped")
  /\ UNCHANGED <<planeVars, readable, variable, exposed>>

CancelAfterInterrupt(c) ==
  /\ Is(c, "cancel")
  /\ (MayCancel /\ Cancelled) \/ UNCHANGED run
  /\ Exits(c, "cancelled")
  /\ UNCHANGED <<written, readable, variable, exposed>>

-------------------------------------------------------------------------------
\* var set reads the variable and replaces it with every attribute, keeping those
\* not named.
ReadVariable(c, sensitive) ==
  /\ Is(c, "idle")
  /\ Shows(c, [terminal[c] EXCEPT !.at = "put", !.cmd = "set", !.sensitive = sensitive \/ variable.sensitive])
  /\ UNCHANGED <<planeVars, readable, variable, exposed>>

KeptSensitive(c) == terminal[c].sensitive

PutVariable(c) ==
  /\ Is(c, "put")
  /\ variable' = [there |-> TRUE, sensitive |-> KeptSensitive(c)]
  /\ exposed' = (exposed \/ (terminal[c].sensitive /\ ~KeptSensitive(c)))
  /\ Exits(c, "ok")
  /\ UNCHANGED <<planeVars, readable>>

UnsetVariable(c) ==
  /\ Is(c, "idle")
  /\ variable' = [there |-> FALSE, sensitive |-> FALSE]
  /\ Shows(c, [terminal[c] EXCEPT !.cmd = "unset", !.at = "done", !.outcome = IF variable.there THEN "ok" ELSE "error"])
  /\ UNCHANGED <<planeVars, readable, exposed>>

TerraformNext ==
  \/ PlaneMoves \/ OtherPeople \/ \E p \in Phases : PlaneWrites(p)
  \/ \E c \in Terminals :
       \/ \E cmd \in {"plan", "apply"} : StartRun(c, cmd)
       \/ \E cmd \in {"confirm", "discard", "logs"} : NameRun(c, cmd)
       \/ ReadStatus(c) \/ ReadPage(c) \/ FollowEnds(c) \/ Prompt(c) \/ Confirm(c) \/ StillConfirmable(c)
       \/ Discard(c) \/ Interrupt(c) \/ CancelAfterInterrupt(c)
       \/ \E sensitive \in BOOLEAN : ReadVariable(c, sensitive)
       \/ PutVariable(c) \/ UnsetVariable(c)

-------------------------------------------------------------------------------
\* What a command says of the run when it ends is so, whoever else acted on it.
Says(outcome) == {c \in Terminals : Is(c, "done") /\ terminal[c].outcome = outcome}
EndsAreTrue ==
  /\ Says("applied") # {} => run.status = "applied"
  /\ Says("discarded") # {} => run.status = "discarded"
  /\ Says("no changes") # {} => run.status = "planned_and_finished"

\* Nothing is applied that nobody confirmed, that was only to be planned, or by a
\* command whose prompt was declined; and no command confirms a plan it has not read.
NothingIsAppliedUnasked ==
  /\ run.status \in APPLY_STATUSES => run.confirmedBy # Unasked /\ ~run.planOnly
  /\ \A c \in Terminals : run.confirmedBy = c =>
       terminal[c].answer # "no" /\ (terminal[c].cmd = "apply" => terminal[c].printed["plan"] = written["plan"])

\* A log followed to the end is whole: nothing printed twice, and no line left out
\* that was readable a poll after it was written.
LogsAreWhole ==
  \A c \in Terminals :
    /\ \A p \in Phases : terminal[c].printed[p] <= written[p]
    /\ Is(c, "ended") => terminal[c].printed[terminal[c].phase] = written[terminal[c].phase]

RunsAreFollowed == EndsAreTrue /\ NothingIsAppliedUnasked /\ LogsAreWhole /\ ~exposed

\* The help of var set: "a sensitive variable stays sensitive".  A set that read the
\* variable before another made it sensitive stores it readable again.
SensitiveStaysSensitive == [][variable.sensitive /\ variable'.there => variable'.sensitive]_variable
===============================================================================
