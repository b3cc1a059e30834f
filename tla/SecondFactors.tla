---------------------------- MODULE SecondFactors ----------------------------
(***************************************************************************)
(* One account's authenticator, recovery codes and login tickets:          *)
(* MfaService of webbpulse.identity.mfa and the operations of              *)
(* IdentityFlows that use it, run by concurrent requests over the four     *)
(* tables.  A code of the authenticator is <<"totp", seed, step>>, a       *)
(* recovery code is <<"recovery", set, number>>.                           *)
(***************************************************************************)
EXTENDS Naturals, FiniteSets

CONSTANTS MfaRequests,   \* concurrent requests
          Tickets,       \* login tickets that may be issued
          MaxSeed,       \* bound on enrolments
          MaxSet,        \* bound on sets of recovery codes
          CodesPerSet,   \* RECOVERY_CODE_COUNT
          MaxStep,       \* bound on the clock, in time steps
          Window         \* VERIFICATION_WINDOW

ASSUME CodesAreNumbered == CodesPerSet \in Nat

VARIABLES step,      \* current_step
          factor,    \* the totp-factors row: [state, seed, last]
          codes,     \* the recovery-codes rows: [code, used]
          tickets,   \* the identity-tokens row of each ticket: none, live, spent
          request,   \* what each request is doing
          seeds, sets, \* how many were generated
          accepted,  \* history: the codes accepted, and how often
          replaced,  \* history: recovery codes a finished regeneration replaced
          sessions   \* history: the sessions issued, [ticket, amr]

mfaVars == <<step, factor, codes, tickets, request, seeds, sets, accepted, replaced, sessions>>

NoFactor == [state |-> "none", seed |-> 0, last |-> 0]
Asking(at, op, c, t) == [at |-> at, op |-> op, code |-> c, ticket |-> t]
Idle == Asking("idle", "", <<>>, "")

\* The codes the user's device has shown so far.
TotpCodes == {"totp"} \X (1..seeds) \X (1..step)
RecoverySet(n) == {"recovery"} \X {n} \X (1..CodesPerSet)
Presentable == TotpCodes \cup UNION {RecoverySet(n) : n \in 1..sets}

\* verify_code: the step a code matches inside the window and above the
\* watermark, 0 for none.
VerifyCode(seed, code, last) ==
  IF code[1] = "totp" /\ code[2] = seed /\ code[3] > last /\ code[3] + Window >= step /\ code[3] <= step + Window
  THEN code[3] ELSE 0

FactorsFor == factor.state = "active"

\* access_token_amr: two methods that count as factors add "mfa".
AccessTokenAmr(amr) == IF Cardinality(amr) > 1 THEN amr \cup {"mfa"} ELSE amr

MfaInit ==
  /\ step = 1
  /\ factor = NoFactor
  /\ codes = {}
  /\ tickets = [t \in Tickets |-> "none"]
  /\ request = [p \in MfaRequests |-> Idle]
  /\ seeds = 0 /\ sets = 0
  /\ accepted = [c \in {} |-> 0]
  /\ replaced = {}
  /\ sessions = {}

Goes(p, at) == request' = [request EXCEPT ![p].at = at]
Refused(p) == request' = [request EXCEPT ![p] = Idle]
Count(c) == IF c \in DOMAIN accepted THEN accepted[c] ELSE 0
Accept(c) == accepted' = [d \in DOMAIN accepted \cup {c} |-> IF d = c THEN Count(c) + 1 ELSE accepted[d]]

\* A signed ticket, whose row is written before it is handed out.
IssueChallenge(t) == tickets' = [tickets EXCEPT ![t] = "live"]

\* The row is consumed: one caller gets it.
RedeemTicket(t) == tickets[t] = "live" /\ tickets' = [tickets EXCEPT ![t] = "spent"]

\* The first leg of login: a ticket is recorded and issued to an account with a
\* factor, and a session to one without.
ChallengeFor(t) ==
  /\ tickets[t] = "none"
  /\ \/ FactorsFor /\ IssueChallenge(t) /\ UNCHANGED sessions
     \/ /\ ~FactorsFor
        /\ tickets' = [tickets EXCEPT ![t] = "spent"]
        /\ sessions' = sessions \cup {[ticket |-> t, amr |-> AccessTokenAmr({"pwd"})]}
  /\ UNCHANGED <<step, factor, codes, request, seeds, sets, accepted, replaced>>

\* complete_mfa spends the ticket before it looks at the code.
CompleteMfa(p, t, c) ==
  /\ request[p].at = "idle"
  /\ RedeemTicket(t)
  /\ request' = [request EXCEPT ![p] = Asking("verify", "login", c, t)]
  /\ UNCHANGED <<step, factor, codes, seeds, sets, accepted, replaced, sessions>>

\* The same leg answered with an assertion instead, which is checked by the ceremony
\* of Passkeys, for the ticket's user, once the ticket is spent.
CompleteMfaWithPasskey(p, t) ==
  /\ request[p].at = "idle"
  /\ RedeemTicket(t)
  /\ request' \in {[request EXCEPT ![p] = Asking("issue", "login", <<"swk">>, t)], request}
  /\ UNCHANGED <<step, factor, codes, seeds, sets, accepted, replaced, sessions>>

\* step_up, disable_totp and regenerate_recovery_codes prove the factor first.
StepUp(p, op, c) ==
  /\ request[p].at = "idle"
  /\ request' = [request EXCEPT ![p] = Asking("verify", op, c, "")]
  /\ UNCHANGED <<step, factor, codes, tickets, seeds, sets, accepted, replaced, sessions>>

\* What a proved request does next.
Proved(p) ==
  CASE request[p].op = "login" ->
         /\ Goes(p, "issue") /\ UNCHANGED sessions
    [] request[p].op = "step_up" -> Refused(p) /\ UNCHANGED sessions
    [] request[p].op = "disable" -> Goes(p, "drop factor") /\ UNCHANGED sessions
    [] request[p].op = "regenerate" -> Goes(p, "drop codes") /\ UNCHANGED sessions

\* _verify_factor may refuse for the lockout before it looks at the code.
LockedOut(p) ==
  /\ request[p].at = "verify"
  /\ Refused(p)
  /\ UNCHANGED <<step, factor, codes, tickets, seeds, sets, accepted, replaced, sessions>>

\* A recovery code is spent by one conditional update; the factor is not read.
VerifyRecoveryCode(p) ==
  LET row == [code |-> request[p].code, used |-> FALSE]
  IN /\ request[p].at = "verify"
     /\ row.code[1] = "recovery"
     /\ \/ /\ row \in codes
           /\ codes' = (codes \ {row}) \cup {[row EXCEPT !.used = TRUE]}
           /\ Accept(row.code)
           /\ Proved(p)
        \/ /\ row \notin codes
           /\ Refused(p)
           /\ UNCHANGED <<codes, accepted, sessions>>
     /\ UNCHANGED <<step, factor, tickets, seeds, sets, replaced>>

\* The factor is read and the code checked against the watermark it had.
VerifyTotp(p) ==
  LET matched == VerifyCode(factor.seed, request[p].code, factor.last)
  IN /\ request[p].at = "verify"
     /\ request[p].code[1] = "totp"
     /\ IF FactorsFor /\ matched # 0
        THEN request' = [request EXCEPT ![p].at = "record use"]
        ELSE Refused(p)
     /\ UNCHANGED <<step, factor, codes, tickets, seeds, sets, accepted, replaced, sessions>>

\* Variant: the watermark is advanced whatever it is.
NewerAlways(burn) == factor.state # "none" /\ burn > 0

\* The row is there and its watermark is below the step: whatever seed it
\* holds, and active or not.
Newer(burn) == factor.state # "none" /\ factor.last < burn

RecordUse(p) ==
  /\ request[p].at = "record use"
  /\ \/ /\ Newer(request[p].code[3])
        /\ factor' = [factor EXCEPT !.last = request[p].code[3]]
        /\ Accept(request[p].code)
        /\ Proved(p)
     \/ /\ ~Newer(request[p].code[3])
        /\ Refused(p)
        /\ UNCHANGED <<factor, accepted, sessions>>
  /\ UNCHANGED <<step, codes, tickets, seeds, sets, replaced>>

IssueSession(p) ==
  /\ request[p].at = "issue"
  /\ sessions' = sessions \cup {[ticket |-> request[p].ticket,
                                 amr |-> AccessTokenAmr({"pwd", request[p].code[1]})]}
  /\ Refused(p)
  /\ UNCHANGED <<step, factor, codes, tickets, seeds, sets, accepted, replaced>>

DisableTotp(p) ==
  /\ request[p].at = "drop factor"
  /\ factor' = NoFactor
  /\ Goes(p, "drop all codes")
  /\ UNCHANGED <<step, codes, tickets, seeds, sets, accepted, replaced, sessions>>

\* delete_for_user: the end of a disable, and the first half of a regeneration.
DeleteRecoveryCodes(p) ==
  /\ request[p].at \in {"drop all codes", "drop codes"}
  /\ codes' = {}
  /\ replaced' = replaced \cup {row.code : row \in codes}
  /\ IF request[p].at = "drop codes" THEN Goes(p, "put codes") ELSE Refused(p)
  /\ UNCHANGED <<step, factor, tickets, seeds, sets, accepted, sessions>>

RegenerateRecoveryCodes(p) ==
  /\ request[p].at = "put codes"
  /\ sets < MaxSet
  /\ sets' = sets + 1
  /\ codes' = codes \cup {[code |-> c, used |-> FALSE] : c \in RecoverySet(sets')}
  /\ Refused(p)
  /\ UNCHANGED <<step, factor, tickets, seeds, accepted, replaced, sessions>>

\* begin_enrolment reads the row, refuses an active factor, and later puts a
\* pending one over whatever is there by then.
BeginEnrolment(p) ==
  /\ request[p].at = "idle"
  /\ ~FactorsFor
  /\ Goes(p, "put factor")
  /\ UNCHANGED <<step, factor, codes, tickets, seeds, sets, accepted, replaced, sessions>>

PutFactor(p) ==
  /\ request[p].at = "put factor"
  /\ seeds < MaxSeed
  /\ seeds' = seeds + 1
  /\ factor' = [state |-> "pending", seed |-> seeds', last |-> 0]
  /\ Refused(p)
  /\ UNCHANGED <<step, codes, tickets, sets, accepted, replaced, sessions>>

\* confirm_enrolment checks the code against the pending factor it read...
ConfirmEnrolment(p, c) ==
  LET matched == VerifyCode(factor.seed, c, factor.last)
  IN /\ request[p].at = "idle"
     /\ factor.state = "pending"
     /\ matched # 0
     /\ request' = [request EXCEPT ![p] = Asking("activate", "confirm", c, "")]
     /\ UNCHANGED <<step, factor, codes, tickets, seeds, sets, accepted, replaced, sessions>>

\* ...and activates the row that is there, once, before it issues the codes.
Activate(p) ==
  /\ request[p].at = "activate"
  /\ \/ /\ factor.state = "pending"
        /\ factor' = [factor EXCEPT !.state = "active", !.last = request[p].code[3]]
        /\ Accept(request[p].code)
        /\ Goes(p, "drop codes")
     \/ /\ factor.state # "pending"
        /\ Refused(p)
        /\ UNCHANGED <<factor, accepted>>
  /\ UNCHANGED <<step, codes, tickets, seeds, sets, replaced, sessions>>

\* A request dies between two of its calls.
MfaCrash(p) ==
  /\ request[p].at # "idle"
  /\ Refused(p)
  /\ UNCHANGED <<step, factor, codes, tickets, seeds, sets, accepted, replaced, sessions>>

MfaTick ==
  /\ step < MaxStep
  /\ step' = step + 1
  /\ UNCHANGED <<factor, codes, tickets, request, seeds, sets, accepted, replaced, sessions>>

MfaNext ==
  \/ \E t \in Tickets : ChallengeFor(t)
  \/ \E p \in MfaRequests :
       \/ \E t \in Tickets : CompleteMfaWithPasskey(p, t) \/ \E c \in Presentable : CompleteMfa(p, t, c)
       \/ \E op \in {"step_up", "disable", "regenerate"}, c \in Presentable : StepUp(p, op, c)
       \/ \E c \in TotpCodes : ConfirmEnrolment(p, c)
       \/ LockedOut(p) \/ VerifyRecoveryCode(p) \/ VerifyTotp(p) \/ RecordUse(p) \/ IssueSession(p)
       \/ DisableTotp(p) \/ DeleteRecoveryCodes(p) \/ RegenerateRecoveryCodes(p)
       \/ BeginEnrolment(p) \/ PutFactor(p) \/ Activate(p) \/ MfaCrash(p)
  \/ MfaTick

MfaSpec == MfaInit /\ [][MfaNext]_mfaVars

-------------------------------------------------------------------------------
\* The watermark and the conditional spends (mfa.py 437, storage.py 1450): a code
\* of the enrolment in force is accepted once however many requests present it,
\* a recovery code once for ever, and a ticket issues one session.
CodesAreSpentOnce ==
  /\ \A c \in DOMAIN accepted :
       accepted[c] > 1 => c[1] = "totp" /\ (factor.state = "none" \/ c[2] # factor.seed)
  /\ \A t \in Tickets : Cardinality({s \in sessions : s.ticket = t}) <= 1

\* regenerate_recovery_codes (mfa.py 480): a code on a printout that a later
\* regeneration or disable replaced is never accepted again.
LostPrintoutsAreDead == \A row \in codes : row.code \notin replaced

\* Each factor is good for one proof, and a replaced one for none.
FactorsProveOnce == CodesAreSpentOnce /\ LostPrintoutsAreDead
===============================================================================
