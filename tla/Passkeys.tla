------------------------------ MODULE Passkeys ------------------------------
(***************************************************************************)
(* PasskeyService of webbpulse.identity.passkeys, the operations of        *)
(* IdentityFlows that use it and their routes: concurrent ceremonies over  *)
(* the passkeys table, its credential index, which is a copy that lags,    *)
(* and the challenges table.  A signature is checked against the key of    *)
(* the row that was read, so a row without a key answers nothing.          *)
(***************************************************************************)
EXTENDS Naturals, FiniteSets

CONSTANTS PasskeyUsers, PasswordUsers,  \* the accounts, and those with a password
          Credentials,                  \* what authenticators hold
          Challenges,                   \* bound on challenges minted
          Ceremonies,                   \* concurrent requests
          MaxCount                      \* bound on a signature counter

ASSUME CountsAreNumbers == MaxCount \in Nat

VARIABLES passkeys,    \* the passkeys table: [user, credential] to its row
          shown,       \* what the credential index shows of it
          challenges,  \* the webauthn-challenges table
          ceremony,    \* what each request is doing
          answered,    \* history: the challenges behind a finished ceremony
          deleted,     \* history: passkeys deleted and not registered again
          raced        \* history: users with a delete that met another step

keyVars == <<passkeys, shown, challenges, ceremony, answered, deleted, raced>>

None == [key |-> FALSE, count |-> 0, there |-> FALSE]
Ghost(n) == [key |-> FALSE, count |-> n, there |-> TRUE]
Row(n) == [key |-> TRUE, count |-> n, there |-> TRUE]
Ids == PasskeyUsers \X Credentials
Quiet == [at |-> "idle"]

ListForUser(u) == {k \in Credentials : passkeys[<<u, k>>].there}
FindByCredentialId(k) == {u \in PasskeyUsers : shown[<<u, k>>].there}

PasskeyInit ==
  /\ passkeys = [i \in Ids |-> None]
  /\ shown = passkeys
  /\ challenges = [c \in Challenges |-> [at |-> "unused"]]
  /\ ceremony = [p \in Ceremonies |-> Quiet]
  /\ answered = {}
  /\ deleted = {}
  /\ raced = {}

Becomes(p, what) == ceremony' = [ceremony EXCEPT ![p] = what]
Busy(p, at) == ceremony[p].at = at

Unused == {c \in Challenges : challenges[c].at = "unused"}

NewChallenge(purpose, u) ==
  /\ Unused # {}
  /\ challenges' = [challenges EXCEPT ![CHOOSE c \in Unused : TRUE] = [at |-> "live", purpose |-> purpose, user |-> u]]
  /\ UNCHANGED <<passkeys, shown, ceremony, answered, deleted, raced>>

BeginRegistration(u) == NewChallenge("register", u)

\* Bound to no one: the address only chooses the credentials the options list.
BeginLogin == NewChallenge("login", "")

\* For a session's own subject, and for the subject a login ticket names.
BeginStepUp(u) == ListForUser(u) # {} /\ NewChallenge("step_up", u)

\* The row goes whatever it holds; a purpose or an expiry found wrong refuses
\* the ceremony after that.
SpendChallenge(p, c, what) ==
  /\ Busy(p, "idle")
  /\ challenges[c].at = "live"
  /\ challenges' = [challenges EXCEPT ![c].at = "spent"]
  /\ \/ Becomes(p, Quiet)
     \/ challenges[c].purpose = what.purpose /\ Becomes(p, what)
  /\ UNCHANGED <<passkeys, shown, answered, deleted, raced>>

\* finish_registration: the challenge's subject is the caller's, and the index
\* shows no owner of the credential.
FinishRegistration(p, c, u, k) ==
  SpendChallenge(p, c, [at |-> "attested", purpose |-> "register", challenge |-> c, user |-> u, credential |-> k])

CheckAttestation(p) ==
  LET r == ceremony[p]
  IN /\ Busy(p, "attested")
     /\ IF challenges[r.challenge].user = r.user /\ FindByCredentialId(r.credential) = {}
        THEN Becomes(p, [r EXCEPT !.at = "put"]) ELSE Becomes(p, Quiet)
     /\ UNCHANGED <<passkeys, shown, challenges, answered, deleted, raced>>

\* put refuses the caller's own row only; the counter starts at
\* zero, as for an authenticator just made.
PutPasskey(p) ==
  LET r == ceremony[p] i == <<r.user, r.credential>>
  IN /\ Busy(p, "put")
     /\ IF passkeys[i].there THEN UNCHANGED <<passkeys, answered, deleted>>
        ELSE /\ passkeys' = [passkeys EXCEPT ![i] = Row(0)]
             /\ answered' = answered \cup {[challenge |-> r.challenge, by |-> p, user |-> r.user, purpose |-> "register"]}
             /\ deleted' = deleted \ {i}
     /\ Becomes(p, Quiet)
     /\ UNCHANGED <<shown, challenges, raced>>

\* finish_login: whoever's row the index shows for the credential.
LoginWithPasskey(p, c, k, n) ==
  SpendChallenge(p, c, [at |-> "asserted", purpose |-> "login", challenge |-> c, user |-> "", credential |-> k, count |-> n])

\* finish_step_up for a session (step_up_with_passkey) or for the subject of a
\* ticket already redeemed (complete_mfa_with_passkey).
FinishStepUp(p, c, u, k, n) ==
  SpendChallenge(p, c, [at |-> "asserted", purpose |-> "step_up", challenge |-> c, user |-> u, credential |-> k, count |-> n])

CheckSignCount(stored, presented) == (stored = 0 /\ presented = 0) \/ presented > stored

\* _credential_for: the row must be the subject's.  A login takes the owner's.
CredentialFor(r, u) == IF r.purpose = "login" THEN TRUE ELSE u = r.user /\ challenges[r.challenge].user = r.user

CheckAssertion(p) ==
  LET r == ceremony[p]
  IN /\ Busy(p, "asserted")
     /\ \/ \E u \in FindByCredentialId(r.credential) :
             /\ shown[<<u, r.credential>>].key
             /\ CredentialFor(r, u)
             /\ CheckSignCount(shown[<<u, r.credential>>].count, r.count)
             /\ Becomes(p, [r EXCEPT !.at = "use", !.user = u])
        \/ Becomes(p, Quiet)
     /\ UNCHANGED <<passkeys, shown, challenges, answered, deleted, raced>>

\* Variant: the row that was read is written back whole.
RecordUseOfPut(i, n) == IF i \in Ids THEN Row(n) ELSE None

\* The update has no condition: a row deleted meanwhile comes back without its key.
RecordUseOf(i, n) == IF passkeys[i].there THEN [passkeys[i] EXCEPT !.count = n] ELSE Ghost(n)

\* The ceremony ends: a session is issued, or the caller's is re-authenticated.
RecordPasskeyUse(p) ==
  LET r == ceremony[p] i == <<r.user, r.credential>>
  IN /\ Busy(p, "use")
     /\ passkeys' = [passkeys EXCEPT ![i] = RecordUseOf(i, r.count)]
     /\ answered' = answered \cup {[challenge |-> r.challenge, by |-> p, user |-> r.user, purpose |-> r.purpose]}
     /\ raced' = IF passkeys[i].there THEN raced ELSE raced \cup {r.user}
     /\ Becomes(p, Quiet)
     /\ UNCHANGED <<shown, challenges, deleted>>

\* delete_passkey reads the user's rows and the password, refuses the last way
\* in, and deletes the row it named.
StartDelete(p, u, k) ==
  /\ Busy(p, "idle")
  /\ k \in ListForUser(u)
  /\ Cardinality(ListForUser(u)) > 1 \/ u \in PasswordUsers
  /\ Becomes(p, [at |-> "delete", user |-> u, credential |-> k])
  /\ raced' = IF \E q \in Ceremonies : Busy(q, "delete") /\ ceremony[q].user = u THEN raced \cup {u} ELSE raced
  /\ UNCHANGED <<passkeys, shown, challenges, answered, deleted>>

DeletePasskey(p) ==
  LET i == <<ceremony[p].user, ceremony[p].credential>>
  IN /\ Busy(p, "delete")
     /\ passkeys' = [passkeys EXCEPT ![i] = None]
     /\ deleted' = IF passkeys[i].key THEN deleted \cup {i} ELSE deleted
     /\ Becomes(p, Quiet)
     /\ UNCHANGED <<shown, challenges, answered, raced>>

\* The index catches up with a row.
IndexPasskey ==
  \E i \in Ids :
    /\ shown[i] # passkeys[i]
    /\ shown' = [shown EXCEPT ![i] = passkeys[i]]
    /\ UNCHANGED <<passkeys, challenges, ceremony, answered, deleted, raced>>

CeremonyDies(p) ==
  /\ ~Busy(p, "idle")
  /\ Becomes(p, Quiet)
  /\ UNCHANGED <<passkeys, shown, challenges, answered, deleted, raced>>

PasskeyNext ==
  \/ BeginLogin
  \/ \E u \in PasskeyUsers : BeginRegistration(u) \/ BeginStepUp(u)
  \/ \E p \in Ceremonies :
       \/ \E c \in Challenges, k \in Credentials :
            \/ \E u \in PasskeyUsers : FinishRegistration(p, c, u, k)
            \/ \E n \in 0..MaxCount :
                 \/ LoginWithPasskey(p, c, k, n)
                 \/ \E u \in PasskeyUsers : FinishStepUp(p, c, u, k, n)
       \/ \E u \in PasskeyUsers, k \in Credentials : StartDelete(p, u, k)
       \/ CheckAttestation(p) \/ PutPasskey(p) \/ CheckAssertion(p) \/ RecordPasskeyUse(p)
       \/ DeletePasskey(p) \/ CeremonyDies(p)
  \/ IndexPasskey

PasskeySpec == PasskeyInit /\ [][PasskeyNext]_keyVars

-------------------------------------------------------------------------------
\* _spend_challenge (passkeys.py 623): a challenge is behind one ceremony, of
\* the purpose it was minted for, and its subject's unless it is a login's.
ChallengesAnswerOnce ==
  \A a \in answered :
    /\ challenges[a.challenge].purpose = a.purpose
    /\ a.purpose = "login" \/ challenges[a.challenge].user = a.user
    /\ \A b \in answered : b.challenge = a.challenge => b = a

\* delete_passkey against a login that read the row before (storage.py 1596):
\* the late counter update never gives a deleted passkey its key back.
DeletedKeysStayDead == \A i \in deleted : ~passkeys[i].key

\* "refusing to strand the user" (passkeys.py 584): an account without a
\* password that had a passkey keeps one, unless its deletes raced.
StrandedOnlyByARace ==
  \A u \in PasskeyUsers \ (PasswordUsers \cup raced) :
    (\E i \in deleted : i[1] = u) => \E k \in Credentials : passkeys[<<u, k>>].key

\* A passkey answers only for its own live row, and the last one is kept.
PasskeysAnswerForThemselves == ChallengesAnswerOnce /\ DeletedKeysStayDead /\ StrandedOnlyByARace
===============================================================================
