-------------------------- MODULE InstallationTokens --------------------------
(***************************************************************************)
(* integrations/github.py: the installation tokens and the installation    *)
(* lookups one GitHubAppClient shares between its threads.  A call on the  *)
(* repository finds its installation, takes that installation's token and  *)
(* is sent with it; each of the three may meet GitHub or the client's      *)
(* lock, so each is a step.  The lock is held through a token exchange and *)
(* only taken for a moment elsewhere.  GitHub is external: it revokes      *)
(* tokens, sees the App reinstalled under another id, and loses answers.   *)
(***************************************************************************)
EXTENDS Integers, FiniteSets

CONSTANTS
  Installations, NoInstallation,  \* ids the App has had on the repository's account
  Named,                          \* those some callers name themselves, or pin
  Callers, NoCaller,              \* threads sharing the client
  ReadAttempts,                   \* read_attempts
  TokenLife, RefreshMargin,       \* GitHub's lifetime of a token, refresh_margin_seconds
  MaxTokens, LastMoment           \* bounds

ASSUME ThreadsShareAnApp ==
  /\ Named \subseteq Installations /\ NoCaller \notin Callers
  /\ TokenLife \in Nat /\ RefreshMargin \in Nat

VARIABLES
  moment,       \* the clock
  home,         \* the installation that covers the repository
  left,         \* installations the App was removed from
  minted,       \* how many tokens GitHub has made
  withdrawn,    \* numbers of the tokens GitHub has revoked
  tokens,       \* _tokens
  lookup,       \* _installations, for the one repository
  holder,       \* the thread in the middle of an exchange, holding _lock
  caller,       \* the calls in flight
  handed,       \* history: tokens an exchange answered, with an expiry, to the client
  refused       \* history: numbers of the tokens a call was refused with

githubVars == <<moment, home, left, minted, withdrawn, tokens, lookup, holder, caller, handed, refused>>
cacheVars == <<tokens, lookup, holder>>
gitHubSide == <<moment, home, left, minted, withdrawn>>

NoToken == [of |-> NoInstallation, n |-> 0, expires |-> 0]

\* History: "tried" are the tokens this call was refused with, and "again" is a
\* write GitHub has carried out and the client goes on with.
Uncalled == [at |-> "idle", writes |-> FALSE, looked |-> FALSE, key |-> NoInstallation, token |-> NoToken,
             tries |-> 0, tried |-> {}, again |-> FALSE]

GithubInit ==
  /\ moment = 0 /\ left = {} /\ minted = 0 /\ withdrawn = {}
  /\ home \in Installations
  /\ tokens = [i \in Installations |-> NoToken] /\ lookup = NoInstallation /\ holder = NoCaller
  /\ caller = [c \in Callers |-> Uncalled]
  /\ handed = {} /\ refused = {}

To(c, record) == caller' = [caller EXCEPT ![c] = record]
LockFree == holder = NoCaller

-------------------------------------------------------------------------------
\* A read starts over while it has attempts left, from the lookup on.  A write is
\* tried once: it may have been applied.  The variant retries writes too.
StartedOver(r) ==
  [at |-> IF r.looked THEN "lookup" ELSE "token", writes |-> r.writes, looked |-> r.looked,
   key |-> IF r.looked THEN NoInstallation ELSE r.key, token |-> NoToken,
   tries |-> r.tries + 1, tried |-> r.tried, again |-> r.again]

Retrying_writesToo(c) == IF caller[c].tries < ReadAttempts THEN StartedOver(caller[c]) ELSE Uncalled

Retrying(c) == IF ~caller[c].writes /\ caller[c].tries < ReadAttempts THEN StartedOver(caller[c]) ELSE Uncalled

\* An installation named by the caller, or pinned, is used as it is.
Begins(c, named, writes) ==
  /\ caller[c].at = "idle"
  /\ To(c, [at |-> IF named = NoInstallation THEN "lookup" ELSE "token", writes |-> writes,
            looked |-> named = NoInstallation, key |-> named, token |-> NoToken, tries |-> 1, tried |-> {}, again |-> FALSE])
  /\ UNCHANGED <<gitHubSide, cacheVars, handed, refused>>

\* A check run, a status or a comment; a page of a listing, one thing, or a download.
RepositoryWrite(c, named) == Begins(c, named, TRUE)
RepositoryRead(c, named) == Begins(c, named, FALSE)

RepositoryInstallation(c) ==
  /\ caller[c].at = "lookup" /\ LockFree
  /\ To(c, IF lookup # NoInstallation THEN [caller[c] EXCEPT !.at = "token", !.key = lookup]
           ELSE [caller[c] EXCEPT !.at = "ask"])
  /\ UNCHANGED <<gitHubSide, cacheVars, handed, refused>>

\* GitHub names the installation, or that there is none, or does not answer.
AskInstallation(c) ==
  /\ caller[c].at = "ask"
  /\ \/ home # NoInstallation /\ To(c, [caller[c] EXCEPT !.at = "keep", !.key = home])
     \/ home = NoInstallation /\ To(c, Uncalled)
     \/ To(c, Retrying(c))
  /\ UNCHANGED <<gitHubSide, cacheVars, handed, refused>>

KeepInstallation(c) ==
  /\ caller[c].at = "keep" /\ LockFree
  /\ lookup' = caller[c].key
  /\ To(c, [caller[c] EXCEPT !.at = "token"])
  /\ UNCHANGED <<gitHubSide, tokens, holder, handed, refused>>

-------------------------------------------------------------------------------
HasTimeLeft(token) == token # NoToken /\ token.expires - RefreshMargin > moment

\* The cached token while it has time left; otherwise the thread goes to the
\* exchange with the lock in hand.  The variant lets the lock go first.
InstallationToken_unlocked(c) ==
  /\ caller[c].at = "token" /\ LockFree
  /\ To(c, IF HasTimeLeft(tokens[caller[c].key]) THEN [caller[c] EXCEPT !.at = "send", !.token = tokens[caller[c].key]]
           ELSE [caller[c] EXCEPT !.at = "exchange"])
  /\ UNCHANGED <<gitHubSide, cacheVars, handed, refused>>

InstallationToken(c) ==
  /\ caller[c].at = "token" /\ LockFree
  /\ \/ /\ HasTimeLeft(tokens[caller[c].key])
        /\ To(c, [caller[c] EXCEPT !.at = "send", !.token = tokens[caller[c].key]])
        /\ UNCHANGED holder
     \/ /\ ~HasTimeLeft(tokens[caller[c].key])
        /\ To(c, [caller[c] EXCEPT !.at = "exchange"])
        /\ holder' = c
  /\ UNCHANGED <<gitHubSide, tokens, lookup, handed, refused>>

\* The exchange ends with the lock released, whatever GitHub answers: a token, one
\* with no expiry to keep it by, no such installation, or nothing the client sees
\* (a token made then is nobody's).
Exchange(c) ==
  LET key == caller[c].key
      token == [of |-> key, n |-> minted + 1, expires |-> moment + TokenLife] IN
  /\ caller[c].at = "exchange"
  /\ holder' = NoCaller
  /\ \/ /\ key \notin left /\ minted < MaxTokens
        /\ minted' = minted + 1
        /\ \/ /\ tokens' = [tokens EXCEPT ![key] = token] /\ handed' = handed \cup {token}
              /\ To(c, [caller[c] EXCEPT !.at = "send", !.token = token])
           \/ /\ tokens' = [tokens EXCEPT ![key] = NoToken] /\ UNCHANGED handed
              /\ To(c, [caller[c] EXCEPT !.at = "send", !.token = token])
     \/ /\ key \in left
        /\ To(c, IF caller[c].looked THEN [caller[c] EXCEPT !.at = "dropLookup"] ELSE Uncalled)
        /\ UNCHANGED <<minted, tokens, handed>>
     \/ To(c, Retrying(c)) /\ UNCHANGED <<minted, tokens, handed>>
  /\ UNCHANGED <<moment, home, left, withdrawn, lookup, refused>>

\* Whichever installation the lookup names by now, it goes.
DropLookup(c) ==
  /\ caller[c].at = "dropLookup" /\ LockFree
  /\ lookup' = NoInstallation
  /\ To(c, Uncalled)
  /\ UNCHANGED <<gitHubSide, tokens, holder, handed, refused>>

-------------------------------------------------------------------------------
Accepts(token) == token.of \notin left /\ token.n \notin withdrawn /\ moment < token.expires

\* A call GitHub carried out without the client knowing.
Unconfirmed(c) ==
  LET next == Retrying(c) IN
  IF next = Uncalled THEN Uncalled ELSE [next EXCEPT !.again = caller[c].writes]

\* GitHub carries the call out, or has another reason to refuse it; carries it out
\* and is not heard; does nothing and is not heard; or refuses the token.
Send(c) ==
  LET token == caller[c].token IN
  /\ caller[c].at = "send"
  /\ \/ Accepts(token) /\ To(c, Uncalled) /\ UNCHANGED refused
     \/ Accepts(token) /\ To(c, Unconfirmed(c)) /\ UNCHANGED refused
     \/ To(c, Retrying(c)) /\ UNCHANGED refused
     \/ /\ ~Accepts(token)
        /\ To(c, [caller[c] EXCEPT !.at = "forget", !.tried = @ \cup {token}])
        /\ refused' = refused \cup {token.n}
  /\ UNCHANGED <<gitHubSide, cacheVars, handed>>

\* Only the token that was refused is dropped: another thread may have put a newer
\* one there.  The variant drops whatever is cached.
Remaining_none(cached, token) == NoToken
Remaining(cached, token) == IF cached = token THEN NoToken ELSE cached

Forget(c) ==
  /\ caller[c].at = "forget" /\ LockFree
  /\ tokens' = [tokens EXCEPT ![caller[c].key] = Remaining(@, caller[c].token)]
  /\ To(c, Retrying(c))
  /\ UNCHANGED <<gitHubSide, lookup, holder, handed, refused>>

-------------------------------------------------------------------------------
Tick ==
  /\ moment < LastMoment /\ moment' = moment + 1
  /\ UNCHANGED <<home, left, minted, withdrawn, cacheVars, caller, handed, refused>>

\* The App is removed from the account, and may be installed again under a new id.
Reinstall ==
  /\ home # NoInstallation
  /\ left' = left \cup {home}
  /\ home' \in (Installations \ left') \cup {NoInstallation}
  /\ UNCHANGED <<moment, minted, withdrawn, cacheVars, caller, handed, refused>>

Withdraw(n) ==
  /\ n \in 1 .. minted
  /\ withdrawn' = withdrawn \cup {n}
  /\ UNCHANGED <<moment, home, left, minted, cacheVars, caller, handed, refused>>

GithubNext ==
  \/ \E c \in Callers :
       \/ \E named \in Named \cup {NoInstallation} : RepositoryWrite(c, named) \/ RepositoryRead(c, named)
       \/ RepositoryInstallation(c) \/ AskInstallation(c) \/ KeepInstallation(c)
       \/ InstallationToken(c) \/ Exchange(c) \/ DropLookup(c)
       \/ Send(c) \/ Forget(c)
  \/ Tick \/ Reinstall \/ \E n \in 1 .. MaxTokens : Withdraw(n)

GithubSpec == GithubInit /\ [][GithubNext]_githubVars

-------------------------------------------------------------------------------
(* Properties.                                                             *)

\* A token the client was handed stays the cached one while it has time left and
\* was not refused: threads that miss the cache together make one exchange, and the
\* refusal of an old token does not throw its successor away.
GoodTokensAreKept ==
  \A t \in handed : HasTimeLeft(t) /\ t.n \notin refused => tokens[t.of] = t

\* No write that GitHub may have carried out is sent again.
WritesHappenOnce == \A c \in Callers : ~caller[c].again

\* What was refused to a call is not sent again by it: its retry has another token.
RetriesAreFresh == \A c \in Callers : caller[c].at = "send" => caller[c].token \notin caller[c].tried

\* The caches serve concurrent threads as the class's docstring says: one exchange
\* per installation, a refused token replaced before the retry, no write repeated.
TokensAreShared == GoodTokensAreKept /\ WritesHappenOnce /\ RetriesAreFresh
===============================================================================
