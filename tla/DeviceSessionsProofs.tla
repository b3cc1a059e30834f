------------------------ MODULE DeviceSessionsProofs ------------------------
(***************************************************************************)
(* Proofs about DeviceSessions and DeviceLogin, for every set of grants,   *)
(* requests, threads and commands, every grace, lifetime and bound, and    *)
(* every choice of operations.                                             *)
(***************************************************************************)
EXTENDS DeviceLogin, TLAPS

-----------------------------------------------------------------------------
(* The inductive invariant.                                                *)

\* A grant: what it remembers of its rotations, who holds its tokens, when it
\* was ended and for how long the resource server may believe it live.
RowSound(g) ==
    /\ ~grant[g].there => ~grant[g].revoked /\ issued[g] = {}
    /\ grant[g].previous # None => grant[g].current = grant[g].previous + 1
    /\ ~grant[g].revoked => endedAt[g] = Never
    /\ endedAt[g] = Never \/ endedAt[g] <= now
    /\ \A n \in issued[g] : n <= grant[g].current
    /\ cache[g].until <= now + CacheTTL
    /\ cache[g].live => cache[g].until <= endedAt[g] + CacheTTL

\* That the token of c was presented outside the window of its replacement.
Outside(c) ==
    Live(grant[c.grant], now) /\ grant[c.grant].previous = c.token =>
        LET since == c.moment - grant[c.grant].rotatedAt IN since > Grace \/ since < 0

\* A refresh in flight.
Sound(c) ==
    c.at # "idle" =>
        /\ c.grant \in Grant /\ grant[c.grant].there
        /\ c.token < MaxGen /\ c.token <= grant[c.grant].current
        /\ c.moment <= now
        /\ c.reuse => c.at \in {"revoke", "done"}
        /\ c.at = "issue" => c.token < grant[c.grant].current
        /\ c.at \in {"rotate", "reload", "issue"} =>
              grant[c.grant].endsAt > c.moment /\ endedAt[c.grant] >= c.moment
        /\ c.at = "revoke" /\ c.reuse => c.token < grant[c.grant].current /\ Outside(c)

\* A request of the resource server.
Believed(k) ==
    k.at # "idle" =>
        /\ k.grant \in Grant /\ k.moment <= now
        /\ k.at = "keep" /\ k.live => k.moment <= endedAt[k.grant]
        /\ k.at = "allowed" => \/ k.moment < endedAt[k.grant] + CacheTTL
                               \/ k.moment <= endedAt[k.grant]

IInv == /\ TypeOK
        /\ \A g \in Grant : RowSound(g)
        /\ \A p \in Proc : Sound(call[p])
        /\ \A t \in Thread : Believed(check[t])

-----------------------------------------------------------------------------
(* Types.                                                                  *)

\* The instants and the records the actions write.
LEMMA Constants ==
    /\ 0 \in Time /\ Time \subseteq Nat /\ Never \in Nat /\ Never \notin Time
    /\ \A t \in Time : t < Never
    /\ Absent \in Row /\ Idle \in Call /\ Unasked \in Check
<1>1. 0 \in Time /\ Time \subseteq Nat /\ Never \in Nat /\ \A t \in Time : t < Never
    BY ParameterTypes DEF Time, Never
<1>2. Absent \in Row BY <1>1, ParameterTypes DEF Absent, Row, None
<1>3. Idle \in Call BY <1>1, ParameterTypes DEF Idle, Call
<1>4. Unasked \in Check BY <1>1 DEF Unasked, Check
<1> QED BY <1>1, <1>2, <1>3, <1>4

\* Instants and tokens are numbers.
LEMMA Numbers ==
    /\ \A x \in Time \cup {Never} : x \in Nat
    /\ \A n \in 0..MaxGen : n \in Nat
    /\ \A s \in SUBSET (0..MaxGen) : s \subseteq Nat
BY ParameterTypes DEF Time, Never

\* Whatever the row read says, a request that is judged remains a request.
LEMMA JudgedIsCall ==
    ASSUME NEW row \in Row, NEW c \in Call
    PROVE  /\ Judged(row, c) \in Call
           /\ WithinGrace(row, c) => Judged(row, c) = [c EXCEPT !.at = "issue"]
           /\ ~WithinGrace(row, c) /\ row.previous = c.token =>
                 Judged(row, c) = [c EXCEPT !.at = "revoke", !.reuse = TRUE]
           /\ ~WithinGrace(row, c) /\ row.previous # c.token =>
                 Judged(row, c) = [c EXCEPT !.at = "done"]
<1>1. CASE WithinGrace(row, c)
  <2>1. Judged(row, c) = [c EXCEPT !.at = "issue"] BY <1>1 DEF Judged
  <2> QED BY <1>1, <2>1 DEF Call
<1>2. CASE ~WithinGrace(row, c) /\ row.previous = c.token
  <2>1. Judged(row, c) = [c EXCEPT !.at = "revoke", !.reuse = TRUE] BY <1>2 DEF Judged
  <2> QED BY <1>2, <2>1 DEF Call
<1>3. CASE ~WithinGrace(row, c) /\ row.previous # c.token
  <2>1. Judged(row, c) = [c EXCEPT !.at = "done"] BY <1>3 DEF Judged
  <2> QED BY <1>3, <2>1 DEF Call
<1> QED BY <1>1, <1>2, <1>3

\* A refresh moves on.
LEMMA BecomeType ==
    ASSUME TypeOK, NEW p \in Proc, NEW c \in Call, Become(p, c)
    PROVE  call' \in [Proc -> Call]
BY DEF TypeOK, Become

\* A grant ends at one moment.
LEMMA EndGrantType ==
    ASSUME TypeOK, NEW g \in Grant, EndGrant(g)
    PROVE  grant' \in [Grant -> Row] /\ endedAt' \in [Grant -> Time \cup {Never}]
<1>1. grant' \in [Grant -> Row] BY DEF TypeOK, EndGrant, Row
<1>2. endedAt' \in [Grant -> Time \cup {Never}] BY DEF TypeOK, EndGrant
<1> QED BY <1>1, <1>2

\* No grant is open and nobody asks.
LEMMA InitType == Init => TypeOK
BY Constants DEF Init, TypeOK

\* A step of a refresh keeps every record well formed.
LEMMA RefreshingType ==
    ASSUME TypeOK, NEW p \in Proc, Sound(call[p]), Refreshing(p)
    PROVE  TypeOK'
<1> DEFINE c == call[p]
<1> DEFINE row == grant[c.grant]
<1>c. c \in Call BY DEF TypeOK
<1>n. now \in Time BY DEF TypeOK
<1>s. ASSUME c.at # "idle" PROVE c.grant \in Grant /\ row \in Row /\ c.token \in 0..MaxGen /\ c.token < MaxGen /\ c.moment \in Time
  BY <1>c, <1>s DEF Sound, TypeOK, Call
<1>1. CASE Load(p)
  <2>1. c.at = "load" BY <1>1 DEF Load
  <2>2. row \in Row BY <1>s, <2>1
  <2> HIDE DEF row
  <2>3. /\ [c EXCEPT !.at = "done"] \in Call /\ [c EXCEPT !.at = "rotate"] \in Call
        /\ Judged(row, c) \in Call
    BY <1>c, <2>2, JudgedIsCall DEF Call
  <2> DEFINE d == IF ~Live(row, now) THEN [c EXCEPT !.at = "done"]
                  ELSE IF row.current = c.token THEN [c EXCEPT !.at = "rotate"]
                  ELSE Judged(row, c)
  <2>4. d \in Call BY <2>3
  <2>5. Become(p, d) BY <1>1 DEF Load, row
  <2>6. call' \in [Proc -> Call] BY <2>4, <2>5, BecomeType
  <2> QED BY <1>1, <2>6 DEF Load, TypeOK, resource
<1>2. CASE Rotate(p)
  <2>1. c.at = "rotate" BY <1>2 DEF Rotate
  <2>2. [c EXCEPT !.at = "issue"] \in Call /\ [c EXCEPT !.at = "reload"] \in Call
    BY <1>c DEF Call
  <2>3. call' \in [Proc -> Call] BY <1>2, <2>2, BecomeType DEF Rotate
  <2> DEFINE new == [row EXCEPT !.current = c.token + 1, !.previous = c.token, !.rotatedAt = c.moment]
  <2>4. row \in Row /\ c.grant \in Grant BY <1>s, <2>1
  <2>5. c.token + 1 \in 0..MaxGen /\ c.token \in None..MaxGen /\ c.moment \in Time
    BY <1>s, <2>1, ParameterTypes DEF None
  <2>6. new \in Row BY <2>4, <2>5 DEF Row
  <2>7. grant' = grant \/ grant' = [grant EXCEPT ![c.grant] = new] BY <1>2 DEF Rotate
  <2> HIDE DEF new
  <2>8. grant' \in [Grant -> Row] BY <2>4, <2>6, <2>7 DEF TypeOK
  <2> QED BY <1>2, <2>3, <2>8 DEF Rotate, TypeOK, resource
<1>3. CASE Reload(p)
  <2>1. c.at = "reload" BY <1>3 DEF Reload
  <2>2. row \in Row BY <1>s, <2>1
  <2>3. Judged(row, c) \in Call BY <1>c, <2>2, JudgedIsCall
  <2>4. call' \in [Proc -> Call] BY <1>3, <2>3, BecomeType DEF Reload
  <2> QED BY <1>3, <2>4 DEF Reload, TypeOK, resource
<1>4. CASE Issue(p)
  <2>1. c.at = "issue" BY <1>4 DEF Issue
  <2>2. /\ [c EXCEPT !.at = "done", !.ok = TRUE] \in Call /\ [c EXCEPT !.at = "revoke"] \in Call
    BY <1>c DEF Call
  <2>3. call' \in [Proc -> Call] BY <1>4, <2>2, BecomeType DEF Issue, Answer
  <2>4. c.token + 1 \in 0..MaxGen /\ c.grant \in Grant BY <1>s, <2>1, ParameterTypes
  <2>5. issued' = issued \/ issued' = [issued EXCEPT ![c.grant] = @ \cup {c.token + 1}]
    BY <1>4 DEF Issue
  <2>6. issued' \in [Grant -> SUBSET (0..MaxGen)] BY <2>4, <2>5 DEF TypeOK
  <2> QED BY <1>4, <2>3, <2>6 DEF Issue, TypeOK, resource
<1>5. CASE Revoke(p)
  <2>1. c.at = "revoke" BY <1>5 DEF Revoke
  <2>2. [c EXCEPT !.at = "done", !.ok = FALSE] \in Call BY <1>c DEF Call
  <2>3. call' \in [Proc -> Call] BY <1>5, <2>2, BecomeType DEF Revoke, Answer
  <2>4. grant' \in [Grant -> Row] /\ endedAt' \in [Grant -> Time \cup {Never}]
    BY <1>5, <1>s, <2>1, EndGrantType DEF Revoke
  <2> QED BY <1>5, <2>3, <2>4 DEF Revoke, TypeOK, resource
<1> QED BY <1>1, <1>2, <1>3, <1>4, <1>5 DEF Refreshing

\* A request to the resource server keeps the cache well formed.
LEMMA CheckingType ==
    ASSUME TypeOK, NEW t \in Thread, Believed(check[t]), Checking(t)
    PROVE  TypeOK'
<1> DEFINE k == check[t]
<1>k. k \in Check /\ now \in Time /\ Unasked \in Check BY Constants DEF TypeOK
<1>1. CASE \E g \in Grant : Ask(t, g)
  <2> PICK g \in Grant : Ask(t, g) BY <1>1
  <2>1. /\ [Unasked EXCEPT !.at = "allowed", !.grant = g, !.moment = now] \in Check
        /\ [Unasked EXCEPT !.at = "idle", !.grant = Nobody, !.moment = 0] \in Check
        /\ [Unasked EXCEPT !.at = "read", !.grant = g, !.moment = now] \in Check
    BY <1>k, Constants DEF Check
  <2>2. check' \in [Thread -> Check] BY <2>1 DEF Ask, TypeOK
  <2> QED BY <2>2 DEF Ask, Unkept, TypeOK
<1>2. CASE ReadGrant(t)
  <2>1. Live(grant[k.grant], now) \in BOOLEAN BY DEF Live
  <2>2. check' = [check EXCEPT ![t] = [k EXCEPT !.at = "keep", !.live = Live(grant[k.grant], now)]]
    BY <1>2 DEF ReadGrant, TypeOK
  <2>3. [k EXCEPT !.at = "keep", !.live = Live(grant[k.grant], now)] \in Check
    BY <1>k, <2>1 DEF Check
  <2>4. check' \in [Thread -> Check] BY <2>2, <2>3 DEF TypeOK
  <2> QED BY <1>2, <2>4 DEF ReadGrant, Unkept, TypeOK
<1>3. CASE Keep(t)
  <2>1. k.grant \in Grant BY <1>3 DEF Keep, Believed
  <2>2. k.moment \in Nat /\ k.live \in BOOLEAN BY <1>k, Constants DEF Check
  <2>0. k.moment + CacheTTL \in Nat BY <2>2, ParameterTypes
  <2> DEFINE e == [until |-> k.moment + CacheTTL, live |-> k.live]
  <2>6. e \in [until : Nat, live : BOOLEAN] BY <2>2, <2>0
  <2>3. cache' \in [Grant -> [until : Nat, live : BOOLEAN]]
  <3>1. cache' = cache \/ cache' = [cache EXCEPT ![k.grant] = e] BY <1>3 DEF Keep
  <3> HIDE DEF e
  <3> QED BY <2>1, <2>6, <3>1 DEF TypeOK
  <2>4. [k EXCEPT !.at = "allowed"] \in Check BY <1>k DEF Check
  <2>5. check' \in [Thread -> Check] BY <1>3, <1>k, <2>4 DEF Keep, TypeOK
  <2> QED BY <1>3, <2>3, <2>5 DEF Keep, Unkept, TypeOK
<1>4. CASE Serve(t) BY <1>4, <1>k DEF Serve, Unkept, TypeOK
<1> QED BY <1>1, <1>2, <1>3, <1>4 DEF Checking

-----------------------------------------------------------------------------
(* What a step leaves true of everything it does not write.                *)

\* The ways the table can move: not at all, a rotation, an end, a beginning.
Rotated(g, c) ==
    /\ grant[g].there /\ ~grant[g].revoked /\ grant[g].current = c.token
    /\ grant' = [grant EXCEPT ![g] = [@ EXCEPT !.current = c.token + 1,
                                          !.previous = c.token, !.rotatedAt = c.moment]]
    /\ UNCHANGED <<now, endedAt>>
Ended(g) == grant[g].there /\ EndGrant(g) /\ UNCHANGED now
Begun(g) ==
    /\ ~grant[g].there
    /\ grant' = [grant EXCEPT ![g] = [Absent EXCEPT !.there = TRUE, !.endsAt = now + SessionTTL]]
    /\ UNCHANGED <<now, endedAt>>
Still == UNCHANGED <<grant, endedAt>> /\ (now' = now \/ Tick)

RowsStep == \/ Still
            \/ \E g \in Grant : Ended(g) \/ Begun(g) \/ \E c \in Call : Rotated(g, c)

\* What any of them does to a grant.
Moved(h) ==
    /\ grant[h].there => /\ grant'[h].there /\ grant'[h].endsAt = grant[h].endsAt
                         /\ grant'[h].current >= grant[h].current
                         /\ \/ /\ grant'[h].previous = grant[h].previous
                               /\ grant'[h].rotatedAt = grant[h].rotatedAt
                            \/ grant'[h].previous = grant[h].current
    /\ grant[h].revoked => grant'[h].revoked /\ grant'[h].current = grant[h].current
    /\ ~grant'[h].there => ~grant[h].there /\ ~grant'[h].revoked
    /\ grant'[h].previous # None => grant'[h].current = grant'[h].previous + 1
    /\ endedAt'[h] # endedAt[h] => endedAt[h] = Never /\ endedAt'[h] = now
    /\ ~grant'[h].revoked => endedAt'[h] = Never
    /\ endedAt'[h] = Never \/ endedAt'[h] <= now'
    /\ now <= now'

\* Each of the four ways the table moves leaves the later facts of a row true.
LEMMA RowsMove ==
    ASSUME TypeOK, \A g \in Grant : RowSound(g), RowsStep, NEW h \in Grant
    PROVE  Moved(h)
<1>0. /\ grant \in [Grant -> Row] /\ endedAt \in [Grant -> Time \cup {Never}]
      /\ now \in Time
  BY DEF TypeOK
<1>1. grant[h] \in Row /\ endedAt[h] \in Nat /\ now \in Nat /\ now # Never
  BY <1>0, Constants
<1>t. /\ grant[h] \in Row /\ grant[h].there \in BOOLEAN /\ grant[h].revoked \in BOOLEAN
      /\ grant[h].current \in Nat /\ endedAt[h] \in Nat /\ now \in Nat /\ now # Never
      /\ grant \in [Grant -> Row] /\ endedAt \in [Grant -> Time \cup {Never}]
  BY <1>0, <1>1 DEF Row
<1>r. RowSound(h) OBVIOUS
<1>5. CASE Still
  BY <1>5, <1>t, <1>r DEF Still, Tick, Moved, RowSound
<1>2. ASSUME NEW g \in Grant, Ended(g) PROVE Moved(h)
  <2>1. CASE g = h
    <3>1. grant'[h] = [grant[h] EXCEPT !.revoked = TRUE] BY <1>2, <1>t, <2>1 DEF Ended, EndGrant
    <3>2. endedAt'[h] = IF endedAt[h] = Never THEN now ELSE endedAt[h]
      BY <1>2, <1>t, <2>1 DEF Ended, EndGrant
    <3>3. now' = now /\ grant[h].there BY <1>2, <2>1 DEF Ended
    <3> QED BY <1>t, <1>r, <3>1, <3>2, <3>3 DEF Moved, RowSound, Row
  <2>2. CASE g # h
    <3>1. grant'[h] = grant[h] /\ endedAt'[h] = endedAt[h] /\ now' = now
      BY <1>2, <1>t, <2>2 DEF Ended, EndGrant
    <3> QED BY <1>t, <1>r, <3>1 DEF Moved, RowSound
  <2> QED BY <2>1, <2>2
<1>3. ASSUME NEW g \in Grant, Begun(g) PROVE Moved(h)
  <2>0. endedAt' = endedAt /\ now' = now BY <1>3 DEF Begun
  <2>1. CASE g = h
    <3>1. grant'[h] = [Absent EXCEPT !.there = TRUE, !.endsAt = now + SessionTTL]
          /\ ~grant[h].there
      BY <1>3, <1>t, <2>1 DEF Begun
    <3>2. /\ grant'[h].there /\ ~grant'[h].revoked /\ grant'[h].previous = None
      BY <3>1 DEF Absent
    <3> QED BY <1>t, <1>r, <2>0, <3>1, <3>2 DEF Moved, RowSound
  <2>2. CASE g # h
    <3>1. grant'[h] = grant[h] BY <1>3, <1>t, <2>2 DEF Begun
    <3> QED BY <1>t, <1>r, <2>0, <3>1 DEF Moved, RowSound
  <2> QED BY <2>1, <2>2
<1>4. ASSUME NEW g \in Grant, NEW c \in Call, Rotated(g, c) PROVE Moved(h)
  <2>0. endedAt' = endedAt /\ now' = now BY <1>4 DEF Rotated
  <2>1. CASE g = h
    <3>1. /\ grant'[h] = [grant[h] EXCEPT !.current = c.token + 1, !.previous = c.token,
                                          !.rotatedAt = c.moment]
          /\ grant[h].there /\ ~grant[h].revoked /\ grant[h].current = c.token
      BY <1>4, <1>t, <2>1 DEF Rotated
    <3> HIDE DEF Rotated
    <3>2. /\ grant'[h].there /\ ~grant'[h].revoked /\ grant'[h].endsAt = grant[h].endsAt
          /\ grant'[h].current = grant[h].current + 1 /\ grant'[h].previous = grant[h].current
      BY <1>t, <3>1 DEF Row
    <3> QED BY <1>t, <1>r, <2>0, <3>1, <3>2 DEF Moved, RowSound
  <2>2. CASE g # h
    <3>1. grant'[h] = grant[h] BY <1>4, <1>t, <2>2 DEF Rotated
    <3> QED BY <1>t, <1>r, <2>0, <3>1 DEF Moved, RowSound
  <2> QED BY <2>1, <2>2
<1> QED BY <1>2, <1>3, <1>4, <1>5 DEF RowsStep

\* What a grant needs of a step for its part of the invariant to hold after it.
LEMMA RowKeeps ==
    ASSUME TypeOK, TypeOK', NEW h \in Grant, RowSound(h), Moved(h),
           \/ cache'[h] = cache[h]
           \/ /\ cache'[h].until <= now + CacheTTL
              /\ cache'[h].live => cache'[h].until <= endedAt[h] + CacheTTL
              /\ endedAt'[h] = endedAt[h],
           \A n \in issued'[h] : n \in issued[h] \/ n <= grant'[h].current,
           issued'[h] # {} => issued'[h] = issued[h] \/ grant'[h].there
    PROVE  RowSound(h)'
<1>1. /\ grant[h] \in Row /\ grant'[h] \in Row /\ now \in Nat /\ now' \in Nat
      /\ endedAt[h] \in Nat /\ endedAt'[h] \in Nat
      /\ cache[h].until \in Nat /\ cache'[h].until \in Nat /\ CacheTTL \in Nat
      /\ issued[h] \subseteq Nat /\ issued'[h] \subseteq Nat
  <2>1. grant[h] \in Row /\ grant'[h] \in Row BY DEF TypeOK
  <2>2. now \in Time /\ now' \in Time /\ endedAt[h] \in Time \cup {Never}
        /\ endedAt'[h] \in Time \cup {Never}
    BY DEF TypeOK
  <2>3. cache[h].until \in Nat /\ cache'[h].until \in Nat BY DEF TypeOK
  <2>4. issued[h] \in SUBSET (0..MaxGen) /\ issued'[h] \in SUBSET (0..MaxGen) BY DEF TypeOK
  <2>5. CacheTTL \in Nat BY ParameterTypes
  <2>6. now \in Nat /\ now' \in Nat /\ endedAt[h] \in Nat /\ endedAt'[h] \in Nat
    BY <2>2, Numbers
  <2>7. issued[h] \subseteq Nat /\ issued'[h] \subseteq Nat BY <2>4, Numbers
  <2> QED BY <2>1, <2>3, <2>5, <2>6, <2>7
<1>2. /\ grant[h].current \in Nat /\ grant'[h].current \in Nat
      /\ grant[h].there \in BOOLEAN /\ grant'[h].there \in BOOLEAN
  BY <1>1 DEF Row
<1>3. ~grant'[h].there => ~grant'[h].revoked /\ issued'[h] = {}
  BY <1>2 DEF RowSound, Moved
<1>4. \A n \in issued'[h] : n <= grant'[h].current
  BY <1>1, <1>2 DEF RowSound, Moved
<1>5. cache'[h].until <= now' + CacheTTL BY <1>1 DEF RowSound, Moved
<1>6. cache'[h].live => cache'[h].until <= endedAt'[h] + CacheTTL
  BY <1>1 DEF RowSound, Moved
<1> QED BY <1>3, <1>4, <1>5, <1>6 DEF RowSound, Moved

\* A refresh that a step does not touch: what ended its grant, or moved it on,
\* leaves a token presented outside the window outside it.
LEMMA CallKeeps ==
    ASSUME TypeOK, TypeOK', NEW p \in Proc, call'[p] = call[p], Sound(call[p]),
           \A h \in Grant : Moved(h)
    PROVE  Sound(call[p])'
<1> SUFFICES ASSUME call[p].at # "idle" PROVE Sound(call[p])'
  BY DEF Sound
<1> DEFINE c == call[p]
<1> DEFINE g == call[p].grant
<1>1. c \in Call /\ now \in Time /\ now' \in Time BY DEF TypeOK
<1>2. g \in Grant /\ grant[g].there /\ Moved(g) BY DEF Sound
<1>3. /\ grant[g] \in Row /\ grant'[g] \in Row
      /\ endedAt[g] \in Time \cup {Never} /\ endedAt'[g] \in Time \cup {Never}
  BY <1>2 DEF TypeOK
<1>4. /\ c.token \in Nat /\ c.moment \in Nat /\ now \in Nat /\ now' \in Nat
      /\ endedAt[g] \in Nat /\ endedAt'[g] \in Nat
  <2>1. c.token \in 0..MaxGen /\ c.moment \in Time BY <1>1 DEF Call
  <2> QED BY <1>1, <1>3, <2>1, Numbers
<1>5. /\ grant[g].current \in Nat /\ grant'[g].current \in Nat
      /\ grant[g].endsAt \in Nat /\ grant'[g].endsAt \in Nat
      /\ grant[g].revoked \in BOOLEAN /\ grant'[g].revoked \in BOOLEAN
  BY <1>3 DEF Row
<1> HIDE DEF c, g
<1>6. /\ grant'[g].there /\ c.token < MaxGen /\ c.token <= grant'[g].current
      /\ c.moment <= now' /\ (c.reuse => c.at \in {"revoke", "done"})
      /\ (c.at = "issue" => c.token < grant'[g].current)
      /\ (c.at = "revoke" /\ c.reuse => c.token < grant'[g].current)
  BY <1>2, <1>4, <1>5 DEF Sound, Moved, c, g
<1>7. ASSUME c.at \in {"rotate", "reload", "issue"}
      PROVE  grant'[g].endsAt > c.moment /\ endedAt'[g] >= c.moment
  <2>1. grant[g].endsAt > c.moment /\ endedAt[g] >= c.moment /\ c.moment <= now
    BY <1>7 DEF Sound, c, g
  <2> QED BY <2>1, <1>2, <1>4, <1>5 DEF Moved
<1>8. ASSUME c.at = "revoke", c.reuse, Live(grant'[g], now'), grant'[g].previous = c.token
      PROVE  LET since == c.moment - grant'[g].rotatedAt IN since > Grace \/ since < 0
  <2>1. c.token < grant[g].current /\ Outside(c) BY <1>8 DEF Sound, c, g
  <2>2. grant'[g].previous = grant[g].previous /\ grant'[g].rotatedAt = grant[g].rotatedAt
    BY <2>1, <1>2, <1>4, <1>5, <1>8 DEF Moved
  <2>3. Live(grant[g], now) BY <1>8, <1>2, <1>4, <1>5 DEF Moved, Live
  <2> QED BY <2>1, <2>2, <2>3, <1>8 DEF Outside, g, c
<1> QED BY <1>2, <1>6, <1>7, <1>8 DEF Sound, Outside, g, c

\* A request to the resource server that a step does not touch: an end is never
\* put before the present.
LEMMA CheckKeeps ==
    ASSUME TypeOK, TypeOK', NEW t \in Thread, check'[t] = check[t], Believed(check[t]),
           \A h \in Grant : Moved(h)
    PROVE  Believed(check[t])'
<1> SUFFICES ASSUME check[t].at # "idle" PROVE Believed(check[t])'
  BY DEF Believed
<1> DEFINE g == check[t].grant
<1>1. g \in Grant /\ Moved(g) BY DEF Believed
<1>2. /\ check[t].moment \in Time /\ now \in Time /\ now' \in Time
      /\ endedAt[g] \in Time \cup {Never} /\ endedAt'[g] \in Time \cup {Never}
  BY <1>1 DEF TypeOK, Check
<1>3. /\ check[t].moment \in Nat /\ now \in Nat /\ now' \in Nat
      /\ endedAt[g] \in Nat /\ endedAt'[g] \in Nat /\ CacheTTL \in Nat
  BY <1>2, Constants, ParameterTypes
<1> QED BY <1>1, <1>3 DEF Believed, Moved

\* After a step of the table every part of the invariant holds that the step
\* does not itself write.
LEMMA Carried ==
    ASSUME IInv, TypeOK', RowsStep
    PROVE  /\ \A h \in Grant : Moved(h)
           /\ \A p \in Proc : call'[p] = call[p] => Sound(call[p])'
           /\ \A t \in Thread : check'[t] = check[t] => Believed(check[t])'
           /\ cache' = cache /\ issued' = issued => \A h \in Grant : RowSound(h)'
<1>0. TypeOK BY DEF IInv
<1>1. \A h \in Grant : Moved(h) BY <1>0, RowsMove DEF IInv
<1>2. \A p \in Proc : call'[p] = call[p] => Sound(call[p])'
  BY <1>0, <1>1, CallKeeps DEF IInv
<1>3. \A t \in Thread : check'[t] = check[t] => Believed(check[t])'
  BY <1>0, <1>1, CheckKeeps DEF IInv
<1>4. ASSUME cache' = cache, issued' = issued, NEW h \in Grant PROVE RowSound(h)'
  <2>1. RowSound(h) BY DEF IInv
  <2> QED BY <1>0, <1>1, <1>4, <2>1, RowKeeps
<1> QED BY <1>1, <1>2, <1>3, <1>4

-----------------------------------------------------------------------------
(* The invariant is kept by every step.                                    *)

\* Time only ends what is about to end.
LEMMA TickKeeps ==
    ASSUME IInv, Tick
    PROVE  IInv'
<1>1. TypeOK'
  <2>1. now' \in Time BY ParameterTypes DEF IInv, TypeOK, Tick, Time
  <2> QED BY <2>1 DEF IInv, TypeOK, Tick
<1>2. RowsStep BY DEF Tick, RowsStep, Still
<1> QED BY <1>1, <1>2, Carried DEF Tick, IInv

\* A new grant has handed out its first token.
LEMMA OpenKeeps ==
    ASSUME IInv, NEW g \in Grant, Open(g)
    PROVE  IInv'
<1>0. now \in Nat /\ 0 \in 0..MaxGen BY Numbers, ParameterTypes DEF IInv, TypeOK
<1>1. [Absent EXCEPT !.there = TRUE, !.endsAt = now + SessionTTL] \in Row
  <2>1. now + SessionTTL \in Nat BY <1>0, ParameterTypes
  <2> DEFINE e == now + SessionTTL
  <2> HIDE DEF e
  <2>2. e \in Nat => [Absent EXCEPT !.there = TRUE, !.endsAt = e] \in Row BY Constants DEF Row
  <2> QED BY <2>1, <2>2 DEF e
<1>2. TypeOK' BY <1>0, <1>1 DEF IInv, TypeOK, Open, resource
<1>3. RowsStep BY DEF Open, RowsStep, Begun
<1>4. ASSUME NEW h \in Grant PROVE RowSound(h)'
  <2>1. RowSound(h) /\ Moved(h) /\ TypeOK BY <1>2, <1>3, Carried DEF IInv
  <2>2. cache'[h] = cache[h] BY DEF Open, resource
  <2>3. issued'[h] = issued[h] \/ (h = g /\ issued'[h] = {0})
    BY DEF IInv, TypeOK, Open
  <2>4. h = g => grant'[h].there /\ grant'[h].current = 0
    BY DEF IInv, TypeOK, Open, Absent
  <2>5. \A n \in issued'[h] : n \in issued[h] \/ n <= grant'[h].current
    BY <2>3, <2>4
  <2> QED BY <1>2, <2>1, <2>2, <2>3, <2>4, <2>5, RowKeeps
<1> QED BY <1>2, <1>3, <1>4, Carried DEF Open, IInv, resource

\* A refresh begins with a token that was handed out.
LEMMA PresentKeeps ==
    ASSUME IInv, NEW p \in Proc, NEW g \in Grant, NEW n \in issued[g], Present(p, g, n)
    PROVE  IInv'
<1> DEFINE d == [Idle EXCEPT !.at = "load", !.grant = g, !.token = n, !.moment = now]
<1>0. TypeOK /\ now \in Time /\ n \in 0..MaxGen BY DEF IInv, TypeOK
<1>1. d \in Call BY <1>0, Constants DEF Call
<1>2. call' \in [Proc -> Call] BY <1>0, <1>1, BecomeType DEF Present
<1>3. TypeOK' BY <1>0, <1>2 DEF TypeOK, Present, resource
<1>4. RowsStep BY DEF Present, RowsStep, Still
<1>5. ASSUME NEW q \in Proc PROVE Sound(call[q])'
  <2>1. CASE q # p
    BY <1>0, <1>3, <1>4, <2>1, Carried DEF Present, Become, TypeOK
  <2>2. CASE q = p
    <3>1. call'[q] = d BY <1>0, <2>2 DEF Present, Become, TypeOK
    <3>2. /\ d.at = "load" /\ d.grant = g /\ d.token = n /\ d.moment = now /\ ~d.reuse
      BY DEF Idle
    <3>3. grant[g].there /\ n <= grant[g].current BY DEF IInv, RowSound
    <3>4. now \in Nat BY <1>0, Numbers
    <3>5. grant' = grant /\ now' = now /\ endedAt' = endedAt /\ n < MaxGen BY DEF Present
    <3> HIDE DEF d
    <3> QED BY <3>1, <3>2, <3>3, <3>4, <3>5 DEF Sound
  <2> QED BY <2>1, <2>2
<1> QED BY <1>3, <1>4, <1>5, Carried DEF Present, IInv, resource

\* A step of one refresh leaves the others, and the resource server, alone.
LEMMA OneCall ==
    ASSUME IInv, TypeOK', RowsStep, NEW p \in Proc, check' = check,
           \A q \in Proc : q # p => call'[q] = call[q],
           Sound(call[p])', \A h \in Grant : RowSound(h)'
    PROVE  IInv'
<1>1. \A q \in Proc : Sound(call[q])' BY Carried
<1>2. \A t \in Thread : Believed(check[t])' BY Carried
<1> QED BY <1>1, <1>2 DEF IInv

\* What is known of a refresh in flight, with the types the provers need.
LEMMA InFlight ==
    ASSUME IInv, NEW p \in Proc, call[p].at # "idle"
    PROVE  LET c == call[p]
               row == grant[c.grant]
           IN  /\ c \in Call /\ c.grant \in Grant /\ row \in Row /\ RowSound(c.grant)
               /\ row.there /\ c.token \in Nat /\ c.token < MaxGen /\ c.token <= row.current
               /\ c.moment \in Nat /\ now \in Nat /\ c.moment <= now /\ c.moment \in Time
               /\ row.current \in Nat /\ row.endsAt \in Nat /\ row.rotatedAt \in Nat
               /\ endedAt[c.grant] \in Nat /\ Never >= c.moment
<1> DEFINE c == call[p]
<1>1. c \in Call /\ Sound(c) /\ c.at # "idle" /\ now \in Time BY DEF IInv, TypeOK
<1>2. c.grant \in Grant /\ c.token \in 0..MaxGen /\ c.moment \in Time
  BY <1>1 DEF Sound, Call
<1>3. /\ grant[c.grant] \in Row /\ endedAt[c.grant] \in Time \cup {Never}
      /\ RowSound(c.grant)
  BY <1>2 DEF IInv, TypeOK
<1>4. /\ grant[c.grant].current \in Nat /\ grant[c.grant].endsAt \in Nat
      /\ grant[c.grant].rotatedAt \in Time
  BY <1>3 DEF Row
<1>5. c.token \in Nat /\ c.moment \in Nat /\ now \in Nat /\ endedAt[c.grant] \in Nat
      /\ grant[c.grant].rotatedAt \in Nat
  BY <1>1, <1>2, <1>3, <1>4, Numbers
<1>6. Never >= c.moment BY <1>2, <1>5, Constants
<1> HIDE DEF c
<1> QED BY <1>1, <1>2, <1>3, <1>4, <1>5, <1>6 DEF Sound, c

\* A refresh the row judges is answered only inside the window of a live grant,
\* and ends the grant only from outside it.
LEMMA JudgedSound ==
    ASSUME IInv, NEW p \in Proc, call[p].at \in {"load", "reload"},
           call'[p] = Judged(grant[call[p].grant], call[p]),
           UNCHANGED <<now, grant, endedAt>>
    PROVE  Sound(call[p])'
<1> DEFINE c == call[p]
<1> DEFINE row == grant[c.grant]
<1>1. /\ c \in Call /\ c.grant \in Grant /\ row \in Row /\ RowSound(c.grant)
      /\ row.there /\ c.token \in Nat /\ c.token < MaxGen /\ c.token <= row.current
      /\ c.moment \in Nat /\ now \in Nat /\ c.moment <= now
      /\ row.current \in Nat /\ row.endsAt \in Nat /\ row.rotatedAt \in Nat
      /\ endedAt[c.grant] \in Nat /\ Never >= c.moment
  BY InFlight
<1>2. ~c.reuse /\ c.at \in {"load", "reload"} BY DEF IInv, Sound
<1>3. call'[p] = Judged(row, c) /\ now' = now /\ grant' = grant /\ endedAt' = endedAt
  OBVIOUS
<1>4. CASE WithinGrace(row, c)
  <2>1. call'[p] = [c EXCEPT !.at = "issue"] BY <1>1, <1>3, <1>4, JudgedIsCall
  <2>2. Live(row, now) /\ row.current = c.token + 1 BY <1>4 DEF WithinGrace
  <2>3. row.endsAt > c.moment /\ endedAt[c.grant] >= c.moment /\ c.token < row.current
    BY <1>1, <2>2 DEF Live, RowSound
  <2>4. /\ call'[p].at = "issue" /\ call'[p].grant = c.grant /\ call'[p].token = c.token
        /\ call'[p].moment = c.moment /\ ~call'[p].reuse
    BY <1>1, <1>2, <2>1 DEF Call
  <2> QED BY <1>1, <1>3, <2>3, <2>4 DEF Sound
<1>5. CASE ~WithinGrace(row, c) /\ row.previous = c.token
  <2>1. call'[p] = [c EXCEPT !.at = "revoke", !.reuse = TRUE]
    BY <1>1, <1>3, <1>5, JudgedIsCall
  <2>2. row.current = c.token + 1 BY <1>1, <1>5 DEF RowSound, None
  <2>3. Live(row, now) => c.moment - row.rotatedAt \notin 0..Grace
    BY <1>5, <2>2 DEF WithinGrace
  <2>4. Live(row, now) => c.moment - row.rotatedAt > Grace \/ c.moment - row.rotatedAt < 0
    BY <1>1, <2>3, ParameterTypes
  <2>5. /\ call'[p].at = "revoke" /\ call'[p].grant = c.grant /\ call'[p].token = c.token
        /\ call'[p].moment = c.moment /\ call'[p].reuse
    BY <1>1, <2>1 DEF Call
  <2>6. c.token < row.current BY <1>1, <2>2
  <2> QED BY <1>1, <1>3, <2>4, <2>5, <2>6 DEF Sound, Outside
<1>6. CASE ~WithinGrace(row, c) /\ row.previous # c.token
  <2>1. call'[p] = [c EXCEPT !.at = "done"] BY <1>1, <1>3, <1>6, JudgedIsCall
  <2>2. /\ call'[p].at = "done" /\ call'[p].grant = c.grant /\ call'[p].token = c.token
        /\ call'[p].moment = c.moment
    BY <1>1, <2>1 DEF Call
  <2> QED BY <1>1, <1>3, <2>2 DEF Sound
<1> QED BY <1>4, <1>5, <1>6

\* The row loaded decides: rotate, revoke or refuse (DeviceGrantService.refresh).
LEMMA LoadKeeps ==
    ASSUME IInv, NEW p \in Proc, Load(p)
    PROVE  IInv'
<1> DEFINE c == call[p]
<1> DEFINE row == grant[c.grant]
<1>0. TypeOK /\ TypeOK' BY RefreshingType DEF IInv, Refreshing
<1>1. c.at = "load" /\ UNCHANGED <<now, grant, cache, check, issued, endedAt>>
  BY DEF Load, resource
<1>2. RowsStep BY <1>1 DEF RowsStep, Still
<1>3. \A q \in Proc : q # p => call'[q] = call[q] BY <1>0 DEF Load, Become, TypeOK
<1>4. call'[p] = IF ~Live(row, now) THEN [c EXCEPT !.at = "done"]
                 ELSE IF row.current = c.token THEN [c EXCEPT !.at = "rotate"]
                 ELSE Judged(row, c)
  BY <1>0 DEF Load, Become, TypeOK
<1>5. /\ c \in Call /\ c.grant \in Grant /\ row \in Row /\ RowSound(c.grant)
      /\ row.there /\ c.token < MaxGen /\ c.token <= row.current
      /\ c.moment \in Nat /\ now \in Nat /\ c.moment <= now
      /\ row.endsAt \in Nat /\ Never >= c.moment
  BY <1>1, InFlight
<1>6. ~c.reuse BY <1>1 DEF IInv, Sound
<1>7. Sound(call[p])'
  <2>1. CASE ~Live(row, now)
    <3>1. /\ call'[p].at = "done" /\ call'[p].grant = c.grant /\ call'[p].token = c.token
          /\ call'[p].moment = c.moment
      BY <1>4, <1>5, <2>1 DEF Call
    <3> QED BY <1>1, <1>5, <3>1 DEF Sound
  <2>2. CASE Live(row, now) /\ row.current = c.token
    <3>1. /\ call'[p].at = "rotate" /\ call'[p].grant = c.grant /\ call'[p].token = c.token
          /\ call'[p].moment = c.moment /\ ~call'[p].reuse
      BY <1>4, <1>5, <1>6, <2>2 DEF Call
    <3>2. row.endsAt > c.moment /\ endedAt[c.grant] >= c.moment
      BY <1>5, <2>2 DEF Live, RowSound
    <3> QED BY <1>1, <1>5, <3>1, <3>2 DEF Sound
  <2>3. CASE Live(row, now) /\ row.current # c.token
    <3>1. call'[p] = Judged(row, c) BY <1>4, <2>3
    <3> QED BY <1>1, <3>1, JudgedSound
  <2> QED BY <2>1, <2>2, <2>3
<1>8. \A h \in Grant : RowSound(h)' BY <1>0, <1>1, <1>2, Carried
<1> QED BY <1>0, <1>1, <1>2, <1>3, <1>7, <1>8, OneCall

\* The row reloaded after a lost race decides again.
LEMMA ReloadKeeps ==
    ASSUME IInv, NEW p \in Proc, Reload(p)
    PROVE  IInv'
<1>0. TypeOK /\ TypeOK' BY RefreshingType DEF IInv, Refreshing
<1>1. call[p].at = "reload" /\ UNCHANGED <<now, grant, cache, check, issued, endedAt>>
  BY DEF Reload, resource
<1>2. RowsStep BY <1>1 DEF RowsStep, Still
<1>3. \A q \in Proc : q # p => call'[q] = call[q] BY <1>0 DEF Reload, Become, TypeOK
<1>4. call'[p] = Judged(grant[call[p].grant], call[p]) BY <1>0 DEF Reload, Become, TypeOK
<1>5. Sound(call[p])' BY <1>1, <1>4, JudgedSound
<1>6. \A h \in Grant : RowSound(h)' BY <1>0, <1>1, <1>2, Carried
<1> QED BY <1>0, <1>1, <1>2, <1>3, <1>5, <1>6, OneCall

\* Only here does a current token become the previous one.
LEMMA RotateKeeps ==
    ASSUME IInv, NEW p \in Proc, Rotate(p)
    PROVE  IInv'
<1> DEFINE c == call[p]
<1> DEFINE row == grant[c.grant]
<1>0. TypeOK /\ TypeOK' BY RefreshingType DEF IInv, Refreshing
<1>1. c.at = "rotate" /\ UNCHANGED <<now, cache, check, issued, endedAt>>
  BY DEF Rotate, resource
<1>2. /\ c \in Call /\ c.grant \in Grant /\ row \in Row
      /\ row.there /\ c.token \in Nat /\ c.token < MaxGen /\ c.token <= row.current
      /\ c.moment \in Nat /\ now \in Nat /\ c.moment <= now /\ row.current \in Nat
  BY <1>1, InFlight
<1>3. ~c.reuse /\ row.endsAt > c.moment /\ endedAt[c.grant] >= c.moment
  BY <1>1 DEF IInv, Sound
<1>4. \A q \in Proc : q # p => call'[q] = call[q] BY <1>0 DEF Rotate, Become, TypeOK
<1>5. CASE row.current = c.token /\ ~row.revoked
  <2>1. Rotated(c.grant, c) BY <1>1, <1>2, <1>5 DEF Rotate, Rotated
  <2>2. RowsStep BY <1>2, <2>1 DEF RowsStep
  <2>3. call'[p] = [c EXCEPT !.at = "issue"] BY <1>0, <1>5 DEF Rotate, Become, TypeOK
  <2>4. /\ call'[p].at = "issue" /\ call'[p].grant = c.grant /\ call'[p].token = c.token
        /\ call'[p].moment = c.moment /\ ~call'[p].reuse
    BY <1>2, <1>3, <2>3 DEF Call
  <2>5. grant' = [grant EXCEPT ![c.grant] = [@ EXCEPT !.current = c.token + 1,
                                  !.previous = c.token, !.rotatedAt = c.moment]]
    BY <2>1 DEF Rotated
  <2>6. grant'[c.grant] = [row EXCEPT !.current = c.token + 1, !.previous = c.token,
                                      !.rotatedAt = c.moment]
    BY <1>0, <1>2, <2>5 DEF TypeOK
  <2>7. /\ grant'[c.grant].there /\ grant'[c.grant].current = c.token + 1
        /\ grant'[c.grant].endsAt = row.endsAt
    BY <1>2, <2>6 DEF Row
  <2>8. c.token < c.token + 1 /\ c.token <= c.token + 1 BY <1>2
  <2> HIDE DEF c, row
  <2>9. Sound(call[p])' BY <1>1, <1>2, <1>3, <2>4, <2>7, <2>8 DEF Sound
  <2>10. \A h \in Grant : RowSound(h)' BY <1>0, <1>1, <2>2, Carried
  <2> QED BY <1>0, <1>1, <1>4, <2>2, <2>9, <2>10, OneCall
<1>6. CASE ~(row.current = c.token /\ ~row.revoked)
  <2>1. grant' = grant /\ call'[p] = [c EXCEPT !.at = "reload"]
    BY <1>0, <1>6 DEF Rotate, Become, TypeOK
  <2>2. RowsStep BY <1>1, <2>1 DEF RowsStep, Still
  <2>3. /\ call'[p].at = "reload" /\ call'[p].grant = c.grant /\ call'[p].token = c.token
        /\ call'[p].moment = c.moment /\ ~call'[p].reuse
    BY <1>2, <1>3, <2>1 DEF Call
  <2>4. Sound(call[p])' BY <1>1, <1>2, <1>3, <2>1, <2>3 DEF Sound
  <2>5. \A h \in Grant : RowSound(h)' BY <1>0, <1>1, <2>2, Carried
  <2> QED BY <1>0, <1>1, <1>4, <2>2, <2>4, <2>5, OneCall
<1> QED BY <1>5, <1>6

\* The successor is handed out once the row holds it, or something later.
LEMMA IssueKeeps ==
    ASSUME IInv, NEW p \in Proc, Issue(p)
    PROVE  IInv'
<1> DEFINE c == call[p]
<1>0. TypeOK /\ TypeOK' BY RefreshingType DEF IInv, Refreshing
<1>1. c.at = "issue" /\ UNCHANGED <<now, grant, cache, check, endedAt>>
  BY DEF Issue, resource
<1>2. RowsStep BY <1>1 DEF RowsStep, Still
<1>3. /\ c \in Call /\ c.grant \in Grant /\ grant[c.grant].there /\ c.token \in Nat
      /\ c.token < MaxGen /\ c.token <= grant[c.grant].current /\ c.moment <= now
      /\ grant[c.grant].current \in Nat
  BY <1>1, InFlight
<1>4. ~c.reuse /\ c.token < grant[c.grant].current BY <1>1 DEF IInv, Sound
<1>5. \A q \in Proc : q # p => call'[q] = call[q]
  BY <1>0 DEF Issue, Answer, Become, TypeOK
<1>6. \/ call'[p] = [c EXCEPT !.at = "done", !.ok = TRUE]
      \/ call'[p] = [c EXCEPT !.at = "revoke"]
  BY <1>0 DEF Issue, Answer, Become, TypeOK
<1>7. /\ call'[p].at \in {"done", "revoke"} /\ call'[p].grant = c.grant
      /\ call'[p].token = c.token /\ call'[p].moment = c.moment /\ ~call'[p].reuse
  BY <1>3, <1>4, <1>6 DEF Call
<1>8. Sound(call[p])' BY <1>1, <1>3, <1>7 DEF Sound
<1>9. ASSUME NEW h \in Grant PROVE RowSound(h)'
  <2>1. RowSound(h) /\ Moved(h) BY <1>0, <1>2, Carried DEF IInv
  <2>2. issued'[h] = issued[h] \/ (h = c.grant /\ issued'[h] = issued[h] \cup {c.token + 1})
    BY <1>0 DEF Issue, TypeOK
  <2>3. \A n \in issued'[h] : n \in issued[h] \/ n <= grant'[h].current
    BY <1>1, <1>3, <1>4, <2>2
  <2>4. issued'[h] # {} => issued'[h] = issued[h] \/ grant'[h].there
    BY <1>1, <1>3, <2>2
  <2>5. cache'[h] = cache[h] BY <1>1
  <2> QED BY <1>0, <2>1, <2>3, <2>4, <2>5, RowKeeps
<1> QED BY <1>0, <1>1, <1>2, <1>5, <1>8, <1>9, OneCall

\* A reuse outside the window ends the grant.
LEMMA RevokeKeeps ==
    ASSUME IInv, NEW p \in Proc, Revoke(p)
    PROVE  IInv'
<1> DEFINE c == call[p]
<1>0. TypeOK /\ TypeOK' BY RefreshingType DEF IInv, Refreshing
<1>1. c.at = "revoke" /\ EndGrant(c.grant) /\ UNCHANGED <<now, cache, check, issued>>
  BY DEF Revoke, resource
<1>2. /\ c \in Call /\ c.grant \in Grant /\ grant[c.grant].there /\ c.token \in Nat
      /\ c.token < MaxGen /\ c.token <= grant[c.grant].current
      /\ c.moment \in Nat /\ now \in Nat /\ c.moment <= now /\ grant[c.grant].current \in Nat
  BY <1>1, InFlight
<1>3. RowsStep BY <1>1, <1>2 DEF RowsStep, Ended
<1>4. \A q \in Proc : q # p => call'[q] = call[q]
  BY <1>0 DEF Revoke, Answer, Become, TypeOK
<1>5. call'[p] = [c EXCEPT !.at = "done", !.ok = FALSE]
  BY <1>0 DEF Revoke, Answer, Become, TypeOK
<1>6. /\ call'[p].at = "done" /\ call'[p].grant = c.grant
      /\ call'[p].token = c.token /\ call'[p].moment = c.moment
  BY <1>2, <1>5 DEF Call
<1>7. Moved(c.grant) BY <1>0, <1>2, <1>3, Carried
<1>8. grant'[c.grant].current \in Nat BY <1>0, <1>2 DEF TypeOK, Row
<1>9. grant'[c.grant].there /\ c.token <= grant'[c.grant].current
  BY <1>2, <1>7, <1>8 DEF Moved
<1>10. Sound(call[p])' BY <1>1, <1>2, <1>6, <1>9 DEF Sound
<1>11. \A h \in Grant : RowSound(h)' BY <1>0, <1>1, <1>3, Carried
<1> QED BY <1>0, <1>1, <1>3, <1>4, <1>10, <1>11, OneCall

\* A refresh that is over leaves nothing.
LEMMA FinishKeeps ==
    ASSUME IInv, NEW p \in Proc, Finish(p)
    PROVE  IInv'
<1>0. TypeOK BY DEF IInv
<1>1. UNCHANGED <<now, grant, cache, check, issued, endedAt>> BY DEF Finish, resource
<1>2. call' \in [Proc -> Call] BY <1>0, Constants, BecomeType DEF Finish
<1>3. TypeOK' BY <1>0, <1>1, <1>2 DEF TypeOK
<1>4. RowsStep BY <1>1 DEF RowsStep, Still
<1>5. \A q \in Proc : q # p => call'[q] = call[q] BY <1>0 DEF Finish, Become, TypeOK
<1>6. call'[p].at = "idle" BY <1>0 DEF Finish, Become, TypeOK, Idle
<1>7. Sound(call[p])' BY <1>6 DEF Sound
<1>8. \A h \in Grant : RowSound(h)' BY <1>1, <1>3, <1>4, Carried
<1> QED BY <1>1, <1>3, <1>4, <1>5, <1>7, <1>8, OneCall

\* Whoever revokes a grant ends it for good.
LEMMA RevokeGrantKeeps ==
    ASSUME IInv, NEW g \in Grant, RevokeGrant(g)
    PROVE  IInv'
<1>0. TypeOK BY DEF IInv
<1>1. EndGrant(g) /\ UNCHANGED <<now, call, cache, check, issued>>
  BY DEF RevokeGrant, resource
<1>2. grant' \in [Grant -> Row] /\ endedAt' \in [Grant -> Time \cup {Never}]
  BY <1>0, <1>1, EndGrantType
<1>3. TypeOK' BY <1>0, <1>1, <1>2 DEF TypeOK
<1>4. RowsStep BY <1>1 DEF RevokeGrant, RowsStep, Ended
<1> QED BY <1>1, <1>3, <1>4, Carried DEF IInv

\* A step of one request to the resource server, which writes nothing else.
LEMMA OneCheck ==
    ASSUME IInv, TypeOK', NEW t \in Thread, Unkept, cache' = cache,
           \A s \in Thread : s # t => check'[s] = check[s], Believed(check[t])'
    PROVE  IInv'
<1>1. RowsStep BY DEF Unkept, RowsStep, Still
<1>2. \A p \in Proc : Sound(call[p])' BY <1>1, Carried DEF Unkept
<1>3. \A s \in Thread : Believed(check[s])' BY <1>1, Carried
<1>4. \A h \in Grant : RowSound(h)' BY <1>1, Carried DEF Unkept
<1> QED BY <1>2, <1>3, <1>4 DEF IInv

\* A request of the resource server begins.
LEMMA AskKeeps ==
    ASSUME IInv, NEW t \in Thread, NEW g \in Grant, Ask(t, g)
    PROVE  IInv'
<1>0. TypeOK /\ TypeOK' BY CheckingType DEF IInv, Checking
<1>1. Unkept /\ cache' = cache /\ UNCHANGED <<now, endedAt>> BY DEF Ask, Unkept
<1>2. \A s \in Thread : s # t => check'[s] = check[s] BY <1>0 DEF Ask, TypeOK
<1>3. /\ now \in Nat /\ endedAt[g] \in Nat /\ cache[g].until \in Nat /\ CacheTTL \in Nat
  <2>1. now \in Time /\ endedAt[g] \in Time \cup {Never} /\ cache[g].until \in Nat
    BY <1>0 DEF TypeOK
  <2> QED BY <2>1, Numbers, ParameterTypes
<1>4. RowSound(g) BY DEF IInv
<1>5. Believed(check[t])'
  <2>1. CASE cache[g].until > now /\ cache[g].live
    <3>1. check'[t] = [Unasked EXCEPT !.at = "allowed", !.grant = g, !.moment = now]
      BY <1>0, <2>1 DEF Ask, TypeOK
    <3>2. check'[t].at = "allowed" /\ check'[t].grant = g /\ check'[t].moment = now
      BY <3>1 DEF Unasked
    <3>3. now < endedAt[g] + CacheTTL BY <1>3, <1>4, <2>1 DEF RowSound
    <3>4. now <= now BY <1>3
    <3> QED BY <1>1, <3>2, <3>3, <3>4 DEF Believed
  <2>2. CASE cache[g].until > now /\ ~cache[g].live
    <3>1. check'[t] = [Unasked EXCEPT !.at = "idle", !.grant = Nobody, !.moment = 0]
      BY <1>0, <2>2 DEF Ask, TypeOK
    <3>2. check'[t].at = "idle" BY <3>1 DEF Unasked
    <3> QED BY <3>2 DEF Believed
  <2>3. CASE ~(cache[g].until > now)
    <3>1. check'[t] = [Unasked EXCEPT !.at = "read", !.grant = g, !.moment = now]
      BY <1>0, <2>3 DEF Ask, TypeOK
    <3>2. check'[t].at = "read" /\ check'[t].grant = g /\ check'[t].moment = now
      BY <3>1 DEF Unasked
    <3>3. now <= now BY <1>3
    <3> QED BY <1>1, <3>2, <3>3 DEF Believed
  <2> QED BY <2>1, <2>2, <2>3
<1> QED BY <1>0, <1>1, <1>2, <1>5, OneCheck

\* A decision says live only of a grant nobody has ended by then.
LEMMA ReadGrantKeeps ==
    ASSUME IInv, NEW t \in Thread, ReadGrant(t)
    PROVE  IInv'
<1> DEFINE k == check[t]
<1>0. TypeOK /\ TypeOK' BY CheckingType DEF IInv, Checking
<1>1. Unkept /\ cache' = cache /\ UNCHANGED <<now, endedAt>> /\ k.at = "read"
  BY DEF ReadGrant, Unkept
<1>2. \A s \in Thread : s # t => check'[s] = check[s] BY <1>0 DEF ReadGrant, TypeOK
<1>3. k.grant \in Grant /\ k.moment <= now /\ k \in Check
  BY <1>1 DEF IInv, Believed, TypeOK
<1>4. k.moment <= Never
  <2>1. k.moment \in Time BY <1>3 DEF Check
  <2> HIDE DEF k
  <2>2. k.moment \in Nat /\ Never \in Nat /\ k.moment < Never BY <2>1, Constants, Numbers
  <2> QED BY <2>2
<1>5. RowSound(k.grant) BY <1>3 DEF IInv
<1>6. /\ check'[t].at = "keep" /\ check'[t].live = Live(grant[k.grant], now)
      /\ check'[t].grant = k.grant /\ check'[t].moment = k.moment
  <2>1. check'[t] = [k EXCEPT !.at = "keep", !.live = Live(grant[k.grant], now)]
    BY <1>0 DEF ReadGrant, TypeOK
  <2> QED BY <1>3, <2>1 DEF Check
<1>7. Live(grant[k.grant], now) => k.moment <= endedAt[k.grant]
  BY <1>4, <1>5 DEF Live, RowSound
<1>8. Believed(check[t])' BY <1>1, <1>3, <1>6, <1>7 DEF Believed
<1> QED BY <1>0, <1>1, <1>2, <1>8, OneCheck

\* What the cache is given ends CacheTTL after the request that read it began.
LEMMA KeepKeeps ==
    ASSUME IInv, NEW t \in Thread, Keep(t)
    PROVE  IInv'
<1> DEFINE k == check[t]
<1>0. TypeOK /\ TypeOK' BY CheckingType DEF IInv, Checking
<1>1. Unkept /\ k.at = "keep" BY DEF Keep
<1>2. RowsStep BY <1>1 DEF Unkept, RowsStep, Still
<1>3. /\ k \in Check /\ k.grant \in Grant /\ k.moment <= now
      /\ k.live => k.moment <= endedAt[k.grant]
  BY <1>1 DEF IInv, Believed, TypeOK
<1>4. /\ k.moment \in Nat /\ now \in Nat /\ endedAt[k.grant] \in Nat /\ CacheTTL \in Nat
  <2>1. k.moment \in Time /\ now \in Time /\ endedAt[k.grant] \in Time \cup {Never}
    BY <1>0, <1>3 DEF TypeOK, Check
  <2> QED BY <2>1, Numbers, ParameterTypes
<1>5. ASSUME NEW h \in Grant PROVE RowSound(h)'
  <2>1. RowSound(h) /\ Moved(h) BY <1>0, <1>2, Carried DEF IInv
  <2>2. cache'[h] = cache[h] \/ (h = k.grant /\ cache'[h] = [until |-> k.moment + CacheTTL, live |-> k.live])
    BY <1>0 DEF Keep, TypeOK
  <2>3. \/ cache'[h] = cache[h]
        \/ /\ cache'[h].until <= now + CacheTTL
           /\ cache'[h].live => cache'[h].until <= endedAt[h] + CacheTTL
           /\ endedAt'[h] = endedAt[h]
    BY <1>1, <1>3, <1>4, <2>2 DEF Unkept
  <2>4. issued' = issued BY <1>1 DEF Unkept
  <2> QED BY <1>0, <2>1, <2>3, <2>4, RowKeeps
<1>6. \A p \in Proc : Sound(call[p])' BY <1>0, <1>1, <1>2, Carried DEF Unkept
<1>7. ASSUME NEW s \in Thread PROVE Believed(check[s])'
  <2>1. CASE s # t
    <3>1. check'[s] = check[s] BY <1>0, <2>1 DEF Keep, TypeOK
    <3> QED BY <1>0, <1>2, <3>1, Carried
  <2>2. CASE s = t /\ k.live
    <3>1. check'[s] = [k EXCEPT !.at = "allowed"] BY <1>0, <2>2 DEF Keep, TypeOK
    <3>2. check'[s].at = "allowed" /\ check'[s].grant = k.grant /\ check'[s].moment = k.moment
      BY <1>3, <3>1 DEF Check
    <3>3. now' = now /\ endedAt' = endedAt BY <1>1 DEF Unkept
    <3> QED BY <1>3, <2>2, <3>2, <3>3 DEF Believed
  <2>3. CASE s = t /\ ~k.live
    <3>1. check'[s].at = "idle" BY <1>0, <2>3 DEF Keep, TypeOK, Unasked
    <3> QED BY <3>1 DEF Believed
  <2> QED BY <2>1, <2>2, <2>3
<1> QED BY <1>0, <1>5, <1>6, <1>7 DEF IInv

\* It is answered from what the thread believes.
LEMMA ServeKeeps ==
    ASSUME IInv, NEW t \in Thread, Serve(t)
    PROVE  IInv'
<1>0. TypeOK /\ TypeOK' BY CheckingType DEF IInv, Checking
<1>1. Unkept /\ cache' = cache BY DEF Serve
<1>2. \A s \in Thread : s # t => check'[s] = check[s] BY <1>0 DEF Serve, TypeOK
<1>3. check'[t].at = "idle" BY <1>0 DEF Serve, TypeOK, Unasked
<1>4. Believed(check[t])' BY <1>3 DEF Believed
<1> QED BY <1>0, <1>1, <1>2, <1>4, OneCheck

-----------------------------------------------------------------------------
(* The theorems.                                                           *)

\* The bounds are non-empty and nothing has happened yet.
LEMMA InitIInv == Init => IInv
<1> SUFFICES ASSUME Init PROVE IInv
  OBVIOUS
<1>1. TypeOK BY InitType
<1>2. ASSUME NEW g \in Grant PROVE RowSound(g)
  BY <1>2, ParameterTypes, Constants DEF Init, RowSound, Absent
<1>3. ASSUME NEW p \in Proc PROVE Sound(call[p])
  BY <1>3 DEF Init, Sound, Idle
<1>4. ASSUME NEW t \in Thread PROVE Believed(check[t])
  BY <1>4 DEF Init, Believed, Unasked
<1> QED BY <1>1, <1>2, <1>3, <1>4 DEF IInv

\* Every step keeps the invariant.
LEMMA NextIInv == IInv /\ [Next]_vars => IInv'
<1> SUFFICES ASSUME IInv, [Next]_vars PROVE IInv'
  OBVIOUS
<1>1. CASE Tick BY <1>1, TickKeeps
<1>2. ASSUME NEW g \in Grant, Open(g) PROVE IInv' BY <1>2, OpenKeeps
<1>3. ASSUME NEW g \in Grant, RevokeGrant(g) PROVE IInv' BY <1>3, RevokeGrantKeeps
<1>4. ASSUME NEW p \in Proc, NEW g \in Grant, NEW n \in issued[g], Present(p, g, n)
      PROVE  IInv'
  BY <1>4, PresentKeeps
<1>5. ASSUME NEW p \in Proc, Refreshing(p) PROVE IInv'
  BY <1>5, LoadKeeps, RotateKeeps, ReloadKeeps, IssueKeeps, RevokeKeeps DEF Refreshing
<1>6. ASSUME NEW p \in Proc, Finish(p) PROVE IInv' BY <1>6, FinishKeeps
<1>7. ASSUME NEW t \in Thread, Checking(t) PROVE IInv'
  BY <1>7, AskKeeps, ReadGrantKeeps, KeepKeeps, ServeKeeps DEF Checking
<1>8. CASE UNCHANGED vars
  <2>1. TypeOK' BY <1>8 DEF IInv, TypeOK, vars, resource
  <2>2. RowsStep BY <1>8 DEF RowsStep, Still, vars
  <2> QED BY <1>8, <2>1, <2>2, Carried DEF IInv, vars, resource
<1> QED BY <1>1, <1>2, <1>3, <1>4, <1>5, <1>6, <1>7, <1>8 DEF Next

\* So it holds in every reachable state.
LEMMA Inductive == Spec => []IInv
BY InitIInv, NextIInv, PTL DEF Spec

\* Every step moves the table in one of the four ways, so a revoked grant stays.
LEMMA NextMoves ==
    ASSUME IInv, [Next]_vars, NEW h \in Grant
    PROVE  Moved(h)
<1>1. RowsStep
  <2>1. CASE Tick BY <2>1 DEF Tick, RowsStep, Still
  <2>2. ASSUME NEW g \in Grant, Open(g) PROVE RowsStep BY <2>2 DEF Open, RowsStep, Begun
  <2>3. ASSUME NEW g \in Grant, RevokeGrant(g) PROVE RowsStep
    BY <2>3 DEF RevokeGrant, RowsStep, Ended
  <2>4. ASSUME NEW p \in Proc, NEW g \in Grant, NEW n \in issued[g], Present(p, g, n)
        PROVE  RowsStep
    BY <2>4 DEF Present, RowsStep, Still
  <2>5. ASSUME NEW p \in Proc, Load(p) \/ Reload(p) \/ Issue(p) \/ Finish(p) PROVE RowsStep
    BY <2>5 DEF Load, Reload, Issue, Finish, RowsStep, Still
  <2>6. ASSUME NEW p \in Proc, Rotate(p) PROVE RowsStep
    <3>1. call[p] \in Call /\ call[p].grant \in Grant /\ grant[call[p].grant].there
      BY <2>6, InFlight DEF Rotate
    <3>2. CASE grant[call[p].grant].current = call[p].token /\ ~grant[call[p].grant].revoked
      <4>1. Rotated(call[p].grant, call[p]) BY <2>6, <3>1, <3>2 DEF Rotate, Rotated
      <4> QED BY <3>1, <4>1 DEF RowsStep
    <3>3. CASE ~(grant[call[p].grant].current = call[p].token /\ ~grant[call[p].grant].revoked)
      BY <2>6, <3>3 DEF Rotate, RowsStep, Still
    <3> QED BY <3>2, <3>3
  <2>7. ASSUME NEW p \in Proc, Revoke(p) PROVE RowsStep
    <3>1. call[p].grant \in Grant /\ grant[call[p].grant].there BY <2>7, InFlight DEF Revoke
    <3> QED BY <2>7, <3>1 DEF Revoke, RowsStep, Ended
  <2>8. ASSUME NEW t \in Thread, Checking(t) PROVE RowsStep
    BY <2>8 DEF Checking, Ask, ReadGrant, Keep, Serve, Unkept, RowsStep, Still
  <2>9. CASE UNCHANGED vars BY <2>9 DEF vars, RowsStep, Still
  <2> QED BY <2>1, <2>2, <2>3, <2>4, <2>5, <2>6, <2>7, <2>8, <2>9 DEF Next, Refreshing
<1> QED BY <1>1, Carried, RowsMove DEF IInv

\* Every reachable state of the table, the requests and the cache is well typed
\* (device_grant_storage.DeviceGrantRecord, DeviceGrantLiveness).
THEOREM TypeCorrect == Spec => []TypeOK
<1>1. IInv => TypeOK BY DEF IInv
<1> QED BY <1>1, Inductive, PTL

\* No answer gets ahead of the rotation it reports
\* (DeviceGrantService.refresh, _issue).
THEOREM TokensFollow == Spec => []TokensFollowTheRow
<1>1. IInv => TokensFollowTheRow BY DEF IInv, RowSound, TokensFollowTheRow
<1> QED BY <1>1, Inductive, PTL

\* A revoked grant stays revoked and rotates no more, whatever was under way
\* (storage.DynamoDeviceGrantStore.rotate, revoke).
THEOREM RevokedStays == Spec => EndedGrantsStand
<1>1. IInv /\ [Next]_vars =>
         [\A g \in Grant : grant[g].revoked =>
             grant'[g].revoked /\ grant'[g].current = grant[g].current]_vars
  BY NextMoves DEF Moved
<1> QED BY <1>1, Inductive, PTL DEF Spec, EndedGrantsStand

\* A request presented once its grant is past its end or revoked is refused
\* (DeviceGrantService.refresh).
THEOREM EndedRefuse == Spec => []EndedGrantsRefuse
<1>1. IInv => EndedGrantsRefuse BY DEF IInv, Sound, EndedGrantsRefuse
<1> QED BY <1>1, Inductive, PTL

\* A live grant is never ended for reuse by a token presented inside the window
\* of its replacement, however many refreshes of it overlap
\* (DeviceGrantService.refresh, _within_grace).
THEOREM ReuseOutside == Spec => []ReuseIsOutsideTheWindow
<1>1. IInv => ReuseIsOutsideTheWindow
  <2> SUFFICES ASSUME IInv, NEW p \in Proc, call[p].at = "revoke", call[p].reuse,
                      Live(grant[call[p].grant], now),
                      grant[call[p].grant].previous = call[p].token
               PROVE  LET since == call[p].moment - grant[call[p].grant].rotatedAt
                      IN  since > Grace \/ since < 0
    BY DEF ReuseIsOutsideTheWindow
  <2>1. Outside(call[p]) BY DEF IInv, Sound
  <2> QED BY <2>1 DEF Outside
<1> QED BY <1>1, Inductive, PTL

\* A resource server admits nothing that arrives the cache's lifetime or more
\* after the revocation, however its threads' reads interleave with it
\* (DeviceGrantLiveness.__call__).
THEOREM RevocationBites == Spec => []RevocationBitesSoon
<1>1. IInv => RevocationBitesSoon BY DEF IInv, Believed, RevocationBitesSoon
<1> QED BY <1>1, Inductive, PTL

-----------------------------------------------------------------------------
(* Commands that take turns.                                               *)

\* Holding the lock file.
Busy == {"reread", "wait", "revoke", "forget"}
Waits(c) == cmd[c].at = "wait"

\* A request at rest is nobody's; a refresh that was answered is done.
AtRest(p) ==
    /\ call[p].at = "idle" => call[p].grant = Nobody
    /\ call[p].ok => call[p].at = "done"

\* The token a client holds of a grant is the current one or the one before, and
\* nothing newer was presented.
Trails(g, n) ==
    /\ g \in Grant /\ grant[g].there /\ n \in issued[g]
    /\ grant[g].current \in {n, n + 1}
    /\ \A p \in Proc : call[p].grant = g => call[p].token <= n

\* A grant only its login knows of, until it is stored.
Unseen(c, g) ==
    /\ g \in Grant /\ grant[g].there /\ grant[g].current = 0 /\ 0 \in issued[g]
    /\ \A p \in Proc : call[p].grant # g
    /\ keyring.grant # g
    /\ \A d \in Command \ {c} : cmd[d].grant # g

\* What a command is about: the lock it holds, the grant it opened, the request
\* it waits for, whose answer takes its token one further.
CommandSound(c) ==
    /\ cmd[c].at \in Busy <=> lock = c
    /\ ~Waits(c) => cmd[c].on = NoCall
    /\ cmd[c].at \notin {"save", "wait"} => cmd[c].grant = Nobody
    /\ cmd[c].at = "save" => Unseen(c, cmd[c].grant)
    /\ Waits(c) =>
         LET p == cmd[c].on IN
         /\ p \in Proc /\ call[p].at # "idle" /\ call[p].grant = cmd[c].grant
         /\ Trails(call[p].grant, call[p].token)
         /\ keyring.grant = call[p].grant => keyring.token = call[p].token
         /\ call[p].ok => /\ grant[call[p].grant].current = call[p].token + 1
                          /\ call[p].token + 1 \in issued[call[p].grant]

\* The stored token trails; where no request was given up on, only while one is
\* waited for.
KeyringSound ==
    keyring # Empty =>
        /\ Trails(keyring.grant, keyring.token)
        /\ keyring.grant \notin late /\ grant[keyring.grant].current # keyring.token =>
             \E c \in Command : Waits(c) /\ cmd[c].grant = keyring.grant

\* A request nobody gave up on is waited for, and presented the current token.
TakesTurns(p) ==
    call[p].at # "idle" /\ call[p].grant \notin late =>
        /\ \E c \in Command : Waits(c) /\ cmd[c].on = p
        /\ ~call[p].reuse
        /\ call[p].at \in {"load", "rotate", "reload"} => grant[call[p].grant].current = call[p].token

ClientInvariant ==
    /\ CTypeOK
    /\ \A p \in Proc : AtRest(p)
    /\ \A c \in Command : CommandSound(c)
    /\ KeyringSound
    /\ \A p \in Proc : TakesTurns(p)

\* How the server may move under the client: no grant rotates, and a request is
\* as it was, or goes on with its grant and token, or is over with nobody waiting.
Quiet ==
    \A h \in Grant : grant[h].there =>
        /\ grant'[h].there /\ grant'[h].current = grant[h].current
        /\ issued[h] \subseteq issued'[h]

GoesOn(p) ==
    /\ call[p].at # "idle" /\ call'[p].at # "idle"
    /\ call'[p].grant = call[p].grant /\ call'[p].token = call[p].token
    /\ call'[p].ok =>
          /\ call'[p].at = "done" /\ grant[call[p].grant].current > call[p].token
          /\ call[p].token + 1 \in issued'[call[p].grant]
    /\ call[p].grant \notin late =>
          /\ ~call'[p].reuse
          /\ call'[p].at \in {"load", "rotate", "reload"} =>
                grant[call[p].grant].current = call[p].token

\* No request that is new.
Fewer ==
    \A p \in Proc : call'[p].grant # Nobody =>
        call'[p].grant = call[p].grant /\ call'[p].token = call[p].token

\* A token trails, and a grant stays unseen, while nothing rotates.
LEMMA TrailsStill ==
    ASSUME NEW g, NEW n, Trails(g, n), Quiet, Fewer
    PROVE  Trails(g, n)'
<1>1. g # Nobody BY ParameterTypes DEF Trails
<1> QED BY <1>1 DEF Trails, Quiet, Fewer

LEMMA UnseenStill ==
    ASSUME NEW c \in Command, NEW g, Unseen(c, g), Quiet, Fewer, keyring'.grant # g,
           \A d \in Command \ {c} : cmd'[d].grant # g
    PROVE  Unseen(c, g)'
<1>1. g # Nobody BY ParameterTypes DEF Unseen
<1> QED BY <1>1 DEF Unseen, Quiet, Fewer

\* A command that takes no part in a step is where it was.
LEMMA OtherCommand ==
    ASSUME NEW e \in Command, CommandSound(e), cmd'[e] = cmd[e], lock' = e <=> lock = e,
           Quiet, Fewer,
           Waits(e) => /\ call'[cmd[e].on] = call[cmd[e].on]
                       /\ keyring'.grant = call[cmd[e].on].grant =>
                             keyring'.token = call[cmd[e].on].token,
           cmd[e].at = "save" =>
               /\ keyring'.grant # cmd[e].grant
               /\ \A d \in Command \ {e} : cmd'[d].grant # cmd[e].grant
    PROVE  CommandSound(e)'
<1>1. CASE Waits(e)
  <2> PICK p \in Proc : p = cmd[e].on BY <1>1 DEF CommandSound
  <2> PICK k : k = call[p] OBVIOUS
  <2>1. call'[p] = k /\ Trails(k.grant, k.token) BY <1>1 DEF CommandSound
  <2>2. Trails(k.grant, k.token)' BY <2>1, TrailsStill
  <2>3. /\ k.grant \in Grant /\ grant'[k.grant].current = grant[k.grant].current
        /\ issued[k.grant] \subseteq issued'[k.grant]
    BY <2>1 DEF Trails, Quiet
  <2> QED BY <1>1, <2>1, <2>2, <2>3 DEF CommandSound, Waits
<1>2. CASE cmd[e].at = "save"
  <2> PICK g : g = cmd[e].grant OBVIOUS
  <2>1. Unseen(e, g)' BY <1>2, UnseenStill DEF CommandSound
  <2> QED BY <1>2, <2>1 DEF CommandSound, Waits
<1>3. CASE ~Waits(e) /\ cmd[e].at # "save"
  BY <1>3 DEF CommandSound, Waits
<1> QED BY <1>1, <1>2, <1>3

\* Only one command waits: it holds the lock.
LEMMA OneWaits ==
    ASSUME ClientInvariant, NEW c \in Command, NEW d \in Command,
           cmd[c].at \in Busy, cmd[d].at \in Busy
    PROVE  c = d
BY DEF ClientInvariant, CommandSound

\* The clock, an end, a request that goes on or whose answer nobody awaits.
LEMMA ServerMoves ==
    ASSUME IInv, ClientInvariant, UNCHANGED client, Quiet,
           \A p \in Proc : \/ call'[p] = call[p]
                           \/ GoesOn(p)
                           \/ call'[p] = Idle /\ p \notin Awaited
    PROVE  ClientInvariant'
<1>1. CTypeOK' /\ cmd' = cmd /\ lock' = lock /\ keyring' = keyring /\ late' = late
  BY DEF ClientInvariant, CTypeOK, client
<1>2. Fewer BY DEF GoesOn, Fewer, Idle
<1>3. ASSUME NEW p \in Proc PROVE AtRest(p)'
  <2>1. CASE call'[p] = call[p] BY <2>1 DEF ClientInvariant, AtRest
  <2>2. CASE GoesOn(p) BY <2>2 DEF GoesOn, AtRest
  <2>3. CASE call'[p] = Idle BY <2>3 DEF Idle, AtRest
  <2> QED BY <2>1, <2>2, <2>3
<1>4. ASSUME NEW e \in Command PROVE CommandSound(e)'
  <2>1. CommandSound(e) BY DEF ClientInvariant
  <2>2. CASE ~Waits(e)
    <3>1. cmd[e].at = "save" => Unseen(e, cmd[e].grant) BY <2>1 DEF CommandSound
    <3> QED BY <1>1, <1>2, <2>1, <2>2, <3>1, OtherCommand DEF Unseen
  <2>3. CASE Waits(e)
    <3> PICK p \in Proc : p = cmd[e].on BY <2>1, <2>3 DEF CommandSound
    <3>1. p \in Awaited BY DEF Awaited
    <3>2. CASE call'[p] = call[p]
      <4>1. keyring.grant = call[p].grant => keyring.token = call[p].token
        BY <2>1, <2>3 DEF CommandSound
      <4> QED BY <1>1, <1>2, <2>1, <2>3, <3>2, <4>1, OtherCommand DEF Waits
    <3>3. CASE GoesOn(p)
      <4> PICK k : k = call[p] OBVIOUS
      <4> PICK j : j = call'[p] OBVIOUS
      <4>1. /\ k.at # "idle" /\ k.grant = cmd[e].grant /\ Trails(k.grant, k.token)
            /\ keyring.grant = k.grant => keyring.token = k.token
        BY <2>1, <2>3 DEF CommandSound
      <4>2. /\ j.at # "idle" /\ j.grant = k.grant /\ j.token = k.token
            /\ j.ok => grant[k.grant].current > k.token /\ k.token + 1 \in issued'[k.grant]
        BY <3>3 DEF GoesOn
      <4>3. Trails(k.grant, k.token)' BY <1>2, <4>1, TrailsStill
      <4>4. /\ grant'[k.grant].current = grant[k.grant].current
            /\ grant[k.grant].current \in {k.token, k.token + 1}
        BY <4>1 DEF Trails, Quiet
      <4>5. k.token \in Nat BY <4>1, InFlight
      <4>6. j.ok => grant'[k.grant].current = k.token + 1 BY <4>2, <4>4, <4>5
      <4> QED BY <1>1, <2>1, <2>3, <4>1, <4>2, <4>3, <4>6 DEF CommandSound, Waits
    <3> QED BY <3>1, <3>2, <3>3
  <2> QED BY <2>2, <2>3
<1>5. KeyringSound'
  <2> PICK g : g = keyring.grant OBVIOUS
  <2> PICK n : n = keyring.token OBVIOUS
  <2>1. CASE keyring = Empty BY <1>1, <2>1 DEF KeyringSound
  <2>2. CASE keyring # Empty
    <3>1. /\ Trails(g, n)
          /\ g \notin late /\ grant[g].current # n => \E c \in Command : Waits(c) /\ cmd[c].grant = g
      BY <2>2 DEF ClientInvariant, KeyringSound
    <3>2. Trails(g, n)' BY <1>2, <3>1, TrailsStill
    <3>3. grant'[g].current = grant[g].current BY <3>1 DEF Trails, Quiet
    <3> QED BY <1>1, <3>1, <3>2, <3>3 DEF KeyringSound, Waits
  <2> QED BY <2>1, <2>2
<1>6. ASSUME NEW p \in Proc PROVE TakesTurns(p)'
  <2>1. TakesTurns(p) BY DEF ClientInvariant
  <2>2. CASE call[p].at = "idle"
    <3>1. call'[p].at = "idle" BY <2>2 DEF GoesOn, Idle
    <3> QED BY <3>1 DEF TakesTurns
  <2>3. CASE call'[p] = Idle BY <2>3 DEF Idle, TakesTurns
  <2>4. CASE call[p].at # "idle" /\ call'[p] # Idle
    <3>1. call[p].grant \in Grant /\ grant[call[p].grant].there BY <2>4, InFlight
    <3>2. grant'[call[p].grant].current = grant[call[p].grant].current BY <3>1 DEF Quiet
    <3>3. call'[p].grant = call[p].grant /\ call'[p].token = call[p].token
      BY <2>4 DEF GoesOn
    <3>4. CASE call'[p] = call[p] BY <1>1, <2>1, <3>2, <3>4 DEF TakesTurns, Waits
    <3>5. CASE GoesOn(p) BY <1>1, <2>1, <3>2, <3>3, <3>5 DEF TakesTurns, Waits, GoesOn
    <3> QED BY <2>4, <3>4, <3>5
  <2> QED BY <2>2, <2>3, <2>4
<1> QED BY <1>1, <1>3, <1>4, <1>5, <1>6 DEF ClientInvariant

\* Steps that leave the table's tokens alone, or only hand out more.
LEMMA QuietSteps ==
    ASSUME TypeOK
    PROVE  /\ UNCHANGED <<grant, issued>> => Quiet
           /\ \A h \in Grant : EndGrant(h) /\ issued' = issued => Quiet
           /\ \A h \in Grant : Open(h) => Quiet
<1>1. UNCHANGED <<grant, issued>> => Quiet BY DEF Quiet
<1>2. ASSUME NEW h \in Grant, EndGrant(h), issued' = issued PROVE Quiet
  BY <1>2 DEF Quiet, EndGrant, TypeOK, Row
<1>3. ASSUME NEW h \in Grant, Open(h) PROVE Quiet
  BY <1>3 DEF Quiet, Open, TypeOK
<1> QED BY <1>1, <1>2, <1>3

\* Of a request in flight, what its client knows besides.
LEMMA InTurn ==
    ASSUME IInv, ClientInvariant, NEW p \in Proc, call[p].at # "idle"
    PROVE  /\ call[p].ok => call[p].at = "done"
           /\ call[p].reuse => call[p].at \in {"revoke", "done"}
           /\ call[p].grant \notin late =>
                 /\ ~call[p].reuse
                 /\ call[p].at \in {"load", "rotate", "reload"} =>
                       grant[call[p].grant].current = call[p].token
BY DEF ClientInvariant, AtRest, TakesTurns, IInv, Sound

\* One that is judged goes on, and ends its grant for reuse only when given up on.
LEMMA JudgedGoesOn ==
    ASSUME IInv, ClientInvariant, NEW p \in Proc, call[p].at \in {"load", "reload"},
           call'[p] = Judged(grant[call[p].grant], call[p])
    PROVE  GoesOn(p)
<1> PICK c \in Call : c = call[p] BY DEF IInv, TypeOK
<1> PICK row \in Row : row = grant[c.grant] BY InFlight
<1>1. /\ c.at \in {"load", "reload"} /\ ~c.ok /\ ~c.reuse
      /\ c.grant \notin late => row.current = c.token
  BY InTurn
<1>2. row.previous # None => row.current = row.previous + 1 BY InFlight DEF RowSound
<1>3. c.token \in Nat /\ row.current \in Nat BY InFlight
<1>4. ~(row.previous = c.token /\ row.current = c.token) BY <1>2, <1>3 DEF None
<1>5. CASE WithinGrace(row, c)
  <2>1. call'[p] = [c EXCEPT !.at = "issue"] BY <1>5, JudgedIsCall
  <2> QED BY <1>1, <2>1 DEF GoesOn, Call
<1>6. CASE ~WithinGrace(row, c) /\ row.previous = c.token
  <2>1. call'[p] = [c EXCEPT !.at = "revoke", !.reuse = TRUE] BY <1>6, JudgedIsCall
  <2>2. c.grant \in late BY <1>1, <1>4, <1>6
  <2> QED BY <1>1, <2>1, <2>2 DEF GoesOn, Call
<1>7. CASE ~WithinGrace(row, c) /\ row.previous # c.token
  <2>1. call'[p] = [c EXCEPT !.at = "done"] BY <1>7, JudgedIsCall
  <2> QED BY <1>1, <2>1 DEF GoesOn, Call
<1> QED BY <1>5, <1>6, <1>7

\* The steps of a refresh that rotate nothing.
LEMMA RefreshGoesOn ==
    ASSUME IInv, ClientInvariant, UNCHANGED client, NEW p \in Proc,
           Load(p) \/ Reload(p) \/ Issue(p) \/ Revoke(p)
    PROVE  ClientInvariant'
<1> PICK c \in Call : c = call[p] BY DEF IInv, TypeOK
<1>0. TypeOK /\ c.at # "idle" BY DEF IInv, Load, Reload, Issue, Revoke
<1>1. \A q \in Proc : q # p => call'[q] = call[q]
  BY <1>0 DEF Load, Reload, Issue, Revoke, Answer, Become, TypeOK
<1>2. c.grant \in Grant /\ c.token \in Nat /\ grant[c.grant].current \in Nat
  BY <1>0, InFlight
<1>3. /\ c.ok => c.at = "done"
      /\ c.reuse => c.at \in {"revoke", "done"}
      /\ c.grant \notin late =>
            /\ ~c.reuse
            /\ c.at \in {"load", "rotate", "reload"} => grant[c.grant].current = c.token
  BY <1>0, InTurn
<1>4. CASE Load(p)
  <2>1. c.at = "load" BY <1>4 DEF Load
  <2>2. \/ call'[p] = [c EXCEPT !.at = "done"]
        \/ grant[c.grant].current = c.token /\ call'[p] = [c EXCEPT !.at = "rotate"]
        \/ call'[p] = Judged(grant[c.grant], c)
    BY <1>0, <1>4 DEF Load, Become, TypeOK
  <2>3. GoesOn(p)
    <3>1. CASE call'[p] = [c EXCEPT !.at = "done"] BY <1>0, <1>3, <2>1, <3>1 DEF GoesOn, Call
    <3>2. CASE grant[c.grant].current = c.token /\ call'[p] = [c EXCEPT !.at = "rotate"]
      BY <1>0, <1>3, <2>1, <3>2 DEF GoesOn, Call
    <3>3. CASE call'[p] = Judged(grant[c.grant], c) BY <2>1, <3>3, JudgedGoesOn
    <3> QED BY <2>2, <3>1, <3>2, <3>3
  <2>4. Quiet BY <1>0, <1>4, QuietSteps DEF Load
  <2> QED BY <1>1, <2>3, <2>4, ServerMoves
<1>5. CASE Reload(p)
  <2>1. c.at = "reload" BY <1>5 DEF Reload
  <2>2. call'[p] = Judged(grant[c.grant], c) BY <1>0, <1>5 DEF Reload, Become, TypeOK
  <2>3. Quiet BY <1>0, <1>5, QuietSteps DEF Reload
  <2> QED BY <1>1, <2>1, <2>2, <2>3, JudgedGoesOn, ServerMoves
<1>6. CASE Issue(p)
  <2>1. c.at = "issue" /\ grant' = grant BY <1>6 DEF Issue
  <2>2. grant[c.grant].current > c.token BY <1>2, <2>1 DEF IInv, Sound
  <2>3. \/ /\ call'[p] = [c EXCEPT !.at = "done", !.ok = TRUE]
           /\ issued' = [issued EXCEPT ![c.grant] = @ \cup {c.token + 1}]
        \/ call'[p] = [c EXCEPT !.at = "revoke"] /\ issued' = issued
    BY <1>0, <1>6 DEF Issue, Answer, Become, TypeOK
  <2>4. Quiet BY <1>0, <2>1, <2>3 DEF Quiet, TypeOK
  <2>5. CASE call'[p] = [c EXCEPT !.at = "revoke"]
    BY <1>0, <1>1, <1>3, <2>1, <2>4, <2>5, ServerMoves DEF GoesOn, Call
  <2>6. CASE /\ call'[p] = [c EXCEPT !.at = "done", !.ok = TRUE]
             /\ issued' = [issued EXCEPT ![c.grant] = @ \cup {c.token + 1}]
    <3>1. c.token + 1 \in issued'[c.grant] BY <1>0, <1>2, <2>6 DEF TypeOK
    <3>2. /\ call'[p].at = "done" /\ call'[p].grant = c.grant /\ call'[p].token = c.token
          /\ call'[p].reuse = c.reuse
      BY <2>6 DEF Call
    <3>3. GoesOn(p) BY <1>0, <1>3, <2>2, <3>1, <3>2 DEF GoesOn
    <3> QED BY <1>1, <2>4, <3>3, ServerMoves
  <2> QED BY <2>3, <2>5, <2>6
<1>7. CASE Revoke(p)
  <2>1. call'[p] = [c EXCEPT !.at = "done", !.ok = FALSE]
    BY <1>0, <1>7 DEF Revoke, Answer, Become, TypeOK
  <2>2. Quiet BY <1>0, <1>2, <1>7, QuietSteps DEF Revoke
  <2>3. GoesOn(p) BY <1>0, <1>3, <2>1 DEF GoesOn, Call
  <2> QED BY <1>1, <2>2, <2>3, ServerMoves
<1> QED BY <1>4, <1>5, <1>6, <1>7

\* The clock, and a person who ends the grant.
LEMMA NobodyGoesOn ==
    ASSUME IInv, ClientInvariant, UNCHANGED client,
           \/ Tick
           \/ \E g \in Grant : RevokeGrant(g)
           \/ \E p \in Proc : p \notin Awaited /\ Finish(p)
    PROVE  ClientInvariant'
<1>0. TypeOK BY DEF IInv
<1>1. CASE Tick BY <1>0, <1>1, QuietSteps, ServerMoves DEF Tick
<1>2. ASSUME NEW g \in Grant, RevokeGrant(g) PROVE ClientInvariant'
  <2>1. Quiet BY <1>0, <1>2, QuietSteps DEF RevokeGrant
  <2> QED BY <1>2, <2>1, ServerMoves DEF RevokeGrant
<1>3. ASSUME NEW p \in Proc, p \notin Awaited, Finish(p) PROVE ClientInvariant'
  <2>1. Quiet BY <1>0, <1>3, QuietSteps DEF Finish
  <2>2. \A q \in Proc : call'[q] = call[q] \/ (call'[q] = Idle /\ q \notin Awaited)
    BY <1>0, <1>3 DEF Finish, Become, TypeOK
  <2> QED BY <2>1, <2>2, ServerMoves
<1> QED BY <1>1, <1>2, <1>3

\* Only a rotation takes a grant further, and it finds the token its command is
\* waiting with, which the stored one may now be behind by one.
LEMMA RotateGoesOn ==
    ASSUME IInv, ClientInvariant, UNCHANGED client, NEW p \in Proc, Rotate(p)
    PROVE  ClientInvariant'
<1> PICK c \in Call : c = call[p] BY DEF IInv, TypeOK
<1> PICK g \in Grant : g = c.grant BY InFlight DEF Rotate
<1>0. TypeOK /\ c.at = "rotate" /\ issued' = issued BY DEF IInv, Rotate
<1>1. \A q \in Proc : q # p => call'[q] = call[q] BY <1>0 DEF Rotate, Become, TypeOK
<1>2. CTypeOK' /\ cmd' = cmd /\ lock' = lock /\ keyring' = keyring /\ late' = late
  BY DEF ClientInvariant, CTypeOK, client
<1>3. /\ c.token \in Nat /\ grant[g].there /\ ~c.ok /\ ~c.reuse
      /\ g \notin late => grant[g].current = c.token
  BY <1>0, InFlight, InTurn
<1>4. CASE ~(grant[g].current = c.token /\ ~grant[g].revoked)
  <2>1. grant' = grant /\ call'[p] = [c EXCEPT !.at = "reload"]
    BY <1>0, <1>4 DEF Rotate, Become, TypeOK
  <2>2. GoesOn(p) BY <1>0, <1>3, <2>1 DEF GoesOn, Call
  <2> QED BY <1>0, <1>1, <2>1, <2>2, QuietSteps, ServerMoves
<1>5. CASE grant[g].current = c.token /\ ~grant[g].revoked
  <2>1. /\ grant' = [grant EXCEPT ![g] = [@ EXCEPT !.current = c.token + 1,
                                             !.previous = c.token, !.rotatedAt = c.moment]]
        /\ call'[p] = [c EXCEPT !.at = "issue"]
    BY <1>0, <1>5 DEF Rotate, Become, TypeOK
  <2>2. /\ \A h \in Grant : h # g => grant'[h] = grant[h]
        /\ grant'[g].there /\ grant'[g].current = c.token + 1
    BY <1>0, <1>3, <2>1 DEF TypeOK, Row
  <2>3. /\ call'[p].at = "issue" /\ call'[p].grant = g /\ call'[p].token = c.token
        /\ ~call'[p].ok /\ ~call'[p].reuse
    BY <1>3, <2>1 DEF Call
  <2>4. \A q \in Proc : call'[q].grant = call[q].grant /\ call'[q].token = call[q].token
    BY <1>1, <2>3
  <2>5. ASSUME NEW h, NEW m \in Nat, Trails(h, m)
        PROVE  /\ Trails(h, m)'
               /\ h = g => m = c.token
    <3>1. CASE h # g
      <4>1. h \in Grant /\ grant'[h] = grant[h] BY <2>2, <2>5, <3>1 DEF Trails
      <4> QED BY <1>0, <2>4, <2>5, <3>1, <4>1 DEF Trails
    <3>2. CASE h = g
      <4>1. c.token <= m /\ grant[g].current \in {m, m + 1} BY <2>5, <3>2 DEF Trails
      <4>2. m = c.token BY <1>3, <1>5, <4>1
      <4>3. \A q \in Proc : call'[q].grant = g => call'[q].token <= m
        BY <2>4, <2>5, <3>2 DEF Trails
      <4>4. m \in issued'[g] BY <1>0, <2>5, <3>2 DEF Trails
      <4> QED BY <2>2, <3>2, <4>2, <4>3, <4>4 DEF Trails
    <3> QED BY <3>1, <3>2
  <2>6. ASSUME NEW q \in Proc PROVE AtRest(q)'
    BY <1>1, <2>3 DEF ClientInvariant, AtRest
  <2>7. ASSUME NEW e \in Command PROVE CommandSound(e)'
    <3>0. CommandSound(e) BY DEF ClientInvariant
    <3>1. CASE cmd[e].at = "save"
      <4> PICK h : h = cmd[e].grant OBVIOUS
      <4>1. Unseen(e, h) BY <3>0, <3>1 DEF CommandSound
      <4>2. h # g BY <4>1 DEF Unseen
      <4>3. h \in Grant /\ grant'[h] = grant[h] BY <2>2, <4>1, <4>2 DEF Unseen
      <4>4. Unseen(e, h)' BY <1>0, <1>2, <2>4, <4>1, <4>3 DEF Unseen
      <4> QED BY <1>2, <3>0, <3>1, <4>4 DEF CommandSound, Waits
    <3>2. CASE Waits(e)
      <4> PICK q \in Proc : q = cmd[e].on BY <3>0, <3>2 DEF CommandSound
      <4> PICK k \in Call : k = call[q] BY <1>0 DEF TypeOK
      <4>1. /\ k.at # "idle" /\ k.grant = cmd[e].grant /\ Trails(k.grant, k.token)
            /\ keyring.grant = k.grant => keyring.token = k.token
            /\ k.ok => /\ grant[k.grant].current = k.token + 1
                       /\ k.token + 1 \in issued[k.grant]
        BY <3>0, <3>2 DEF CommandSound
      <4>2. k.token \in Nat /\ k.grant \in Grant BY <4>1, InFlight
      <4>3. Trails(k.grant, k.token)' /\ (k.grant = g => k.token = c.token)
        BY <2>5, <4>1, <4>2
      <4>4. k.ok => k.grant # g BY <1>3, <1>5, <4>1, <4>3
      <4>5. k.ok => grant'[k.grant].current = k.token + 1 /\ k.token + 1 \in issued'[k.grant]
        BY <1>0, <2>2, <4>1, <4>2, <4>4
      <4>6. call'[q].at # "idle" /\ (call'[q].ok => k.ok) BY <1>1, <2>3, <4>1
      <4> QED BY <1>2, <2>4, <3>0, <3>2, <4>1, <4>3, <4>5, <4>6 DEF CommandSound, Waits
    <3>3. CASE ~Waits(e) /\ cmd[e].at # "save" BY <1>2, <3>0, <3>3 DEF CommandSound, Waits
    <3> QED BY <3>1, <3>2, <3>3
  <2>8. KeyringSound'
    <3> PICK h : h = keyring.grant OBVIOUS
    <3> PICK m : m = keyring.token OBVIOUS
    <3>1. CASE keyring = Empty BY <1>2, <3>1 DEF KeyringSound
    <3>2. CASE keyring # Empty
      <4>1. /\ Trails(h, m)
            /\ h \notin late /\ grant[h].current # m => \E d \in Command : Waits(d) /\ cmd[d].grant = h
        BY <3>2 DEF ClientInvariant, KeyringSound
      <4>2. m \in Nat BY <3>2, Numbers DEF ClientInvariant, CTypeOK, Session
      <4>3. Trails(h, m)' BY <2>5, <4>1, <4>2
      <4>4. CASE h = g
        <5>1. g \notin late => \E d \in Command : Waits(d) /\ cmd[d].on = p
          BY <1>0 DEF ClientInvariant, TakesTurns
        <5>2. g \notin late => \E d \in Command : Waits(d) /\ cmd[d].grant = g
          BY <5>1 DEF ClientInvariant, CommandSound
        <5> QED BY <1>2, <4>3, <4>4, <5>2 DEF KeyringSound, Waits
      <4>5. CASE h # g
        <5>1. grant'[h] = grant[h] BY <2>2, <4>1, <4>5 DEF Trails
        <5> QED BY <1>2, <4>1, <4>3, <5>1 DEF KeyringSound, Waits
      <4> QED BY <4>4, <4>5
    <3> QED BY <3>1, <3>2
  <2>9. ASSUME NEW q \in Proc PROVE TakesTurns(q)'
    <3>0. TakesTurns(q) /\ TakesTurns(p) BY DEF ClientInvariant
    <3>1. CASE q = p
      BY <1>0, <1>2, <2>3, <3>0, <3>1 DEF TakesTurns, Waits
    <3>2. CASE q # p /\ call[q].at # "idle" /\ call[q].grant \notin late
      <4> PICK k : k = call[q] OBVIOUS
      <4>1. call'[q] = k BY <1>1, <3>2
      <4>2. /\ \E d \in Command : Waits(d) /\ cmd[d].on = q
            /\ ~k.reuse
            /\ k.at \in {"load", "rotate", "reload"} => grant[k.grant].current = k.token
        BY <3>0, <3>2 DEF TakesTurns
      <4>3. k.grant # g
        <5>1. SUFFICES ASSUME k.grant = g PROVE FALSE OBVIOUS
        <5>2. PICK d \in Command : Waits(d) /\ cmd[d].on = q BY <4>2
        <5>3. PICK e \in Command : Waits(e) /\ cmd[e].on = p
          BY <1>0, <3>0, <3>2, <5>1 DEF TakesTurns
        <5>4. d = e BY <5>2, <5>3, OneWaits DEF Waits, Busy
        <5> QED BY <3>2, <5>2, <5>3, <5>4
      <4>4. k.grant \in Grant BY <3>2, InFlight
      <4>5. grant'[k.grant] = grant[k.grant] BY <2>2, <4>3, <4>4
      <4> QED BY <1>2, <4>1, <4>2, <4>5 DEF TakesTurns, Waits
    <3>3. CASE q # p /\ ~(call[q].at # "idle" /\ call[q].grant \notin late)
      BY <1>1, <1>2, <3>3 DEF TakesTurns
    <3> QED BY <3>1, <3>2, <3>3
  <2> QED BY <1>2, <2>6, <2>7, <2>8, <2>9 DEF ClientInvariant
<1> QED BY <1>4, <1>5

\* A request that stays where it was keeps its turn while its command waits.
LEMMA TurnKept ==
    ASSUME IInv, ClientInvariant, Quiet, NEW p \in Proc, call'[p] = call[p],
           late \subseteq late',
           \A d \in Command :
              Waits(d) /\ cmd[d].on = p => cmd'[d] = cmd[d] \/ cmd[d].grant \in late'
    PROVE  TakesTurns(p)'
<1> SUFFICES ASSUME call[p].at # "idle", call[p].grant \notin late' PROVE TakesTurns(p)'
  BY DEF TakesTurns
<1> PICK k : k = call[p] OBVIOUS
<1>1. /\ \E d \in Command : Waits(d) /\ cmd[d].on = p
      /\ ~k.reuse
      /\ k.at \in {"load", "rotate", "reload"} => grant[k.grant].current = k.token
  BY DEF ClientInvariant, TakesTurns
<1>2. PICK d \in Command : Waits(d) /\ cmd[d].on = p BY <1>1
<1>3. cmd[d].grant = k.grant BY <1>2 DEF ClientInvariant, CommandSound
<1>4. cmd'[d] = cmd[d] BY <1>2, <1>3
<1>5. grant'[k.grant].current = grant[k.grant].current BY InFlight DEF Quiet
<1> QED BY <1>1, <1>2, <1>4, <1>5 DEF TakesTurns, Waits

\* So does what the keyring holds.
LEMMA KeyringKept ==
    ASSUME ClientInvariant, Quiet, Fewer, keyring' = keyring, late \subseteq late',
           \A d \in Command : Waits(d) => cmd'[d] = cmd[d] \/ cmd[d].grant \in late'
    PROVE  KeyringSound'
<1> PICK g : g = keyring.grant OBVIOUS
<1> PICK n : n = keyring.token OBVIOUS
<1>1. CASE keyring = Empty BY <1>1 DEF KeyringSound
<1>2. CASE keyring # Empty
  <2>1. /\ Trails(g, n)
        /\ g \notin late /\ grant[g].current # n => \E d \in Command : Waits(d) /\ cmd[d].grant = g
    BY <1>2 DEF ClientInvariant, KeyringSound
  <2>2. Trails(g, n)' BY <2>1, TrailsStill
  <2>3. grant'[g].current = grant[g].current BY <2>1 DEF Trails, Quiet
  <2>4. g \notin late' /\ grant[g].current # n => \E d \in Command : (Waits(d) /\ cmd[d].grant = g)'
    BY <2>1 DEF Waits
  <2> QED BY <2>2, <2>3, <2>4 DEF KeyringSound, Waits
<1> QED BY <1>1, <1>2

\* A command's step: the others are where they were, for it names no grant but
\* one it knows or one that is new.
LEMMA OneCommand ==
    ASSUME IInv, ClientInvariant, Quiet, Fewer, NEW c \in Command,
           CTypeOK', CommandSound(c)', KeyringSound',
           \A p \in Proc : AtRest(p)' /\ TakesTurns(p)',
           \A e \in Command \ {c} :
              /\ cmd'[e] = cmd[e]
              /\ lock' = e <=> lock = e
              /\ Waits(e) => /\ call'[cmd[e].on] = call[cmd[e].on]
                             /\ \/ keyring' = keyring
                                \/ keyring'.grant # call[cmd[e].on].grant,
           keyring'.grant \in {Nobody, keyring.grant, cmd[c].grant},
           \/ cmd'[c].grant \in {Nobody, keyring.grant, cmd[c].grant}
           \/ cmd'[c].grant \in Grant /\ ~grant[cmd'[c].grant].there
    PROVE  ClientInvariant'
<1>1. ASSUME NEW e \in Command \ {c} PROVE CommandSound(e)'
  <2>1. CommandSound(e) BY DEF ClientInvariant
  <2>2. ASSUME cmd[e].at = "save"
        PROVE  /\ keyring'.grant # cmd[e].grant
               /\ \A d \in Command \ {e} : cmd'[d].grant # cmd[e].grant
    <3> PICK h : h = cmd[e].grant OBVIOUS
    <3>1. Unseen(e, h) BY <2>1, <2>2 DEF CommandSound
    <3>2. h # Nobody /\ h # keyring.grant /\ h # cmd[c].grant /\ h \in Grant /\ grant[h].there
      BY <3>1, ParameterTypes DEF Unseen
    <3>3. h # cmd'[c].grant BY <3>2
    <3> QED BY <3>1, <3>2, <3>3 DEF Unseen
  <2>3. Waits(e) => (keyring'.grant = call[cmd[e].on].grant =>
                        keyring'.token = call[cmd[e].on].token)
    BY <2>1 DEF CommandSound
  <2> QED BY <2>1, <2>2, <2>3, OtherCommand
<1> QED BY <1>1 DEF ClientInvariant

\* A command that neither waits nor saves goes from one such state to another.
LEMMA Plain ==
    ASSUME IInv, ClientInvariant, Quiet, call' = call, late' = late,
           NEW c \in Command, NEW d \in Doing, Do(c, d), cmd[c].at \notin {"save", "wait"},
           d.at \notin {"save", "wait"}, d.on = NoCall, d.grant = Nobody,
           lock' \in Command \cup {Nobody}, d.at \in Busy <=> lock' = c,
           \A e \in Command \ {c} : lock' = e <=> lock = e,
           keyring' \in {keyring, Empty}
    PROVE  ClientInvariant'
<1>1. CTypeOK BY DEF ClientInvariant
<1>2. cmd'[c] = d /\ \A e \in Command \ {c} : cmd'[e] = cmd[e]
  BY <1>1 DEF Do, CTypeOK
<1>3. CTypeOK' BY <1>1 DEF CTypeOK, Do
<1>4. CommandSound(c)' BY <1>2 DEF CommandSound, Waits
<1>5. Fewer BY DEF Fewer
<1>6. \A e \in Command : Waits(e) => cmd'[e] = cmd[e] BY <1>2 DEF Waits
<1>7. KeyringSound'
  <2>1. CASE keyring' = keyring BY <1>5, <1>6, <2>1, KeyringKept
  <2>2. CASE keyring' = Empty BY <2>2 DEF KeyringSound, Empty
  <2> QED BY <2>1, <2>2
<1>8. ASSUME NEW p \in Proc PROVE AtRest(p)' /\ TakesTurns(p)'
  BY <1>6, TurnKept DEF ClientInvariant, AtRest
<1>9. ASSUME NEW e \in Command, Waits(e), keyring' = Empty
      PROVE  keyring'.grant # call[cmd[e].on].grant
  <2>1. call[cmd[e].on].grant \in Grant BY <1>9 DEF ClientInvariant, CommandSound, Trails
  <2> QED BY <1>9, <2>1, ParameterTypes DEF Empty
<1>10. keyring'.grant \in {Nobody, keyring.grant, cmd[c].grant} BY DEF Empty
<1> QED BY <1>2, <1>3, <1>4, <1>5, <1>7, <1>8, <1>9, <1>10, OneCommand

\* The steps before a request, and those of a logout.
LEMMA PlainSteps ==
    ASSUME IInv, ClientInvariant, NEW c \in Command,
           \/ NeedToken(c) \/ Logout(c) \/ TakeLock(c) \/ LogoutRevoke(c) \/ LogoutForget(c)
           \/ Reread(c) /\ ~\E p \in Proc : Present(p, keyring.grant, keyring.token)
    PROVE  ClientInvariant'
<1>1. TypeOK /\ CTypeOK /\ cmd[c] \in Doing BY DEF IInv, ClientInvariant, CTypeOK
<1>2. /\ cmd[c].at \in Busy <=> lock = c
      /\ ~Waits(c) => cmd[c].on = NoCall
      /\ cmd[c].at \notin {"save", "wait"} => cmd[c].grant = Nobody
  BY DEF ClientInvariant, CommandSound
<1>3. UNCHANGED vars => Quiet /\ call' = call BY <1>1, QuietSteps DEF vars
<1>n. Nobody \notin Command BY ClientParameters
<1>r. Resting \in Doing /\ Resting.at = "idle" /\ Resting.on = NoCall /\ Resting.grant = Nobody
  BY DEF Resting, Doing
<1>4. CASE NeedToken(c)
  <2> DEFINE d == [Resting EXCEPT !.at = "lock"]
  <2>1. d \in Doing /\ d.at = "lock" /\ d.on = NoCall /\ d.grant = Nobody BY DEF Resting, Doing
  <2>2. cmd[c].at = "idle" BY <1>4, <1>r DEF NeedToken
  <2> QED BY <1>1, <1>2, <1>3, <1>4, <2>1, <2>2, Plain DEF NeedToken, Busy, CTypeOK
<1>5. CASE Logout(c)
  <2> DEFINE d == [Resting EXCEPT !.at = "lock", !.logout = TRUE]
  <2>1. d \in Doing /\ d.at = "lock" /\ d.on = NoCall /\ d.grant = Nobody BY DEF Resting, Doing
  <2>2. cmd[c].at = "idle" BY <1>5, <1>r DEF Logout
  <2> QED BY <1>1, <1>2, <1>3, <1>5, <2>1, <2>2, Plain DEF Logout, Busy, CTypeOK
<1>6. CASE TakeLock(c)
  <2> DEFINE d == [cmd[c] EXCEPT !.at = IF cmd[c].logout THEN "revoke" ELSE "reread"]
  <2>1. cmd[c].at = "lock" BY <1>6 DEF TakeLock
  <2>2. /\ d \in Doing /\ d.at \in {"revoke", "reread"} /\ d.on = NoCall
        /\ d.grant = Nobody
    BY <1>1, <1>2, <2>1 DEF Doing, Waits
  <2>3. Do(c, d) /\ lock = Nobody /\ lock' = c /\ keyring' = keyring /\ late' = late /\ UNCHANGED vars
    BY <1>6 DEF TakeLock
  <2> HIDE DEF d
  <2> QED BY <1>3, <1>n, <2>1, <2>2, <2>3, Plain DEF Busy
<1>7. CASE LogoutRevoke(c)
  <2>1. cmd[c].at = "revoke" BY <1>7 DEF LogoutRevoke
  <2>2. lock = c BY <1>2, <2>1 DEF Busy
  <2>3. Quiet /\ call' = call /\ keyring' = keyring /\ late' = late
    <3>1. CASE UNCHANGED vars BY <1>3, <1>7, <3>1 DEF LogoutRevoke
    <3>2. CASE keyring # Empty /\ RevokeGrant(keyring.grant)
      <4>1. keyring.grant \in Grant BY <1>1, <3>2 DEF CTypeOK, Session
      <4> QED BY <1>1, <1>7, <3>2, <4>1, QuietSteps DEF LogoutRevoke, RevokeGrant
    <3> QED BY <1>7, <3>1, <3>2 DEF LogoutRevoke
  <2>4. CASE keyring = Empty
    BY <1>7, <1>n, <1>r, <2>1, <2>2, <2>3, <2>4, Plain DEF LogoutRevoke, Release, Busy
  <2>5. CASE keyring # Empty
    <3> DEFINE d == [cmd[c] EXCEPT !.at = "forget"]
    <3>1. d \in Doing /\ d.at = "forget" /\ d.on = NoCall /\ d.grant = Nobody
      BY <1>1, <1>2, <2>1 DEF Doing, Waits
    <3>2. Do(c, d) /\ lock' = lock BY <1>7, <2>5 DEF LogoutRevoke
    <3> HIDE DEF d
    <3> QED BY <2>1, <2>2, <2>3, <3>1, <3>2, Plain DEF Busy
  <2> QED BY <2>4, <2>5
<1>8. CASE LogoutForget(c)
  <2>1. cmd[c].at = "forget" BY <1>8 DEF LogoutForget
  <2>2. lock = c BY <1>2, <2>1 DEF Busy
  <2> QED BY <1>3, <1>8, <1>n, <1>r, <2>1, <2>2, Plain DEF LogoutForget, Release, Busy
<1>9. CASE Reread(c) /\ ~\E p \in Proc : Present(p, keyring.grant, keyring.token)
  <2>1. cmd[c].at = "reread" BY <1>9 DEF Reread
  <2>2. lock = c BY <1>2, <2>1 DEF Busy
  <2>3. Release(c) /\ UNCHANGED vars /\ keyring' \in {keyring, Empty} /\ late' = late
    BY <1>9 DEF Reread
  <2> QED BY <1>3, <1>n, <1>r, <2>1, <2>2, <2>3, Plain DEF Release, Busy
<1> QED BY <1>4, <1>5, <1>6, <1>7, <1>8, <1>9

\* The stored token is presented only by the command that holds the lock, when
\* no answer is awaited that might replace it.
LEMMA PresentsInTurn ==
    ASSUME IInv, ClientInvariant, NEW c \in Command, Reread(c),
           NEW p \in Proc, Present(p, keyring.grant, keyring.token)
    PROVE  ClientInvariant'
<1> PICK g : g = keyring.grant OBVIOUS
<1> PICK n : n = keyring.token OBVIOUS
<1>1. TypeOK /\ CTypeOK /\ cmd[c] \in Doing /\ cmd[c].at = "reread"
  BY DEF IInv, ClientInvariant, CTypeOK, Reread
<1>2. lock = c /\ CommandSound(c) BY <1>1 DEF ClientInvariant, CommandSound, Busy
<1>3. call[p] = Idle /\ call' # call
  <2>1. call[p] = Idle /\ call' = [call EXCEPT ![p] = [Idle EXCEPT !.at = "load", !.grant = g, !.token = n, !.moment = now]]
    BY DEF Present, Become
  <2>2. call'[p].at = "load" /\ call[p].at = "idle" BY <1>1, <2>1 DEF TypeOK, Idle
  <2> QED BY <2>1, <2>2
<1>4. keyring # Empty /\ keyring' = keyring /\ lock' = lock /\ late' = late
  <2>1. ~UNCHANGED vars BY <1>3 DEF vars
  <2> QED BY <2>1 DEF Reread
<1>5. PICK q \in Proc :
        /\ Present(q, g, n)
        /\ Do(c, [cmd[c] EXCEPT !.at = "wait", !.on = q, !.grant = g])
  <2>1. ~UNCHANGED vars BY <1>3 DEF vars
  <2> QED BY <2>1 DEF Reread
<1>6. g \in Grant /\ n \in Nat
  BY <1>1, <1>4, Numbers DEF CTypeOK, Session
<1>7. /\ grant' = grant /\ issued' = issued /\ now' = now /\ call[q].at = "idle"
      /\ call'[q].at = "load" /\ call'[q].grant = g /\ call'[q].token = n
      /\ ~call'[q].ok /\ ~call'[q].reuse
      /\ \A r \in Proc : r # q => call'[r] = call[r]
  <2>1. /\ call[q] = Idle /\ UNCHANGED <<grant, issued, now>>
        /\ call' = [call EXCEPT ![q] = [Idle EXCEPT !.at = "load", !.grant = g, !.token = n, !.moment = now]]
    BY <1>5 DEF Present, Become
  <2>2. /\ call'[q] = [Idle EXCEPT !.at = "load", !.grant = g, !.token = n, !.moment = now]
        /\ \A r \in Proc : r # q => call'[r] = call[r]
    BY <1>1, <2>1 DEF TypeOK
  <2>3. call'[q] = [at |-> "load", grant |-> g, token |-> n, moment |-> now,
                    reuse |-> FALSE, ok |-> FALSE]
    BY <2>2 DEF Idle
  <2>4. call[q].at = "idle" BY <2>1 DEF Idle
  <2>5. /\ call'[q].at = "load" /\ call'[q].grant = g /\ call'[q].token = n
        /\ ~call'[q].ok /\ ~call'[q].reuse
    BY ONLY <2>3
  <2>6. grant' = grant /\ issued' = issued /\ now' = now BY <2>1
  <2>7. \A r \in Proc : r # q => call'[r] = call[r] BY <2>2
  <2> QED BY <2>4, <2>5, <2>6, <2>7
<1>8. /\ cmd'[c].at = "wait" /\ cmd'[c].on = q /\ cmd'[c].grant = g
      /\ \A e \in Command \ {c} : cmd'[e] = cmd[e]
  BY <1>1, <1>5 DEF Do, CTypeOK, Doing
<1>9. CTypeOK'
  <2>1. [cmd[c] EXCEPT !.at = "wait", !.on = q, !.grant = g] \in Doing
    BY <1>1, <1>6 DEF Doing
  <2> QED BY <1>1, <1>4, <1>5, <2>1 DEF CTypeOK, Do
<1>10. \A e \in Command : ~Waits(e)
  BY <1>1, <1>2 DEF ClientInvariant, CommandSound, Waits, Busy
<1>11. /\ Trails(g, n) /\ n \in issued[g]
       /\ g \notin late => grant[g].current = n
  BY <1>4, <1>10 DEF ClientInvariant, KeyringSound, Trails
<1>12. Trails(g, n)' BY <1>6, <1>7, <1>11 DEF Trails
<1>13. ASSUME NEW r \in Proc PROVE AtRest(r)' /\ TakesTurns(r)'
  <2>0. AtRest(r) /\ TakesTurns(r) BY DEF ClientInvariant
  <2>1. CASE r = q
    BY <1>4, <1>7, <1>8, <1>11, <2>1 DEF AtRest, TakesTurns, Waits
  <2>2. CASE r # q
    <3>1. call'[r] = call[r] BY <1>7, <2>2
    <3>2. call[r].at = "idle" \/ call[r].grant \in late
      BY <1>10, <2>0 DEF TakesTurns
    <3> QED BY <1>4, <2>0, <3>1, <3>2 DEF AtRest, TakesTurns
  <2> QED BY <2>1, <2>2
<1>14. ASSUME NEW e \in Command PROVE CommandSound(e)'
  <2>0. CommandSound(e) BY DEF ClientInvariant
  <2>1. CASE e = c
    BY <1>2, <1>4, <1>7, <1>8, <1>12, <2>1 DEF CommandSound, Waits, Busy
  <2>2. CASE e # c /\ cmd[e].at # "save"
    <3>1. cmd'[e] = cmd[e] /\ ~Waits(e) BY <1>8, <1>10, <2>2
    <3> QED BY <1>4, <2>0, <2>2, <3>1 DEF CommandSound, Waits
  <2>3. CASE e # c /\ cmd[e].at = "save"
    <3> PICK h : h = cmd[e].grant OBVIOUS
    <3>1. cmd'[e] = cmd[e] BY <1>8, <2>3
    <3>2. Unseen(e, h) BY <2>0, <2>3 DEF CommandSound
    <3>3. h # g BY <3>2 DEF Unseen
    <3>4. Unseen(e, h)' BY <1>4, <1>7, <1>8, <3>2, <3>3 DEF Unseen
    <3> QED BY <1>4, <2>0, <2>3, <3>1, <3>4 DEF CommandSound, Waits
  <2> QED BY <2>1, <2>2, <2>3
<1>15. KeyringSound' BY <1>4, <1>7, <1>8, <1>11, <1>12 DEF KeyringSound, Waits
<1> QED BY <1>9, <1>13, <1>14, <1>15 DEF ClientInvariant

\* A login opens a grant nobody knows of.
LEMMA CollectsUnseen ==
    ASSUME IInv, ClientInvariant, NEW c \in Command, Collect(c)
    PROVE  ClientInvariant'
<1>1. TypeOK /\ CTypeOK /\ cmd[c] = Resting BY DEF IInv, ClientInvariant, CTypeOK, Collect
<1> PICK g \in Grant : Open(g) /\ Do(c, [Resting EXCEPT !.at = "save", !.grant = g])
  BY DEF Collect
<1>2. /\ ~grant[g].there /\ call' = call /\ keyring' = keyring /\ lock' = lock /\ late' = late
      /\ grant'[g].there /\ grant'[g].current = 0 /\ 0 \in issued'[g]
  BY <1>1 DEF Open, Collect, TypeOK, Absent
<1>3. /\ cmd'[c].at = "save" /\ cmd'[c].grant = g /\ cmd'[c].on = NoCall
      /\ \A e \in Command \ {c} : cmd'[e] = cmd[e]
  BY <1>1 DEF Do, CTypeOK, Resting
<1>4. CTypeOK'
  <2>1. [Resting EXCEPT !.at = "save", !.grant = g] \in Doing BY DEF Resting, Doing
  <2> QED BY <1>1, <1>2, <2>1 DEF CTypeOK, Do
<1>5. Quiet /\ Fewer BY <1>1, <1>2, QuietSteps DEF Fewer
<1>6. lock # c /\ ~Waits(c) BY <1>1 DEF ClientInvariant, CommandSound, Resting, Busy, Waits
<1>7. ASSUME NEW p \in Proc PROVE call[p].grant # g
  <2>1. CASE call[p].at = "idle"
    BY <2>1, ParameterTypes DEF ClientInvariant, AtRest
  <2>2. CASE call[p].at # "idle"
    <3>1. grant[call[p].grant].there BY <2>2, InFlight
    <3> QED BY <1>2, <3>1
  <2> QED BY <2>1, <2>2
<1>8. keyring.grant # g
  <2>1. CASE keyring = Empty BY <2>1, ParameterTypes DEF Empty
  <2>2. CASE keyring # Empty
    <3>1. grant[keyring.grant].there BY <2>2 DEF ClientInvariant, KeyringSound, Trails
    <3> QED BY <1>2, <3>1
  <2> QED BY <2>1, <2>2
<1>9. ASSUME NEW e \in Command PROVE cmd[e].grant # g
  <2>0. CommandSound(e) BY DEF ClientInvariant
  <2>1. CASE cmd[e].at = "save"
    <3>1. grant[cmd[e].grant].there BY <2>0, <2>1 DEF CommandSound, Unseen
    <3> QED BY <1>2, <3>1
  <2>2. CASE cmd[e].at = "wait"
    <3>1. grant[cmd[e].grant].there BY <2>0, <2>2 DEF CommandSound, Trails, Waits
    <3> QED BY <1>2, <3>1
  <2>3. CASE cmd[e].at \notin {"save", "wait"}
    BY <2>0, <2>3, ParameterTypes DEF CommandSound
  <2> QED BY <2>1, <2>2, <2>3
<1>10. Unseen(c, g)' BY <1>2, <1>3, <1>7, <1>8, <1>9 DEF Unseen
<1>11. CommandSound(c)' BY <1>2, <1>3, <1>6, <1>10 DEF CommandSound, Waits, Busy
<1>12. \A e \in Command : Waits(e) => cmd'[e] = cmd[e] BY <1>3, <1>6
<1>13. KeyringSound' BY <1>2, <1>5, <1>12, KeyringKept
<1>14. ASSUME NEW p \in Proc PROVE AtRest(p)' /\ TakesTurns(p)'
  BY <1>2, <1>5, <1>12, TurnKept DEF ClientInvariant, AtRest
<1> QED BY <1>2, <1>3, <1>4, <1>5, <1>11, <1>13, <1>14, OneCommand

\* A login is stored: only its own command knew of the grant.
LEMMA SavesWhatItOpened ==
    ASSUME IInv, ClientInvariant, NEW c \in Command, SaveLogin(c)
    PROVE  ClientInvariant'
<1> PICK g : g = cmd[c].grant OBVIOUS
<1>1. TypeOK /\ CTypeOK /\ cmd[c].at = "save" BY DEF IInv, ClientInvariant, SaveLogin
<1>2. CommandSound(c) /\ Unseen(c, g) BY <1>1 DEF ClientInvariant, CommandSound
<1>3. /\ g \in Grant /\ grant[g].there /\ grant[g].current = 0 /\ 0 \in issued[g]
      /\ g # Nobody
  BY <1>2, ParameterTypes DEF Unseen
<1>4. /\ keyring' = [grant |-> g, token |-> 0, freshUntil |-> now + AccessTTL,
                     endsAt |-> grant[g].endsAt]
      /\ Do(c, Resting) /\ UNCHANGED vars /\ lock' = lock /\ late' = late
  BY DEF SaveLogin, Stored
<1>5. call' = call /\ grant' = grant /\ issued' = issued BY <1>4 DEF vars
<1>6. cmd'[c] = Resting /\ \A e \in Command \ {c} : cmd'[e] = cmd[e]
  BY <1>1, <1>4 DEF Do, CTypeOK
<1>7. keyring'.grant = g /\ keyring'.token = 0 /\ keyring' # Empty
  BY <1>3, <1>4 DEF Empty
<1>8. CTypeOK'
  <2>1. now + AccessTTL \in Nat /\ grant[g].endsAt \in Nat /\ 0 \in 0..MaxGen
    BY <1>1, <1>3, Numbers, ClientParameters, ParameterTypes DEF TypeOK, Row
  <2>2. keyring' \in Session BY <1>3, <1>4, <2>1 DEF Session
  <2>3. Resting \in Doing BY DEF Resting, Doing
  <2> QED BY <1>1, <1>4, <2>2, <2>3 DEF CTypeOK, Do
<1>9. Quiet /\ Fewer BY <1>1, <1>5, QuietSteps DEF Fewer
<1>10. lock # c /\ ~Waits(c) BY <1>1, <1>2 DEF CommandSound, Busy, Waits
<1>11. CommandSound(c)'
  BY <1>4, <1>6, <1>10 DEF CommandSound, Waits, Resting, Busy
<1>12. Trails(g, 0)' BY <1>2, <1>3, <1>5 DEF Unseen, Trails
<1>13. KeyringSound' BY <1>3, <1>5, <1>7, <1>12 DEF KeyringSound
<1>14. \A e \in Command : Waits(e) => cmd'[e] = cmd[e] BY <1>6, <1>10
<1>15. ASSUME NEW p \in Proc PROVE AtRest(p)' /\ TakesTurns(p)'
  BY <1>4, <1>5, <1>9, <1>14, TurnKept DEF ClientInvariant, AtRest
<1>16. ASSUME NEW e \in Command, Waits(e) PROVE keyring'.grant # call[cmd[e].on].grant
  <2>1. cmd[e].on \in Proc BY <1>16 DEF ClientInvariant, CommandSound
  <2> QED BY <1>2, <1>7, <2>1 DEF Unseen
<1>17. cmd'[c].grant = Nobody BY <1>6 DEF Resting
<1> QED BY <1>4, <1>5, <1>6, <1>7, <1>8, <1>9, <1>11, <1>13, <1>15, <1>16, <1>17, OneCommand

\* A command that gives up leaves its request to the server, its grant among the late.
LEMMA GivesUp ==
    ASSUME IInv, ClientInvariant, NEW c \in Command, GiveUp(c)
    PROVE  ClientInvariant'
<1>1. TypeOK /\ CTypeOK /\ cmd[c].at = "wait" BY DEF IInv, ClientInvariant, GiveUp
<1>2. CommandSound(c) /\ lock = c BY <1>1 DEF ClientInvariant, CommandSound, Busy
<1>3. /\ late' = late \cup {cmd[c].grant} /\ Do(c, Resting) /\ lock' = Nobody
      /\ UNCHANGED vars /\ keyring' = keyring
  BY DEF GiveUp, Release
<1>4. call' = call /\ grant' = grant /\ issued' = issued BY <1>3 DEF vars
<1>5. cmd'[c] = Resting /\ \A e \in Command \ {c} : cmd'[e] = cmd[e]
  BY <1>1, <1>3 DEF Do, CTypeOK
<1>6. CTypeOK'
  <2>1. cmd[c].grant \in Grant BY <1>1, <1>2 DEF CommandSound, Waits, Trails
  <2>2. Resting \in Doing BY DEF Resting, Doing
  <2> QED BY <1>1, <1>3, <2>1, <2>2 DEF CTypeOK, Do
<1>7. Quiet /\ Fewer BY <1>1, <1>4, QuietSteps DEF Fewer
<1>8. CommandSound(c)'
  BY <1>3, <1>5, ClientParameters DEF CommandSound, Waits, Resting, Busy
<1>9. \A e \in Command : Waits(e) => cmd'[e] = cmd[e] \/ cmd[e].grant \in late'
  BY <1>3, <1>5
<1>10. KeyringSound' BY <1>3, <1>7, <1>9, KeyringKept
<1>11. ASSUME NEW p \in Proc PROVE AtRest(p)' /\ TakesTurns(p)'
  BY <1>3, <1>4, <1>7, <1>9, TurnKept DEF ClientInvariant, AtRest
<1>12. \A e \in Command \ {c} : lock' = e <=> lock = e BY <1>2, <1>3, ClientParameters
<1>13. cmd'[c].grant = Nobody BY <1>5 DEF Resting
<1> QED BY <1>3, <1>4, <1>5, <1>6, <1>7, <1>8, <1>10, <1>11, <1>12, <1>13, OneCommand

\* The answer is the current token, which is stored, or the session is forgotten.
LEMMA ReceivesItsAnswer ==
    ASSUME IInv, ClientInvariant, NEW c \in Command, Receive(c)
    PROVE  ClientInvariant'
<1>1. TypeOK /\ CTypeOK /\ cmd[c].at = "wait" BY DEF IInv, ClientInvariant, Receive
<1>2. CommandSound(c) /\ lock = c BY <1>1 DEF ClientInvariant, CommandSound, Busy
<1> PICK p \in Proc : p = cmd[c].on BY <1>1, <1>2 DEF CommandSound, Waits
<1> PICK k \in Call : k = call[p] BY <1>1 DEF TypeOK
<1>3. /\ k.at = "done" /\ k.grant = cmd[c].grant /\ Trails(k.grant, k.token)
      /\ k.ok => /\ grant[k.grant].current = k.token + 1
                 /\ k.token + 1 \in issued[k.grant]
  BY <1>1, <1>2 DEF CommandSound, Waits, Receive
<1>4. k.grant \in Grant /\ k.token \in Nat /\ k.token < MaxGen /\ k.grant # Nobody
  BY <1>3, InFlight, ParameterTypes
<1>5. /\ Finish(p) /\ lock' = Nobody /\ Do(c, Resting) /\ late' = late
      /\ keyring' = IF k.ok THEN Stored(k.grant, k.token + 1) ELSE Empty
  BY DEF Receive, Release
<1>6. /\ grant' = grant /\ issued' = issued /\ now' = now /\ call'[p] = Idle
      /\ \A q \in Proc : q # p => call'[q] = call[q]
  BY <1>1, <1>5 DEF Finish, Become, TypeOK
<1>7. cmd'[c] = Resting /\ \A e \in Command \ {c} : cmd'[e] = cmd[e]
  BY <1>1, <1>5 DEF Do, CTypeOK
<1>8. CTypeOK'
  <2>1. k.ok => keyring' \in Session
    <3>1. now + AccessTTL \in Nat /\ grant[k.grant].endsAt \in Nat /\ k.token + 1 \in 0..MaxGen
      BY <1>1, <1>4, Numbers, ClientParameters, ParameterTypes DEF TypeOK, Row
    <3> QED BY <1>4, <1>5, <3>1 DEF Session, Stored
  <2>2. Resting \in Doing BY DEF Resting, Doing
  <2> QED BY <1>1, <1>5, <2>1, <2>2 DEF CTypeOK, Do
<1>9. Quiet BY <1>1, <1>6, QuietSteps
<1>10. Fewer BY <1>6 DEF Fewer, Idle
<1>11. CommandSound(c)'
  BY <1>5, <1>7, ClientParameters DEF CommandSound, Waits, Resting, Busy
<1>12. \A e \in Command \ {c} : ~Waits(e)
  BY <1>2 DEF ClientInvariant, CommandSound, Waits, Busy
<1>13. k.ok => keyring'.grant = k.grant /\ keyring'.token = k.token + 1
  BY <1>5 DEF Stored
<1>14. KeyringSound'
  <2>1. CASE k.ok
    <3> PICK n : n = k.token + 1 OBVIOUS
    <3>1. grant'[k.grant].current = n BY <1>3, <1>6, <2>1
    <3>2. ASSUME NEW q \in Proc, call'[q].grant = k.grant PROVE call'[q].token <= n
      <4>1. call'[q] = call[q] BY <1>4, <1>6, <3>2 DEF Idle
      <4>2. call[q].token <= k.token BY <1>3, <3>2, <4>1 DEF Trails
      <4>3. call[q].token \in Nat BY <1>1, Numbers DEF TypeOK, Call
      <4> QED BY <1>4, <4>1, <4>2, <4>3
    <3>3. Trails(k.grant, n)'
      BY <1>3, <1>6, <2>1, <3>1, <3>2 DEF Trails
    <3> QED BY <1>13, <2>1, <3>1, <3>3 DEF KeyringSound
  <2>2. CASE ~k.ok BY <1>5, <2>2 DEF KeyringSound, Empty
  <2> QED BY <2>1, <2>2
<1>15. ASSUME NEW q \in Proc PROVE AtRest(q)' /\ TakesTurns(q)'
  <2>0. AtRest(q) BY DEF ClientInvariant
  <2>1. CASE q = p BY <1>6, <2>1 DEF AtRest, TakesTurns, Idle
  <2>2. CASE q # p
    <3>1. \A d \in Command : Waits(d) /\ cmd[d].on = q => cmd'[d] = cmd[d]
      BY <1>12, <2>2
    <3>2. TakesTurns(q)' BY <1>5, <1>6, <1>9, <2>2, <3>1, TurnKept
    <3> QED BY <1>6, <2>0, <2>2, <3>2 DEF AtRest
  <2> QED BY <2>1, <2>2
<1>16. \A e \in Command \ {c} : lock' = e <=> lock = e BY <1>2, <1>5, ClientParameters
<1>17. cmd'[c].grant = Nobody BY <1>7 DEF Resting
<1>18. keyring'.grant \in {Nobody, keyring.grant, cmd[c].grant}
  BY <1>3, <1>5, <1>13 DEF Empty
<1> QED BY <1>7, <1>8, <1>9, <1>10, <1>11, <1>12, <1>14, <1>15, <1>16, <1>17, <1>18, OneCommand

\* Whatever a command does is a step of the server or none.
LEMMA ClientsAreClients ==
    ASSUME ClientInvariant, [CNext]_cvars
    PROVE  [Next]_vars
<1>1. CASE UNCHANGED cvars BY <1>1 DEF cvars
<1>2. ASSUME NEW c \in Command,
             \/ SaveLogin(c) \/ NeedToken(c) \/ Logout(c) \/ TakeLock(c)
             \/ GiveUp(c) \/ LogoutForget(c)
      PROVE  [Next]_vars
  BY <1>2 DEF SaveLogin, NeedToken, Logout, TakeLock, GiveUp, LogoutForget
<1>3. ASSUME NEW c \in Command, Collect(c) PROVE [Next]_vars
  BY <1>3 DEF Collect, Next
<1>4. ASSUME NEW c \in Command, Reread(c) PROVE [Next]_vars
  <2>1. CASE UNCHANGED vars BY <2>1
  <2>2. CASE keyring # Empty /\ \E p \in Proc : Present(p, keyring.grant, keyring.token)
    <3>1. keyring.grant \in Grant BY <2>2 DEF ClientInvariant, CTypeOK, Session
    <3> PICK p \in Proc : Present(p, keyring.grant, keyring.token) BY <2>2
    <3>2. keyring.token \in issued[keyring.grant] BY DEF Present
    <3> QED BY <3>1, <3>2 DEF Next
  <2> QED BY <1>4, <2>1, <2>2 DEF Reread
<1>5. ASSUME NEW c \in Command, Receive(c) PROVE [Next]_vars
  <2>1. cmd[c].on \in Proc /\ Finish(cmd[c].on)
    BY <1>5 DEF Receive, ClientInvariant, CommandSound, Waits
  <2> QED BY <2>1 DEF Next
<1>6. ASSUME NEW c \in Command, LogoutRevoke(c) PROVE [Next]_vars
  <2>1. CASE UNCHANGED vars BY <2>1
  <2>2. CASE keyring # Empty /\ RevokeGrant(keyring.grant)
    BY <2>2 DEF ClientInvariant, CTypeOK, Session, Next
  <2> QED BY <1>6, <2>1, <2>2 DEF LogoutRevoke
<1>7. CASE \/ Tick /\ UNCHANGED client
           \/ \E g \in Grant : RevokeGrant(g) /\ UNCHANGED client
           \/ \E p \in Proc : (Refreshing(p) \/ (p \notin Awaited /\ Finish(p))) /\ UNCHANGED client
  BY <1>7 DEF Next
<1> QED BY <1>1, <1>2, <1>3, <1>4, <1>5, <1>6, <1>7 DEF CNext

\* No request, an empty keyring and every command at rest.
LEMMA InitClient == CInit => ClientInvariant
<1> SUFFICES ASSUME CInit PROVE ClientInvariant
  OBVIOUS
<1>1. /\ keyring = Empty /\ lock = Nobody /\ late = {} /\ call = [p \in Proc |-> Idle]
      /\ cmd = [c \in Command |-> Resting]
  BY DEF CInit, Init
<1>2. CTypeOK BY <1>1 DEF CTypeOK, Resting, Doing
<1>3. \A p \in Proc : AtRest(p) /\ TakesTurns(p) BY <1>1 DEF AtRest, TakesTurns, Idle
<1>4. \A c \in Command : CommandSound(c)
  BY <1>1, ClientParameters DEF CommandSound, Waits, Busy, Resting
<1>5. KeyringSound BY <1>1 DEF KeyringSound
<1> QED BY <1>2, <1>3, <1>4, <1>5 DEF ClientInvariant

\* Every step keeps what commands rely on.
LEMMA NextClient ==
    ASSUME IInv, ClientInvariant, [CNext]_cvars
    PROVE  ClientInvariant'
<1>1. CASE UNCHANGED cvars
  <2>1. Quiet /\ call' = call /\ UNCHANGED client
    BY <1>1, QuietSteps DEF cvars, vars, IInv
  <2> QED BY <2>1, ServerMoves
<1>2. CASE \/ Tick /\ UNCHANGED client
           \/ \E g \in Grant : RevokeGrant(g) /\ UNCHANGED client
  BY <1>2, NobodyGoesOn
<1>3. ASSUME NEW p \in Proc, Refreshing(p) \/ (p \notin Awaited /\ Finish(p)), UNCHANGED client
      PROVE  ClientInvariant'
  BY <1>3, NobodyGoesOn, RefreshGoesOn, RotateGoesOn DEF Refreshing
<1>4. ASSUME NEW c \in Command,
             \/ NeedToken(c) \/ Logout(c) \/ TakeLock(c) \/ LogoutRevoke(c) \/ LogoutForget(c)
      PROVE  ClientInvariant'
  BY <1>4, PlainSteps
<1>5. ASSUME NEW c \in Command, Reread(c) PROVE ClientInvariant'
  BY <1>5, PlainSteps, PresentsInTurn
<1>6. ASSUME NEW c \in Command, Collect(c) \/ SaveLogin(c) \/ Receive(c) \/ GiveUp(c)
      PROVE  ClientInvariant'
  BY <1>6, CollectsUnseen, SavesWhatItOpened, ReceivesItsAnswer, GivesUp
<1> QED BY <1>1, <1>2, <1>3, <1>4, <1>5, <1>6 DEF CNext

\* So both invariants hold while commands run.
LEMMA ClientInductive == CSpec => [](IInv /\ ClientInvariant)
<1>1. CInit => IInv /\ ClientInvariant BY InitIInv, InitClient DEF CInit
<1>2. IInv /\ ClientInvariant /\ [CNext]_cvars => IInv' /\ ClientInvariant'
  BY NextClient, ClientsAreClients, NextIInv
<1> QED BY <1>1, <1>2, PTL DEF CSpec

\* A server that commands use behaves as one that anybody uses, so what is proved
\* of the table, its requests and its cache holds for a machine whose commands
\* share a keyring (device_login.DeviceLoginClient over DeviceGrantService).
THEOREM CommandsUseTheServer == CSpec => Spec
<1>1. CInit => Init BY DEF CInit
<1>2. IInv /\ ClientInvariant /\ [CNext]_cvars => [Next]_vars
  BY ClientsAreClients
<1> QED BY <1>1, <1>2, ClientInductive, PTL DEF CSpec, Spec

\* The stored token is the server's current one or the one it replaced, so one
\* retry recovers the session, and is the current one when no answer was lost and
\* nobody refreshes; and commands that take turns are never taken for two holders
\* of one token (DeviceLoginClient._refresh_locked and _locked,
\* DeviceGrantService.refresh).
THEOREM TurnsTaken == CSpec => []TurnsAreTaken
<1>1. IInv /\ ClientInvariant => TurnsAreTaken
  <2> SUFFICES ASSUME IInv, ClientInvariant PROVE TurnsAreTaken
    OBVIOUS
  <2>1. TheClientTrailsByOne
    <3> SUFFICES ASSUME keyring # Empty
                 PROVE  LET behind == grant[keyring.grant].current - keyring.token IN
                        /\ behind \in {0, 1}
                        /\ lock = Nobody /\ keyring.grant \notin late => behind = 0
      BY DEF TheClientTrailsByOne
    <3>1. keyring.token \in Nat BY Numbers DEF ClientInvariant, CTypeOK, Session
    <3>2. grant[keyring.grant].current \in {keyring.token, keyring.token + 1}
      BY DEF ClientInvariant, KeyringSound, Trails
    <3>3. lock = Nobody => \A c \in Command : ~Waits(c)
      BY ClientParameters DEF ClientInvariant, CommandSound, Busy, Waits
    <3>4. lock = Nobody /\ keyring.grant \notin late => grant[keyring.grant].current = keyring.token
      BY <3>3 DEF ClientInvariant, KeyringSound
    <3> QED BY <3>1, <3>2, <3>4
  <2>2. TurnsPreventReuse
    BY DEF ClientInvariant, TakesTurns, TurnsPreventReuse
  <2> QED BY <2>1, <2>2 DEF TurnsAreTaken
<1> QED BY <1>1, ClientInductive, PTL
=============================================================================
