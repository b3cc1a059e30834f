------------------------------- MODULE RateLimits -------------------------------
(***************************************************************************)
(* The three limiters over the rate-limit table.                           *)
(*                                                                         *)
(* TieredRateLimiter of ratelimit.py: one row for each key and day holds a *)
(* minute count, the minute it belongs to and a day count; each container  *)
(* claims several counts in one write and serves them from memory.  Time   *)
(* is counted in minutes.  A request reads the clock, and may act on what  *)
(* it read after the minute, or the day, has turned.                       *)
(*                                                                         *)
(* RateLimiter counts an identity in one row whose window opens with its   *)
(* first request.  EmailSendCap of email_cap.py counts a mail against its  *)
(* recipient, its tenant and the whole app in one transaction.  A request  *)
(* reads the clock and writes later.                                       *)
(***************************************************************************)
EXTENDS Integers, Sequences, FiniteSetsExt

CONSTANTS Containers, NoContainer, TierRequests,
          KeyScopes,      \* the keys a subject names, in the order they are counted
          PerMinute,      \* [scope -> the quota's requests per minute]
          PerDay,         \* [scope -> its requests per day]
          MaxLease, LeaseDivisor, MinutesPerDay,
          LastMinute,     \* bound on the clock
          MaxCounted      \* bound: no request starts once a key's day count is past this

VARIABLES minuteNow, tierRow, leases, tierRequest,
          granted,        \* history: counts granted, by scope and the claimer's minute
          late,           \* history: those of them counted in a row already rolled past that minute
          served          \* history: requests allowed on a count, by scope and minute

tierVars == <<minuteNow, tierRow, leases, tierRequest, granted, late, served>>

Scopes == {KeyScopes[i] : i \in DOMAIN KeyScopes}
Minutes == 0..LastMinute
DayOf(m) == m \div MinutesPerDay
Days == {DayOf(m) : m \in Minutes}
Low(a, b) == IF a < b THEN a ELSE b
High(a, b) == IF a < b THEN b ELSE a

-------------------------------------------------------------------------------
NoRow == [m |-> 0, w |-> -1, d |-> 0]

\* One container's view of one counter.  What it served matters only up to the
\* number that earns the largest lease.
NewLease(m) ==
  [minute |-> m, written |-> -1, tokens |-> 0, served |-> 0, previous |-> 0,
   minuteLeft |-> 0, dayLeft |-> -1, blockedUntil |-> 0]
NoLease == NewLease(-1)
ServedOne(n) == Low(n + 1, MaxLease * LeaseDivisor)

\* variant: the tokens of the last minute are kept
Touched_keepsTokens(st, m) ==
  IF st = NoLease \/ st.minute = m THEN st
  ELSE [st EXCEPT !.previous = IF st.minute = m - 1 THEN st.served ELSE 0, !.served = 0, !.minute = m]

Touched(st, m) ==
  IF st = NoLease \/ st.minute = m THEN st
  ELSE [st EXCEPT !.previous = IF st.minute = m - 1 THEN st.served ELSE 0,
                  !.served = 0, !.tokens = 0, !.minute = m]

LeaseSize(st, s) ==
  IF MaxLease <= 1 \/ st = NoLease THEN 1
  ELSE LET left == IF st.written = st.minute THEN st.minuteLeft ELSE PerMinute[s]
           bound == Low(MaxLease, Low(High(st.served, st.previous) \div LeaseDivisor, left \div LeaseDivisor))
           daily == IF st.dayLeft >= 0 THEN Low(bound, st.dayLeft \div LeaseDivisor) ELSE bound
       IN High(1, daily)

\* What a claim of `lease` counts is worth, from the counts the write returned.
Granted(s, lease, row) ==
  High(0, Low(Low(lease, PerMinute[s] - (row.m - lease)), PerDay[s] - (row.d - lease)))

-------------------------------------------------------------------------------
Idle == [at |-> "idle", container |-> NoContainer, scope |-> 0, minute |-> 0, lease |-> 0, same |-> FALSE, tries |-> 0, row |-> NoRow]

ScopeOf(q) == KeyScopes[tierRequest[q].scope]
Pk(q) == <<ScopeOf(q), DayOf(tierRequest[q].minute)>>
MinuteOf(q) == <<ScopeOf(q), tierRequest[q].minute>>
LeaseOf(q) == Touched(leases[tierRequest[q].container][Pk(q)], tierRequest[q].minute)
StoreLease(q, st) == leases' = [leases EXCEPT ![tierRequest[q].container][Pk(q)] = st]

\* The next key is counted at the time it is reached; the first refusal stops the rest.
NextScope(q) ==
  tierRequest' = [tierRequest EXCEPT ![q] =
     IF @.scope = Len(KeyScopes) THEN Idle
     ELSE [@ EXCEPT !.at = "check", !.scope = @ + 1, !.minute = minuteNow]]
RefuseTier(q) == tierRequest' = [tierRequest EXCEPT ![q] = Idle]
ServeOne(q) == served' = [served EXCEPT ![MinuteOf(q)] = @ + 1]

CheckSubject(q, c) ==
  /\ tierRequest[q].at = "idle"
  /\ \A pk \in Scopes \X Days : tierRow[pk].d <= MaxCounted
  /\ tierRequest' = [tierRequest EXCEPT ![q] = [Idle EXCEPT !.at = "check", !.container = c, !.scope = 1, !.minute = minuteNow]]
  /\ UNCHANGED <<minuteNow, tierRow, leases, granted, late, served>>

\* Under the lock: refused from memory, served from the lease, or off to claim.
CheckKey(q) ==
  LET st == LeaseOf(q) m == tierRequest[q].minute IN
  /\ tierRequest[q].at = "check"
  /\ \/ /\ st.blockedUntil > m
        /\ StoreLease(q, st) /\ RefuseTier(q)
        /\ UNCHANGED served
     \/ /\ st.blockedUntil <= m /\ st.tokens > 0
        /\ StoreLease(q, [st EXCEPT !.tokens = @ - 1, !.served = ServedOne(@)])
        /\ ServeOne(q) /\ NextScope(q)
     \/ /\ st.blockedUntil <= m /\ st.tokens = 0
        /\ StoreLease(q, st)
        /\ tierRequest' = [tierRequest EXCEPT ![q].at = "claim", ![q].tries = 0,
                              ![q].lease = LeaseSize(st, ScopeOf(q)), ![q].same = st.written >= m]
        /\ UNCHANGED served
  /\ UNCHANGED <<minuteNow, tierRow, granted, late>>

\* One conditional update: counting holds while the row is of this minute or a
\* later one, rolling over while it is of an earlier one.
Counting(q) == tierRequest[q].same = (tierRequest[q].tries % 2 = 0)
Holds(q) == Counting(q) = (tierRow[Pk(q)].w >= tierRequest[q].minute)
Written(q) ==
  LET row == tierRow[Pk(q)] r == tierRequest[q] IN
  IF Counting(q) THEN [row EXCEPT !.m = @ + r.lease, !.d = @ + r.lease]
  ELSE [m |-> r.lease, w |-> r.minute, d |-> row.d + r.lease]

Claim(q) ==
  LET r == tierRequest[q] n == Granted(ScopeOf(q), r.lease, Written(q)) IN
  /\ r.at = "claim" /\ Holds(q)
  /\ tierRow' = [tierRow EXCEPT ![Pk(q)] = Written(q)]
  /\ tierRequest' = [tierRequest EXCEPT ![q].at = "settle", ![q].row = Written(q)]
  /\ granted' = [granted EXCEPT ![MinuteOf(q)] = @ + n]
  /\ late' = IF Written(q).w > r.minute THEN [late EXCEPT ![MinuteOf(q)] = @ + n] ELSE late
  /\ UNCHANGED <<minuteNow, leases, served>>

\* Another container rolled the minute between the prediction and the write.
TryOther(q) ==
  /\ tierRequest[q].at = "claim" /\ ~Holds(q) /\ tierRequest[q].tries < 2
  /\ tierRequest' = [tierRequest EXCEPT ![q].tries = @ + 1]
  /\ UNCHANGED <<minuteNow, tierRow, leases, granted, late, served>>

\* A store error, before or after the write, or three refused conditions: the
\* request is let through without a count.
FailOpen(q) ==
  /\ tierRequest[q].at = "claim"
  /\ \/ UNCHANGED tierRow
     \/ Holds(q) /\ tierRow' = [tierRow EXCEPT ![Pk(q)] = Written(q)]
  /\ NextScope(q)
  /\ UNCHANGED <<minuteNow, leases, granted, late, served>>

\* Under the lock again, whatever other requests of the container did meanwhile.
Settle(q) ==
  LET r == tierRequest[q] s == ScopeOf(q)
      n == Granted(s, r.lease, r.row)
      st == [(IF LeaseOf(q) = NoLease THEN NewLease(r.minute) ELSE LeaseOf(q)) EXCEPT
               !.written = r.minute, !.served = ServedOne(@),
               !.minuteLeft = High(PerMinute[s] - r.row.m, 0), !.dayLeft = High(PerDay[s] - r.row.d, 0)]
      daySpent == r.row.d - r.lease >= PerDay[s] IN
  /\ r.at = "settle"
  /\ \/ /\ n >= 1
        /\ StoreLease(q, [st EXCEPT !.tokens = @ + n - 1])
        /\ ServeOne(q) /\ NextScope(q)
     \/ /\ n = 0
        /\ StoreLease(q, [st EXCEPT !.tokens = 0,
              !.blockedUntil = IF daySpent THEN (DayOf(r.minute) + 1) * MinutesPerDay ELSE r.minute + 1])
        /\ RefuseTier(q) /\ UNCHANGED served
  /\ UNCHANGED <<minuteNow, tierRow, granted, late>>

\* The least recently used entry gives way, or the container restarts.
Evict(c, pk) ==
  /\ leases[c][pk] # NoLease
  /\ leases' = [leases EXCEPT ![c][pk] = NoLease]
  /\ UNCHANGED <<minuteNow, tierRow, tierRequest, granted, late, served>>

MinutePasses ==
  /\ minuteNow < LastMinute /\ minuteNow' = minuteNow + 1
  /\ UNCHANGED <<tierRow, leases, tierRequest, granted, late, served>>

TierInit ==
  /\ minuteNow = 0
  /\ tierRow = [pk \in Scopes \X Days |-> NoRow]
  /\ leases = [c \in Containers |-> [pk \in Scopes \X Days |-> NoLease]]
  /\ tierRequest = [q \in TierRequests |-> Idle]
  /\ granted = [k \in Scopes \X Minutes |-> 0] /\ late = granted /\ served = granted

TierNext ==
  \/ MinutePasses
  \/ \E q \in TierRequests :
       \/ \E c \in Containers : CheckSubject(q, c)
       \/ CheckKey(q) \/ Claim(q) \/ TryOther(q) \/ FailOpen(q) \/ Settle(q)
  \/ \E c \in Containers, pk \in Scopes \X Days : Evict(c, pk)

-------------------------------------------------------------------------------
MinutesOf(day) == {m \in Minutes : DayOf(m) = day}
GrantedOn(s, day) == MapThenSumSet(LAMBDA m : granted[<<s, m>>], MinutesOf(day))

\* Leases held by several containers let no more through than the quota: the
\* counts granted in a minute that has not turned are at most its cap and those
\* granted in a day at most the day's quota, and a minute serves no more requests
\* than the counts granted in it, so no lease outlives its minute.
CapIsKept ==
  \A s \in Scopes :
    /\ \A m \in Minutes : granted[<<s, m>>] - late[<<s, m>>] <= PerMinute[s] /\ served[<<s, m>>] <= granted[<<s, m>>]
    /\ \A day \in Days : GrantedOn(s, day) <= PerDay[s]

\* A key refused from memory is spent in the table: its day's quota is used up,
\* or the minute's count is, or the row has rolled past that minute.
RefusalsAreSpent ==
  \A c \in Containers, s \in Scopes, day \in Days :
    LET st == leases[c][<<s, day>>] row == tierRow[<<s, day>>] IN
    st.blockedUntil > 0 =>
      \/ row.d >= PerDay[s]
      \/ st.blockedUntil <= row.w
      \/ st.blockedUntil = row.w + 1 /\ row.m >= PerMinute[s]

\* The row's minute never goes back, and a prediction that it is this one is never
\* wrong: the second try always holds and no request is let through as contended.
SecondTryHolds == \A q \in TierRequests : tierRequest[q].at = "claim" /\ tierRequest[q].tries = 1 => Holds(q)

LeasesKeepTheCap == CapIsKept /\ RefusalsAreSpent /\ SecondTryHolds

-------------------------------------------------------------------------------
(* The fixed windows, and the limits of a mail.                              *)

CONSTANTS WindowRequests, WindowSeconds, WindowLimit,
          Recipients,
          MailLimits,     \* [category -> [recipient, tenant, daily -> most mails in a window]]
          LastSecond,     \* bound on the clock
          MaxRefused      \* bound on the requests counted past a limit

VARIABLES windowNow, firstRow, windowRequest, mailCount,
          opened,         \* history: the open window's end, what it let through, and how often it was opened
          sent            \* history: mails let through on a count, by category, recipient and window

windowVars == <<windowNow, firstRow, windowRequest, mailCount, opened, sent>>

Seconds == 0..LastSecond
WindowStart(t) == (t \div WindowSeconds) * WindowSeconds
Starts == {WindowStart(t) : t \in Seconds}
Categories == DOMAIN MailLimits

NoWindow == [count |-> 0, expires |-> 0]
Unopened == [end |-> 0, admitted |-> 0, times |-> 0]
Rest == [at |-> "idle", now |-> 0]

Goto(p, at) == windowRequest' = [windowRequest EXCEPT ![p].at = at]
Done(p) == windowRequest' = [windowRequest EXCEPT ![p] = Rest]

-------------------------------------------------------------------------------
CheckFirst(p) ==
  /\ windowRequest[p].at = "idle"
  /\ firstRow.count <= WindowLimit + MaxRefused
  /\ windowRequest' = [windowRequest EXCEPT ![p] = [at |-> "first", now |-> windowNow]]
  /\ UNCHANGED <<windowNow, firstRow, mailCount, opened, sent>>

\* Counted before it is decided, so a refused request counts too.
Allowed(count) == count <= WindowLimit

\* The conditional update counts in the live window, or makes the row.
CountFirst(p) ==
  LET r == windowRequest[p] ends == r.now + WindowSeconds IN
  /\ r.at = "first"
  /\ \/ /\ firstRow = NoWindow
        /\ firstRow' = [count |-> 1, expires |-> ends]
        /\ opened' = [end |-> ends, admitted |-> 1, times |-> 1]
        /\ Done(p)
     \/ /\ firstRow # NoWindow /\ firstRow.expires > r.now
        /\ firstRow' = [firstRow EXCEPT !.count = @ + 1]
        /\ opened' = IF Allowed(firstRow.count + 1) THEN [opened EXCEPT !.admitted = @ + 1] ELSE opened
        /\ Done(p)
     \/ /\ firstRow # NoWindow /\ firstRow.expires <= r.now
        /\ Goto(p, "open")
        /\ UNCHANGED <<firstRow, opened>>
  /\ UNCHANGED <<windowNow, mailCount, sent>>

\* The window was over when this request counted, so it opens the next one:
\* an unconditional put, also over a window another request opened meanwhile.
OpenWindow(p) ==
  LET ends == windowRequest[p].now + WindowSeconds IN
  /\ windowRequest[p].at = "open"
  /\ firstRow' = [count |-> 1, expires |-> ends]
  /\ opened' = IF firstRow = NoWindow \/ windowNow >= opened.end
               THEN [end |-> ends, admitted |-> 1, times |-> 1]
               ELSE [end |-> Max({ends, opened.end}), admitted |-> opened.admitted + 1, times |-> opened.times + 1]
  /\ Done(p)
  /\ UNCHANGED <<windowNow, mailCount, sent>>

\* A store error lets the request through; clear forgets the counter, as a
\* successful login does, or swallows the error that kept it.
WindowFailsOpen(p) ==
  /\ windowRequest[p].at \in {"first", "open"}
  /\ Done(p)
  /\ UNCHANGED <<windowNow, firstRow, mailCount, opened, sent>>

ClearFirst ==
  /\ firstRow # NoWindow
  /\ firstRow' = NoWindow /\ opened' = Unopened
  /\ UNCHANGED <<windowNow, windowRequest, mailCount, sent>>

RowLapses ==
  /\ firstRow # NoWindow /\ firstRow.expires < windowNow
  /\ firstRow' = NoWindow
  /\ UNCHANGED <<windowNow, windowRequest, mailCount, opened, sent>>

-------------------------------------------------------------------------------
\* The counters one mail is counted in, and those of them at their limit.
MailScopes == {"recipient", "tenant", "daily"}
Counter(cat, to, scope, s) == <<cat, IF scope = "recipient" THEN to ELSE scope, s>>
Counters(cat, to, s) == {Counter(cat, to, scope, s) : scope \in MailScopes}
LimitOf(cat, to, k) == IF k[2] = to THEN MailLimits[cat].recipient ELSE MailLimits[cat][k[2]]
Exceeded(cat, to, s) == {k \in Counters(cat, to, s) : mailCount[k] >= LimitOf(cat, to, k)}

CheckMail(p) ==
  /\ windowRequest[p].at = "idle"
  /\ windowRequest' = [windowRequest EXCEPT ![p] = [at |-> "mail", now |-> windowNow]]
  /\ UNCHANGED <<windowNow, firstRow, mailCount, opened, sent>>

\* All in one transaction, or none.
CountedIn(cat, to, s) == IF Exceeded(cat, to, s) = {} THEN Counters(cat, to, s) ELSE {}

CountMail(p, cat, to) ==
  LET s == WindowStart(windowRequest[p].now) IN
  /\ windowRequest[p].at = "mail"
  /\ mailCount' = [k \in DOMAIN mailCount |-> IF k \in CountedIn(cat, to, s) THEN mailCount[k] + 1 ELSE mailCount[k]]
  /\ sent' = IF Exceeded(cat, to, s) = {} THEN [sent EXCEPT ![<<cat, to, s>>] = @ + 1] ELSE sent
  /\ Done(p)
  /\ UNCHANGED <<windowNow, firstRow, opened>>

\* A fault, or transactions that conflict: the mail goes out uncounted.
MailFailsOpen(p) ==
  /\ windowRequest[p].at = "mail" /\ Done(p)
  /\ UNCHANGED <<windowNow, firstRow, mailCount, opened, sent>>

SecondPasses ==
  /\ windowNow < LastSecond /\ windowNow' = windowNow + 1
  /\ UNCHANGED <<firstRow, windowRequest, mailCount, opened, sent>>

WindowInit ==
  /\ windowNow = 0 /\ firstRow = NoWindow
  /\ windowRequest = [p \in WindowRequests |-> Rest]
  /\ mailCount = [k \in Categories \X (Recipients \cup {"tenant", "daily"}) \X Starts |-> 0]
  /\ opened = Unopened
  /\ sent = [k \in Categories \X Recipients \X Starts |-> 0]

WindowNext ==
  \/ SecondPasses \/ ClearFirst \/ RowLapses
  \/ \E p \in WindowRequests :
       \/ CheckFirst(p) \/ CountFirst(p) \/ OpenWindow(p) \/ WindowFailsOpen(p)
       \/ CheckMail(p) \/ MailFailsOpen(p)
       \/ \E cat \in Categories, to \in Recipients : CountMail(p, cat, to)

-------------------------------------------------------------------------------
\* A window that opens with its first request lets no more through than its
\* limit for each request that found the previous window over: two that roll it
\* over together restart the count, a request that comes after them does not.
RolledWindowIsBounded == opened.admitted <= WindowLimit * Max({1, opened.times})

\* The counters of a mail move together: the tenant's and the day's count are the
\* sum of its recipients', each is what was sent, and none passes its limit.
MailCountsAgree ==
  \A cat \in Categories, s \in Starts :
    LET all == MapThenSumSet(LAMBDA to : sent[<<cat, to, s>>], Recipients) IN
    /\ mailCount[<<cat, "tenant", s>>] = all /\ mailCount[<<cat, "daily", s>>] = all
    /\ all <= MailLimits[cat].tenant
    /\ \A to \in Recipients : mailCount[<<cat, to, s>>] = sent[<<cat, to, s>>] /\ sent[<<cat, to, s>>] <= MailLimits[cat].recipient

WindowsKeepTheirLimit == RolledWindowIsBounded /\ MailCountsAgree
================================================================================
