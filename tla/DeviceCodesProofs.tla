-------------------------- MODULE DeviceCodesProofs --------------------------
(***************************************************************************)
(* Proofs about DeviceCodes, for every set of devices, user codes, people, *)
(* pages and polls, every lifetime, interval and bound, and every choice   *)
(* of operations.                                                          *)
(***************************************************************************)
EXTENDS DeviceCodes, TLAPS

-----------------------------------------------------------------------------
(* The inductive invariant.                                                *)

Page == [ at : {"closed", "open", "decide"}, user : User \cup {Nothing},
          device : Device \cup {Nothing}, userCode : UserCode \cup {Nothing},
          scopes : SUBSET Scope, allow : BOOLEAN ]
Asking == [ at : {"idle", "read", "stamp", "slow", "consume", "open"},
            device : Device \cup {Nothing}, moment : Time, row : {Unminted} \cup Code ]

\* The types TypeOK leaves open.
Types ==
    /\ now \in Time
    /\ code \in [Device -> {Unminted, Gone} \cup Code]
    /\ reserved \in [UserCode -> Int]
    /\ held \in [User -> SUBSET Scope]
    /\ tab \in [Tab -> Page]
    /\ poll \in [Proc -> Asking]
    /\ grant \in [Grant -> {Unopened} \cup Opened]

\* What is on file for d has been shown to the person it names, is not denied
\* unless it says so, is reserved until it expires and slows down only.
RowSound(d) ==
    /\ code[d].status = "approved" =>
          code[d].user \in User /\ <<d, code[d].user, code[d].scopes>> \in shown
    /\ code[d].status \in {"unminted", "pending", "approved"} => d \notin denied
    /\ Row(d) => /\ code[d].expires <= reserved[code[d].userCode]
                 /\ code[d].interval >= Interval

PageSound(b) ==
    tab[b].at # "closed" =>
        /\ tab[b].device \in Device /\ tab[b].user \in User
        /\ <<tab[b].device, tab[b].user, tab[b].scopes>> \in shown

PollSound(p) ==
    LET q == poll[p] IN
    /\ q.at # "idle" => q.device \in Device
    /\ q.at \in {"stamp", "slow", "consume", "open"} =>
          q.row \in Code /\ q.row.interval >= Interval
    /\ q.at = "open" => /\ code[q.device] = Gone /\ q.device \notin denied
                        /\ q.row.user \in User
                        /\ <<q.device, q.row.user, q.row.scopes>> \in shown
                        /\ \A r \in Proc : poll[r].at = "open" /\ poll[r].device = q.device => r = p
                        /\ \A g \in Grant : grant[g] # Unopened => grant[g].device # q.device

GrantSound(g) ==
    grant[g] # Unopened =>
        /\ code[grant[g].device] = Gone /\ grant[g].device \notin denied
        /\ <<grant[g].device, grant[g].user, grant[g].scopes>> \in shown
        /\ \A h \in Grant : grant[h] # Unopened /\ grant[h].device = grant[g].device => h = g

IInv == /\ Types
        /\ \A d \in Device : RowSound(d)
        /\ \A b \in Tab : PageSound(b)
        /\ \A p \in Proc : PollSound(p)
        /\ \A g \in Grant : GrantSound(g)
        /\ UserCodesNameOneRequest
-----------------------------------------------------------------------------
(* Types.                                                                  *)

\* The instants, and the records the actions write.
LEMMA Constants ==
    /\ 0 \in Time /\ Time \subseteq Int /\ LongAgo \in Int /\ Nothing \notin Device
    /\ Closed \in Page /\ Idle \in Asking
    /\ \A d \in Device : Row(d) <=> code[d].status \in {"pending", "approved", "denied"}
    /\ \A m \in Time : m + CodeTTL \in Nat
<1>1. 0 \in Time /\ Time \subseteq Int /\ LongAgo \in Int
  BY ParameterTypes DEF Time, LongAgo
<1>2. Closed \in Page BY DEF Closed, Page
<1>3. Idle \in Asking BY <1>1 DEF Idle, Asking
<1>4. \A m \in Time : m + CodeTTL \in Nat BY ParameterTypes DEF Time
<1> QED BY <1>1, <1>2, <1>3, <1>4, ParameterTypes DEF Row

\* A row is a code, a code is on file, and what is on file is neither of the others.
LEMMA RowIsCode ==
    ASSUME Types, NEW d \in Device
    PROVE  /\ Row(d) => code[d] \in Code
           /\ ~Row(d) => code[d] \in {Unminted, Gone}
           /\ code[d].status \in {"unminted", "gone", "pending", "approved", "denied"}
           /\ code[d] = Unminted <=> code[d].status = "unminted"
           /\ code[d] = Gone <=> code[d].status = "gone"
<1>1. code[d] \in {Unminted, Gone} \cup Code BY DEF Types
<1>2. CASE code[d] = Unminted BY <1>2 DEF Unminted, Gone, Row
<1>3. CASE code[d] = Gone BY <1>3 DEF Unminted, Gone, Row
<1>4. CASE code[d] \in Code
  <2>1. code[d].status \in {"pending", "approved", "denied"} BY <1>4 DEF Code
  <2> QED BY <1>4, <2>1 DEF Unminted, Gone, Row
<1> QED BY <1>1, <1>2, <1>3, <1>4

\* The types the proofs work with are those the runs check.
LEMMA TypesSuffice == Types => TypeOK
<1> SUFFICES ASSUME Types PROVE TypeOK
  OBVIOUS
<1>1. \A d \in Device : code[d] \in {Unminted, Gone} \cup Code BY DEF Types
<1>2. \A b \in Tab : tab[b].at \in {"closed", "open", "decide"} /\ tab[b].scopes \subseteq Scope
  BY DEF Types, Page
<1>3. \A p \in Proc : poll[p].at \in {"idle", "read", "stamp", "slow", "consume", "open"}
  BY DEF Types, Asking
<1>4. \A g \in Grant : grant[g] = Unopened \/ grant[g] \in Opened BY DEF Types
<1> QED BY <1>1, <1>2, <1>3, <1>4 DEF Types, TypeOK

\* The two writes of one entry of a table.
LEMMA BecomeType ==
    ASSUME Types, NEW p \in Proc, NEW q \in Asking, Become(p, q)
    PROVE  /\ poll' \in [Proc -> Asking] /\ poll'[p] = q
           /\ \A r \in Proc : r # p => poll'[r] = poll[r]
BY DEF Types, Become

\* A page is one entry of tab.
LEMMA ShowType ==
    ASSUME Types, NEW b \in Tab, NEW t \in Page, Show(b, t)
    PROVE  /\ tab' \in [Tab -> Page] /\ tab'[b] = t
           /\ \A c \in Tab : c # b => tab'[c] = tab[c]
BY DEF Types, Show

\* A row is one entry of code.
LEMMA FileType ==
    ASSUME Types, NEW d \in Device, NEW r \in {Unminted, Gone} \cup Code,
           code' = [code EXCEPT ![d] = r]
    PROVE  /\ code' \in [Device -> {Unminted, Gone} \cup Code] /\ code'[d] = r
           /\ \A e \in Device : e # d => code'[e] = code[e]
BY DEF Types

-----------------------------------------------------------------------------
(* What a step leaves true of everything it does not write.                *)

\* A row goes, or stays what it says; it may be stamped and slowed down.
KeptRow(d) ==
    \/ code'[d] = Gone
    \/ code'[d] = code[d]
    \/ /\ Row(d) /\ code'[d].status = code[d].status /\ code'[d].user = code[d].user
       /\ code'[d].scopes = code[d].scopes /\ code'[d].userCode = code[d].userCode
       /\ code'[d].expires = code[d].expires /\ code'[d].interval >= Interval

\* Rows that stay what they say stay sound, and free no user code early.
LEMMA RowsKept ==
    ASSUME IInv, Types', shown \subseteq shown', now <= now', reserved' = reserved,
           denied' = denied, \A d \in Device : KeptRow(d)
    PROVE  /\ \A d \in Device : RowSound(d)'
           /\ UserCodesNameOneRequest'
<1>0. Types BY DEF IInv
<1>1. ASSUME NEW d \in Device PROVE RowSound(d)'
  <2>0. RowSound(d) /\ KeptRow(d) BY DEF IInv
  <2>1. CASE code'[d] = Gone BY <2>1 DEF RowSound, Row, Gone
  <2>2. CASE code'[d] = code[d] BY <2>0, <2>2 DEF RowSound, Row
  <2>3. CASE code'[d] # Gone /\ code'[d] # code[d]
    BY <2>0, <2>3 DEF RowSound, Row, KeptRow
  <2> QED BY <2>1, <2>2, <2>3
<1>2. ASSUME NEW d \in Device, Unexpired(d)'
      PROVE  Unexpired(d) /\ code'[d].userCode = code[d].userCode
  <2>0. KeptRow(d) /\ code'[d] # Gone BY <1>2 DEF Unexpired, Row, Gone
  <2>1. Row(d) /\ code'[d].expires = code[d].expires /\ code'[d].userCode = code[d].userCode
    BY <1>2, <2>0 DEF KeptRow, Unexpired, Row
  <2>2. code[d].expires \in Int /\ now \in Int /\ now' \in Int
    BY <1>0, <2>1, RowIsCode, Constants DEF Code, Types
  <2> QED BY <1>2, <2>1, <2>2 DEF Unexpired
<1>3. UserCodesNameOneRequest'
  BY <1>2 DEF IInv, UserCodesNameOneRequest
<1> QED BY <1>1, <1>3

\* A page nobody touched still shows what it showed.
LEMMA PageKept ==
    ASSUME IInv, shown \subseteq shown', NEW b \in Tab, tab'[b] = tab[b]
    PROVE  PageSound(b)'
BY DEF IInv, PageSound

\* Nothing happens to what is gone.
Final == \A d \in Device : code[d] = Gone => code'[d] = Gone /\ (d \in denied' => d \in denied)

\* A grant is sound for as long as its code stays gone.
LEMMA GrantKept ==
    ASSUME IInv, Types', shown \subseteq shown', Final, grant' = grant, NEW g \in Grant
    PROVE  GrantSound(g)'
<1>1. GrantSound(g) BY DEF IInv
<1>2. grant[g] # Unopened => grant[g].device \in Device BY DEF IInv, Types, Opened
<1> QED BY <1>1, <1>2 DEF GrantSound, Final

\* So is a poll nobody touched, if no other poll has collected since.
LEMMA PollKept ==
    ASSUME IInv, Types', shown \subseteq shown', Final, grant' = grant,
           NEW p \in Proc, poll'[p] = poll[p],
           \A r \in Proc : poll'[r].at = "open" => poll'[r] = poll[r]
    PROVE  PollSound(p)'
<1>1. PollSound(p) BY DEF IInv
<1> QED BY <1>1 DEF PollSound, Final

\* A step of the pages, the table or the grants that starts no poll.
LEMMA PollsIdle ==
    ASSUME IInv, Types', shown \subseteq shown', Final, grant' = grant, poll' = poll
    PROVE  \A p \in Proc : PollSound(p)'
BY PollKept

\* A step that touches the polls alone, one of them at a time.
LEMMA OnePoll ==
    ASSUME IInv, Types', NEW p \in Proc,
           UNCHANGED <<now, code, reserved, tab, grant, history>>,
           \A r \in Proc : r # p => poll'[r] = poll[r],
           poll'[p].at # "open", PollSound(p)'
    PROVE  IInv'
<1>1. shown' = shown /\ denied' = denied /\ reserved' = reserved /\ grant' = grant
      /\ now' = now /\ code' = code /\ tab' = tab
  BY DEF history
<1>2. now <= now' BY <1>1, Constants DEF IInv, Types
<1>3. (\A d \in Device : RowSound(d)') /\ UserCodesNameOneRequest'
  BY <1>1, <1>2, RowsKept DEF KeptRow
<1>4. Final BY <1>1 DEF Final
<1>5. \A b \in Tab : PageSound(b)' BY <1>1, PageKept
<1>6. \A g \in Grant : GrantSound(g)' BY <1>1, <1>4, GrantKept
<1>7. \A r \in Proc : r # p => PollSound(r)'
  BY <1>1, <1>4, PollKept
<1> QED BY <1>3, <1>5, <1>6, <1>7 DEF IInv

-----------------------------------------------------------------------------
(* The invariant is kept by every step.                                    *)

\* Time only expires requests.
LEMMA TickKeeps ==
    ASSUME IInv, Tick
    PROVE  IInv'
<1>0. Types BY DEF IInv
<1>1. now' \in Time /\ now <= now'
  BY <1>0, ParameterTypes DEF Types, Tick, Time
<1>2. Types' BY <1>0, <1>1 DEF Tick, Types
<1>3. UNCHANGED <<code, reserved, tab, poll, grant, shown, denied>> BY DEF Tick, history
<1>4. (\A d \in Device : RowSound(d)') /\ UserCodesNameOneRequest'
  BY <1>1, <1>2, <1>3, RowsKept DEF KeptRow
<1>5. Final BY <1>3 DEF Final
<1>6. \A b \in Tab : PageSound(b)' BY <1>3, PageKept
<1>7. \A g \in Grant : GrantSound(g)' BY <1>2, <1>3, <1>5, GrantKept
<1>8. \A p \in Proc : PollSound(p)' BY <1>2, <1>3, <1>5, PollsIdle
<1> QED BY <1>2, <1>4, <1>6, <1>7, <1>8 DEF IInv

\* A person who holds other scopes changes no row, page or poll.
LEMMA ReassignKeeps ==
    ASSUME IInv, NEW u \in User, NEW S \in SUBSET Scope, Reassign(u, S)
    PROVE  IInv'
<1>0. Types BY DEF IInv
<1>1. held' \in [User -> SUBSET Scope] BY <1>0 DEF Types, Reassign
<1>2. UNCHANGED <<now, code, reserved, tab, poll, grant, shown, denied>>
  BY DEF Reassign, history
<1>3. Types' BY <1>0, <1>1, <1>2 DEF Types
<1>4. now <= now' BY <1>0, <1>2, Constants DEF Types
<1>5. (\A d \in Device : RowSound(d)') /\ UserCodesNameOneRequest'
  BY <1>2, <1>3, <1>4, RowsKept DEF KeptRow
<1>6. Final BY <1>2 DEF Final
<1>7. \A b \in Tab : PageSound(b)' BY <1>2, PageKept
<1>8. \A g \in Grant : GrantSound(g)' BY <1>2, <1>3, <1>6, GrantKept
<1>9. \A p \in Proc : PollSound(p)' BY <1>2, <1>3, <1>6, PollsIdle
<1> QED BY <1>3, <1>5, <1>7, <1>8, <1>9 DEF IInv

\* A user code is free once the reservation of every earlier request has passed,
\* which is when those requests have expired.
LEMMA StartKeeps ==
    ASSUME IInv, NEW d \in Device, NEW c \in UserCode, NEW S \in SUBSET Scope, Start(d, c, S)
    PROVE  IInv'
<1> DEFINE r == [userCode |-> c, status |-> "pending", scopes |-> S, user |-> Nothing,
                 expires |-> now + CodeTTL, interval |-> Interval, polledAt |-> LongAgo]
<1>0. Types /\ now \in Time /\ now \in Int BY Constants DEF IInv, Types
<1>1. now + CodeTTL \in Nat /\ now + CodeTTL \in Int BY <1>0, Constants
<1>2. r \in Code BY <1>1, ParameterTypes DEF Code
<1>3. UNCHANGED <<now, tab, poll, grant, shown, denied, held>> BY DEF Start, history
<1>4. code' = [code EXCEPT ![d] = r] BY DEF Start
<1>5. /\ code' \in [Device -> {Unminted, Gone} \cup Code] /\ code'[d] = r
      /\ \A e \in Device : e # d => code'[e] = code[e]
  BY <1>0, <1>2, <1>4, FileType
<1>6. /\ reserved' \in [UserCode -> Int] /\ reserved'[c] = now + CodeTTL
      /\ \A b \in UserCode : b # c => reserved'[b] = reserved[b]
  BY <1>0, <1>1 DEF Types, Start
<1>7. Types' BY <1>0, <1>3, <1>5, <1>6 DEF Types
<1>8. /\ r.status = "pending" /\ r.userCode = c /\ r.expires = now + CodeTTL
      /\ r.interval = Interval
  OBVIOUS
<1> HIDE DEF r
<1>9. /\ code'[d].status = "pending" /\ code'[d].userCode = c
      /\ code'[d].expires = now + CodeTTL /\ code'[d].interval = Interval
  BY <1>5, <1>8
<1>10. code[d].status = "unminted" /\ reserved[c] < now
  BY <1>0, RowIsCode DEF Start
<1>11. ASSUME NEW e \in Device, e # d, Row(e)
       PROVE  /\ code[e].expires \in Int /\ code[e].userCode \in UserCode
              /\ code[e].expires <= reserved[code[e].userCode]
              /\ code[e].interval >= Interval
  <2>1. code[e] \in Code BY <1>0, <1>11, RowIsCode
  <2>2. code[e].expires \in Nat /\ code[e].userCode \in UserCode BY <2>1 DEF Code
  <2>3. RowSound(e) BY DEF IInv
  <2> QED BY <1>11, <2>2, <2>3 DEF RowSound
<1>12. ASSUME NEW e \in Device PROVE RowSound(e)'
  <2>1. RowSound(e) BY DEF IInv
  <2>2. CASE e = d
    <3>1. d \notin denied' BY <1>3, <1>10, <2>1, <2>2 DEF RowSound
    <3>2. code'[e].expires <= reserved'[code'[e].userCode] BY <1>1, <1>6, <1>9, <2>2
    <3>3. code'[e].interval >= Interval BY <1>9, <2>2, ParameterTypes
    <3> QED BY <1>9, <2>2, <3>1, <3>2, <3>3 DEF RowSound
  <2>3. CASE e # d
    <3>1. code'[e] = code[e] BY <1>5, <2>3
    <3>2. ASSUME Row(e) PROVE code[e].expires <= reserved'[code[e].userCode]
      <4>1. /\ code[e].expires \in Int /\ code[e].userCode \in UserCode
            /\ code[e].expires <= reserved[code[e].userCode]
        BY <1>11, <2>3, <3>2
      <4>2. CASE code[e].userCode = c
        <5>1. reserved[c] \in Int BY <1>0 DEF Types
        <5>2. reserved[c] <= reserved'[c] BY <1>0, <1>1, <1>6, <1>10, <5>1, ParameterTypes
        <5> QED BY <1>1, <1>6, <4>1, <4>2, <5>1, <5>2
      <4>3. CASE code[e].userCode # c BY <1>6, <4>1, <4>3
      <4> QED BY <4>2, <4>3
    <3> QED BY <1>3, <2>1, <3>1, <3>2 DEF RowSound, Row
  <2> QED BY <2>2, <2>3
<1>13. ASSUME NEW e \in Device, e # d, Unexpired(e)'
       PROVE  Unexpired(e) /\ code'[e].userCode = code[e].userCode /\ code[e].userCode # c
  <2>1. Unexpired(e) /\ code'[e] = code[e]
    BY <1>3, <1>5, <1>13 DEF Unexpired, Row
  <2>2. reserved[c] \in Int BY <1>0 DEF Types
  <2>3. code[e].expires \in Int /\ code[e].expires > now
        /\ code[e].expires <= reserved[code[e].userCode]
    BY <1>11, <1>13, <2>1 DEF Unexpired
  <2>4. code[e].userCode # c BY <1>0, <1>10, <2>2, <2>3
  <2> QED BY <2>1, <2>4
<1>14. UserCodesNameOneRequest'
  <2> SUFFICES ASSUME NEW e \in Device, NEW f \in Device, Unexpired(e)', Unexpired(f)',
                      code'[e].userCode = code'[f].userCode
               PROVE  e = f
    BY DEF UserCodesNameOneRequest
  <2>1. CASE e # d /\ f # d BY <1>13, <2>1 DEF IInv, UserCodesNameOneRequest
  <2>2. CASE e = d /\ f # d BY <1>9, <1>13, <2>2
  <2>3. CASE e # d /\ f = d BY <1>9, <1>13, <2>3
  <2> QED BY <2>1, <2>2, <2>3
<1>15. Final
  <2>1. code[d] # Gone BY <1>0, <1>10, RowIsCode
  <2> QED BY <1>3, <1>5, <2>1 DEF Final
<1>16. \A b \in Tab : PageSound(b)' BY <1>3, PageKept
<1>17. \A g \in Grant : GrantSound(g)' BY <1>3, <1>7, <1>15, GrantKept
<1>18. \A p \in Proc : PollSound(p)' BY <1>3, <1>7, <1>15, PollsIdle
<1> QED BY <1>7, <1>12, <1>14, <1>16, <1>17, <1>18 DEF IInv

\* The page remembers that it was shown.
LEMMA ViewKeeps ==
    ASSUME IInv, NEW b \in Tab, NEW u \in User, NEW c \in UserCode, View(b, u, c)
    PROVE  IInv'
<1>0. Types BY DEF IInv
<1>1. PICK r \in Pending(c, u) :
         /\ Show(b, [Closed EXCEPT !.at = "open", !.user = u, !.device = r[1],
                       !.userCode = c, !.scopes = r[2]])
         /\ shown' = shown \cup {<<r[1], u, r[2]>>}
  BY DEF View
<1>2. UNCHANGED <<now, code, reserved, held, poll, grant, denied>> BY DEF View
<1>3. PICK d \in Device : r = <<d, code[d].scopes \cap held[u]>> BY DEF Pending
<1>4. r[1] = d /\ r[2] \in SUBSET Scope BY <1>0, <1>3 DEF Types
<1> DEFINE t == [Closed EXCEPT !.at = "open", !.user = u, !.device = r[1],
                   !.userCode = c, !.scopes = r[2]]
<1>5. t \in Page BY <1>4 DEF Closed, Page
<1>6. t.at = "open" /\ t.device = d /\ t.user = u /\ t.scopes = r[2] BY <1>4 DEF Closed
<1> HIDE DEF t
<1>7. tab' \in [Tab -> Page] /\ tab'[b] = t /\ \A e \in Tab : e # b => tab'[e] = tab[e]
  <2>1. Show(b, t) BY <1>1 DEF t
  <2> QED BY <1>0, <1>5, <2>1, ShowType
<1>8. Types' BY <1>0, <1>2, <1>7 DEF Types
<1>9. shown \subseteq shown' /\ <<d, u, r[2]>> \in shown' BY <1>1, <1>4
<1>10. now <= now' BY <1>0, <1>2, Constants DEF Types
<1>11. (\A e \in Device : RowSound(e)') /\ UserCodesNameOneRequest'
  BY <1>2, <1>8, <1>9, <1>10, RowsKept DEF KeptRow
<1>12. ASSUME NEW e \in Tab PROVE PageSound(e)'
  <2>1. CASE e = b BY <1>6, <1>7, <1>9, <2>1 DEF PageSound
  <2>2. CASE e # b BY <1>7, <1>9, <2>2, PageKept
  <2> QED BY <2>1, <2>2
<1>13. Final BY <1>2 DEF Final
<1>14. \A g \in Grant : GrantSound(g)' BY <1>2, <1>8, <1>9, <1>13, GrantKept
<1>15. \A p \in Proc : PollSound(p)' BY <1>2, <1>8, <1>9, <1>13, PollsIdle
<1> QED BY <1>8, <1>11, <1>12, <1>14, <1>15 DEF IInv

\* A form that is posted is the page that was shown, or nothing.
LEMMA SubmitKeeps ==
    ASSUME IInv, NEW b \in Tab, NEW allow \in BOOLEAN, Submit(b, allow)
    PROVE  IInv'
<1>0. Types /\ tab[b] \in Page BY DEF IInv, Types
<1>1. UNCHANGED <<now, code, reserved, held, poll, grant, shown, denied>>
  BY DEF Submit, history
<1>2. tab[b].at = "open" BY DEF Submit
<1>3. PICK t \in Page : Show(b, t) /\ (t.at = "closed" \/ t = [tab[b] EXCEPT !.at = "decide", !.allow = allow])
  <2>1. Closed \in Page /\ Closed.at = "closed" BY Constants DEF Closed
  <2>2. [tab[b] EXCEPT !.at = "decide", !.allow = allow] \in Page BY <1>0 DEF Page
  <2> QED BY <2>1, <2>2 DEF Submit
<1>4. tab' \in [Tab -> Page] /\ tab'[b] = t /\ \A e \in Tab : e # b => tab'[e] = tab[e]
  BY <1>0, <1>3, ShowType
<1>5. Types' BY <1>0, <1>1, <1>4 DEF Types
<1>6. now <= now' BY <1>0, <1>1, Constants DEF Types
<1>7. (\A e \in Device : RowSound(e)') /\ UserCodesNameOneRequest'
  BY <1>1, <1>5, <1>6, RowsKept DEF KeptRow
<1>8. ASSUME NEW e \in Tab PROVE PageSound(e)'
  <2>1. CASE e = b
    <3>1. PageSound(b) BY DEF IInv
    <3>2. \/ t.at = "closed"
          \/ /\ t.device = tab[b].device /\ t.user = tab[b].user
             /\ t.scopes = tab[b].scopes
      BY <1>0, <1>3 DEF Page
    <3> QED BY <1>1, <1>2, <1>4, <2>1, <3>1, <3>2 DEF PageSound
  <2>2. CASE e # b BY <1>1, <1>4, <2>2, PageKept
  <2> QED BY <2>1, <2>2
<1>9. Final BY <1>1 DEF Final
<1>10. \A g \in Grant : GrantSound(g)' BY <1>1, <1>5, <1>9, GrantKept
<1>11. \A p \in Proc : PollSound(p)' BY <1>1, <1>5, <1>9, PollsIdle
<1> QED BY <1>5, <1>7, <1>8, <1>10, <1>11 DEF IInv

\* Only a pending request is decided, for what its page showed.
LEMMA DecideKeeps ==
    ASSUME IInv, NEW b \in Tab, Decide(b)
    PROVE  IInv'
<1> DEFINE t == tab[b]
<1> DEFINE d == t.device
<1>0. Types /\ t \in Page BY DEF IInv, Types
<1>1. UNCHANGED <<now, reserved, held, poll, grant, shown>> /\ t.at = "decide" BY DEF Decide
<1>2. d \in Device /\ t.user \in User /\ <<d, t.user, t.scopes>> \in shown
  BY <1>1 DEF IInv, PageSound
<1>3. tab' \in [Tab -> Page] /\ tab'[b] = Closed /\ \A e \in Tab : e # b => tab'[e] = tab[e]
  BY <1>0, Constants, ShowType DEF Decide
<1>4. now <= now' BY <1>0, <1>1, Constants DEF Types
<1>5. \A e \in Tab : PageSound(e)'
  BY <1>1, <1>3, PageKept DEF PageSound, Closed
<1>6. CASE code[d].status # "pending"
  <2>1. code' = code /\ denied' = denied BY <1>6 DEF Decide
  <2>2. Types' BY <1>0, <1>1, <1>3, <2>1 DEF Types
  <2>3. (\A e \in Device : RowSound(e)') /\ UserCodesNameOneRequest'
    BY <1>1, <1>4, <2>1, <2>2, RowsKept DEF KeptRow
  <2>4. Final BY <2>1 DEF Final
  <2>5. \A g \in Grant : GrantSound(g)' BY <1>1, <2>2, <2>4, GrantKept
  <2>6. \A p \in Proc : PollSound(p)' BY <1>1, <2>2, <2>4, PollsIdle
  <2> QED BY <1>5, <2>2, <2>3, <2>5, <2>6 DEF IInv
<1>7. CASE code[d].status = "pending"
  <2> DEFINE S == IF t.allow THEN t.scopes ELSE {}
             s == IF t.allow THEN "approved" ELSE "denied"
             r == [code[d] EXCEPT !.status = s, !.user = t.user, !.scopes = S]
  <2>0. Row(d) /\ code[d] \in Code /\ code[d] # Gone BY <1>0, <1>2, <1>7, RowIsCode DEF Row
  <2>1. S \in SUBSET Scope /\ s \in {"approved", "denied"} BY <1>0 DEF Page
  <2>2. code' = [code EXCEPT ![d] = r] /\ denied' = IF t.allow THEN denied ELSE denied \cup {d}
    BY <1>0, <1>2, <1>7 DEF Decide, Decided, Types
  <2> HIDE DEF S, s, t
  <2>3. /\ r \in Code /\ r.status = s /\ r.user = t.user /\ r.scopes = S
        /\ r.userCode = code[d].userCode /\ r.expires = code[d].expires
        /\ r.interval = code[d].interval
    BY <1>2, <2>0, <2>1 DEF Code
  <2> HIDE DEF r
  <2>4. /\ code' \in [Device -> {Unminted, Gone} \cup Code] /\ code'[d] = r
        /\ \A e \in Device : e # d => code'[e] = code[e]
    BY <1>0, <1>2, <2>2, <2>3, FileType
  <2>5. Types' BY <1>0, <1>1, <1>3, <2>4 DEF Types
  <2>6. ASSUME NEW e \in Device PROVE RowSound(e)'
    <3>1. RowSound(e) BY DEF IInv
    <3>2. CASE e # d BY <1>1, <2>2, <2>4, <3>1, <3>2 DEF RowSound, Row
    <3>3. CASE e = d
      <4>1. d \notin denied /\ code[d].expires <= reserved[code[d].userCode]
            /\ code[d].interval >= Interval
        BY <1>7, <2>0, <3>1, <3>3 DEF RowSound
      <4>2. CASE t.allow
        <5>1. s = "approved" /\ S = t.scopes /\ denied' = denied BY <2>2, <4>2 DEF S, s
        <5> QED BY <1>1, <1>2, <2>3, <2>4, <3>3, <4>1, <5>1 DEF RowSound
      <4>3. CASE ~t.allow
        <5>1. s = "denied" BY <4>3 DEF s
        <5> QED BY <1>1, <2>3, <2>4, <3>3, <4>1, <5>1 DEF RowSound
      <4> QED BY <4>2, <4>3
    <3> QED BY <3>2, <3>3
  <2>7. UserCodesNameOneRequest'
    <3>1. ASSUME NEW e \in Device, Unexpired(e)'
          PROVE  Unexpired(e) /\ code'[e].userCode = code[e].userCode
      <4>1. CASE e = d BY <1>1, <2>0, <2>3, <2>4, <3>1, <4>1 DEF Unexpired
      <4>2. CASE e # d BY <1>1, <2>4, <3>1, <4>2 DEF Unexpired, Row
      <4> QED BY <4>1, <4>2
    <3> QED BY <3>1 DEF IInv, UserCodesNameOneRequest
  <2>8. Final BY <2>0, <2>2, <2>4 DEF Final
  <2>9. \A g \in Grant : GrantSound(g)' BY <1>1, <2>5, <2>8, GrantKept
  <2>10. \A p \in Proc : PollSound(p)' BY <1>1, <2>5, <2>8, PollsIdle
  <2> QED BY <1>5, <2>5, <2>6, <2>7, <2>9, <2>10 DEF IInv
<1> QED BY <1>6, <1>7

\* A poll begins knowing its device code and nothing of the row.
LEMMA PollKeeps ==
    ASSUME IInv, NEW p \in Proc, NEW d \in Device, Poll(p, d)
    PROVE  IInv'
<1> DEFINE q == [Idle EXCEPT !.at = "read", !.device = d, !.moment = now]
<1>0. Types /\ now \in Time BY DEF IInv, Types
<1>1. q \in Asking BY <1>0, Constants DEF Asking
<1>2. q.at = "read" /\ q.device = d BY DEF Idle
<1> HIDE DEF q
<1>3. Become(p, q) BY DEF Poll, q
<1>4. poll' \in [Proc -> Asking] /\ poll'[p] = q /\ \A r \in Proc : r # p => poll'[r] = poll[r]
  BY <1>0, <1>1, <1>3, BecomeType
<1>5. UNCHANGED <<now, code, reserved, held, tab, grant, history>> BY DEF Poll
<1>6. Types' BY <1>0, <1>4, <1>5 DEF Types
<1>7. PollSound(p)' BY <1>2, <1>4 DEF PollSound
<1> QED BY <1>2, <1>4, <1>5, <1>6, <1>7, OnePoll

\* A poll carries away a row as it was on file.
LEMMA ReadCodeKeeps ==
    ASSUME IInv, NEW p \in Proc, ReadCode(p)
    PROVE  IInv'
<1> DEFINE q == poll[p]
<1>0. Types /\ q \in Asking /\ q.at = "read" BY DEF IInv, Types, ReadCode
<1>1. q.device \in Device /\ RowSound(q.device) BY <1>0 DEF IInv, PollSound
<1>2. PICK n \in Asking :
         /\ Become(p, n)
         /\ \/ n.at = "idle"
            \/ /\ n.at = "stamp" /\ n.device = q.device
               /\ n.row \in Code /\ n.row.interval >= Interval
  <2>1. CASE ~Row(q.device) \/ code[q.device].expires <= q.moment
    BY <1>0, <2>1, Constants DEF ReadCode, Idle
  <2>2. CASE Row(q.device) /\ ~(code[q.device].expires <= q.moment)
    <3> DEFINE n == [q EXCEPT !.at = "stamp", !.row = code[q.device]]
    <3>1. code[q.device] \in Code BY <1>0, <1>1, <2>2, RowIsCode
    <3>2. n \in Asking BY <1>0, <3>1 DEF Asking
    <3>3. n.at = "stamp" /\ n.device = q.device /\ n.row = code[q.device] BY <1>0 DEF Asking
    <3>4. Become(p, n) BY <2>2 DEF ReadCode
    <3>5. n.row.interval >= Interval BY <1>1, <2>2, <3>3 DEF RowSound
    <3> HIDE DEF n
    <3>6. n.row \in Code BY <3>1, <3>3
    <3> QED BY <3>2, <3>3, <3>4, <3>5, <3>6
  <2> QED BY <2>1, <2>2
<1>4. poll' \in [Proc -> Asking] /\ poll'[p] = n /\ \A r \in Proc : r # p => poll'[r] = poll[r]
  BY <1>0, <1>2, BecomeType
<1>5. UNCHANGED <<now, code, reserved, held, tab, grant, history>> BY DEF ReadCode
<1>6. Types' BY <1>0, <1>4, <1>5 DEF Types
<1>7. PollSound(p)' BY <1>1, <1>2, <1>4 DEF PollSound
<1> QED BY <1>2, <1>4, <1>5, <1>6, <1>7, OnePoll

\* A step of one poll that stamps, slows down or takes away rows.
LEMMA OneStamp ==
    ASSUME IInv, Types', NEW p \in Proc, \A d \in Device : KeptRow(d), Final,
           UNCHANGED <<now, reserved, tab, grant, history>>,
           \A r \in Proc : r # p => poll'[r] = poll[r],
           poll'[p].at # "open", PollSound(p)'
    PROVE  IInv'
<1>1. shown' = shown /\ denied' = denied /\ reserved' = reserved /\ grant' = grant
      /\ now' = now /\ tab' = tab
  BY DEF history
<1>2. now <= now' BY <1>1, Constants DEF IInv, Types
<1>3. (\A d \in Device : RowSound(d)') /\ UserCodesNameOneRequest'
  BY <1>1, <1>2, RowsKept
<1>5. \A b \in Tab : PageSound(b)' BY <1>1, PageKept
<1>6. \A g \in Grant : GrantSound(g)' BY <1>1, GrantKept
<1>7. \A r \in Proc : r # p => PollSound(r)'
  BY <1>1, PollKept
<1> QED BY <1>3, <1>5, <1>6, <1>7 DEF IInv

\* The stamp leaves the row what it says (DeviceCodeStore.record_poll).
LEMMA RecordPollKeeps ==
    ASSUME IInv, NEW p \in Proc, RecordPoll(p)
    PROVE  IInv'
<1> DEFINE q == poll[p]
<1> DEFINE d == q.device
<1>0. Types /\ q \in Asking /\ q.at = "stamp" BY DEF IInv, Types, RecordPoll
<1>1. /\ d \in Device /\ q.row \in Code /\ q.row.interval >= Interval /\ RowSound(d)
      /\ q.moment \in Time
  BY <1>0 DEF IInv, PollSound, Asking
<1>2. PICK n \in Asking :
         /\ Become(p, n) /\ n.at \in {"idle", "slow", "consume"} /\ n.device \in {d, Nothing}
         /\ n.at # "idle" => n.device = d /\ n.row = q.row
  <2>1. Idle \in Asking /\ Idle.at = "idle" /\ Idle.device = Nothing BY Constants DEF Idle
  <2>2. \A a \in {"slow", "consume"} :
           /\ [q EXCEPT !.at = a] \in Asking /\ [q EXCEPT !.at = a].at = a
           /\ [q EXCEPT !.at = a].device = d /\ [q EXCEPT !.at = a].row = q.row
    BY <1>0 DEF Asking
  <2>3. \/ Become(p, Idle)
        \/ \E a \in {"slow", "consume"} : Become(p, [q EXCEPT !.at = a])
    BY DEF RecordPoll, Stamped
  <2> QED BY <2>1, <2>2, <2>3
<1>3. poll' \in [Proc -> Asking] /\ poll'[p] = n /\ \A r \in Proc : r # p => poll'[r] = poll[r]
  BY <1>0, <1>2, BecomeType
<1>4. UNCHANGED <<now, reserved, held, tab, grant, history>> BY DEF RecordPoll
<1>5. PollSound(p)' BY <1>1, <1>2, <1>3 DEF PollSound
<1>6. CASE code' = code
  <2>1. Types' BY <1>0, <1>3, <1>4, <1>6 DEF Types
  <2> QED BY <1>2, <1>3, <1>4, <1>5, <1>6, <2>1, OneStamp DEF KeptRow, Final, history
<1>7. CASE code' # code
  <2> DEFINE s == [code[d] EXCEPT !.polledAt = q.moment]
  <2>1. Row(d) /\ code' = [code EXCEPT ![d] = s] BY <1>0, <1>7 DEF RecordPoll, Types
  <2>2. code[d] \in Code /\ code[d] # Gone BY <1>0, <1>1, <2>1, RowIsCode DEF Row, Gone
  <2>3. /\ s \in Code /\ s.status = code[d].status /\ s.user = code[d].user
        /\ s.scopes = code[d].scopes /\ s.userCode = code[d].userCode
        /\ s.expires = code[d].expires /\ s.interval = code[d].interval
    BY <1>1, <2>2 DEF Code
  <2> HIDE DEF s, d, q
  <2>4. /\ code' \in [Device -> {Unminted, Gone} \cup Code] /\ code'[d] = s
        /\ \A e \in Device : e # d => code'[e] = code[e]
    BY <1>0, <1>1, <2>1, <2>3, FileType
  <2>5. Types' BY <1>0, <1>3, <1>4, <2>4 DEF Types
  <2>6. \A e \in Device : KeptRow(e)
    BY <1>1, <2>1, <2>3, <2>4 DEF KeptRow, RowSound
  <2>7. Final BY <1>4, <2>2, <2>4 DEF Final, history
  <2> QED BY <1>2, <1>3, <1>4, <1>5, <2>5, <2>6, <2>7, OneStamp
<1> QED BY <1>6, <1>7

\* An interval only grows (DeviceCodeStore.slow_down).
LEMMA SlowDownKeeps ==
    ASSUME IInv, NEW p \in Proc, SlowDown(p)
    PROVE  IInv'
<1> DEFINE q == poll[p]
<1> DEFINE d == q.device
<1>0. Types /\ q \in Asking /\ q.at = "slow" BY DEF IInv, Types, SlowDown
<1>1. d \in Device /\ q.row \in Code /\ q.row.interval >= Interval
  BY <1>0 DEF IInv, PollSound
<1>2. /\ poll' \in [Proc -> Asking] /\ poll'[p] = Idle
      /\ \A r \in Proc : r # p => poll'[r] = poll[r]
  BY <1>0, Constants, BecomeType DEF SlowDown
<1>3. UNCHANGED <<now, reserved, held, tab, grant, history>> BY DEF SlowDown
<1>4. poll'[p].at = "idle" BY <1>2 DEF Idle
<1>5. PollSound(p)' BY <1>4 DEF PollSound
<1>6. CASE ~Row(d)
  <2>1. code' = code BY <1>6 DEF SlowDown
  <2>2. Types' BY <1>0, <1>2, <1>3, <2>1 DEF Types
  <2> QED BY <1>2, <1>3, <1>4, <1>5, <2>1, <2>2, OneStamp DEF KeptRow, Final, history
<1>7. CASE Row(d)
  <2> DEFINE i == q.row.interval + SlowDownStep
             s == [code[d] EXCEPT !.interval = i]
  <2>1. code' = [code EXCEPT ![d] = s] BY <1>0, <1>7 DEF SlowDown, Types
  <2>2. code[d] \in Code /\ code[d] # Gone BY <1>0, <1>1, <1>7, RowIsCode DEF Row, Gone
  <2>3. q.row.interval \in Nat BY <1>1 DEF Code
  <2>4. i \in Nat /\ i >= Interval BY <1>1, <2>3, ParameterTypes DEF SlowDownStep
  <2> HIDE DEF i
  <2>5. /\ s \in Code /\ s.status = code[d].status /\ s.user = code[d].user
        /\ s.scopes = code[d].scopes /\ s.userCode = code[d].userCode
        /\ s.expires = code[d].expires /\ s.interval = i
    BY <2>2, <2>4 DEF Code
  <2> HIDE DEF s, d, q
  <2>6. /\ code' \in [Device -> {Unminted, Gone} \cup Code] /\ code'[d] = s
        /\ \A e \in Device : e # d => code'[e] = code[e]
    BY <1>0, <1>1, <2>1, <2>5, FileType
  <2>7. Types' BY <1>0, <1>2, <1>3, <2>6 DEF Types
  <2>8. \A e \in Device : KeptRow(e) BY <1>7, <2>4, <2>5, <2>6 DEF KeptRow
  <2>9. Final BY <1>3, <2>2, <2>6 DEF Final, history
  <2> QED BY <1>2, <1>3, <1>4, <1>5, <2>7, <2>8, <2>9, OneStamp
<1> QED BY <1>6, <1>7

\* Who deletes the row is the only one to have found it there.
LEMMA ConsumeKeeps ==
    ASSUME IInv, NEW p \in Proc, Consume(p)
    PROVE  IInv'
<1> DEFINE q == poll[p]
<1> DEFINE d == q.device
<1>0. Types /\ q \in Asking /\ q.at = "consume" BY DEF IInv, Types, Consume
<1>1. d \in Device /\ RowSound(d) BY <1>0 DEF IInv, PollSound
<1>2. UNCHANGED <<now, reserved, held, tab, grant, history>> BY DEF Consume
<1>i. Idle \in Asking /\ Idle.at = "idle" BY Constants DEF Idle
<1>3. CASE ~(Row(d) /\ code[d].status # "pending" /\ code[d].expires > q.moment)
  <2>1. code' = code /\ Become(p, Idle) BY <1>3 DEF Consume
  <2>2. /\ poll' \in [Proc -> Asking] /\ poll'[p] = Idle
        /\ \A r \in Proc : r # p => poll'[r] = poll[r]
    BY <1>0, <1>i, <2>1, BecomeType
  <2>3. PollSound(p)' BY <1>i, <2>2 DEF PollSound
  <2>4. Types' BY <1>0, <1>2, <2>1, <2>2 DEF Types
  <2> QED BY <1>2, <1>i, <2>1, <2>2, <2>3, <2>4, OnePoll
<1>4. CASE Row(d) /\ code[d].status # "pending" /\ code[d].expires > q.moment
  <2>0. code[d] \in Code /\ code[d] # Gone BY <1>0, <1>1, <1>4, RowIsCode DEF Row, Gone
  <2>1. code' = [code EXCEPT ![d] = Gone] BY <1>4 DEF Consume
  <2>2. /\ code' \in [Device -> {Unminted, Gone} \cup Code] /\ code'[d] = Gone
        /\ \A e \in Device : e # d => code'[e] = code[e]
    BY <1>0, <1>1, <2>1, FileType
  <2>3. \A e \in Device : KeptRow(e) BY <2>2 DEF KeptRow
  <2>4. Final BY <1>2, <2>2 DEF Final, history
  <2>5. CASE code[d].status # "approved"
    <3>1. Become(p, Idle) BY <1>4, <2>5 DEF Consume
    <3>2. /\ poll' \in [Proc -> Asking] /\ poll'[p] = Idle
          /\ \A r \in Proc : r # p => poll'[r] = poll[r]
      BY <1>0, <1>i, <3>1, BecomeType
    <3>3. PollSound(p)' BY <1>i, <3>2 DEF PollSound
    <3>4. Types' BY <1>0, <1>2, <2>2, <3>2 DEF Types
    <3> QED BY <1>2, <1>i, <2>3, <2>4, <3>2, <3>3, <3>4, OneStamp
  <2>6. CASE code[d].status = "approved"
    <3> DEFINE n == [q EXCEPT !.at = "open", !.row = code[d]]
    <3>1. n \in Asking BY <1>0, <2>0 DEF Asking
    <3>2. n.at = "open" /\ n.device = d /\ n.row = code[d] BY <1>0 DEF Asking
    <3>3. Become(p, n) BY <1>4, <2>6 DEF Consume
    <3> HIDE DEF n
    <3>4. /\ poll' \in [Proc -> Asking] /\ poll'[p] = n
          /\ \A r \in Proc : r # p => poll'[r] = poll[r]
      BY <1>0, <3>1, <3>3, BecomeType
    <3>5. Types' BY <1>0, <1>2, <2>2, <3>4 DEF Types
    <3>6. shown' = shown /\ denied' = denied /\ reserved' = reserved /\ grant' = grant
          /\ now' = now /\ tab' = tab
      BY <1>2 DEF history
    <3>7. d \notin denied /\ <<d, code[d].user, code[d].scopes>> \in shown
          /\ code[d].interval >= Interval
      BY <1>1, <1>4, <2>6 DEF RowSound
    <3>8. code[d].user \in User BY <1>1, <2>6 DEF RowSound
    <3>9. \A r \in Proc : r # p /\ poll[r].at = "open" => poll[r].device # d
      BY <2>0 DEF IInv, PollSound
    <3>10. \A g \in Grant : grant[g] # Unopened => grant[g].device # d
      BY <2>0 DEF IInv, GrantSound
    <3>11. ASSUME NEW r \in Proc PROVE PollSound(r)'
      <4>1. CASE r = p
        <5>1. \A s \in Proc : poll'[s].at = "open" /\ poll'[s].device = d => s = p
          BY <3>4, <3>9
        <5> HIDE DEF q, d
        <5> QED BY <1>1, <2>0, <2>2, <3>2, <3>4, <3>6, <3>7, <3>8, <3>10, <4>1, <5>1
            DEF PollSound
      <4>2. CASE r # p
        <5>1. PollSound(r) /\ poll'[r] = poll[r] BY <3>4, <4>2 DEF IInv
        <5>2. poll[r].at = "open" =>
                 /\ code'[poll[r].device] = Gone /\ poll[r].device \in Device
                 /\ poll[r].device # d
          BY <2>4, <3>9, <4>2, <5>1 DEF PollSound, Final
        <5>3. \A s \in Proc : poll[r].at = "open" /\ poll'[s].at = "open"
                                  /\ poll'[s].device = poll[r].device => s = r
          BY <3>2, <3>4, <5>1, <5>2 DEF PollSound
        <5> QED BY <3>6, <5>1, <5>2, <5>3 DEF PollSound
      <4> QED BY <4>1, <4>2
    <3>12. now <= now' BY <1>0, <3>6, Constants DEF Types
    <3>13. (\A e \in Device : RowSound(e)') /\ UserCodesNameOneRequest'
      BY <2>3, <3>5, <3>6, <3>12, RowsKept
    <3>14. \A b \in Tab : PageSound(b)' BY <3>6, PageKept
    <3>15. \A g \in Grant : GrantSound(g)' BY <2>4, <3>5, <3>6, GrantKept
    <3> QED BY <3>5, <3>11, <3>13, <3>14, <3>15 DEF IInv
  <2> QED BY <2>5, <2>6
<1> QED BY <1>3, <1>4

\* The grant takes the place of the poll that collected its code.
LEMMA OpenGrantKeeps ==
    ASSUME IInv, NEW p \in Proc, OpenGrant(p)
    PROVE  IInv'
<1> DEFINE q == poll[p]
<1> DEFINE d == q.device
<1>0. Types /\ q \in Asking /\ q.at = "open" BY DEF IInv, Types, OpenGrant
<1>1. /\ d \in Device /\ q.row \in Code /\ code[d] = Gone /\ d \notin denied
      /\ q.row.user \in User /\ <<d, q.row.user, q.row.scopes>> \in shown
      /\ \A r \in Proc : poll[r].at = "open" /\ poll[r].device = d => r = p
      /\ \A g \in Grant : grant[g] # Unopened => grant[g].device # d
  BY <1>0 DEF IInv, PollSound
<1>2. UNCHANGED <<now, code, reserved, held, tab, shown, denied>> BY DEF OpenGrant, history
<1>3. Idle \in Asking /\ Idle.at = "idle" BY Constants DEF Idle
<1>4. /\ poll' \in [Proc -> Asking] /\ poll'[p] = Idle
      /\ \A r \in Proc : r # p => poll'[r] = poll[r]
  BY <1>0, <1>3, BecomeType DEF OpenGrant
<1>5. PollSound(p)' BY <1>3, <1>4 DEF PollSound
<1>6. CASE grant' = grant
  <2>1. Types' BY <1>0, <1>2, <1>4, <1>6 DEF Types
  <2>2. now <= now' BY <1>0, <1>2, Constants DEF Types
  <2>3. (\A e \in Device : RowSound(e)') /\ UserCodesNameOneRequest'
    BY <1>2, <2>1, <2>2, RowsKept DEF KeptRow
  <2>4. Final BY <1>2 DEF Final
  <2>5. \A b \in Tab : PageSound(b)' BY <1>2, PageKept
  <2>6. \A g \in Grant : GrantSound(g)' BY <1>2, <1>6, <2>1, <2>4, GrantKept
  <2>7. \A r \in Proc : r # p => PollSound(r)' BY <1>2, <1>3, <1>4, <1>6, <2>1, <2>4, PollKept
  <2> QED BY <1>5, <2>1, <2>3, <2>5, <2>6, <2>7 DEF IInv
<1>7. CASE grant' # grant
  <2> DEFINE n == [device |-> d, user |-> q.row.user, scopes |-> q.row.scopes, live |-> TRUE]
  <2>1. PICK g \in Grant : grant[g] = Unopened /\ grant' = [grant EXCEPT ![g] = n]
    BY <1>7 DEF OpenGrant
  <2>2. q.row.scopes \in SUBSET Scope BY <1>1 DEF Code
  <2>3. /\ n \in Opened /\ n.device = d /\ n.user = q.row.user /\ n.scopes = q.row.scopes
    BY <1>1, <2>2 DEF Opened
  <2> HIDE DEF n, d, q
  <2>4. /\ grant' \in [Grant -> {Unopened} \cup Opened] /\ grant'[g] = n
        /\ \A h \in Grant : h # g => grant'[h] = grant[h]
    BY <1>0, <2>1, <2>3 DEF Types
  <2>5. Types' BY <1>0, <1>2, <1>4, <2>4 DEF Types
  <2>6. now <= now' BY <1>0, <1>2, Constants DEF Types
  <2>7. (\A e \in Device : RowSound(e)') /\ UserCodesNameOneRequest'
    BY <1>2, <2>5, <2>6, RowsKept DEF KeptRow
  <2>8. \A b \in Tab : PageSound(b)' BY <1>2, PageKept
  <2>9. \A h \in Grant : grant'[h] # Unopened /\ grant'[h].device = d => h = g
    BY <1>1, <2>4
  <2>10. ASSUME NEW h \in Grant PROVE GrantSound(h)'
    <3>1. CASE h = g BY <1>1, <1>2, <2>3, <2>4, <2>9, <3>1 DEF GrantSound
    <3>2. CASE h # g
      <4>1. GrantSound(h) /\ grant'[h] = grant[h] BY <2>4, <3>2 DEF IInv
      <4>2. grant[h] # Unopened => grant[h].device # d BY <1>1
      <4>3. grant[h] # Unopened =>
               \A k \in Grant : grant'[k] # Unopened /\ grant'[k].device = grant[h].device
                                   => k = h
        BY <2>3, <2>4, <4>1, <4>2 DEF GrantSound
      <4> QED BY <1>2, <4>1, <4>3 DEF GrantSound
    <3> QED BY <3>1, <3>2
  <2>11. ASSUME NEW r \in Proc, r # p PROVE PollSound(r)'
    <3>1. PollSound(r) /\ poll'[r] = poll[r] BY <1>4, <2>11 DEF IInv
    <3>2. poll[r].at = "open" => poll[r].device # d BY <1>1, <2>11
    <3>3. poll[r].at = "open" =>
             \A k \in Grant : grant'[k] # Unopened => grant'[k].device # poll[r].device
      BY <2>3, <2>4, <3>1, <3>2 DEF PollSound
    <3>4. poll[r].at = "open" =>
             \A s \in Proc : poll'[s].at = "open" /\ poll'[s].device = poll[r].device => s = r
      BY <1>3, <1>4, <3>1 DEF PollSound
    <3> QED BY <1>2, <3>1, <3>3, <3>4 DEF PollSound
  <2> QED BY <1>5, <2>5, <2>7, <2>8, <2>10, <2>11 DEF IInv
<1> QED BY <1>6, <1>7

\* Signing out ends grants and makes none.
LEMMA EndSessionsKeeps ==
    ASSUME IInv, NEW u \in User, EndSessions(u)
    PROVE  IInv'
<1>0. Types BY DEF IInv
<1>1. UNCHANGED <<now, code, reserved, held, tab, poll, shown, denied>> BY DEF EndSessions
<1>2. ASSUME NEW g \in Grant
      PROVE  /\ grant'[g] \in {Unopened} \cup Opened
             /\ grant[g] # Unopened <=> grant'[g] # Unopened
             /\ grant[g] # Unopened => /\ grant'[g].device = grant[g].device
                                       /\ grant'[g].user = grant[g].user
                                       /\ grant'[g].scopes = grant[g].scopes
  <2>1. grant'[g] = IF grant[g].live /\ grant[g].user = u
                    THEN [grant[g] EXCEPT !.live = FALSE] ELSE grant[g]
    BY DEF EndSessions
  <2>2. grant[g] \in {Unopened} \cup Opened BY <1>0 DEF Types
  <2>3. CASE ~(grant[g].live /\ grant[g].user = u) BY <2>1, <2>2, <2>3
  <2>4. CASE grant[g].live /\ grant[g].user = u
    <3>1. grant[g] \in Opened /\ grant[g] # Unopened BY <2>2, <2>4 DEF Unopened
    <3> DEFINE n == [grant[g] EXCEPT !.live = FALSE]
    <3>2. /\ n \in Opened /\ n.device = grant[g].device /\ n.user = grant[g].user
          /\ n.scopes = grant[g].scopes
      BY <3>1 DEF Opened
    <3>3. n # Unopened
      <4>1. "device" \in DOMAIN n BY <3>1 DEF Opened
      <4>2. "device" \notin DOMAIN Unopened BY DEF Unopened
      <4> QED BY <4>1, <4>2
    <3>4. grant'[g] = n BY <2>1, <2>4
    <3> HIDE DEF n
    <3> QED BY <3>1, <3>2, <3>3, <3>4
  <2> QED BY <2>3, <2>4
<1>3. grant' \in [Grant -> {Unopened} \cup Opened]
  <2>1. grant' = [g \in Grant |-> grant'[g]] BY DEF EndSessions
  <2> QED BY <1>2, <2>1
<1>4. Types' BY <1>0, <1>1, <1>3 DEF Types
<1>5. now <= now' BY <1>0, <1>1, Constants DEF Types
<1>6. (\A e \in Device : RowSound(e)') /\ UserCodesNameOneRequest'
  BY <1>1, <1>4, <1>5, RowsKept DEF KeptRow
<1>7. \A b \in Tab : PageSound(b)' BY <1>1, PageKept
<1>8. ASSUME NEW g \in Grant PROVE GrantSound(g)'
  <2>1. GrantSound(g) BY DEF IInv
  <2> QED BY <1>1, <1>2, <2>1 DEF GrantSound
<1>9. ASSUME NEW p \in Proc PROVE PollSound(p)'
  <2>1. PollSound(p) BY DEF IInv
  <2> QED BY <1>1, <1>2, <2>1 DEF PollSound
<1> QED BY <1>4, <1>6, <1>7, <1>8, <1>9 DEF IInv

\* An expired row goes without having been collected.
LEMMA ReclaimKeeps ==
    ASSUME IInv, NEW d \in Device, Reclaim(d)
    PROVE  IInv'
<1>0. Types BY DEF IInv
<1>1. UNCHANGED <<now, reserved, held, tab, poll, grant, shown, denied>>
  BY DEF Reclaim, history
<1>2. code' = [code EXCEPT ![d] = Gone] BY DEF Reclaim
<1>3. /\ code' \in [Device -> {Unminted, Gone} \cup Code] /\ code'[d] = Gone
      /\ \A e \in Device : e # d => code'[e] = code[e]
  BY <1>0, <1>2, FileType
<1>4. Types' BY <1>0, <1>1, <1>3 DEF Types
<1>5. now <= now' BY <1>0, <1>1, Constants DEF Types
<1>6. \A e \in Device : KeptRow(e) BY <1>3 DEF KeptRow
<1>7. (\A e \in Device : RowSound(e)') /\ UserCodesNameOneRequest'
  BY <1>1, <1>4, <1>5, <1>6, RowsKept
<1>8. Final BY <1>1, <1>3 DEF Final
<1>9. \A b \in Tab : PageSound(b)' BY <1>1, PageKept
<1>10. \A g \in Grant : GrantSound(g)' BY <1>1, <1>4, <1>8, GrantKept
<1>11. \A p \in Proc : PollSound(p)' BY <1>1, <1>4, <1>8, PollsIdle
<1> QED BY <1>4, <1>7, <1>9, <1>10, <1>11 DEF IInv

-----------------------------------------------------------------------------
(* The theorems.                                                           *)

\* Nothing has been started.
LEMMA InitIInv == Init => IInv
<1> SUFFICES ASSUME Init PROVE IInv
  OBVIOUS
<1>1. Types
  <2>1. reserved \in [UserCode -> Int] BY DEF Init
  <2>2. held \in [User -> SUBSET Scope] BY DEF Init
  <2> QED BY <2>1, <2>2, Constants DEF Init, Types
<1>2. \A d \in Device : RowSound(d) BY DEF Init, RowSound, Row, Unminted
<1>3. \A b \in Tab : PageSound(b) BY DEF Init, PageSound, Closed
<1>4. \A p \in Proc : PollSound(p) BY DEF Init, PollSound, Idle
<1>5. \A g \in Grant : GrantSound(g) BY DEF Init, GrantSound
<1>6. UserCodesNameOneRequest
  BY DEF Init, UserCodesNameOneRequest, Unexpired, Row, Unminted
<1> QED BY <1>1, <1>2, <1>3, <1>4, <1>5, <1>6 DEF IInv

\* Every step keeps the invariant.
LEMMA NextIInv == IInv /\ [Next]_vars => IInv'
<1> SUFFICES ASSUME IInv, [Next]_vars PROVE IInv'
  OBVIOUS
<1>1. CASE Tick BY <1>1, TickKeeps
<1>2. ASSUME NEW d \in Device, NEW c \in UserCode, NEW S \in SUBSET Scope, Start(d, c, S)
      PROVE  IInv'
  BY <1>2, StartKeeps
<1>3. ASSUME NEW u \in User, EndSessions(u) PROVE IInv' BY <1>3, EndSessionsKeeps
<1>4. ASSUME NEW u \in User, NEW S \in SUBSET Scope, Reassign(u, S) PROVE IInv'
  BY <1>4, ReassignKeeps
<1>5. ASSUME NEW b \in Tab, NEW u \in User, NEW c \in UserCode, View(b, u, c) PROVE IInv'
  BY <1>5, ViewKeeps
<1>6. ASSUME NEW b \in Tab, NEW allow \in BOOLEAN, Submit(b, allow) PROVE IInv'
  BY <1>6, SubmitKeeps
<1>7. ASSUME NEW b \in Tab, Decide(b) PROVE IInv' BY <1>7, DecideKeeps
<1>8. ASSUME NEW p \in Proc, NEW d \in Device, Poll(p, d) PROVE IInv' BY <1>8, PollKeeps
<1>9. ASSUME NEW p \in Proc,
             ReadCode(p) \/ RecordPoll(p) \/ SlowDown(p) \/ Consume(p) \/ OpenGrant(p)
      PROVE  IInv'
  BY <1>9, ReadCodeKeeps, RecordPollKeeps, SlowDownKeeps, ConsumeKeeps, OpenGrantKeeps
<1>10. ASSUME NEW d \in Device, Reclaim(d) PROVE IInv' BY <1>10, ReclaimKeeps
<1>11. CASE UNCHANGED vars
  <2>0. UNCHANGED <<now, code, reserved, held, tab, poll, grant, shown, denied>>
    BY <1>11 DEF vars, history
  <2>1. Types /\ Types' BY <2>0 DEF IInv, Types
  <2>2. now <= now' BY <2>0, <2>1, Constants DEF Types
  <2>3. (\A d \in Device : RowSound(d)') /\ UserCodesNameOneRequest'
    BY <2>0, <2>1, <2>2, RowsKept DEF KeptRow
  <2>4. Final BY <2>0 DEF Final
  <2>5. \A b \in Tab : PageSound(b)' BY <2>0, PageKept
  <2>6. \A g \in Grant : GrantSound(g)' BY <2>0, <2>1, <2>4, GrantKept
  <2>7. \A p \in Proc : PollSound(p)' BY <2>0, <2>1, <2>4, PollsIdle
  <2> QED BY <2>1, <2>3, <2>5, <2>6, <2>7 DEF IInv
<1> QED BY <1>1, <1>2, <1>3, <1>4, <1>5, <1>6, <1>7, <1>8, <1>9, <1>10, <1>11 DEF Next

\* So it holds in every reachable state.
LEMMA Inductive == Spec => []IInv
BY InitIInv, NextIInv, PTL DEF Spec

\* Every reachable state of the tables, the pages and the polls is well typed
\* (device_grant_storage.DeviceCodeRecord).
THEOREM TypeCorrect == Spec => []TypeOK
<1>1. IInv => TypeOK BY TypesSuffice DEF IInv
<1> QED BY <1>1, Inductive, PTL

\* However many polls present a device code at once, it opens one grant
\* (DeviceCodeStore.consume, DeviceGrantService._open_grant).
THEOREM CollectedOnce == Spec => []CodesAreCollectedOnce
<1>1. IInv => CodesAreCollectedOnce
  BY DEF IInv, GrantSound, CodesAreCollectedOnce
<1> QED BY <1>1, Inductive, PTL

\* A grant holds what an approval page showed its person for that request
\* (DeviceGrantService.approval_signature, device_approve).
THEOREM HoldsWhatWasShown == Spec => []ApprovedAsShown
<1>1. IInv => ApprovedAsShown BY DEF IInv, GrantSound, ApprovedAsShown
<1> QED BY <1>1, Inductive, PTL

\* A request somebody denied opens no grant, whatever another tab decides
\* (DeviceCodeStore.decide).
THEOREM DeniedForGood == Spec => []DenialsStand
<1>1. IInv => DenialsStand BY DEF IInv, GrantSound, DenialsStand
<1> QED BY <1>1, Inductive, PTL

\* A user code names at most one live request, however few user codes there are
\* (DynamoDeviceCodeStore.put).
THEOREM OneRequest == Spec => []UserCodesNameOneRequest
<1>1. IInv => UserCodesNameOneRequest BY DEF IInv
<1> QED BY <1>1, Inductive, PTL

\* Two polls are answered an interval apart at least, though both may have read
\* the row before either stamped it (DeviceCodeStore.record_poll, slow_down).
THEOREM Paced == Spec => PaceIsKept
<1>1. IInv /\ [Next]_vars =>
        [\A d \in Device :
            Row(d) /\ code'[d].status = code[d].status /\ code'[d].polledAt # code[d].polledAt =>
                code'[d].polledAt >= code[d].polledAt + Interval]_vars
  <2> SUFFICES ASSUME IInv, Next, NEW d \in Device, Row(d),
                      code'[d].status = code[d].status, code'[d].polledAt # code[d].polledAt
               PROVE  code'[d].polledAt >= code[d].polledAt + Interval
    OBVIOUS
  <2>0. Types /\ code[d] \in Code /\ code[d].status \in {"pending", "approved", "denied"}
    BY RowIsCode DEF IInv, Row
  <2>1. code' # code /\ code'[d] # Gone BY <2>0 DEF Gone
  <2>2. ASSUME NEW e \in Device, NEW c \in UserCode, NEW S \in SUBSET Scope, Start(e, c, S)
        PROVE  FALSE
    BY <2>0, <2>2 DEF Start, Types, Unminted
  <2>3. ASSUME NEW b \in Tab, Decide(b) PROVE FALSE
    <3>1. code[tab[b].device].status = "pending" /\ Decided(tab[b].device, tab[b])
      BY <2>1, <2>3 DEF Decide
    <3>2. tab[b].device \in Device BY <2>3 DEF IInv, PageSound, Decide
    <3>3. tab[b].device = d BY <2>0, <3>1, <3>2 DEF Decided, Types
    <3>4. code'[d].status \in {"approved", "denied"} BY <2>0, <3>1, <3>3 DEF Decided, Types, Code
    <3> QED BY <3>1, <3>3, <3>4
  <2>4. ASSUME NEW p \in Proc, RecordPoll(p)
        PROVE  code'[d].polledAt >= code[d].polledAt + Interval
    <3> DEFINE q == poll[p]
    <3>1. /\ Row(q.device) /\ code[q.device].polledAt <= q.moment - q.row.interval
          /\ code' = [code EXCEPT ![q.device].polledAt = q.moment]
      BY <2>1, <2>4 DEF RecordPoll
    <3>2. q.device \in Device /\ q.row \in Code /\ q.row.interval >= Interval
      BY <2>4 DEF IInv, PollSound, RecordPoll
    <3>3. q.device = d BY <2>0, <3>1, <3>2 DEF Types
    <3>4. code'[d].polledAt = q.moment BY <2>0, <3>1, <3>3 DEF Types, Code
    <3>5. q.moment \in Time /\ code[d].polledAt \in Time \cup {LongAgo} /\ q.row.interval \in Nat
      <4>1. q \in Asking BY <2>0 DEF Types
      <4> QED BY <2>0, <3>2, <4>1 DEF Asking, Code
    <3>6. q.moment \in Int /\ code[d].polledAt \in Int /\ q.row.interval \in Int
      <4> HIDE DEF q
      <4>1. q.moment \in Int BY <3>5, Constants
      <4>2. code[d].polledAt \in Int BY <3>5, Constants
      <4> QED BY <3>5, <4>1, <4>2
    <3> HIDE DEF q
    <3> QED BY <3>1, <3>2, <3>3, <3>4, <3>6, ParameterTypes
  <2>5. ASSUME NEW p \in Proc, SlowDown(p) PROVE FALSE
    <3>1. /\ Row(poll[p].device)
          /\ code' = [code EXCEPT ![poll[p].device].interval = poll[p].row.interval + SlowDownStep]
      BY <2>1, <2>5 DEF SlowDown
    <3>2. code'[d].polledAt = code[d].polledAt BY <2>0, <3>1 DEF Types, Code
    <3> QED BY <3>2
  <2>6. ASSUME NEW p \in Proc, Consume(p) PROVE FALSE
    BY <2>0, <2>1, <2>6 DEF Consume, Types
  <2>7. ASSUME NEW e \in Device, Reclaim(e) PROVE FALSE
    BY <2>0, <2>1, <2>7 DEF Reclaim, Types
  <2>8. ASSUME \/ Tick
               \/ \E u \in User : EndSessions(u) \/ \E S \in SUBSET Scope : Reassign(u, S)
               \/ \E b \in Tab : \/ \E u \in User, c \in UserCode : View(b, u, c)
                                 \/ \E allow \in BOOLEAN : Submit(b, allow)
               \/ \E p \in Proc : \/ \E e \in Device : Poll(p, e)
                                  \/ ReadCode(p) \/ OpenGrant(p)
        PROVE  FALSE
    BY <2>1, <2>8 DEF Tick, EndSessions, Reassign, View, Submit, Poll, ReadCode, OpenGrant
  <2> QED BY <2>2, <2>3, <2>4, <2>5, <2>6, <2>7, <2>8 DEF Next
<1> QED BY <1>1, Inductive, PTL DEF Spec, PaceIsKept

=============================================================================
