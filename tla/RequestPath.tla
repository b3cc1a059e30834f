----------------------------- MODULE RequestPath -----------------------------
(***************************************************************************)
(* http.py: how an application's middleware stack is assembled, and how a  *)
(* response or an exception travels out through it; and, at the end, what  *)
(* a client does with the answers: it polls a document with If-None-Match  *)
(* and walks a list with signed cursors.                                   *)
(*                                                                         *)
(* A stack is a sequence of layers, outermost first; position 0 is the     *)
(* server and the route is beneath the last. "product" is a middleware of  *)
(* the service's own, built like "requestId" on BaseHTTPMiddleware: it     *)
(* runs what is inside it in a task group, so an exception may leave it in *)
(* a group, beside one of its own, and it may fail once a response has     *)
(* reached it.  Starlette, the instrumentor and the server are other code. *)
(***************************************************************************)
EXTENDS Integers, Sequences, SequencesExt, FiniteSets

CONSTANTS
  HttpRequests,       \* requests one worker serves at once
  Raisable,           \* what a route or a middleware raises, of Kinds
  MaxProducts,        \* bound: middleware of the service's own
  MaxRaised,          \* bound: exceptions of one request
  MaxVersions,        \* bound: versions of the polled document
  ListItems           \* the list the pages are of: 1 .. ListItems

\* Exceptions with a handler, by the status it renders; "broken" is one whose
\* handler fails, "fault" one without, "cancel" a cancellation.
DynamoStatus ==
  [k \in {"ItemNotFound", "ConditionFailed", "UnprocessedItems", "TransactionCanceled", "TransactionConflict"} |->
     CASE k = "ItemNotFound" -> 404 [] k \in {"ConditionFailed", "TransactionConflict"} -> 409
       [] k = "UnprocessedItems" -> 503 [] OTHER -> 500]
ClientErrorStatus ==
  [k \in {"ConditionalCheck", "Throttled", "NoTable", "CanceledByCondition", "Canceled", "OtherClientError"} |->
     CASE k \in {"ConditionalCheck", "CanceledByCondition"} -> 409 [] k = "Throttled" -> 503 [] OTHER -> 500]
Kinds == DOMAIN DynamoStatus \cup DOMAIN ClientErrorStatus \cup {"http", "invalid", "mapped", "broken", "fault", "cancel"}
HandlerFor(kind) == CASE kind \in DOMAIN DynamoStatus -> DynamoStatus[kind]
                      [] kind \in DOMAIN ClientErrorStatus -> ClientErrorStatus[kind]
                      [] kind = "http" -> 403 [] kind = "invalid" -> 422 [] kind = "mapped" -> 418
                      [] OTHER -> 0

ASSUME HttpAssumption == Raisable \subseteq Kinds /\ ListItems \in Nat

VARIABLES
  app,          \* the application: its middleware, what wraps its stack's builder, and the stack once built
  worker,       \* the process is up
  wire,         \* HttpRequests -> the request
  poll,         \* a polled document and the client's copy of it
  pager          \* a client walking a list

httpVars == <<app, worker, wire, poll, pager>>

NoTag == -1
AnyTag == -2          \* If-None-Match: *
NoCursor == [after |-> 0, signed |-> <<>>, dotted |-> FALSE]
NoError == [group |-> FALSE, leaves |-> <<>>]
Unsent == [at |-> "idle", layer |-> 0, error |-> NoError, seen |-> 0, status |-> 0, by |-> "", cors |-> FALSE, starts |-> 0,
           line |-> 0, escaped |-> NoError, raised |-> 0, kinds |-> {}, above |-> FALSE, lone |-> FALSE]

HttpInit ==
  /\ app = [made |-> "no", user |-> <<>>, wraps |-> <<>>, guarded |-> FALSE, built |-> <<>>]
  /\ worker = TRUE /\ wire = [q \in HttpRequests |-> Unsent]
  /\ poll = [version |-> 0, at |-> "idle", read |-> 0, copy |-> -1, tag |-> NoTag, told |-> -1, starred |-> FALSE]
  /\ pager = [items |-> 1 .. ListItems, got |-> <<>>, cursor |-> NoCursor, key |-> 1, at |-> "pages"]

-------------------------------------------------------------------------------
(* Assembly.                                                               *)

Mutable == app.built = <<>>

\* create_app: the request log innermost, then the request id, then CORS where
\* there are origins to allow; the guard last.
CreateApp(log, instrument, origins) ==
  /\ app.made = "no"
  /\ app' = [app EXCEPT !.made = IF origins THEN "with_origins" ELSE "create_app",
                        !.user = (IF origins THEN <<"cors", "requestId">> ELSE <<"requestId">>) \o
                                 (IF log THEN <<"log">> ELSE <<>>),
                        !.wraps = (IF instrument THEN <<"otel">> ELSE <<>>) \o <<"guard">>, !.guarded = TRUE]

\* An application put together without it.
BareApp == app.made = "no" /\ app' = [app EXCEPT !.made = "bare"]

\* Starlette puts the newest middleware outermost.
AddMiddleware ==
  /\ app.made # "no" /\ Mutable /\ Len(SelectSeq(app.user, LAMBDA l : l = "product")) < MaxProducts
  /\ app' = [app EXCEPT !.user = <<"product">> \o @]

Instrument ==
  /\ app.made # "no" /\ Mutable /\ "otel" \notin ToSet(app.wraps)
  /\ app' = [app EXCEPT !.wraps = Append(@, "otel")]

\* _guard_beneath_server_errors: under the innermost ServerErrorMiddleware, and
\* nothing where a guard is already.
Positions(stack, name) == {i \in DOMAIN stack : stack[i] = name}
GuardBeneath(stack) ==
  LET errors == Positions(stack, "serverError") IN
  IF "guard" \in ToSet(stack) THEN stack
  ELSE IF errors = {} THEN <<"guard">> \o stack
  ELSE InsertAt(stack, 1 + (CHOOSE i \in errors : \A j \in errors : i >= j), "guard")

\* The instrumentor wants a ServerErrorMiddleware on top, and leaves one of its own there.
Instrumented(stack) == IF Head(stack) = "serverError" THEN <<"serverError", "otel">> \o stack ELSE stack

\* What wraps the builder works on what it built, the first first: an application is
\* guarded once and instrumented once.
WrappedBy(stack, wraps, i) ==
  IF i \notin DOMAIN wraps THEN stack ELSE IF wraps[i] = "guard" THEN GuardBeneath(stack) ELSE Instrumented(stack)
Wrapped(stack, wraps) == WrappedBy(WrappedBy(stack, wraps, 1), wraps, 2)

\* guard_exception_groups, which may come before or after the application has
\* started, between its requests.
GuardExceptionGroups ==
  /\ app.made # "no" /\ ~app.guarded
  /\ app' = [app EXCEPT !.guarded = TRUE, !.wraps = Append(@, "guard"),
                        !.built = IF Mutable THEN @ ELSE GuardBeneath(@)]
  /\ \A q \in HttpRequests : wire[q].at = "idle"

BuildStack ==
  /\ app.made # "no" /\ Mutable
  /\ app' = [app EXCEPT !.built = Wrapped(<<"serverError">> \o app.user \o <<"handlers">>, app.wraps)]

Assembling ==
  /\ \/ \E log, instrument, origins \in BOOLEAN : CreateApp(log, instrument, origins)
     \/ BareApp \/ AddMiddleware \/ Instrument \/ GuardExceptionGroups \/ BuildStack
  /\ UNCHANGED <<worker, wire, poll, pager>>

-------------------------------------------------------------------------------
(* One request.  "seen" is the outermost layer a response has started at.  *)

Stack == app.built
Bottom == Len(Stack) + 1
Grouping(l) == Stack[l] \in {"product", "requestId"}
Now(q, where) == worker /\ wire[q].at = where
RequestIs(q, record) == wire' = [wire EXCEPT ![q] = record]
Plain(kind) == [group |-> FALSE, leaves |-> <<kind>>]
OnlyCancelled(error) == ToSet(error.leaves) = {"cancel"}
IsException(error) == "cancel" \notin ToSet(error.leaves)

Arrive(q) ==
  /\ Now(q, "idle") /\ ~Mutable
  /\ RequestIs(q, [wire[q] EXCEPT !.at = "inside", !.seen = Bottom])

\* Something fails at layer l: the route, or a middleware around what is inside it.
Fails(q, l, error) ==
  [wire[q] EXCEPT !.at = "failing", !.layer = l - 1, !.error = error, !.raised = @ + 1,
                  !.above = @ \/ l # Bottom, !.kinds = @ \cup ToSet(error.leaves)]

\* A response starts under layer l, on its way to the server.
Responds(r, l, status, who) == [r EXCEPT !.at = "rising", !.layer = l, !.status = status, !.by = who, !.cors = FALSE, !.error = NoError]

RouteAnswers(q) == Now(q, "inside") /\ RequestIs(q, Responds(wire[q], Len(Stack), 200, "route"))

\* The route raises, before or while its response streams; some of what it raises
\* comes from task groups of its own.
RouteRaises(q) ==
  /\ Now(q, "inside") \/ (Now(q, "streaming") /\ wire[q].by = "route")
  /\ wire[q].raised < MaxRaised
  /\ \E kind, other \in Raisable :
       \E error \in {Plain(kind), [group |-> TRUE, leaves |-> <<kind>>], [group |-> TRUE, leaves |-> <<kind, other>>]} :
         RequestIs(q, Fails(q, Bottom, error))

\* A middleware fails with a response in its hands, or before it calls inwards.
MiddlewareRaises(q) ==
  /\ wire[q].raised < MaxRaised
  /\ \E l \in DOMAIN Stack, kind \in Raisable :
       /\ Stack[l] = "product" /\ (Now(q, "inside") \/ (Now(q, "rising") /\ wire[q].layer = l))
       /\ RequestIs(q, Fails(q, l, Plain(kind)))

\* The response passes layer l, which may add its headers to it.
Rise(q) ==
  /\ Now(q, "rising")
  /\ LET r == wire[q] l == r.layer IN
     RequestIs(q, IF l = 0 THEN [r EXCEPT !.at = "streaming", !.seen = 0, !.starts = @ + 1]
                ELSE [r EXCEPT !.layer = l - 1, !.seen = l, !.cors = @ \/ Stack[l] = "cors"])

\* The body is complete.  What escapes the worker with it was raised again on purpose.
BodyEnds(q) ==
  /\ Now(q, "streaming")
  /\ RequestIs(q, [wire[q] EXCEPT !.at = "done",
                    !.line = IF @ = 0 /\ "log" \in ToSet(Stack) /\ wire[q].by \in {"route", "handlers"} THEN wire[q].status ELSE @])

\* The leaf a group is reported as.
PrimaryLeaf(error) ==
  LET faults == {i \in DOMAIN error.leaves : error.leaves[i] # "cancel"} IN
  error.leaves[CHOOSE i \in faults : \A j \in faults : i <= j]

\* The status the registered handler renders, and 500 when there is none or it fails.
Rendered(kind) == IF HandlerFor(kind) = 0 THEN 500 ELSE HandlerFor(kind)

Climb(r) == [r EXCEPT !.layer = @ - 1]
Started(r) == r.seen <= r.layer

\* Starlette's handlers see a plain exception only, and cannot answer twice.
HandlersCatch(r) ==
  LET kind == Head(r.error.leaves) IN
  IF r.error.group \/ kind \in {"fault", "cancel"} THEN {Climb(r)}
  ELSE IF kind = "broken" \/ Started(r) THEN {[Climb(r) EXCEPT !.error = Plain("fault"), !.above = TRUE]}
  ELSE {Responds(r, r.layer - 1, HandlerFor(kind), "handlers")}

\* The request log writes its line for an Exception, and passes it on.
LogSees(r) ==
  {[Climb(r) EXCEPT !.line = IF ~IsException(r.error) THEN @ ELSE IF Started(r) THEN r.status ELSE 500]}

\* A task group collapses a group of one, and may add a failure of its own beside.
TaskGroup(r) ==
  {[Climb(r) EXCEPT !.error = [group |-> Len(r.error.leaves) > 1, leaves |-> r.error.leaves],
                    !.lone = @ \/ (r.error.group /\ Len(r.error.leaves) = 1)]} \cup
  (IF Len(r.error.leaves) > 1 \/ r.raised >= MaxRaised THEN {}
   ELSE {[Climb(r) EXCEPT !.error = [group |-> TRUE, leaves |-> both], !.raised = @ + 1, !.above = TRUE] :
           both \in UNION {{<<kind>> \o r.error.leaves, r.error.leaves \o <<kind>>} : kind \in Raisable}})

\* _handle_group.  The variant leaves a group with a cancellation in it to the
\* layers above.
GuardHandles_exceptionsOnly(r) ==
  IF ~r.error.group \/ ~IsException(r.error) THEN {Climb(r)}
  ELSE IF Started(r) THEN {[Climb(r) EXCEPT !.error = Plain(PrimaryLeaf(r.error))]}
  ELSE {[Responds(r, r.layer - 1, Rendered(PrimaryLeaf(r.error)), "guard") EXCEPT !.cors = "cors" \in ToSet(Stack)]}
GuardHandles(r) ==
  IF ~r.error.group \/ OnlyCancelled(r.error) THEN {Climb(r)}
  ELSE IF Started(r) THEN {[Climb(r) EXCEPT !.error = Plain(PrimaryLeaf(r.error))]}
  ELSE {[Responds(r, r.layer - 1, Rendered(PrimaryLeaf(r.error)), "guard") EXCEPT !.cors = "cors" \in ToSet(Stack)]}

\* ServerErrorMiddleware renders the 500 of any Exception that nothing answered, and
\* raises it again: a plain one ends at the server.
ServerErrors(r) ==
  IF ~IsException(r.error) \/ Started(r) THEN {Climb(r)}
  ELSE {[Responds(r, r.layer - 1, 500, "serverError") EXCEPT !.escaped = r.error]}

Catches(r) ==
  CASE Stack[r.layer] = "handlers" -> HandlersCatch(r)
    [] Stack[r.layer] = "log" -> LogSees(r)
    [] Stack[r.layer] = "guard" -> GuardHandles(r)
    [] Stack[r.layer] = "serverError" -> ServerErrors(r)
    [] Grouping(r.layer) -> TaskGroup(r)
    [] OTHER -> {Climb(r)}

Propagate(q) ==
  /\ Now(q, "failing") /\ wire[q].layer > 0
  /\ \E next \in Catches(wire[q]) : RequestIs(q, next)
  /\ UNCHANGED worker

\* An exception reaches the server.  A group is what it does not survive.
Escape(q) ==
  /\ \/ Now(q, "failing") /\ wire[q].layer = 0
     \/ (Now(q, "streaming") /\ wire[q].by = "serverError")
  /\ LET error == IF wire[q].at = "failing" THEN wire[q].error ELSE wire[q].escaped IN
     /\ RequestIs(q, [wire[q] EXCEPT !.at = "done", !.escaped = error])
     /\ worker' = (~error.group \/ OnlyCancelled(error))

Serving ==
  /\ \E q \in HttpRequests :
       \/ (Arrive(q) \/ RouteAnswers(q) \/ RouteRaises(q) \/ MiddlewareRaises(q) \/ Rise(q)) /\ UNCHANGED worker
       \/ Propagate(q)
       \/ BodyEnds(q) /\ wire[q].by # "serverError" /\ UNCHANGED worker
       \/ Escape(q)
  /\ UNCHANGED <<app, poll, pager>>

-------------------------------------------------------------------------------
(* A polled document: the version is read before the payload is.           *)

Changes == poll.version < MaxVersions /\ poll' = [poll EXCEPT !.version = @ + 1]

\* etag_matches: weak comparison with the tags a client sends; no header matches
\* nothing, and "*" matches every tag.
EtagMatches(held, tag) == tag \in held \/ AnyTag \in held

\* not_modified_response, before anything is loaded.  A client need not send its
\* tag, and may send "*", whatever copy it has.
AskForChanges ==
  /\ poll.at = "idle"
  /\ \E held \in {{}, {poll.tag} \ {NoTag}, {AnyTag}} :
       poll' = IF EtagMatches(held, poll.version)
               THEN [poll EXCEPT !.told = poll.version, !.starred = AnyTag \in held]
               ELSE [poll EXCEPT !.at = "loading", !.read = poll.version]

\* conditional_response: the payload as it now is, under the tag of that version.
ConditionalResponse ==
  /\ poll.at = "loading"
  /\ poll' = [poll EXCEPT !.at = "idle", !.copy = poll.version, !.tag = poll.read]

(* A list read page by page.                                               *)

\* encode_cursor signs the position under the key, and writes the raw signature
\* behind a ".".  decode_cursor splits at the last "." there is: it takes a cursor
\* signed for that position under the key of today, unless a byte of the signature
\* is a "." itself, and what is behind that one is too short to be a signature.
EncodeCursor(after, key, dotted) == [after |-> after, signed |-> <<after, key>>, dotted |-> dotted]
DecodeCursor(cursor, key) == cursor = NoCursor \/ (cursor.signed = <<cursor.after, key>> /\ ~cursor.dotted)

\* One page; next_cursor is there exactly while there may be more, and any bytes may
\* be its signature's.  A cursor that is refused ends the walk, and the client starts
\* again.
FromPage ==
  LET rest == {i \in pager.items : i > pager.cursor.after} IN
  /\ pager.at = "pages"
  /\ \E dotted \in BOOLEAN :
       pager' =
         IF ~DecodeCursor(pager.cursor, pager.key) THEN [pager EXCEPT !.got = <<>>, !.cursor = NoCursor]
         ELSE IF rest = {} THEN [pager EXCEPT !.at = "ended"]
         ELSE LET i == CHOOSE i \in rest : \A j \in rest : i <= j IN
              [pager EXCEPT !.got = Append(@, i), !.cursor = EncodeCursor(i, pager.key, dotted)]

\* A client edits the position it was given; an item goes; the key is rotated.
EditsCursor ==
  /\ pager.at = "pages" /\ pager.cursor # NoCursor
  /\ \E after \in 0 .. ListItems : pager' = [pager EXCEPT !.cursor.after = after]
ItemGoes == \E i \in pager.items : pager' = [pager EXCEPT !.items = @ \ {i}]
KeyRotates == pager.key = 1 /\ pager' = [pager EXCEPT !.key = 2]

ReadingAgain ==
  \/ (Changes \/ AskForChanges \/ ConditionalResponse) /\ UNCHANGED <<app, worker, wire, pager>>
  \/ (FromPage \/ EditsCursor \/ ItemGoes \/ KeyRotates) /\ UNCHANGED <<app, worker, wire, poll>>

HttpNext == Assembling \/ Serving \/ ReadingAgain
HttpSpec == HttpInit /\ [][HttpNext]_httpVars

-------------------------------------------------------------------------------
(* Properties.                                                             *)

\* Whatever order an application is put together in, instrumented before or after:
\* one guard, right beneath a ServerErrorMiddleware with none below it, and above
\* every middleware of the service and of the package.
GuardIsPlaced ==
  (app.guarded /\ ~Mutable) =>
    \E g \in DOMAIN Stack :
      /\ Positions(Stack, "guard") = {g} /\ g > 1 /\ Stack[g - 1] = "serverError"
      /\ \A l \in DOMAIN Stack : Stack[l] \in {"serverError", "otel"} <=> l < g

\* Behind the guard no group with a fault in it reaches the server, which would
\* take every other request with it; and no request is answered twice, or left
\* without an answer unless it was cancelled.
WorkersSurvive == app.guarded => worker
AnsweredOnce ==
  \A q \in HttpRequests :
    /\ wire[q].starts <= 1
    /\ (app.guarded /\ wire[q].at = "done" /\ wire[q].starts = 0) => "cancel" \in ToSet(wire[q].escaped.leaves)

\* ExceptionGroupMiddleware: "a domain exception renders exactly the response it
\* would have rendered unwrapped", alone, in a group, and beside a cancellation.
\* One that a task group takes out of a group of one again, above the handlers,
\* does not: HandlersAnswer leaves that case out.
GroupsRenderAsTheirLeaf ==
  \A q \in HttpRequests :
    (app.guarded /\ wire[q].at = "done" /\ ~wire[q].above /\ wire[q].status = 500) =>
      \E kind \in wire[q].kinds \ {"cancel"} : Rendered(kind) = 500
HandlersAnswer ==
  \A q \in HttpRequests :
    (app.guarded /\ wire[q].at = "done" /\ ~wire[q].above /\ ~wire[q].lone /\ wire[q].status = 500) =>
      \E kind \in wire[q].kinds \ {"cancel"} : Rendered(kind) = 500

\* Where there are origins to allow, an answer the application gave, and the
\* guard's, carry the CORS headers.
BrowsersCanRead ==
  \A q \in HttpRequests :
    (app.made = "with_origins" /\ wire[q].at = "done" /\ wire[q].starts = 1 /\ wire[q].by # "serverError") => wire[q].cors

\* A client told "not modified" of the tag it sent has a copy no older than the
\* document was when it asked; "*" says nothing of what the client has.
NotModifiedIsTrue == ~poll.starred => poll.told <= poll.copy

\* A walk reads items in order and passes over none that is still there, whatever a
\* client does to its cursor.
WalksSkipNothing ==
  \A i \in DOMAIN pager.got :
    /\ \A j \in 1 .. i - 1 : pager.got[j] < pager.got[i]
    /\ \A x \in pager.items : x < pager.got[i] => x \in ToSet(pager.got)

\* What the HTTP layer owes its callers.
RequestsAreAnswered ==
  /\ GuardIsPlaced /\ WorkersSurvive /\ AnsweredOnce /\ HandlersAnswer /\ BrowsersCanRead
  /\ NotModifiedIsTrue /\ WalksSkipNothing

\* decode_cursor: "Read a cursor `encode_cursor` produced".  A cursor that comes back
\* as it was given, under the key it was signed with, is refused where the signature
\* has a "." in it: about one in sixteen.
CursorsAreRead ==
  (pager.cursor # NoCursor /\ pager.cursor.signed = <<pager.cursor.after, pager.key>>) => DecodeCursor(pager.cursor, pager.key)

\* RequestLoggingMiddleware: "Emit one structured log line per HTTP request, after
\* the response is decided."  The guard decides above it, so the line may give
\* another status, or be missing.
TheLineIsTheAnswer ==
  \A q \in HttpRequests :
    (wire[q].at = "done" /\ wire[q].starts = 1 /\ "log" \in ToSet(Stack)) => wire[q].line = wire[q].status
===============================================================================
