------------------------------ MODULE Dispatch ------------------------------
(***************************************************************************)
(* The way of a JSON-RPC message from a transport to a method: over HTTP   *)
(* many requests at once, each a goroutine that takes the lock of the      *)
(* session manager several times; over stdio one message after the other.  *)
(* The handshake of a session (initialize, then initialized) opens it, and *)
(* the capability it negotiated decides on mutating tools.                 *)
(*                                                                         *)
(* `told' is what the client of a session has been told and relies on; it  *)
(* and `reply' are history, and no action of the code depends on them.     *)
(***************************************************************************)
EXTENDS ToolPipeline, SharedMethods

CONSTANTS
    Handlers,       \* the requests that may be in progress at once
    Sessions,       \* the session ids there may be
    NoSession, Unknown, Stdio,  \* no id, an id never issued, the session of stdio
    NoReply,
    Scenarios,      \* the servers and clients to consider
    RequestsOf(_),  \* what the clients of a scenario send, and the catalogs its
    CatalogsOf(_)   \* prompts may be loaded from, both by its menu

\* Ids that name no session are always absent from the table.
Ids == Sessions \cup {NoSession, Unknown, Stdio}

ASSUME IdsAssumption == {NoSession, Unknown, Stdio} \cap Sessions = {}

\* opts, prompts, enabled and allowMutating are the configuration; ready and
\* granted the sessions already open; requests, budget, walks, reloads, expires
\* what the environment may do.
ASSUME ScenarioAssumption ==
    \A sc \in Scenarios :
      /\ sc.transport \in {"http", "stdio"}
      /\ sc.ready \subseteq Sessions
      /\ {sc.granted, sc.allowMutating, sc.enabled, sc.walks, sc.expires} \subseteq BOOLEAN
      /\ sc.budget \in Nat /\ sc.reloads \in Nat
      /\ sc.transport = "stdio" => ~sc.expires

\* A request is a record of its HTTP verb and headers and of its message; `walk'
\* marks those of the client that reads all pages.
IsRequest(r) ==
    r = [verb |-> r.verb, session |-> r.session, header |-> r.header, walk |-> r.walk,
         frame |-> r.frame, arg |-> r.arg]

ASSUME RequestsAssumption ==
    \A sc \in Scenarios : \A r \in RequestsOf(sc.menu) :
      /\ IsRequest(r) /\ ~r.walk
      /\ sc.transport = "stdio" => r.session = Stdio /\ r.verb = "POST"

ASSUME CatalogsAssumption ==
    \A sc \in Scenarios : \A c \in CatalogsOf(sc.menu) : c.prompts \in Seq(Range(c.prompts))

ASSUME RootsAssumption ==
    \A sc \in Scenarios :
      /\ sc.prompts.roots \in Seq(Range(sc.prompts.roots))
      /\ \A root \in Range(sc.prompts.roots) : root.path \in Seq(Range(root.path))

VARIABLES
    scenario,   \* the scenario at hand; never changes
    sess,       \* SessionManager.sessions; for stdio the flags of StdioServer
    issued,     \* the session ids clients know
    job,        \* the requests in progress
    catalog,    \* the prompts served and whether their load had errors
    told,       \* history: what the client knows of its session
    walk,       \* a client that reads all pages of prompts/list
    used,       \* requests sent and reloads done, against their bounds
    reply       \* history: the last answer

vars == <<scenario, sess, issued, job, catalog, told, walk, used, reply>>

-----------------------------------------------------------------------------
(* Requests.                                                               *)

Kind(r) == IF r.verb = "DELETE" THEN "delete" ELSE ParseFrame(r.frame)
Calls(r, methods) == Kind(r) = "request" /\ r.frame.method \in methods
Initializes(r) == Calls(r, {"initialize"})
Completes(r) == Calls(r, {"initialized", "notifications/initialized"})
Notification(r) == Kind(r) = "request" /\ r.frame.id = "absent"

\* Requests that change the session they name.
Changes(r) == Kind(r) = "delete" \/ Initializes(r) \/ Completes(r)

\* A client that walks keeps its session open, and so do the others with it.
ASSUME WalksAssumption ==
    \A sc \in Scenarios : sc.walks =>
      /\ sc.enabled /\ ~sc.expires
      /\ \A r \in RequestsOf(sc.menu) : r.session \in sc.ready => ~Changes(r)

\* HTTP accepts an older version in initialize; stdio does not.
VersionOK(r) == \/ r.arg.version = "current"
                \/ r.arg.version = "legacy" /\ scenario.transport = "http"

\* The header names the current version; an initialize may leave it out.
HeaderOK(r) == r.header \in IF Initializes(r) THEN {"current", "absent"} ELSE {"current"}

\* The answer that needs no look at the sessions, or "".
EarlyAnswer(r) ==
    IF Kind(r) = "parse_error" THEN "parse_error"
    ELSE IF ~HeaderOK(r) THEN "bad_header"
    ELSE IF r.session # NoSession THEN ""
    ELSE IF Kind(r) = "prebuilt" THEN "invalid_request"
    ELSE IF Initializes(r) THEN IF VersionOK(r) THEN "" ELSE "bad_version"
    ELSE "missing_session"

\* An initialized with an id is a request, and no such request exists.
CompletionRefused(r) == r.frame.id # "absent"

\* Mutant: HTTP drops the refusal of a notification, as stdio does.
Answer_Dropped(r, outcome) ==
    IF scenario.transport = "http" /\ outcome = "unknown_session" THEN outcome
    ELSE IF Notification(r) \/ outcome \in {"initialized_ok", "one_way"} THEN "nothing"
    ELSE outcome

\* What the client sees: a notification gets no body unless HTTP refuses it,
\* and a handler that returns nothing leaves the answer empty.
Answer(r, outcome) ==
    IF scenario.transport = "http" /\ outcome \in {"unknown_session", "rejected"} THEN outcome
    ELSE IF Notification(r) \/ outcome \in {"initialized_ok", "one_way"} THEN "nothing"
    ELSE outcome

-----------------------------------------------------------------------------
(* The methods.                                                            *)

Unavailable == catalog.prompts = <<>> /\ catalog.failed
PromptNames == [i \in DOMAIN catalog.prompts |-> catalog.prompts[i].name]

ListOutcome(cursor, total) == IF ValidCursor(cursor, total) THEN "page" ELSE "invalid_cursor"

\* The parameters of a request are decoded first; ~a.payload: they are missing
\* or ill-formed.
ReadOutcome(a) ==
    IF ~a.payload THEN "invalid_payload"
    ELSE IF a.uri = "" THEN "missing_uri"
    ELSE IF a.uri \in KnownResources THEN "resource" ELSE "unknown_resource"

\* What the decoder of prompts/get tells apart (buildPromptsGetPayloadError).
GetPayloadErrors == {"malformed_payload", "invalid_arguments_type", "invalid_name_type"}

GetOutcome(a) ==
    LET found == {p \in Range(catalog.prompts) : p.name = a.name}
    IN IF a.payload \in GetPayloadErrors THEN a.payload
       ELSE IF a.name = "" THEN "missing_name"
       ELSE IF found = {} THEN "unknown_prompt"
       ELSE PromptOutcome(CHOOSE p \in found : TRUE, a.raw, scenario.prompts)

\* What follows the look at the number of prompts and of their load errors.
PromptMethod(r) ==
    IF r.frame.method = "prompts/list" THEN ListOutcome(r.arg.cursor, Len(catalog.prompts))
    ELSE GetOutcome(r.arg)

IsPromptMethod(r) == r.frame.method \in {"prompts/list", "prompts/get"}

\* The methods that do not touch the catalog, and a disabled catalog.
Method(r, context) ==
    CASE r.frame.method = "tools/call" -> CallOutcome(r.arg, context, scenario.opts)
      [] r.frame.method = "tools/list" -> ListOutcome(r.arg.cursor, Cardinality(Registered))
      [] r.frame.method = "resources/list" -> ListOutcome(r.arg.cursor, Cardinality(KnownResources))
      [] r.frame.method = "resources/read" -> ReadOutcome(r.arg)
      [] r.frame.method = "ping" -> "pong"
      [] IsPromptMethod(r) -> "not_supported"
      [] OTHER -> "method_not_found"

-----------------------------------------------------------------------------
(* The table of sessions.                                                  *)

NoEntry == [exists |-> FALSE, accepted |-> FALSE, initialized |-> FALSE, mutating |-> FALSE]
NewEntry == [NoEntry EXCEPT !.exists = TRUE]

CreateSession(s) == IF sess[s].exists THEN sess[s] ELSE NewEntry

\* Mutant: a second initialize leaves the session open.
MarkInitializeAccepted_KeepOpen(s) ==
    IF sess[s].exists THEN [sess[s] EXCEPT !.accepted = TRUE] ELSE sess[s]

\* A session is closed until initialized arrives.
MarkInitializeAccepted(s) ==
    IF sess[s].exists
    THEN [sess[s] EXCEPT !.accepted = TRUE, !.initialized = FALSE] ELSE sess[s]

\* Mutant: initialized is accepted before initialize.
MayMarkInitialized_Early(s) == sess[s].exists
MayMarkInitialized(s) == sess[s].exists /\ sess[s].accepted
MarkInitialized(s) ==
    IF MayMarkInitialized(s) THEN [sess[s] EXCEPT !.initialized = TRUE] ELSE sess[s]

\* Mutant: a capability once granted stays.
SetMutatingAllowed_Sticky(s, allowed) ==
    IF sess[s].exists THEN [sess[s] EXCEPT !.mutating = @ \/ allowed] ELSE sess[s]
SetMutatingAllowed(s, allowed) ==
    IF sess[s].exists THEN [sess[s] EXCEPT !.mutating = allowed] ELSE sess[s]

IsFullyInitialized(s) == sess[s].accepted /\ sess[s].initialized

Negotiated(r) == r.arg.mutating \/ scenario.allowMutating
MutatingAllowed(s) == sess[s].mutating \/ scenario.allowMutating

-----------------------------------------------------------------------------
(* History and answers.                                                    *)

Nothing == [known |-> TRUE, live |-> FALSE, ready |-> FALSE, mutating |-> FALSE]

\* What the outcome of a request teaches the client about its session; nothing
\* that it can rely on when another change was under way.
Learned(r, outcome, clean) ==
    LET t == told[r.session] IN
      IF ~Changes(r) THEN t
      ELSE IF ~clean THEN [t EXCEPT !.known = FALSE]
      ELSE CASE outcome = "initialize_ok" ->
                  [known |-> TRUE, live |-> TRUE, ready |-> FALSE,
                   mutating |-> scenario.transport = "http" /\ Negotiated(r)]
             [] outcome = "initialized_ok" -> [t EXCEPT !.ready = TRUE]
             [] outcome = "deleted" -> Nothing
             [] OTHER -> t

\* The walking client adds a page and goes on to the next, or gives up.
WalkAfter(r, outcome) ==
    LET next == NextCursor(r.arg.cursor, Len(PromptNames)) IN
      IF ~r.walk THEN walk
      ELSE IF outcome # "page" THEN [walk EXCEPT !.state = "refused"]
      ELSE [walk EXCEPT !.got = @ \o Page(PromptNames, r.arg.cursor), !.next = next,
                        !.state = IF next = 0 THEN "done" ELSE "open"]

Conclude(r, outcome, clean) ==
    /\ told' = [told EXCEPT ![r.session] = Learned(r, outcome, clean)]
    /\ walk' = WalkAfter(r, outcome)
    /\ issued' = IF outcome = "initialize_ok" THEN issued \cup {r.session} ELSE issued
    /\ reply' = [req |-> r, outcome |-> outcome, answer |-> Answer(r, outcome),
                 clean |-> clean, told |-> told[r.session]]

-----------------------------------------------------------------------------
(* HTTP: a request is received, then handled in steps that take one lock.  *)

Idle == [at |-> "idle"]
Busy(h) == job[h] # Idle
At(h, step) == Busy(h) /\ job[h].at = step
Others(r) == {h \in Handlers : Busy(h) /\ job[h].req.session = r.session}

\* A change spoils what the other requests of its session may rely on.
Started(h, step, r) ==
    [k \in Handlers |->
        IF k = h THEN [at |-> step, req |-> r, initialized |-> FALSE,
                       clean |-> \A o \in Others(r) : ~Changes(job[o].req)]
        ELSE IF Changes(r) /\ k \in Others(r) THEN [job[k] EXCEPT !.clean = FALSE]
        ELSE job[k]]

NewIds == Sessions \ (issued \cup {job[h].req.session : h \in {k \in Handlers : Busy(k)}})

\* The goroutine of a request; which one is immaterial.
Free(h) == ~Busy(h) /\ h = CHOOSE k \in Handlers : ~Busy(k)

Admit(h, r) ==
    /\ scenario.transport = "http" /\ Free(h)
    /\ r.session \in issued \cup {NoSession, Unknown}
    /\ \/ /\ EarlyAnswer(r) # ""
          /\ reply' = [req |-> r, outcome |-> EarlyAnswer(r), answer |-> EarlyAnswer(r),
                       clean |-> FALSE, told |-> told[r.session]]
          /\ job' = job
       \/ /\ EarlyAnswer(r) = "" /\ r.session # NoSession
          /\ job' = Started(h, IF r.verb = "DELETE" THEN "has" ELSE "touch", r)
          /\ reply' = NoReply
       \/ /\ EarlyAnswer(r) = "" /\ r.session = NoSession
          /\ \E s \in NewIds :
               job' = Started(h, "create", [r EXCEPT !.session = s])
          /\ reply' = NoReply
    /\ UNCHANGED <<scenario, sess, issued, catalog, told>>

Receive(h) ==
    /\ used.requests < scenario.budget
    /\ used' = [used EXCEPT !.requests = @ + 1]
    /\ \E r \in RequestsOf(scenario.menu) : Admit(h, r)
    /\ walk' = walk

ListFrom(cursor, s) ==
    [verb |-> "POST", session |-> s, header |-> "current", walk |-> TRUE,
     arg |-> [cursor |-> cursor],
     frame |-> [json |-> "object", id |-> "valid", version |-> TRUE, typed |-> TRUE,
                params |-> "object", body |-> {}, method |-> "prompts/list"]]

\* The client of a scenario with walks reads the list page by page.
NextPage(h) ==
    /\ scenario.walks /\ walk.state \in {"idle", "open"}
    /\ \E s \in scenario.ready : Admit(h, ListFrom(walk.next, s))
    /\ walk' = [walk EXCEPT !.state = "waiting"]
    /\ used' = used

Become(h, j) == job' = [job EXCEPT ![h] = j]
Goto(h, step) ==
    /\ Become(h, [job[h] EXCEPT !.at = step]) /\ reply' = NoReply
    /\ UNCHANGED <<scenario, issued, catalog, told, walk, used>>
Finish(h, outcome) ==
    /\ Become(h, Idle) /\ Conclude(job[h].req, outcome, job[h].clean)
    /\ UNCHANGED <<scenario, catalog, used>>
Session(h) == job[h].req.session
Write(s, entry) == sess' = [sess EXCEPT ![s] = entry]

Routed(r) ==
    CASE Kind(r) = "prebuilt" -> "invalid_request"
      [] Kind(r) = "one_way" -> "one_way"
      [] Initializes(r) -> IF VersionOK(r) THEN "create" ELSE "bad_version"
      [] Completes(r) -> IF CompletionRefused(r) THEN "invalid_request" ELSE "mark"
      [] OTHER -> "check"
Steps == {"create", "mark", "check"}

Touch(h) ==
    /\ At(h, "touch") /\ sess' = sess
    /\ LET to == Routed(job[h].req) IN
         \/ ~sess[Session(h)].exists /\ Finish(h, "unknown_session")
         \/ sess[Session(h)].exists /\ to \in Steps /\ Goto(h, to)
         \/ sess[Session(h)].exists /\ to \notin Steps /\ Finish(h, to)

\* handleInit; SetProtocolVersion stores what nothing of this module reads.  Its
\* first call, GetServerTools("default"), finds the entry that NewServer made
\* before the listener started and that Cleanup keeps (server.go:90-96, 144).
Create(h) ==
    At(h, "create") /\ Write(Session(h), CreateSession(Session(h))) /\ Goto(h, "accept")
Accept(h) ==
    At(h, "accept") /\ Write(Session(h), MarkInitializeAccepted(Session(h))) /\ Goto(h, "grant")
Grant(h) ==
    /\ At(h, "grant") /\ Finish(h, "initialize_ok")
    /\ Write(Session(h), SetMutatingAllowed(Session(h), Negotiated(job[h].req)))

Mark(h) ==
    /\ At(h, "mark") /\ Write(Session(h), MarkInitialized(Session(h)))
    /\ Finish(h, IF MayMarkInitialized(Session(h)) THEN "initialized_ok" ELSE "rejected")

\* Any other method of a session that is open.
Check(h) ==
    /\ At(h, "check") /\ sess' = sess
    /\ LET r == job[h].req IN
         \/ ~IsFullyInitialized(Session(h)) /\ Finish(h, "not_initialized")
         \/ /\ IsFullyInitialized(Session(h))
            /\ \/ r.frame.method = "tools/call" /\ Goto(h, "context")
               \/ IsPromptMethod(r) /\ scenario.enabled /\ Goto(h, "count")
               \/ /\ r.frame.method # "tools/call" /\ ~(IsPromptMethod(r) /\ scenario.enabled)
                  /\ Finish(h, Method(r, {}))

\* toolCallContext reads the session twice, then the tool is called.
Context(h) ==
    /\ At(h, "context")
    /\ Become(h, [job[h] EXCEPT !.at = "call", !.initialized = sess[Session(h)].initialized])
    /\ reply' = NoReply
    /\ UNCHANGED <<scenario, sess, issued, catalog, told, walk, used>>
Call(h) ==
    /\ At(h, "call") /\ sess' = sess
    /\ Finish(h, Method(job[h].req, [initialized |-> job[h].initialized,
                                     mutating |-> MutatingAllowed(Session(h))]))

\* promptCatalogUnavailableData takes the lock of the catalog for the count
\* and again for the errors, and the list or the prompt is read after that.
Count(h) ==
    At(h, "count") /\ sess' = sess /\ Goto(h, IF catalog.prompts = <<>> THEN "errors" ELSE "serve")
Errors(h) ==
    /\ At(h, "errors") /\ sess' = sess
    /\ IF catalog.failed THEN Finish(h, "not_available") ELSE Goto(h, "serve")
ServePrompts(h) ==
    At(h, "serve") /\ sess' = sess /\ Finish(h, PromptMethod(job[h].req))

\* DELETE looks the session up, then removes it.
Has(h) ==
    /\ At(h, "has") /\ sess' = sess
    /\ IF sess[Session(h)].exists THEN Goto(h, "remove") ELSE Finish(h, "unknown_session")
RemoveSession(h) ==
    At(h, "remove") /\ Write(Session(h), NoEntry) /\ Finish(h, "deleted")

Handle(h) ==
    \/ Touch(h) \/ Create(h) \/ Accept(h) \/ Grant(h) \/ Mark(h) \/ Check(h) \/ Context(h)
    \/ Call(h) \/ Count(h) \/ Errors(h) \/ ServePrompts(h) \/ Has(h)
    \/ RemoveSession(h)

\* The cleanup of sessions nobody used: no client is told.
Expire(s) ==
    /\ scenario.expires /\ sess[s].exists
    /\ Write(s, NoEntry)
    /\ told' = [told EXCEPT ![s] = Nothing]
    /\ job' = [h \in Handlers |-> IF Busy(h) /\ Session(h) = s
                                  THEN [job[h] EXCEPT !.clean = FALSE] ELSE job[h]]
    /\ reply' = NoReply
    /\ UNCHANGED <<scenario, issued, catalog, walk, used>>

\* A reload replaces the catalog in one step.
Reload(c) ==
    /\ scenario.enabled /\ used.reloads < scenario.reloads /\ c # catalog
    /\ catalog' = c
    /\ used' = [used EXCEPT !.reloads = @ + 1]
    /\ walk' = [walk EXCEPT !.stable = @ /\ walk.state = "idle"]
    /\ reply' = NoReply
    /\ UNCHANGED <<scenario, sess, issued, job, told>>

-----------------------------------------------------------------------------
(* stdio: the messages of the one client, each handled before the next is  *)
(* read, without session ids and without a call context.                   *)

StdioMethod(r) ==
    IF ~IsPromptMethod(r) \/ ~scenario.enabled
    THEN Method(r, [initialized |-> FALSE, mutating |-> FALSE])
    ELSE IF Unavailable THEN "not_available" ELSE PromptMethod(r)

StdioRequest(r) ==
    IF Initializes(r) THEN IF VersionOK(r) THEN "initialize_ok" ELSE "bad_version"
    ELSE IF Completes(r)
      THEN IF CompletionRefused(r) THEN "invalid_request"
           ELSE IF MayMarkInitialized(Stdio) THEN "initialized_ok" ELSE "rejected"
    ELSE IF IsFullyInitialized(Stdio) THEN StdioMethod(r) ELSE "not_initialized"

StdioOutcome(r) ==
    CASE r.frame.json = "broken" -> "unreadable"
      [] r.frame.json # "broken" /\ Kind(r) = "prebuilt" -> "invalid_request"
      [] Kind(r) \in {"parse_error", "one_way"} -> Kind(r)
      [] Kind(r) = "request" -> StdioRequest(r)

\* A decoder that met text that is not JSON returns the same error for ever:
\* the server answers it again and again and reads no further message.
StdioEntry(outcome) ==
    CASE outcome = "initialize_ok" -> MarkInitializeAccepted(Stdio)
      [] outcome = "initialized_ok" -> MarkInitialized(Stdio)
      [] outcome = "unreadable" -> NoEntry
      [] OTHER -> sess[Stdio]

StdioMessage(r) ==
    /\ scenario.transport = "stdio" /\ sess[Stdio].exists
    /\ used.requests < scenario.budget
    /\ used' = [used EXCEPT !.requests = @ + 1]
    /\ Write(Stdio, StdioEntry(StdioOutcome(r)))
    /\ Conclude(r, StdioOutcome(r), TRUE)
    /\ UNCHANGED <<scenario, job, catalog>>

-----------------------------------------------------------------------------

Open(granted) == [exists |-> TRUE, accepted |-> TRUE, initialized |-> TRUE, mutating |-> granted]

Init ==
    /\ scenario \in Scenarios
    /\ sess = [s \in Ids |-> IF s \in scenario.ready THEN Open(scenario.granted)
                             ELSE IF s = Stdio /\ scenario.transport = "stdio" THEN NewEntry
                             ELSE NoEntry]
    /\ issued = scenario.ready
    /\ job = [h \in Handlers |-> Idle]
    /\ catalog \in CatalogsOf(scenario.menu)
    /\ told = [s \in Ids |-> IF s \in scenario.ready
                             THEN [known |-> TRUE, live |-> TRUE, ready |-> TRUE,
                                   mutating |-> scenario.granted \/ scenario.allowMutating]
                             ELSE Nothing]
    /\ walk = [got |-> <<>>, next |-> 0, state |-> "idle", stable |-> TRUE]
    /\ used = [requests |-> 0, reloads |-> 0]
    /\ reply = NoReply

Next ==
    \/ \E h \in Handlers : Receive(h) \/ NextPage(h) \/ Handle(h)
    \/ \E s \in Sessions : Expire(s)
    \/ \E c \in CatalogsOf(scenario.menu) : Reload(c)
    \/ \E r \in RequestsOf(scenario.menu) : StdioMessage(r)

\* A goroutine runs on; a client that walks asks for the page it was pointed to.
Fairness == \A h \in Handlers : WF_vars(Handle(h)) /\ WF_vars(NextPage(h))

Spec == Init /\ [][Next]_vars /\ Fairness

-----------------------------------------------------------------------------
(* Properties.                                                             *)

Entry == [exists : BOOLEAN, accepted : BOOLEAN, initialized : BOOLEAN, mutating : BOOLEAN]
AllSteps == Steps \cup {"touch", "accept", "grant", "context", "call", "count", "errors",
                        "serve", "has", "remove"}

\* The variables have their types, and a session that is not in the table has
\* no flags: an entry is initialized only when its initialize was accepted.
DispatchTypeOK ==
    /\ sess \in [Ids -> Entry]
    /\ \A s \in Ids : /\ sess[s].initialized => sess[s].accepted
                      /\ sess[s].accepted \/ sess[s].mutating => sess[s].exists
    /\ issued \subseteq Ids
    /\ \A h \in Handlers :
         job[h] # Idle => /\ job[h].at \in AllSteps /\ job[h].req.session \in Ids
                          /\ job[h].clean \in BOOLEAN /\ job[h].initialized \in BOOLEAN
    /\ told \in [Ids -> [known : BOOLEAN, live : BOOLEAN, ready : BOOLEAN, mutating : BOOLEAN]]
    /\ walk.state \in {"idle", "waiting", "open", "done", "refused"}

\* The last message was handled with no other change of its session under way,
\* on a session whose client knows how it stands.
Reliable == reply # NoReply /\ reply.clean /\ reply.told.known

Closed == {"unknown_session", "rejected", "not_initialized"}

\* A client that has seen its handshake answered is served and not told that
\* its session is closed; before the answers, after a second initialize and
\* after a DELETE it is never served (router.go:264-311, session.go:139-208).
ReadyAsTold ==
    Reliable /\ Kind(reply.req) = "request" /\ ~Initializes(reply.req) =>
      LET t == reply.told   r == reply.req   refused == reply.outcome \in Closed IN
        /\ ~t.live /\ ~(Completes(r) /\ CompletionRefused(r)) => refused
        /\ t.live /\ ~Completes(r) => (refused <=> ~t.ready)
        /\ t.live /\ Completes(r) => ~refused
        /\ t.live /\ t.ready /\ scenario.transport = "http" => reply.outcome # "session_required"

PastCapability ==
    {"missing_arguments", "unknown_arguments", "invalid_type", "session_required", "ran"}

\* A mutating tool runs exactly when the answer to the last initialize said so
\* (godot.mutating in its result): a grant is neither lost nor outlived
\* (router.go:329-356, server.go:294-313).
CapabilityAsTold ==
    Reliable /\ Calls(reply.req, {"tools/call"}) /\ IsMutatingTool(reply.req.arg.name) =>
      /\ reply.outcome \in PastCapability => reply.told.mutating
      /\ reply.outcome = "capability_required" => ~reply.told.mutating

\* The exception of the next property, and a divergence of the code from its
\* documentation.  TOOL_CONTRACT.md:104-111 promises invalid_request for an
\* initialized before initialize over both transports, and DEVELOPMENT.md:75
\* counts a mismatch of the two as a failure.  handleMessage of stdio makes the
\* error (its test, stdio/server_test.go:191-209, sees it there), but Start sends
\* nothing to a message without an id (stdio/server.go:106).
RefusalIsDropped == scenario.transport # "http"

\* Whoever gave an id gets an answer with a body, also for a method that is only
\* a notification; a message that cannot be read is an error; an initialized
\* that is refused is told so, but for RefusalIsDropped; no other notification
\* gets a body unless its session is refused (router.go:139-193,
\* stdio/server.go:88-125).
RequestsAreAnswered ==
    reply # NoReply =>
      /\ Kind(reply.req) \in {"parse_error", "prebuilt"} => reply.answer # "nothing"
      /\ Completes(reply.req) /\ reply.outcome = "rejected" =>
           reply.answer = IF RefusalIsDropped THEN "nothing" ELSE "rejected"
      /\ Kind(reply.req) = "request" =>
           IF Notification(reply.req)
           THEN reply.answer \in {"nothing", "unknown_session", "rejected", "bad_header",
                                  "missing_session"}
           ELSE reply.answer \notin {"nothing", "rejected"}

\* In every permission mode the bridge tools of the plugin get through, so that
\* snapshots and acknowledgements keep arriving, and read_only lets no tool
\* through that changes the project (pipeline.go:101-124, toolspec.go).
PolicyKept ==
    reply # NoReply /\ Calls(reply.req, {"tools/call"}) =>
      LET n == reply.req.arg.name IN
        /\ IsInternalBridgeTool(n) =>
             reply.outcome \notin {"permission_denied", "capability_required"}
        /\ scenario.opts.permission = "read_only" /\ reply.outcome \in PastCapability =>
             ~IsMutatingTool(n)

\* The template of a prompt is executed only when, of the configured roots that
\* hold its file, the innermost is trusted (helpers.go:278-288, 597-627).
PromptsAreGoverned ==
    reply # NoReply /\ Calls(reply.req, {"prompts/get"}) /\ scenario.prompts.mode = "advanced"
        /\ reply.outcome \in {"rendered", "render_error", "too_large"} =>
      \E p \in Range(catalog.prompts) : \E i \in DOMAIN scenario.prompts.roots :
        LET roots == scenario.prompts.roots IN
          /\ p.name = reply.req.arg.name
          /\ Covers(roots[i], p.source) /\ roots[i].tier = "trusted"
          /\ \A k \in DOMAIN roots :
               Covers(roots[k], p.source) => Len(roots[k].path) <= Len(roots[i].path)

\* A client that follows the cursors of prompts/list while nothing is reloaded
\* gets every prompt once, in order; it is refused only when the catalog is
\* empty because it could not be loaded (helpers.go:178-228, 387-401).
WalkIsComplete ==
    walk.stable =>
      /\ walk.state = "done" => walk.got = PromptNames
      /\ walk.state = "refused" => Unavailable

\* The cursors come to an end, also when reloads change the list under the
\* client (helpers.go:193-227).
WalksEnd == scenario.walks ~> walk.state \in {"done", "refused"}

=============================================================================
