---------------------------- MODULE DispatchProofs ----------------------------
(***************************************************************************)
(* What a client may rely on in the answers of the server, for any number  *)
(* of concurrent requests, sessions and configurations.                    *)
(*                                                                         *)
(* The argument: a request is clean while no other change of its session   *)
(* was in progress with it.  A session that nobody is in the middle of     *)
(* initializing agrees with what its client was told last, unless a change *)
(* that was not clean ended; and every step of a clean request finds the   *)
(* session as the step before left it.                                     *)
(*                                                                         *)
(* Below the theorems about the answers: a client that reads all pages of  *)
(* prompts/list holds what comes before its cursor; and the loop over the  *)
(* governance roots finds the innermost one, by least counterexample.      *)
(***************************************************************************)
EXTENDS Dispatch, SequenceTheorems, WellFoundedInduction, TLAPS

\* Outcomes that only the handling of a session or of the frame gives.
Special ==
    {"nothing", "rejected", "one_way", "initialized_ok", "unknown_session",
     "not_initialized", "initialize_ok", "deleted", "unreadable"}

-----------------------------------------------------------------------------
(* The pure part: which outcomes the methods have.                         *)

\* tools/call is refused by its own checks alone, and runs a mutating tool
\* only with the capability.
LEMMA CallOutcomes ==
    ASSUME NEW call, NEW context, NEW opts
    PROVE  LET o == CallOutcome(call, context, opts) IN
           /\ o \notin Special
           /\ o \in PastCapability /\ IsMutatingTool(call.name) => context.mutating
           /\ o = "capability_required" => IsMutatingTool(call.name) /\ ~context.mutating
           /\ o = "session_required" => ~context.initialized
<1>1. ArgumentError(call.name, call, opts)
        \in {"", "missing_arguments", "unknown_arguments", "invalid_type"}
  BY DEF ArgumentError
<1>2. PayloadError(call) \in {"", "invalid_payload", "invalid_name", "invalid_token"}
  BY DEF PayloadError
<1>3. ResourceOutcome(call, opts) \in {"permission_denied", "resource", "unknown_resource"}
  BY DEF ResourceOutcome
<1>4. /\ ToolOutcome(call, context, opts) \in
           {"tool_not_found", "permission_denied", "capability_required", "missing_arguments",
            "unknown_arguments", "invalid_type", "session_required", "ran"}
      /\ ToolOutcome(call, context, opts) \in PastCapability =>
           MayMutate(call.name, context)
      /\ ToolOutcome(call, context, opts) = "capability_required" =>
           ~MayMutate(call.name, context)
      /\ ToolOutcome(call, context, opts) = "session_required" => ~context.initialized
  BY <1>1 DEF ToolOutcome, RunTool, PastCapability
<1> QED
  BY <1>2, <1>3, <1>4 DEF CallOutcome, MayMutate, PastCapability, Special

\* The bridge tools pass the policy, and read_only lets no mutating tool pass.
LEMMA PolicyOfCalls ==
    ASSUME NEW call, NEW context, NEW opts
    PROVE  LET o == CallOutcome(call, context, opts) IN
           /\ IsInternalBridgeTool(call.name) =>
                o \notin {"permission_denied", "capability_required"}
           /\ opts.permission = "read_only" /\ o \in PastCapability =>
                ~IsMutatingTool(call.name)
<1>1. ArgumentError(call.name, call, opts)
        \in {"", "missing_arguments", "unknown_arguments", "invalid_type"}
  BY DEF ArgumentError
<1>2. PayloadError(call) \in {"", "invalid_payload", "invalid_name", "invalid_token"}
  BY DEF PayloadError
<1>3. IsInternalBridgeTool(call.name) =>
        IsToolAllowed(call.name, opts) /\ ~IsMutatingTool(call.name)
  BY NamesAssumption DEF IsInternalBridgeTool, IsToolAllowed, IsMutatingTool
<1>4. call.name \notin ResourceNames /\ opts.permission = "read_only"
        /\ IsToolAllowed(call.name, opts) => ~IsMutatingTool(call.name)
  BY NamesAssumption
     DEF IsInternalBridgeTool, IsToolAllowed, IsMutatingTool, IsReadOnlyTool
<1>5. IsInternalBridgeTool(call.name) =>
        ResourceOutcome(call, opts) # "permission_denied"
  BY <1>3 DEF ResourceOutcome
<1>6. ResourceOutcome(call, opts) \in {"permission_denied", "resource", "unknown_resource"}
  BY DEF ResourceOutcome
<1>7. /\ IsInternalBridgeTool(call.name) => ToolOutcome(call, context, opts)
           \notin {"permission_denied", "capability_required"}
      /\ ToolOutcome(call, context, opts) \in PastCapability =>
           IsToolAllowed(call.name, opts)
  BY <1>1, <1>3 DEF ToolOutcome, RunTool, MayMutate, PastCapability
<1> QED
  BY <1>2, <1>4, <1>5, <1>6, <1>7 DEF CallOutcome, PastCapability

LEMMA PromptOutcomes ==
    ASSUME NEW r
    PROVE  PromptMethod(r) \notin Special \cup {"session_required"}
<1> DEFINE Strict == {"", "missing_arguments", "unknown_arguments"}
<1>1. \A p, args, o : StrictError(p, args, o) \in Strict
  BY DEF StrictError
<1>2. \A p, raw, o : PromptOutcome(p, raw, o) \notin Special \cup {"session_required"}
  BY <1>1 DEF PromptOutcome, Special
<1>3. GetOutcome(r.arg) \notin Special \cup {"session_required"}
  BY <1>2 DEF GetOutcome, GetPayloadErrors, Special
<1> QED
  BY <1>3 DEF PromptMethod, ListOutcome, Special

LEMMA MethodOutcomes ==
    ASSUME NEW r, NEW context
    PROVE  /\ Method(r, context) \notin Special
           /\ r.frame.method # "tools/call" => Method(r, context) # "session_required"
           /\ r.frame.method = "tools/call" =>
                Method(r, context) = CallOutcome(r.arg, context, scenario.opts)
<1>1. CallOutcome(r.arg, context, scenario.opts) \notin Special
  BY CallOutcomes
<1>2. \A c, n : ListOutcome(c, n) \in {"page", "invalid_cursor"}
  BY DEF ListOutcome
<1>3. \A a : ReadOutcome(a)
             \in {"invalid_payload", "missing_uri", "resource", "unknown_resource"}
  BY DEF ReadOutcome
<1> QED
  BY <1>1, <1>2, <1>3 DEF Method, Special, IsPromptMethod

-----------------------------------------------------------------------------
(* The invariant.                                                          *)

IsJob(j) ==
    /\ j = [at |-> j.at, req |-> j.req, initialized |-> j.initialized, clean |-> j.clean]
    /\ j.at \in AllSteps /\ j.initialized \in BOOLEAN /\ j.clean \in BOOLEAN
    /\ IsRequest(j.req) /\ j.req.session \in Ids

Shapes ==
    /\ DispatchTypeOK
    /\ scenario \in Scenarios
    /\ job = [h \in Handlers |-> job[h]]
    /\ \A h \in Handlers : Busy(h) => scenario.transport = "http" /\ IsJob(job[h])
    /\ walk = [got |-> walk.got, next |-> walk.next, state |-> walk.state,
               stable |-> walk.stable]

\* The steps after the look at the session.
Served == {"context", "call", "count", "errors", "serve"}
Writing == {"accept", "grant"}

\* A request is only ever at a step of its own method.
RightStep(at, r) ==
    /\ at = "touch" => Kind(r) # "parse_error"
    /\ at \in Writing \cup {"create"} => Initializes(r)
    /\ at = "mark" => Completes(r) /\ ~CompletionRefused(r)
    /\ at \in {"has", "remove"} <=> r.verb = "DELETE"
    /\ at \in Served \cup {"check"} =>
         Kind(r) = "request" /\ ~Initializes(r) /\ ~Completes(r)
    /\ at \in {"context", "call"} => r.frame.method = "tools/call"
    /\ at \in {"count", "errors", "serve"} => IsPromptMethod(r)

RightSteps == \A h \in Handlers : Busy(h) => RightStep(job[h].at, job[h].req)

Clean(h) == Busy(h) /\ job[h].clean

\* No other change of its session is in progress with a clean request.
CleanIsAlone ==
    \A h, o \in Handlers :
        Clean(h) /\ Busy(o) /\ o # h /\ Session(o) = Session(h) => ~Changes(job[o].req)

\* A clean job at its step, with the entry of its session.
InStep(j, entry) ==
    /\ j.at \in Writing => entry.exists
    /\ j.at = "grant" => entry.accepted /\ ~entry.initialized
    /\ j.at \in Served => entry.exists /\ entry.accepted /\ entry.initialized
    /\ j.at = "call" => j.initialized

CleanInStep == \A h \in Handlers : Clean(h) => InStep(job[h], sess[Session(h)])

\* What a client that knows its session was told is how the session stands.
Agrees(entry, t) ==
    /\ t.live <=> entry.accepted
    /\ t.live => (t.ready <=> entry.initialized)
    /\ t.live /\ scenario.transport = "http" =>
         (t.mutating <=> entry.mutating \/ scenario.allowMutating)

Agreement ==
    \A s \in Ids :
        \/ told[s].known /\ (scenario.transport = "http" \/ sess[s].exists) =>
             Agrees(sess[s], told[s])
        \/ \E h \in Handlers : Busy(h) /\ Session(h) = s /\ job[h].at \in Writing

StdioGrantsNothing == scenario.transport = "stdio" => ~told[Stdio].mutating

Consistent ==
    Shapes /\ RightSteps /\ CleanIsAlone /\ CleanInStep /\ Agreement /\ StdioGrantsNothing

Replies == ReadyAsTold /\ CapabilityAsTold /\ RequestsAreAnswered /\ PolicyKept

-----------------------------------------------------------------------------
(* When an answer keeps the properties of answers.                         *)

\* What holds of an outcome whatever the sessions are.
Sensible(r, o) ==
    /\ o # "nothing"
    /\ Kind(r) \in {"parse_error", "prebuilt", "request"} => o # "one_way"
    /\ o \in {"rejected", "initialized_ok"} => Kind(r) = "request" /\ Notification(r)
    /\ Calls(r, {"tools/call"}) =>
         /\ IsInternalBridgeTool(r.arg.name) =>
              o \notin {"permission_denied", "capability_required"}
         /\ scenario.opts.permission = "read_only" /\ o \in PastCapability =>
              ~IsMutatingTool(r.arg.name)

\* What holds of it when the client knows its session as t.
Expected(r, o, t) ==
    /\ Kind(r) = "request" /\ ~Initializes(r) =>
         /\ ~t.live /\ ~(Completes(r) /\ CompletionRefused(r)) => o \in Closed
         /\ t.live /\ ~Completes(r) => (o \in Closed <=> ~t.ready)
         /\ t.live /\ Completes(r) => o \notin Closed
         /\ t.live /\ t.ready /\ scenario.transport = "http" => o # "session_required"
    /\ Calls(r, {"tools/call"}) /\ IsMutatingTool(r.arg.name) =>
         /\ o \in PastCapability => t.mutating
         /\ o = "capability_required" => ~t.mutating

LEMMA ReplyKeeps ==
    ASSUME NEW r, NEW o, NEW c, NEW t,
           reply' = [req |-> r, outcome |-> o, answer |-> Answer(r, o), clean |-> c, told |-> t],
           scenario' = scenario,
           Sensible(r, o), c /\ t.known => Expected(r, o, t)
    PROVE  Replies'
<1>1. ReadyAsTold'
  BY DEF ReadyAsTold, Reliable, Expected
<1>2. CapabilityAsTold'
  BY DEF CapabilityAsTold, Reliable, Expected
<1>3. PolicyKept'
  BY DEF PolicyKept, Sensible
<1>4. RequestsAreAnswered'
  BY DEF RequestsAreAnswered, RefusalIsDropped, Sensible, Answer, Notification
<1> QED
  BY <1>1, <1>2, <1>3, <1>4 DEF Replies

LEMMA NoReplyKeeps ==
    ASSUME reply' = NoReply PROVE Replies'
BY DEF Replies, ReadyAsTold, CapabilityAsTold, RequestsAreAnswered, PolicyKept, Reliable

-----------------------------------------------------------------------------
(* The steps of a request.                                                 *)

\* The flags of a session that may be in the table.
Coherent(entry) ==
    /\ entry \in Entry
    /\ entry.initialized => entry.accepted
    /\ entry.accepted \/ entry.mutating => entry.exists

LEMMA NotIdle ==
    ASSUME NEW j, IsJob(j) PROVE j # Idle
BY DEF IsJob, AllSteps, Steps, Idle

LEMMA WritingChanges ==
    ASSUME NEW at, NEW r, RightStep(at, r)
    PROVE  /\ at \in Writing => Initializes(r) /\ Changes(r)
           /\ at \in Served => ~Changes(r)
BY DEF RightStep, Writing, Changes, Served, Kind

\* A request goes on to another step, and may write the entry of its session
\* on the way when it initializes it.
LEMMA MoveKeeps ==
    ASSUME Consistent, NEW h \in Handlers, NEW j, NEW entry,
           Busy(h), IsJob(j), RightStep(j.at, j.req),
           j.req = job[h].req, j.clean = job[h].clean,
           job' = [job EXCEPT ![h] = j],
           Coherent(entry), sess' = [sess EXCEPT ![Session(h)] = entry],
           UNCHANGED <<scenario, told, issued, walk>>,
           j.clean => InStep(j, entry),
           entry # sess[Session(h)] => Changes(job[h].req),
           \/ j.at \in Writing
           \/ entry = sess[Session(h)] /\ job[h].at \notin Writing
    PROVE  Consistent'
<1> USE DEF Consistent, Busy, Session, Clean
<1>1. /\ Session(h) \in Ids /\ sess \in [Ids -> Entry]
      /\ job' = [k \in Handlers |-> IF k = h THEN j ELSE job[k]]
  BY DEF Shapes, DispatchTypeOK, IsJob
<1>2. \A k \in Handlers : k # h => job'[k] = job[k]
  BY <1>1
<1>3. job'[h] = j
  BY <1>1
<1>4. \A s \in Ids : sess'[s] = IF s = Session(h) THEN entry ELSE sess[s]
  BY <1>1
<1>5. Shapes'
  <2>1. sess' \in [Ids -> Entry]
    BY <1>1 DEF Coherent
  <2> QED
    BY <1>1, <1>2, <1>3, <1>4, <2>1 DEF Shapes, DispatchTypeOK, Coherent, IsJob
<1>6. RightSteps'
  BY <1>1, <1>2, <1>3 DEF RightSteps
<1>7. CleanIsAlone'
  BY <1>1, <1>2, <1>3 DEF CleanIsAlone
<1>8. CleanInStep'
  <2> SUFFICES ASSUME NEW k \in Handlers, Clean(k)' PROVE InStep(job[k], sess[Session(k)])'
    BY DEF CleanInStep
  <2>1. CASE k = h
    BY <2>1, <1>1, <1>3, <1>4 DEF InStep
  <2>2. CASE k # h
    <3>1. Clean(k) /\ job'[k] = job[k] /\ Session(k) \in Ids
      BY <2>2, <1>2 DEF Shapes, IsJob
    <3>2. sess'[Session(k)] = sess[Session(k)]
      BY <1>4, <3>1, <2>2 DEF CleanIsAlone
    <3> QED
      BY <3>1, <3>2 DEF CleanInStep, InStep
  <2> QED
    BY <2>1, <2>2
<1>9. Agreement'
  <2> SUFFICES ASSUME NEW s \in Ids
               PROVE  (\/ told[s].known /\ (scenario.transport = "http" \/ sess[s].exists) =>
                            Agrees(sess[s], told[s])
                       \/ \E k \in Handlers : Busy(k) /\ Session(k) = s /\ job[k].at \in Writing)'
    BY DEF Agreement
  <2>1. CASE s = Session(h) /\ j.at \in Writing
    BY <2>1, <1>1, <1>3, NotIdle
  <2>2. CASE s # Session(h) \/ j.at \notin Writing
    BY <2>2, <1>1, <1>2, <1>3, <1>4 DEF Agreement, Agrees
  <2> QED
    BY <2>1, <2>2
<1>10. StdioGrantsNothing'
  BY DEF StdioGrantsNothing
<1> QED
  BY <1>5, <1>6, <1>7, <1>8, <1>9, <1>10

\* A request ends with an outcome, and may write the entry of its session on
\* the way when it changes it.
LEMMA EndKeeps ==
    ASSUME Consistent, NEW h \in Handlers, NEW o, NEW entry,
           Busy(h), Finish(h, o),
           Coherent(entry), sess' = [sess EXCEPT ![Session(h)] = entry],
           entry # sess[Session(h)] => Changes(job[h].req),
           Sensible(job[h].req, o),
           job[h].clean /\ told[Session(h)].known =>
               Expected(job[h].req, o, told[Session(h)]),
           job[h].clean /\ Changes(job[h].req) =>
               LET t == Learned(job[h].req, o, TRUE) IN t.known => Agrees(entry, t)
    PROVE  Consistent' /\ Replies'
<1> USE DEF Consistent, Busy, Session, Clean
<1> DEFINE r == job[h].req
           T == Learned(r, o, job[h].clean)
<1>0. scenario.transport = "http" /\ IsJob(job[h]) /\ IsRequest(r) /\ r.session \in Ids
  BY DEF Shapes, IsJob
<1>1. /\ scenario' = scenario
      /\ job' = [k \in Handlers |-> IF k = h THEN Idle ELSE job[k]]
      /\ told' = [s \in Ids |-> IF s = r.session THEN T ELSE told[s]]
      /\ sess' = [s \in Ids |-> IF s = r.session THEN entry ELSE sess[s]]
      /\ issued' \in {issued, issued \cup {r.session}}
      /\ walk' = WalkAfter(r, o)
  BY <1>0 DEF Finish, Become, Conclude, Shapes, DispatchTypeOK
<1>2. \A k \in Handlers : job'[k] = IF k = h THEN Idle ELSE job[k]
  BY <1>1
<1>3. Replies'
  BY <1>0, ReplyKeeps DEF Finish, Conclude
<1>4. T \in [known : BOOLEAN, live : BOOLEAN, ready : BOOLEAN, mutating : BOOLEAN]
  <2>1. told[r.session] \in [known : BOOLEAN, live : BOOLEAN, ready : BOOLEAN, mutating : BOOLEAN]
    BY <1>0 DEF Shapes, DispatchTypeOK
  <2>2. (scenario.transport = "http" /\ Negotiated(r)) \in BOOLEAN
    BY DEF Negotiated
  <2> QED
    BY <2>1, <2>2 DEF Learned, Nothing
<1>5. Shapes'
  <2>1. /\ sess' \in [Ids -> Entry] /\ issued' \subseteq Ids
        /\ \A s \in Ids : Coherent(sess'[s])
    BY <1>0, <1>1 DEF Shapes, DispatchTypeOK, Coherent
  <2>2. told' \in [Ids -> [known : BOOLEAN, live : BOOLEAN, ready : BOOLEAN, mutating : BOOLEAN]]
    BY <1>0, <1>1, <1>4 DEF Shapes, DispatchTypeOK
  <2>3. /\ walk' = [got |-> walk'.got, next |-> walk'.next, state |-> walk'.state,
                    stable |-> walk'.stable]
        /\ walk'.state \in {"idle", "waiting", "open", "done", "refused"}
    BY <1>1 DEF WalkAfter, Shapes, DispatchTypeOK
  <2>4. \A k \in Handlers : Busy(k)' => Busy(k) /\ job'[k] = job[k]
    BY <1>2
  <2> QED
    BY <1>1, <2>1, <2>2, <2>3, <2>4 DEF Shapes, DispatchTypeOK, Coherent, IsJob
<1>6. RightSteps' /\ CleanIsAlone'
  BY <1>1, <1>2 DEF RightSteps, CleanIsAlone
<1>7. CleanInStep'
  <2> SUFFICES ASSUME NEW k \in Handlers, Clean(k)' PROVE InStep(job[k], sess[Session(k)])'
    BY DEF CleanInStep
  <2>1. k # h /\ Clean(k) /\ job'[k] = job[k] /\ Session(k) \in Ids
    BY <1>2 DEF Shapes, IsJob
  <2>2. sess'[Session(k)] = sess[Session(k)]
    BY <1>1, <2>1 DEF CleanIsAlone
  <2> QED
    BY <2>1, <2>2 DEF CleanInStep, InStep
<1>8. Agreement'
  <2> SUFFICES ASSUME NEW s \in Ids
               PROVE  (\/ told[s].known /\ (scenario.transport = "http" \/ sess[s].exists) =>
                            Agrees(sess[s], told[s])
                       \/ \E k \in Handlers : Busy(k) /\ Session(k) = s /\ job[k].at \in Writing)'
    BY DEF Agreement
  <2>1. CASE s = r.session /\ Changes(r) /\ job[h].clean
    <3>1. told'[s] = Learned(r, o, TRUE) /\ sess'[s] = entry
      BY <2>1, <1>1
    <3> QED
      BY <2>1, <3>1, <1>1 DEF Agrees
  <2>2. CASE s = r.session /\ Changes(r) /\ ~job[h].clean
    <3>1. ~told'[s].known
      BY <2>2, <1>0, <1>1 DEF Learned, Shapes, DispatchTypeOK
    <3> QED
      BY <3>1
  <2>3. CASE s # r.session \/ ~Changes(r)
    <3>1. told'[s] = told[s] /\ sess'[s] = sess[s]
      BY <2>3, <1>1 DEF Learned
    <3>2. s # r.session \/ job[h].at \notin Writing
      BY <2>3, WritingChanges DEF RightSteps
    <3> QED
      BY <3>1, <3>2, <1>0, <1>1, <1>2 DEF Agreement, Agrees
  <2> QED
    BY <2>1, <2>2, <2>3, <1>0 DEF Shapes, IsJob
<1>9. StdioGrantsNothing'
  BY <1>0, <1>1 DEF StdioGrantsNothing
<1> QED
  BY <1>3, <1>5, <1>6, <1>7, <1>8, <1>9

-----------------------------------------------------------------------------
(* The steps of the handlers.                                              *)

LEMMA KeptEntry ==
    ASSUME Consistent, NEW h \in Handlers, Busy(h)
    PROVE  /\ Session(h) \in Ids /\ Coherent(sess[Session(h)])
           /\ sess = [sess EXCEPT ![Session(h)] = sess[Session(h)]]
BY DEF Consistent, Shapes, DispatchTypeOK, Coherent, IsJob, Busy, Session

\* A clean request outside an initialize finds its session as its client was told.
LEMMA CleanAgrees ==
    ASSUME Consistent, NEW h \in Handlers, Clean(h), told[Session(h)].known,
           job[h].at \notin Writing
    PROVE  Agrees(sess[Session(h)], told[Session(h)])
<1>1. Session(h) \in Ids /\ scenario.transport = "http"
  BY DEF Consistent, Shapes, IsJob, Clean, Session
<1>2. ASSUME NEW k \in Handlers, Busy(k), Session(k) = Session(h), job[k].at \in Writing
      PROVE  FALSE
  BY <1>2, WritingChanges DEF Consistent, RightSteps, CleanIsAlone
<1> QED
  BY <1>1, <1>2 DEF Consistent, Agreement

\* The next step of a request that leaves the table alone.
LEMMA GotoKeeps ==
    ASSUME Consistent, NEW h \in Handlers, NEW step \in AllSteps,
           Busy(h), Goto(h, step), sess' = sess,
           RightStep(step, job[h].req), step \notin Writing, job[h].at \notin Writing,
           job[h].clean => InStep([job[h] EXCEPT !.at = step], sess[Session(h)])
    PROVE  Consistent' /\ Replies'
<1> DEFINE j == [job[h] EXCEPT !.at = step]
<1>1. IsJob(job[h])
  BY DEF Consistent, Shapes
<1>2. IsJob(j) /\ j.req = job[h].req /\ j.clean = job[h].clean /\ j.at = step
  BY <1>1 DEF IsJob
<1>3. Consistent'
  <2> HIDE DEF j
  <2> QED
    BY <1>2, KeptEntry, MoveKeeps DEF Goto, Become, j
<1> QED
  BY <1>3, NoReplyKeeps DEF Goto

\* The end of a request that leaves the table alone.
LEMMA FinishKeeps ==
    ASSUME Consistent, NEW h \in Handlers, NEW o, Busy(h), Finish(h, o), sess' = sess,
           job[h].at \notin Writing, o \notin {"initialize_ok", "initialized_ok", "deleted"},
           Sensible(job[h].req, o),
           job[h].clean /\ told[Session(h)].known =>
               Expected(job[h].req, o, told[Session(h)])
    PROVE  Consistent' /\ Replies'
<1>1. Learned(job[h].req, o, TRUE) = told[Session(h)]
  BY DEF Learned, Session
<1>2. job[h].clean /\ told[Session(h)].known => Agrees(sess[Session(h)], told[Session(h)])
  BY CleanAgrees DEF Clean
<1> QED
  BY <1>1, <1>2, KeptEntry, EndKeeps

LEMMA HandleKeeps ==
    ASSUME Consistent, NEW h \in Handlers, Handle(h)
    PROVE  Consistent' /\ Replies'
<1> DEFINE r == job[h].req
           e == sess[Session(h)]
           t == told[Session(h)]
<1>1. /\ IsJob(job[h]) /\ RightStep(job[h].at, r) /\ Busy(h)
      /\ scenario.transport = "http" /\ Coherent(e)
      /\ job[h].clean => InStep(job[h], e)
      /\ job[h].clean /\ t.known /\ job[h].at \notin Writing => Agrees(e, t)
  <2>1. Busy(h)
    BY DEF Handle, At, Touch, Create, Accept, Grant, Mark, Check, Context, Call, Count, Errors,
           ServePrompts, Has, RemoveSession
  <2> QED
    BY <2>1, KeptEntry, CleanAgrees DEF Consistent, Shapes, RightSteps, CleanInStep, Clean
<1>a. \A step : At(h, step) => job[h].at = step
  BY DEF At
<1>2. CASE Touch(h)
  <2> DEFINE to == Routed(r)
  <2>1. job[h].at = "touch" /\ sess' = sess /\ job[h].at \notin Writing
    BY <1>2, <1>a DEF Touch, Writing
  <2>2. /\ to \in Steps => to \notin Writing /\ RightStep(to, r) /\ to \in AllSteps
        /\ to \notin Steps => to \in {"invalid_request", "one_way", "bad_version"}
    <3>1. r.verb # "DELETE" /\ Kind(r) \in {"prebuilt", "one_way", "request"}
      BY <1>1, <2>1 DEF RightStep, Kind, ParseFrame
    <3>2. Kind(r) = "request" \/ to \in {"invalid_request", "one_way"}
      BY <3>1 DEF Routed, Initializes, Completes, Calls
    <3>3. CASE Initializes(r)
      <4>1. to \in {"create", "bad_version"}
        BY <3>3 DEF Routed, Initializes, Completes, Calls
      <4> QED
        BY <3>1, <3>3, <4>1 DEF RightStep, Steps, AllSteps, Writing, Served
    <3>4. CASE Completes(r)
      <4>1. to = IF CompletionRefused(r) THEN "invalid_request" ELSE "mark"
        BY <3>4 DEF Routed, Initializes, Completes, Calls
      <4> QED
        BY <3>1, <3>4, <4>1 DEF RightStep, Steps, AllSteps, Writing, Served
    <3>5. CASE Kind(r) = "request" /\ ~Initializes(r) /\ ~Completes(r)
      <4>1. to = "check"
        BY <3>5 DEF Routed
      <4> QED
        BY <3>1, <3>5, <4>1 DEF RightStep, Steps, AllSteps, Writing, Served
    <3> QED
      BY <3>2, <3>3, <3>4, <3>5 DEF Steps
  <2>3. CASE ~e.exists /\ Finish(h, "unknown_session")
    <3>1. Sensible(r, "unknown_session")
      BY DEF Sensible, PastCapability
    <3>2. job[h].clean /\ t.known => Expected(r, "unknown_session", t)
      BY <1>1, <2>1, <2>3 DEF Expected, Agrees, Closed, Coherent, PastCapability
    <3> QED
      BY <1>1, <2>1, <2>3, <3>1, <3>2, FinishKeeps
  <2>4. CASE e.exists /\ to \in Steps /\ Goto(h, to)
    <3>1. job[h].clean => InStep([job[h] EXCEPT !.at = to], e)
      BY <1>1, <2>2, <2>4 DEF InStep, IsJob, Steps, Served, Writing
    <3> QED
      BY <1>1, <2>1, <2>2, <2>4, <3>1, GotoKeeps
  <2>5. CASE e.exists /\ to \notin Steps /\ Finish(h, to)
    <3>1. Sensible(r, to)
      BY <2>2, <2>5 DEF Sensible, PastCapability, Routed, Calls, Completes, Initializes, Kind, Steps
    <3>2. Expected(r, to, t)
      BY <2>2, <2>5 DEF Expected, PastCapability, Routed, Calls, Completes, Initializes, Closed, Steps
    <3> QED
      BY <1>1, <2>1, <2>2, <2>5, <3>1, <3>2, FinishKeeps
  <2> QED
    BY <1>2, <2>3, <2>4, <2>5 DEF Touch
<1>3. CASE Create(h)
  <2> DEFINE j == [job[h] EXCEPT !.at = "accept"]
             n == CreateSession(Session(h))
  <2>1. job[h].at = "create" /\ Initializes(r) /\ Changes(r)
    BY <1>1, <1>3, <1>a DEF Create, RightStep, Changes
  <2>2. IsJob(j) /\ j.req = r /\ j.clean = job[h].clean /\ j.at = "accept"
    BY <1>1 DEF IsJob, AllSteps
  <2>3. Coherent(n) /\ n.exists
    BY <1>1 DEF CreateSession, Coherent, NewEntry, NoEntry, Entry
  <2>4. RightStep(j.at, j.req)
    BY <1>1, <2>1, <2>2 DEF RightStep, Writing, Served, Kind, Initializes, Calls
  <2>5. Consistent'
    <3> HIDE DEF j, n
    <3> QED
      BY <1>1, <1>3, <2>1, <2>2, <2>3, <2>4, MoveKeeps
         DEF Create, Goto, Become, Write, InStep, Writing, Served, j, n
  <2> QED
    BY <1>3, <2>5, NoReplyKeeps DEF Create, Goto
<1>4. CASE Accept(h)
  <2> DEFINE j == [job[h] EXCEPT !.at = "grant"]
             n == MarkInitializeAccepted(Session(h))
  <2>1. job[h].at = "accept" /\ Initializes(r) /\ Changes(r)
    BY <1>1, <1>4, <1>a DEF Accept, RightStep, Changes, Writing
  <2>2. IsJob(j) /\ j.req = r /\ j.clean = job[h].clean /\ j.at = "grant"
    BY <1>1 DEF IsJob, AllSteps
  <2>3. /\ Coherent(n)
        /\ job[h].clean => n.exists /\ n.accepted /\ ~n.initialized
    BY <1>1, <2>1 DEF MarkInitializeAccepted, Coherent, Entry, InStep, Writing
  <2>4. RightStep(j.at, j.req)
    BY <1>1, <2>1, <2>2 DEF RightStep, Writing, Served, Kind, Initializes, Calls
  <2>5. Consistent'
    <3> HIDE DEF j, n
    <3> QED
      BY <1>1, <1>4, <2>1, <2>2, <2>3, <2>4, MoveKeeps
         DEF Accept, Goto, Become, Write, InStep, Writing, Served, j, n
  <2> QED
    BY <1>4, <2>5, NoReplyKeeps DEF Accept, Goto
<1>5. CASE Grant(h)
  <2> DEFINE n == SetMutatingAllowed(Session(h), Negotiated(r))
  <2>1. job[h].at = "grant" /\ Initializes(r) /\ Changes(r)
    BY <1>1, <1>5, <1>a DEF Grant, RightStep, Changes, Writing
  <2>2. Negotiated(r) \in BOOLEAN
    BY DEF Negotiated
  <2>3. Coherent(n)
    BY <1>1, <2>2 DEF SetMutatingAllowed, Coherent, Entry
  <2>4. job[h].clean => Agrees(n, Learned(r, "initialize_ok", TRUE))
    BY <1>1, <2>1, <2>2 DEF Learned, Agrees, SetMutatingAllowed, InStep, Writing, Negotiated, Coherent, Entry
  <2>5. Sensible(r, "initialize_ok") /\ Expected(r, "initialize_ok", t)
    BY <2>1 DEF Sensible, Expected, PastCapability, Initializes, Calls
  <2> QED
    BY <1>1, <1>5, <2>1, <2>3, <2>4, <2>5, EndKeeps DEF Grant, Write
<1>6. CASE Mark(h)
  <2> DEFINE n == MarkInitialized(Session(h))
             o == IF MayMarkInitialized(Session(h)) THEN "initialized_ok" ELSE "rejected"
  <2>1. /\ job[h].at = "mark" /\ Completes(r) /\ ~CompletionRefused(r) /\ Changes(r)
        /\ job[h].at \notin Writing
    BY <1>1, <1>6, <1>a DEF Mark, RightStep, Changes, Writing
  <2>2. Coherent(n)
    BY <1>1 DEF MarkInitialized, MayMarkInitialized, Coherent, Entry
  <2>3. Sensible(r, o)
    BY <2>1 DEF Sensible, PastCapability, Completes, Calls, Notification, CompletionRefused
  <2>4. job[h].clean /\ t.known => Expected(r, o, t)
    BY <1>1, <2>1 DEF Expected, PastCapability, Completes, Calls, Closed, Agrees,
                      MayMarkInitialized, Coherent
  <2>5. job[h].clean /\ t.known => Agrees(n, Learned(r, o, TRUE))
    BY <1>1, <2>1 DEF Agrees, Learned, MarkInitialized, MayMarkInitialized, Coherent, Entry, Session
  <2>6. job[h].clean /\ Learned(r, o, TRUE).known => t.known
    BY <1>1, <2>1 DEF Learned, Session, Completes, Initializes, Calls
  <2> QED
    BY <1>1, <1>6, <2>1, <2>2, <2>3, <2>4, <2>5, <2>6, EndKeeps DEF Mark, Write
<1>7. CASE Check(h)
  <2>1. /\ job[h].at = "check" /\ sess' = sess /\ job[h].at \notin Writing
        /\ Kind(r) = "request" /\ ~Initializes(r) /\ ~Completes(r) /\ r.verb # "DELETE"
    BY <1>1, <1>7, <1>a DEF Check, RightStep, Writing
  <2>2. CASE ~IsFullyInitialized(Session(h)) /\ Finish(h, "not_initialized")
    <3>1. Sensible(r, "not_initialized")
      BY DEF Sensible, PastCapability
    <3>2. job[h].clean /\ t.known => Expected(r, "not_initialized", t)
      BY <1>1, <2>1, <2>2 DEF Expected, PastCapability, Closed, Agrees, IsFullyInitialized
    <3> QED
      BY <1>1, <2>1, <2>2, <3>1, <3>2, FinishKeeps
  <2>3. ASSUME IsFullyInitialized(Session(h)), NEW step \in {"context", "count"},
               step = "context" => r.frame.method = "tools/call",
               step = "count" => IsPromptMethod(r), Goto(h, step)
        PROVE  Consistent' /\ Replies'
    <3>1. RightStep(step, r) /\ step \notin Writing /\ step \in AllSteps
      BY <2>1, <2>3 DEF RightStep, Writing, Served, AllSteps
    <3>2. InStep([job[h] EXCEPT !.at = step], e)
      BY <1>1, <2>3 DEF InStep, IsJob, Served, Writing, IsFullyInitialized, Coherent
    <3> QED
      BY <1>1, <2>1, <2>3, <3>1, <3>2, GotoKeeps
  <2>4. CASE IsFullyInitialized(Session(h)) /\ r.frame.method # "tools/call"
             /\ Finish(h, Method(r, {}))
    <3> DEFINE o == Method(r, {})
    <3>1. o \notin Special /\ o # "session_required"
      BY <2>4, MethodOutcomes
    <3>2. Sensible(r, o)
      BY <2>4, <3>1 DEF Sensible, Special, Calls
    <3>3. job[h].clean /\ t.known => Expected(r, o, t)
      BY <1>1, <2>1, <2>4, <3>1
         DEF Expected, Special, Calls, Closed, Agrees, IsFullyInitialized
    <3> HIDE DEF o
    <3> QED
      BY <1>1, <2>1, <2>4, <3>1, <3>2, <3>3, FinishKeeps DEF Special, o
  <2> QED
    BY <1>7, <2>2, <2>3, <2>4 DEF Check
<1>8. CASE Context(h)
  <2> DEFINE j == [job[h] EXCEPT !.at = "call", !.initialized = e.initialized]
  <2>1. /\ job[h].at = "context" /\ sess' = sess /\ job[h].at \notin Writing
        /\ job[h].at \in Served
    BY <1>8, <1>a DEF Context, Writing, Served
  <2>2. IsJob(j) /\ j.req = r /\ j.clean = job[h].clean /\ j.at = "call"
        /\ j.initialized = e.initialized
    <3>1. job[h] = [at |-> job[h].at, req |-> r, initialized |-> job[h].initialized,
                    clean |-> job[h].clean]
      BY <1>1 DEF IsJob
    <3>2. j = [at |-> "call", req |-> r, initialized |-> e.initialized, clean |-> job[h].clean]
      <4> DEFINE f == job[h]
                 g == [f EXCEPT !.at = "call"]
      <4>1. g = [at |-> "call", req |-> r, initialized |-> f.initialized, clean |-> f.clean]
        BY <3>1
      <4>2. j = [g EXCEPT !.initialized = e.initialized]
        OBVIOUS
      <4> HIDE DEF g, j
      <4> QED
        BY <4>1, <4>2
    <3> HIDE DEF j
    <3> QED
      BY <1>1, <3>2 DEF IsJob, AllSteps, Coherent, Entry
  <2>3. RightStep(j.at, j.req)
    BY <1>1, <2>1, <2>2 DEF RightStep, Writing, Served
  <2>4. j.clean => InStep(j, e)
    BY <1>1, <2>1, <2>2 DEF InStep, Writing, Served
  <2>5. Consistent'
    <3> HIDE DEF j
    <3> QED
      BY <1>1, <1>8, <2>1, <2>2, <2>3, <2>4, KeptEntry, MoveKeeps DEF Context, Become, Session, j
  <2> QED
    BY <1>8, <2>5, NoReplyKeeps DEF Context
<1>9. CASE Call(h)
  <2> DEFINE c == [initialized |-> job[h].initialized, mutating |-> MutatingAllowed(Session(h))]
             o == Method(r, c)
  <2>1. /\ job[h].at = "call" /\ sess' = sess /\ job[h].at \notin Writing
        /\ Kind(r) = "request" /\ ~Initializes(r) /\ ~Completes(r)
        /\ r.frame.method = "tools/call"
    BY <1>1, <1>9, <1>a DEF Call, RightStep, Writing, Served
  <2>2. o = CallOutcome(r.arg, c, scenario.opts) /\ o \notin Special
    BY <2>1, MethodOutcomes
  <2>3. Sensible(r, o)
    BY <2>2, PolicyOfCalls DEF Sensible, Special
  <2>4. /\ o \in PastCapability /\ IsMutatingTool(r.arg.name) => c.mutating
        /\ o = "capability_required" => IsMutatingTool(r.arg.name) /\ ~c.mutating
        /\ o = "session_required" => ~c.initialized
    BY <2>2, CallOutcomes
  <2>5. job[h].clean /\ t.known => Expected(r, o, t)
    <3> HIDE DEF o
    <3> SUFFICES ASSUME job[h].clean, t.known PROVE Expected(r, o, t)
      OBVIOUS
    <3>1. /\ e.accepted /\ e.initialized /\ job[h].initialized
          /\ t.live /\ t.ready
          /\ t.mutating <=> c.mutating
      BY <1>1, <2>1 DEF InStep, Served, Agrees, MutatingAllowed
    <3> QED
      BY <2>1, <2>2, <2>4, <3>1 DEF Expected, Closed, Special
  <2> HIDE DEF o
  <2> QED
    BY <1>1, <1>9, <2>1, <2>2, <2>3, <2>5, FinishKeeps DEF Call, Special, o
<1>10. CASE Count(h)
  <2> DEFINE step == IF catalog.prompts = <<>> THEN "errors" ELSE "serve"
  <2>1. /\ job[h].at = "count" /\ sess' = sess /\ job[h].at \notin Writing /\ Goto(h, step)
    BY <1>10, <1>a DEF Count, Writing
  <2>2. RightStep(step, r) /\ step \notin Writing /\ step \in AllSteps
    BY <1>1, <2>1 DEF RightStep, Writing, Served, AllSteps
  <2>3. job[h].clean => InStep([job[h] EXCEPT !.at = step], e)
    BY <1>1, <2>1 DEF InStep, IsJob, Served, Writing
  <2> QED
    BY <1>1, <2>1, <2>2, <2>3, GotoKeeps
<1>15. ASSUME NEW o, job[h].at \in {"errors", "serve"}, sess' = sess, Finish(h, o),
              o \notin Special \cup {"session_required"}
       PROVE  Consistent' /\ Replies'
  <2>1. /\ Kind(r) = "request" /\ ~Initializes(r) /\ ~Completes(r)
        /\ ~Calls(r, {"tools/call"}) /\ job[h].at \notin Writing
    BY <1>1, <1>15 DEF RightStep, Served, Writing, Calls, IsPromptMethod
  <2>2. Sensible(r, o)
    BY <1>15, <2>1 DEF Sensible, Special
  <2>3. job[h].clean /\ t.known => Expected(r, o, t)
    BY <1>1, <1>15, <2>1 DEF Expected, Special, Closed, InStep, Served, Agrees
  <2> QED
    BY <1>1, <1>15, <2>1, <2>2, <2>3, FinishKeeps DEF Special
<1>11. CASE Errors(h)
  <2>1. job[h].at = "errors" /\ sess' = sess /\ job[h].at \notin Writing
    BY <1>11, <1>a DEF Errors, Writing
  <2>2. RightStep("serve", r) /\ "serve" \notin Writing /\ "serve" \in AllSteps
    BY <1>1, <2>1 DEF RightStep, Writing, Served, AllSteps
  <2>3. job[h].clean => InStep([job[h] EXCEPT !.at = "serve"], e)
    BY <1>1, <2>1 DEF InStep, IsJob, Served, Writing
  <2>4. CASE Finish(h, "not_available")
    BY <1>15, <2>1, <2>4 DEF Special
  <2>5. CASE Goto(h, "serve")
    BY <1>1, <2>1, <2>2, <2>3, <2>5, GotoKeeps
  <2> QED
    BY <1>11, <2>4, <2>5 DEF Errors
<1>12. CASE ServePrompts(h)
  BY <1>12, <1>15, <1>a, PromptOutcomes DEF ServePrompts
<1>13. CASE Has(h)
  <2>1. /\ job[h].at = "has" /\ sess' = sess /\ job[h].at \notin Writing
        /\ r.verb = "DELETE" /\ Kind(r) = "delete"
    BY <1>1, <1>13, <1>a DEF Has, Writing, RightStep, Kind
  <2>2. CASE Finish(h, "unknown_session")
    <3>1. Sensible(r, "unknown_session") /\ Expected(r, "unknown_session", t)
      BY <2>1 DEF Sensible, Expected, PastCapability, Calls
    <3> QED
      BY <1>1, <2>1, <2>2, <3>1, FinishKeeps
  <2>3. CASE Goto(h, "remove")
    <3>1. RightStep("remove", r) /\ "remove" \notin Writing /\ "remove" \in AllSteps
      BY <2>1 DEF RightStep, Writing, Served, AllSteps
    <3>2. InStep([job[h] EXCEPT !.at = "remove"], e)
      BY <1>1 DEF InStep, IsJob, Served, Writing
    <3> QED
      BY <1>1, <2>1, <2>3, <3>1, <3>2, GotoKeeps
  <2> QED
    BY <1>13, <2>2, <2>3 DEF Has
<1>14. CASE RemoveSession(h)
  <2>1. job[h].at = "remove" /\ r.verb = "DELETE" /\ Kind(r) = "delete" /\ Changes(r)
    BY <1>1, <1>14, <1>a DEF RemoveSession, RightStep, Kind, Changes
  <2>2. Coherent(NoEntry)
    BY DEF Coherent, NoEntry, Entry
  <2>3. Sensible(r, "deleted") /\ Expected(r, "deleted", t)
    BY <2>1 DEF Sensible, Expected, PastCapability, Calls
  <2>4. Agrees(NoEntry, Learned(r, "deleted", TRUE))
    BY <2>1 DEF Agrees, NoEntry, Learned, Nothing
  <2> QED
    BY <1>1, <1>14, <2>1, <2>2, <2>3, <2>4, EndKeeps DEF RemoveSession, Write
<1> QED
  BY <1>2, <1>3, <1>4, <1>5, <1>6, <1>7, <1>8, <1>9, <1>10, <1>11, <1>12, <1>13, <1>14 DEF Handle

-----------------------------------------------------------------------------
(* The arrival of a request.                                               *)

\* A request is taken up, and spoils the others of its session if it changes it.
LEMMA StartKeeps ==
    ASSUME Consistent, NEW h \in Handlers, NEW r, NEW at \in {"touch", "has", "create"},
           ~Busy(h), scenario.transport = "http", IsRequest(r), r.session \in Ids,
           RightStep(at, r),
           job' = [k \in Handlers |->
                     IF k = h THEN [at |-> at, req |-> r, initialized |-> FALSE,
                                    clean |-> \A o \in Others(r) : ~Changes(job[o].req)]
                     ELSE IF Changes(r) /\ k \in Others(r) THEN [job[k] EXCEPT !.clean = FALSE]
                     ELSE job[k]],
           UNCHANGED <<scenario, sess, told, issued>>,
           walk' = walk \/ walk' = [walk EXCEPT !.state = "waiting"]
    PROVE  Consistent'
<1> USE DEF Consistent, Busy, Session, Clean
<1>1. /\ IsJob(job'[h]) /\ job'[h].at = at /\ job'[h].req = r
      /\ job'[h].clean => \A o \in Others(r) : ~Changes(job[o].req)
  BY DEF IsJob, AllSteps, Steps
<1>2. ASSUME NEW k \in Handlers, k # h
      PROVE  \/ job'[k] = job[k]
             \/ /\ Busy(k) /\ IsJob(job'[k])
                /\ job'[k].at = job[k].at /\ job'[k].req = job[k].req /\ ~job'[k].clean
  <2>1. job'[k] = job[k] \/ (Busy(k) /\ job'[k] = [job[k] EXCEPT !.clean = FALSE])
    BY <1>2 DEF Others
  <2>2. CASE Busy(k) /\ job'[k] = [job[k] EXCEPT !.clean = FALSE]
    <3> DEFINE j == job[k]
    <3>1. IsJob(j)
      BY <2>2 DEF Shapes
    <3>2. job'[k] = [at |-> j.at, req |-> j.req, initialized |-> j.initialized, clean |-> FALSE]
      <4> HIDE DEF j
      <4>1. job'[k] = [j EXCEPT !.clean = FALSE]
        BY <2>2 DEF j
      <4> QED
        BY <3>1, <4>1 DEF IsJob
    <3> HIDE DEF j
    <3>3. Busy(k) /\ j = job[k]
      BY <2>2 DEF j
    <3> QED
      BY <3>1, <3>2, <3>3 DEF IsJob
  <2> QED
    BY <2>1, <2>2
<1>3. ASSUME NEW k \in Handlers, k # h, Clean(k)'
      PROVE  Clean(k) /\ job'[k] = job[k] /\ (Session(k) = r.session => ~Changes(r))
  BY <1>2, <1>3, NotIdle DEF Others, Shapes, IsJob
<1>4. \A k \in Handlers : k # h /\ Busy(k)' => Busy(k) /\ IsJob(job'[k])
                               /\ job'[k].at = job[k].at /\ job'[k].req = job[k].req
  BY <1>2 DEF Shapes
<1>5. Shapes'
  <2>1. /\ walk' = [got |-> walk'.got, next |-> walk'.next, state |-> walk'.state,
                    stable |-> walk'.stable]
        /\ walk'.state \in {"idle", "waiting", "open", "done", "refused"}
    BY DEF Shapes, DispatchTypeOK
  <2>2. \A k \in Handlers : Busy(k)' => IsJob(job'[k])
    BY <1>1, <1>4
  <2> QED
    BY <2>1, <2>2 DEF Shapes, DispatchTypeOK, IsJob
<1>6. RightSteps'
  BY <1>1, <1>4 DEF RightSteps
<1>7. CleanIsAlone'
  <2> SUFFICES ASSUME NEW k \in Handlers, NEW o \in Handlers,
                      Clean(k)', Busy(o)', o # k, Session(o)' = Session(k)'
               PROVE  ~Changes(job'[o].req)
    BY DEF CleanIsAlone
  <2>1. CASE k = h
    BY <2>1, <1>1, <1>4 DEF Others
  <2>2. CASE o = h
    BY <2>2, <1>1, <1>3
  <2>3. CASE k # h /\ o # h
    BY <2>3, <1>3, <1>4 DEF CleanIsAlone
  <2> QED
    BY <2>1, <2>2, <2>3
<1>8. CleanInStep'
  <2> SUFFICES ASSUME NEW k \in Handlers, Clean(k)' PROVE InStep(job'[k], sess[Session(k)'])
    BY DEF CleanInStep, InStep
  <2>1. CASE k = h
    BY <2>1, <1>1 DEF InStep, Writing, Served
  <2>2. CASE k # h
    BY <2>2, <1>3 DEF CleanInStep
  <2> QED
    BY <2>1, <2>2
<1>9. Agreement'
  <2>1. ASSUME NEW k \in Handlers, Busy(k), job[k].at \in Writing
        PROVE  Busy(k)' /\ Session(k)' = Session(k) /\ job'[k].at \in Writing
    BY <2>1, <1>2, NotIdle
  <2> QED
    BY <2>1 DEF Agreement, Agrees
<1>10. StdioGrantsNothing'
  BY DEF StdioGrantsNothing
<1> QED
  BY <1>5, <1>6, <1>7, <1>8, <1>9, <1>10

LEMMA AdmitKeeps ==
    ASSUME Consistent, NEW h \in Handlers, NEW r, IsRequest(r), Admit(h, r),
           walk' = walk \/ walk' = [walk EXCEPT !.state = "waiting"]
    PROVE  Consistent' /\ Replies'
<1>1. r.session \in Ids /\ ~Busy(h) /\ scenario.transport = "http"
  BY DEF Admit, Free, Ids, Consistent, Shapes, DispatchTypeOK
<1>2. EarlyAnswer(r) \in {"parse_error", "bad_header", "", "invalid_request", "bad_version",
                           "missing_session"}
  BY DEF EarlyAnswer
<1>3. CASE /\ EarlyAnswer(r) # "" /\ job' = job
           /\ reply' = [req |-> r, outcome |-> EarlyAnswer(r), answer |-> EarlyAnswer(r),
                        clean |-> FALSE, told |-> told[r.session]]
  <2>1. Consistent'
    BY <1>3 DEF Admit, Consistent, Shapes, DispatchTypeOK, RightSteps, CleanIsAlone,
                CleanInStep, Agreement, StdioGrantsNothing, Busy, Session, Clean, Agrees, InStep
  <2>2. ReadyAsTold' /\ CapabilityAsTold'
    BY <1>3 DEF ReadyAsTold, CapabilityAsTold, Reliable
  <2>3. PolicyKept'
    BY <1>2, <1>3 DEF PolicyKept, PastCapability
  <2>4. RequestsAreAnswered'
    <3>1. Kind(r) = "request" /\ Notification(r) => EarlyAnswer(r) \in {"bad_header", "missing_session"}
      BY <1>3 DEF EarlyAnswer, Notification, Initializes, Calls, Kind, ParseFrame, Malformed
    <3> QED
      BY <1>2, <1>3, <3>1 DEF RequestsAreAnswered
  <2> QED
    BY <2>1, <2>2, <2>3, <2>4 DEF Replies
<1>4. CASE /\ EarlyAnswer(r) = "" /\ r.session # NoSession /\ reply' = NoReply
           /\ job' = Started(h, IF r.verb = "DELETE" THEN "has" ELSE "touch", r)
  <2> DEFINE at == IF r.verb = "DELETE" THEN "has" ELSE "touch"
  <2>1. RightStep(at, r)
    BY <1>4 DEF RightStep, EarlyAnswer, Writing, Served
  <2>2. Consistent'
    <3> HIDE DEF at
    <3>1. at \in {"touch", "has", "create"}
      BY DEF at
    <3> QED
      BY <1>1, <1>4, <2>1, <3>1, StartKeeps DEF Admit, Started, at
  <2> QED
    BY <1>4, <2>2, NoReplyKeeps
<1>5. ASSUME EarlyAnswer(r) = "", r.session = NoSession, reply' = NoReply, NEW s \in NewIds,
             job' = Started(h, "create", [r EXCEPT !.session = s])
      PROVE  Consistent' /\ Replies'
  <2> DEFINE q == [r EXCEPT !.session = s]
  <2>1. q = [verb |-> r.verb, session |-> s, header |-> r.header, walk |-> r.walk,
             frame |-> r.frame, arg |-> r.arg]
    BY DEF IsRequest
  <2>2. /\ IsRequest(q) /\ q.session = s /\ s \in Ids
        /\ Initializes(q) = Initializes(r) /\ q.verb = r.verb
    BY <2>1 DEF IsRequest, NewIds, Ids, Initializes, Calls, Kind
  <2>3. Initializes(r)
    BY <1>5 DEF EarlyAnswer
  <2>4. RightStep("create", q)
    BY <2>2, <2>3 DEF RightStep, Writing, Served, Initializes, Calls, Kind
  <2>5. job' = [k \in Handlers |->
                  IF k = h THEN [at |-> "create", req |-> q, initialized |-> FALSE,
                                 clean |-> \A o \in Others(q) : ~Changes(job[o].req)]
                  ELSE IF Changes(q) /\ k \in Others(q) THEN [job[k] EXCEPT !.clean = FALSE]
                  ELSE job[k]]
    BY <1>5 DEF Started
  <2>6. Consistent'
    <3> HIDE DEF q
    <3> QED
      BY <1>1, <2>2, <2>4, <2>5, StartKeeps DEF Admit
  <2> QED
    BY <1>5, <2>6, NoReplyKeeps
<1> QED
  BY <1>3, <1>4, <1>5 DEF Admit

-----------------------------------------------------------------------------
(* The other steps.                                                        *)

LEMMA ExpireKeeps ==
    ASSUME Consistent, NEW s \in Sessions, Expire(s)
    PROVE  Consistent' /\ Replies'
<1> USE DEF Consistent, Busy, Session, Clean
<1>1. /\ s \in Ids /\ s # Stdio
      /\ sess' = [i \in Ids |-> IF i = s THEN NoEntry ELSE sess[i]]
      /\ told' = [i \in Ids |-> IF i = s THEN Nothing ELSE told[i]]
  BY IdsAssumption DEF Expire, Write, Ids, Shapes, DispatchTypeOK
<1>2. ASSUME NEW k \in Handlers
      PROVE  \/ job'[k] = job[k] /\ (Busy(k) => Session(k) # s)
             \/ /\ Busy(k) /\ IsJob(job'[k])
                /\ job'[k].at = job[k].at /\ job'[k].req = job[k].req /\ ~job'[k].clean
  <2>1. CASE ~(Busy(k) /\ Session(k) = s)
    BY <2>1 DEF Expire
  <2>2. CASE Busy(k) /\ Session(k) = s
    <3> DEFINE j == job[k]
    <3>1. IsJob(j) /\ job'[k] = [j EXCEPT !.clean = FALSE]
      BY <2>2 DEF Shapes, Expire
    <3>2. job'[k] = [at |-> j.at, req |-> j.req, initialized |-> j.initialized, clean |-> FALSE]
      <4> HIDE DEF j
      <4> QED
        BY <3>1 DEF IsJob
    <3>3. Busy(k) /\ j = job[k]
      BY <2>2
    <3> HIDE DEF j
    <3> QED
      BY <3>1, <3>2, <3>3 DEF IsJob
  <2> QED
    BY <2>1, <2>2
<1>3. \A k \in Handlers : Busy(k)' => /\ Busy(k) /\ IsJob(job'[k])
                                      /\ job'[k].at = job[k].at /\ job'[k].req = job[k].req
  BY <1>2 DEF Shapes
<1>4. \A k \in Handlers : Clean(k)' => Clean(k) /\ job'[k] = job[k] /\ Session(k) # s
  BY <1>2
<1>5. Shapes'
  <2>1. /\ sess' \in [Ids -> Entry] /\ \A i \in Ids : Coherent(sess'[i])
        /\ told' \in [Ids -> [known : BOOLEAN, live : BOOLEAN, ready : BOOLEAN, mutating : BOOLEAN]]
    BY <1>1 DEF Shapes, DispatchTypeOK, Coherent, Entry, NoEntry, Nothing
  <2>2. job' = [k \in Handlers |-> job'[k]]
    BY DEF Expire
  <2> QED
    BY <1>3, <2>1, <2>2 DEF Expire, Shapes, DispatchTypeOK, Coherent, IsJob
<1>6. RightSteps'
  BY <1>3 DEF RightSteps
<1>7. CleanIsAlone'
  BY <1>3, <1>4 DEF CleanIsAlone
<1>8. CleanInStep'
  <2> SUFFICES ASSUME NEW k \in Handlers, Clean(k)' PROVE InStep(job'[k], sess'[Session(k)'])
    BY DEF CleanInStep, InStep
  <2>1. sess'[Session(k)'] = sess[Session(k)] /\ job'[k] = job[k] /\ Clean(k)
    BY <1>1, <1>4 DEF Shapes, IsJob
  <2> QED
    BY <2>1 DEF CleanInStep
<1>9. Agreement'
  <2>1. Agrees(NoEntry, Nothing) /\ scenario' = scenario
    BY DEF Agrees, NoEntry, Nothing, Expire
  <2>2. \A k \in Handlers : Busy(k) /\ job[k].at \in Writing =>
            Busy(k)' /\ Session(k)' = Session(k) /\ job'[k].at \in Writing
    BY <1>2, NotIdle
  <2> QED
    BY <1>1, <2>1, <2>2 DEF Agreement, Agrees
<1>10. StdioGrantsNothing'
  BY <1>1 DEF StdioGrantsNothing, Expire, Ids
<1> QED
  BY <1>5, <1>6, <1>7, <1>8, <1>9, <1>10, NoReplyKeeps DEF Expire

\* Steps that touch neither the sessions nor the requests.
LEMMA StandStill ==
    ASSUME Consistent, UNCHANGED <<scenario, sess, issued, job, told>>,
           walk' = walk \/ walk' = [walk EXCEPT !.stable = @ /\ walk.state = "idle"]
    PROVE  Consistent'
<1>1. /\ walk' = [got |-> walk'.got, next |-> walk'.next, state |-> walk'.state,
                  stable |-> walk'.stable]
      /\ walk'.state \in {"idle", "waiting", "open", "done", "refused"}
  BY DEF Consistent, Shapes, DispatchTypeOK
<1> QED
  BY <1>1 DEF Consistent, Shapes, DispatchTypeOK, RightSteps, CleanIsAlone, CleanInStep,
              Agreement, StdioGrantsNothing, Busy, Session, Clean, Agrees, InStep

LEMMA StdioMethodOutcomes ==
    ASSUME NEW r
    PROVE  LET o == StdioMethod(r) IN
           /\ o \notin Special
           /\ r.frame.method = "tools/call" => o = CallOutcome(r.arg,
                [initialized |-> FALSE, mutating |-> FALSE], scenario.opts)
BY MethodOutcomes, PromptOutcomes DEF StdioMethod, Special, IsPromptMethod

LEMMA StdioKeeps ==
    ASSUME Consistent, NEW r \in RequestsOf(scenario.menu), StdioMessage(r)
    PROVE  Consistent' /\ Replies'
<1> DEFINE o == StdioOutcome(r)
           e == sess[Stdio]
           t == told[Stdio]
           n == StdioEntry(o)
           T == Learned(r, o, TRUE)
<1>1. /\ scenario.transport = "stdio" /\ e.exists /\ r.session = Stdio /\ r.verb = "POST"
      /\ IsRequest(r) /\ Stdio \in Ids /\ Coherent(e)
      /\ ~t.mutating
      /\ t.known => Agrees(e, t)
      /\ \A h \in Handlers : ~Busy(h)
      /\ t \in [known : BOOLEAN, live : BOOLEAN, ready : BOOLEAN, mutating : BOOLEAN]
  BY RequestsAssumption
     DEF StdioMessage, Consistent, Shapes, DispatchTypeOK, Coherent, Ids, Agreement,
         StdioGrantsNothing
<1>2. /\ sess' = [s \in Ids |-> IF s = Stdio THEN n ELSE sess[s]]
      /\ told' = [s \in Ids |-> IF s = Stdio THEN T ELSE told[s]]
      /\ issued' \in {issued, issued \cup {Stdio}}
      /\ walk' = WalkAfter(r, o)
      /\ scenario' = scenario /\ job' = job
      /\ reply' = [req |-> r, outcome |-> o, answer |-> Answer(r, o), clean |-> TRUE, told |-> t]
  BY <1>1 DEF StdioMessage, Write, Conclude, Consistent, Shapes, DispatchTypeOK
<1>3. Kind(r) \in {"parse_error", "prebuilt", "one_way", "request"}
  BY <1>1 DEF Kind, ParseFrame
<1>4. \/ o \in {"unreadable", "invalid_request", "parse_error"} /\ Kind(r) # "request"
      \/ o = "one_way" /\ Kind(r) = "one_way"
      \/ o = StdioRequest(r) /\ Kind(r) = "request"
  BY <1>1, <1>3 DEF StdioOutcome, Kind, ParseFrame, Malformed
<1>5. Kind(r) # "request" =>
        /\ Sensible(r, o) /\ Expected(r, o, t) /\ T = t
        /\ o # "unreadable" => n = e
        /\ o = "unreadable" => n = NoEntry
  BY <1>1, <1>4 DEF Sensible, Expected, Calls, Learned, StdioEntry, PastCapability
<1>6. ASSUME Kind(r) = "request"
      PROVE  /\ Sensible(r, o) /\ (t.known => Expected(r, o, t))
             /\ Coherent(n) /\ n.exists /\ ~T.mutating
             /\ T.known => Agrees(n, T)
  <2>0. o = StdioRequest(r)
    BY <1>4, <1>6
  <2>1. CASE Initializes(r)
    <3>1. o \in {"initialize_ok", "bad_version"}
      BY <2>0, <2>1 DEF StdioRequest
    <3>2. Sensible(r, o) /\ Expected(r, o, t)
      BY <2>1, <3>1 DEF Sensible, Expected, PastCapability, Initializes, Calls
    <3>3. CASE o = "initialize_ok"
      <4>1. n = [e EXCEPT !.accepted = TRUE, !.initialized = FALSE]
        BY <1>1, <3>3 DEF StdioEntry, MarkInitializeAccepted
      <4>2. Coherent(n) /\ n.exists /\ n.accepted /\ ~n.initialized
        BY <1>1, <4>1 DEF Coherent, Entry
      <4>3. T = [known |-> TRUE, live |-> TRUE, ready |-> FALSE, mutating |-> FALSE]
        BY <1>1, <2>1, <3>3 DEF Learned, Changes
      <4> HIDE DEF n, T, o
      <4> QED
        BY <1>1, <3>2, <4>2, <4>3 DEF Agrees
    <3>4. CASE o = "bad_version"
      <4>1. n = e /\ T = t
        BY <1>1, <3>4 DEF StdioEntry, Learned
      <4> QED
        BY <1>1, <3>2, <4>1
    <3> QED
      BY <3>1, <3>3, <3>4
  <2>2. CASE Completes(r)
    <3>0. Changes(r) /\ ~Initializes(r) /\ ~Calls(r, {"tools/call"})
      BY <2>2 DEF Changes, Completes, Initializes, Calls
    <3>1. o = IF CompletionRefused(r) THEN "invalid_request"
              ELSE IF MayMarkInitialized(Stdio) THEN "initialized_ok" ELSE "rejected"
      BY <2>0, <2>2, <3>0 DEF StdioRequest
    <3>2. Sensible(r, o)
      BY <1>6, <3>0, <3>1 DEF Sensible, Notification, CompletionRefused
    <3>3. t.known => Expected(r, o, t)
      BY <1>1, <2>2, <3>0, <3>1 DEF Expected, Closed, Agrees, MayMarkInitialized
    <3>4. CASE o = "initialized_ok"
      <4>1. n = [e EXCEPT !.initialized = TRUE] /\ e.accepted
        BY <1>1, <3>1, <3>4 DEF StdioEntry, MarkInitialized, MayMarkInitialized
      <4>2. Coherent(n) /\ n.exists /\ n.accepted /\ n.initialized
        BY <1>1, <4>1 DEF Coherent, Entry
      <4>3. T = [t EXCEPT !.ready = TRUE]
        BY <1>1, <3>0, <3>4 DEF Learned
      <4> QED
        BY <1>1, <3>2, <3>3, <4>1, <4>2, <4>3 DEF Agrees
    <3>5. CASE o \in {"invalid_request", "rejected"}
      <4>1. n = e /\ T = t
        BY <1>1, <3>5 DEF StdioEntry, Learned
      <4> QED
        BY <1>1, <3>2, <3>3, <4>1
    <3> QED
      BY <3>1, <3>4, <3>5
  <2>3. CASE ~Initializes(r) /\ ~Completes(r)
    <3>0. o = IF IsFullyInitialized(Stdio) THEN StdioMethod(r) ELSE "not_initialized"
      BY <2>0, <2>3 DEF StdioRequest
    <3>1. o = "not_initialized" \/ o \notin Special
      BY <3>0, StdioMethodOutcomes
    <3>2. n = e /\ T = t
      BY <1>1, <3>1, <1>4, <1>6, <2>3 DEF StdioEntry, Learned, Changes, Special
    <3>3. CASE ~IsFullyInitialized(Stdio)
      <4>1. o = "not_initialized"
        BY <3>0, <3>3
      <4>2. Sensible(r, o) /\ (t.known => Expected(r, o, t))
        BY <1>1, <2>3, <3>3, <4>1
           DEF Sensible, Expected, PastCapability, Closed, Agrees, IsFullyInitialized
      <4> QED
        BY <1>1, <3>2, <4>2
    <3>4. CASE IsFullyInitialized(Stdio)
      <4> DEFINE c == [initialized |-> FALSE, mutating |-> FALSE]
      <4>1. o = StdioMethod(r) /\ o \notin Special
        BY <3>0, <3>4, StdioMethodOutcomes
      <4>2. r.frame.method = "tools/call" => o = CallOutcome(r.arg, c, scenario.opts)
        BY <4>1, StdioMethodOutcomes
      <4>3. ~c.mutating
        OBVIOUS
      <4> HIDE DEF c, o
      <4>4. r.frame.method = "tools/call" /\ IsMutatingTool(r.arg.name) =>
              o \notin PastCapability
        BY <4>2, <4>3, CallOutcomes
      <4>5. Sensible(r, o)
        BY <4>1, <4>2, PolicyOfCalls DEF Sensible, Special, Calls
      <4>6. t.known => Expected(r, o, t)
        BY <1>1, <2>3, <3>4, <4>1, <4>4
           DEF Expected, Closed, Special, Agrees, IsFullyInitialized, Calls
      <4> QED
        BY <1>1, <3>2, <4>5, <4>6
    <3> QED
      BY <3>3, <3>4
  <2> QED
    BY <2>1, <2>2, <2>3
<1>7. Consistent'
  <2>1. Coherent(n) /\ ~T.mutating /\ (T.known /\ n.exists => Agrees(n, T))
    <3>1. CASE Kind(r) # "request"
      <4>1. Coherent(NoEntry) /\ ~NoEntry.exists
        BY DEF Coherent, NoEntry, Entry
      <4> HIDE DEF n, T, o
      <4> QED
        BY <1>1, <1>5, <3>1, <4>1
    <3>2. CASE Kind(r) = "request"
      BY <1>6, <3>2
    <3> QED
      BY <3>1, <3>2
  <2>2. T \in [known : BOOLEAN, live : BOOLEAN, ready : BOOLEAN, mutating : BOOLEAN]
    BY <1>1 DEF Learned, Nothing
  <2>3. /\ sess' \in [Ids -> Entry] /\ issued' \subseteq Ids
        /\ \A s \in Ids : Coherent(sess'[s])
    BY <1>1, <1>2, <2>1 DEF Consistent, Shapes, DispatchTypeOK, Coherent
  <2>4. told' \in [Ids -> [known : BOOLEAN, live : BOOLEAN, ready : BOOLEAN, mutating : BOOLEAN]]
    BY <1>2, <2>2 DEF Consistent, Shapes, DispatchTypeOK
  <2>5. /\ walk' = [got |-> walk'.got, next |-> walk'.next, state |-> walk'.state,
                    stable |-> walk'.stable]
        /\ walk'.state \in {"idle", "waiting", "open", "done", "refused"}
    BY <1>2 DEF WalkAfter, Consistent, Shapes, DispatchTypeOK
  <2>6. \A h \in Handlers : ~Busy(h)'
    BY <1>1, <1>2 DEF Busy
  <2>7. Shapes'
    BY <1>2, <2>3, <2>4, <2>5, <2>6 DEF Consistent, Shapes, DispatchTypeOK, Coherent, Busy
  <2>8. Agreement' /\ StdioGrantsNothing'
    <3> HIDE DEF n, T, o
    <3> QED
      BY <1>1, <1>2, <2>1 DEF Consistent, Agreement, Agrees, StdioGrantsNothing
  <2> QED
    BY <2>6, <2>7, <2>8 DEF Consistent, RightSteps, CleanIsAlone, CleanInStep, Clean
<1>8. Replies'
  BY <1>2, <1>5, <1>6, ReplyKeeps
<1> QED
  BY <1>7, <1>8

-----------------------------------------------------------------------------
(* The theorems.                                                           *)

LEMMA InitConsistent == Init => Consistent /\ Replies
<1> SUFFICES ASSUME Init PROVE Consistent /\ Replies
  OBVIOUS
<1> USE ScenarioAssumption, IdsAssumption DEF Init
<1>1. scenario.granted \in BOOLEAN /\ scenario.allowMutating \in BOOLEAN
      /\ scenario.ready \subseteq Sessions
  OBVIOUS
<1>2. \A s \in Ids : Coherent(sess[s]) /\ (told[s].known => Agrees(sess[s], told[s]))
  BY <1>1 DEF Coherent, Entry, Open, NewEntry, NoEntry, Nothing, Agrees
<1>3. Shapes
  BY <1>1, <1>2 DEF Shapes, DispatchTypeOK, Coherent, Nothing, Busy, Ids
<1>4. \A h \in Handlers : ~Busy(h)
  BY DEF Busy
<1>5. StdioGrantsNothing
  BY <1>1 DEF StdioGrantsNothing, Nothing, Ids
<1>6. Replies
  BY DEF Replies, ReadyAsTold, CapabilityAsTold, RequestsAreAnswered, PolicyKept, Reliable
<1> QED
  BY <1>2, <1>3, <1>4, <1>5, <1>6
     DEF Consistent, RightSteps, CleanIsAlone, CleanInStep, Clean, Agreement

LEMMA StepKeeps ==
    ASSUME Consistent, Replies, [Next]_vars
    PROVE  Consistent' /\ Replies'
<1>1. CASE UNCHANGED vars
  <2>1. Replies'
    BY <1>1 DEF vars, Replies, ReadyAsTold, CapabilityAsTold, RequestsAreAnswered, PolicyKept,
                Reliable, RefusalIsDropped
  <2> QED
    BY <1>1, <2>1, StandStill DEF vars
<1>2. ASSUME NEW h \in Handlers, Receive(h) PROVE Consistent' /\ Replies'
  BY <1>2, AdmitKeeps, RequestsAssumption DEF Receive, Consistent, Shapes
<1>3. ASSUME NEW h \in Handlers, NextPage(h) PROVE Consistent' /\ Replies'
  BY <1>3, AdmitKeeps DEF NextPage, ListFrom, IsRequest
<1>4. ASSUME NEW h \in Handlers, Handle(h) PROVE Consistent' /\ Replies'
  BY <1>4, HandleKeeps
<1>5. ASSUME NEW s \in Sessions, Expire(s) PROVE Consistent' /\ Replies'
  BY <1>5, ExpireKeeps
<1>6. ASSUME NEW c, Reload(c) PROVE Consistent' /\ Replies'
  BY <1>6, StandStill, NoReplyKeeps DEF Reload
<1>7. ASSUME NEW r \in RequestsOf(scenario.menu), StdioMessage(r) PROVE Consistent' /\ Replies'
  BY <1>7, StdioKeeps
<1> QED
  BY <1>1, <1>2, <1>3, <1>4, <1>5, <1>6, <1>7 DEF Next

\* Sessions, requests in progress and what clients were told stay consistent in
\* every behaviour of the two transports (router.go, session.go).
THEOREM DispatchInvariant == Spec => [](Consistent /\ Replies)
<1>1. Init => Consistent /\ Replies
  BY InitConsistent
<1>2. (Consistent /\ Replies) /\ [Next]_vars => (Consistent /\ Replies)'
  BY StepKeeps
<1> QED
  BY <1>1, <1>2, PTL DEF Spec

\* The variables have their types; no session is open without its initialize.
THEOREM DispatchTypeCorrect == Spec => []DispatchTypeOK
<1>1. Consistent => DispatchTypeOK
  BY DEF Consistent, Shapes
<1> QED
  BY <1>1, DispatchInvariant, PTL

\* A client that has seen its handshake answered is served, and before that,
\* after a second initialize and after a DELETE it is refused.
THEOREM ServedAsTold == Spec => []ReadyAsTold
<1>1. Replies => ReadyAsTold
  BY DEF Replies
<1> QED
  BY <1>1, DispatchInvariant, PTL

\* A mutating tool runs exactly when the last initialize granted it.
THEOREM GrantedAsTold == Spec => []CapabilityAsTold
<1>1. Replies => CapabilityAsTold
  BY DEF Replies
<1> QED
  BY <1>1, DispatchInvariant, PTL

\* Whoever gives an id is answered, an initialized that is refused is told so
\* (over stdio it is not: RefusalIsDropped), and a notification gets no body
\* unless it is refused.
THEOREM EveryRequestAnswered == Spec => []RequestsAreAnswered
<1>1. Replies => RequestsAreAnswered
  BY DEF Replies
<1> QED
  BY <1>1, DispatchInvariant, PTL

\* The bridge tools pass every permission policy, and read_only lets no tool
\* pass that changes the project.
THEOREM PolicyHolds == Spec => []PolicyKept
<1>1. Replies => PolicyKept
  BY DEF Replies
<1> QED
  BY <1>1, DispatchInvariant, PTL

-----------------------------------------------------------------------------
(* The client that reads all pages.                                        *)
(*                                                                         *)
(* What it has got is the list up to its cursor, as long as no reload came *)
(* in between; its request, at whatever step, asks for the page that       *)
(* begins there, and its session stays open all the while.                 *)

Walker(h) == Busy(h) /\ job[h].req.walk

\* Nobody changes a session of the client while it walks.
SessionsKept ==
    /\ scenario.ready \subseteq issued
    /\ scenario.walks =>
         /\ \A s \in scenario.ready : sess[s].exists /\ IsFullyInitialized(s)
         /\ \A h \in Handlers : Busy(h) /\ Session(h) \in scenario.ready => ~Changes(job[h].req)

\* One request at a time, for the page the client was pointed to.  It looks at
\* the errors of the load only when it found no prompts.
Walkers ==
    /\ \A h \in Handlers : Walker(h) =>
         /\ scenario.walks /\ walk.state = "waiting"
         /\ \E s \in scenario.ready : job[h].req = ListFrom(walk.next, s)
         /\ walk.stable /\ job[h].at = "errors" => catalog.prompts = <<>>
    /\ \A h, k \in Handlers : Walker(h) /\ Walker(k) => h = k

\* What the client has got is what comes before its cursor.
PagesGot ==
    /\ walk.state = "idle" => walk.next = 0 /\ walk.got = <<>>
    /\ walk.stable /\ walk.state \in {"idle", "open", "waiting"} =>
         /\ walk.next \in 0 .. Len(catalog.prompts)
         /\ walk.got = SubSeq(PromptNames, 1, walk.next)

WalkInv ==
    /\ catalog \in CatalogsOf(scenario.menu)
    /\ SessionsKept /\ Walkers /\ PagesGot /\ WalkIsComplete

\* A catalog served has as many prompts as names.
LEMMA NamesAreASequence ==
    ASSUME scenario \in Scenarios, catalog \in CatalogsOf(scenario.menu)
    PROVE  /\ Len(catalog.prompts) \in Nat
           /\ PromptNames \in Seq(Range(PromptNames))
           /\ Len(PromptNames) = Len(catalog.prompts)
<1>1. catalog.prompts \in Seq(Range(catalog.prompts))
  BY CatalogsAssumption
<1>2. Len(catalog.prompts) \in Nat /\ DOMAIN catalog.prompts = 1 .. Len(catalog.prompts)
  BY <1>1, LenProperties
<1> DEFINE N == {p.name : p \in Range(catalog.prompts)}
<1>3. \A i \in DOMAIN catalog.prompts : catalog.prompts[i].name \in N
  BY DEF Range
<1>4. PromptNames \in Seq(N) /\ Len(PromptNames) = Len(catalog.prompts)
  <2> HIDE DEF N
  <2> QED
    BY <1>2, <1>3 DEF PromptNames
<1>5. PromptNames \in Seq(Range(PromptNames))
  <2> HIDE DEF N
  <2> QED
    BY <1>4, SeqOfRange
<1> QED
  BY <1>2, <1>4, <1>5

\* Pages fit together: a page and the next cursor continue what comes before.
LEMMA PagesFit ==
    ASSUME NEW items, items \in Seq(Range(items)), NEW c \in 0 .. Len(items)
    PROVE  LET next == NextCursor(c, Len(items)) IN
           /\ next \in 0 .. Len(items)
           /\ SubSeq(items, 1, c) \o Page(items, c) =
                IF next = 0 THEN items ELSE SubSeq(items, 1, next)
<1> DEFINE n == Len(items)
           end == PageEnd(c, n)
           next == NextCursor(c, n)
<1>1. n \in Nat /\ c \in Nat
  BY LenProperties
<1>2. end \in c .. n /\ (c < n => end > 0)
  BY <1>1, SizesAssumption DEF PageEnd
<1>3. SubSeq(items, 1, c) \o Page(items, c) = SubSeq(items, 1, end)
  <2>1. 1 \in 1 .. n + 1 /\ c \in 1 - 1 .. n
    BY <1>1
  <2> HIDE DEF end
  <2>2. SubSeq(items, 1, c) \o SubSeq(items, c + 1, end) = SubSeq(items, 1, end)
    BY <1>2, <2>1, ConcatAdjacentSubSeq
  <2> QED
    BY <2>2 DEF Page, end
<1>4. CASE end < n
  <2>1. next = end /\ end > 0 /\ end \in 0 .. n
    BY <1>1, <1>2, <1>4 DEF NextCursor
  <2> HIDE DEF end, next
  <2>2. next \in 0 .. n /\ next # 0
    BY <1>1, <2>1
  <2>3. SubSeq(items, 1, c) \o Page(items, c) = SubSeq(items, 1, next)
    BY <1>3, <2>1
  <2> QED
    BY <2>2, <2>3 DEF next
<1>5. CASE ~(end < n)
  <2>1. NextCursor(c, n) = 0 /\ end = n
    BY <1>1, <1>2, <1>5 DEF NextCursor
  <2> QED
    BY <1>1, <1>3, <2>1, SubSeqFull
<1> QED
  BY <1>4, <1>5

\* The request for a page is admitted as any other, and changes no session.
LEMMA ListRequest ==
    ASSUME NEW r, NEW s \in Sessions,
           r.session = s, r.verb = "POST", r.header = "current", r.frame = ListFrom(0, s).frame
    PROVE  /\ r.frame.method = "prompts/list" /\ Kind(r) = "request"
           /\ EarlyAnswer(r) = "" /\ ~Changes(r) /\ ~Initializes(r) /\ ~Completes(r)
<1>1. s # NoSession
  BY IdsAssumption
<1>2. /\ r.frame.method = "prompts/list" /\ r.frame.json = "object" /\ r.frame.id = "valid"
      /\ r.frame.version /\ r.frame.typed /\ r.frame.params = "object"
  BY DEF ListFrom
<1>3. Kind(r) = "request"
  BY <1>2 DEF Kind, ParseFrame, Malformed, IsResponse
<1>4. ~Initializes(r) /\ ~Completes(r)
  BY <1>2 DEF Initializes, Completes, Calls
<1>5. EarlyAnswer(r) = "" /\ ~Changes(r)
  BY <1>1, <1>2, <1>3, <1>4 DEF EarlyAnswer, HeaderOK, Changes
<1> QED
  BY <1>2, <1>3, <1>4, <1>5

\* Steps that leave the walk and the catalog alone.
LEMMA ParkedKeeps ==
    ASSUME WalkInv, UNCHANGED <<scenario, catalog, walk>>,
           issued \subseteq issued',
           scenario.walks => \A s \in scenario.ready : sess'[s] = sess[s],
           scenario.walks => \A h \in Handlers :
               Busy(h)' /\ job'[h].req.session \in scenario.ready => ~Changes(job'[h].req),
           \A h \in Handlers : Walker(h)' =>
               /\ Walker(h) /\ job'[h].req = job[h].req
               /\ job'[h].at = "errors" => job[h].at = "errors" \/ catalog.prompts = <<>>
    PROVE  WalkInv'
<1>1. catalog' \in CatalogsOf(scenario'.menu)
  BY DEF WalkInv
<1>2. SessionsKept'
  BY DEF WalkInv, SessionsKept, IsFullyInitialized, Session
<1>3. Walkers'
  BY DEF WalkInv, Walkers
<1>4. PagesGot' /\ WalkIsComplete'
  BY DEF WalkInv, PagesGot, WalkIsComplete, PromptNames, Unavailable
<1> QED
  BY <1>1, <1>2, <1>3, <1>4 DEF WalkInv

\* A request of a client that does not walk arrives, or the request of one
\* that does: neither changes a session that is walked.
LEMMA ArrivalKeeps ==
    ASSUME Consistent, WalkInv, NEW h \in Handlers, NEW r \in RequestsOf(scenario.menu),
           Admit(h, r), walk' = walk
    PROVE  WalkInv'
<1>1. /\ scenario \in Scenarios /\ IsRequest(r) /\ ~r.walk
      /\ scenario.walks /\ r.session \in scenario.ready => ~Changes(r)
      /\ UNCHANGED <<scenario, catalog, issued, sess>> /\ ~Busy(h)
      /\ scenario.ready \subseteq issued
  BY RequestsAssumption, WalksAssumption
     DEF Consistent, Shapes, Admit, Free, WalkInv, SessionsKept
<1>2. ASSUME NEW q, NEW step, step # "errors", ~q.walk, job' = Started(h, step, q),
             scenario.walks /\ q.session \in scenario.ready => ~Changes(q)
      PROVE  WalkInv'
  <2>1. job'[h].req = q
    BY <1>2 DEF Started
  <2>2. ASSUME NEW k \in Handlers, k # h
        PROVE  job'[k] = job[k] \/ (Busy(k) /\ job'[k] = [job[k] EXCEPT !.clean = FALSE])
    BY <1>2, <2>2 DEF Started, Others
  <2>3. ASSUME NEW k \in Handlers, k # h, Busy(k)'
        PROVE  Busy(k) /\ job'[k].req = job[k].req /\ job'[k].at = job[k].at
    <3>1. CASE job'[k] = job[k]
      BY <2>3, <3>1 DEF Busy
    <3>2. CASE Busy(k) /\ job'[k] = [job[k] EXCEPT !.clean = FALSE]
      BY <3>2 DEF Consistent, Shapes, IsJob
    <3> QED
      BY <2>2, <2>3, <3>1, <3>2
  <2>4. ASSUME NEW k \in Handlers, Walker(k)'
        PROVE  Walker(k) /\ job'[k].req = job[k].req /\ job'[k].at = job[k].at
    BY <1>2, <2>1, <2>3, <2>4 DEF Walker
  <2>5. ASSUME scenario.walks, NEW k \in Handlers,
               Busy(k)', job'[k].req.session \in scenario.ready
        PROVE  ~Changes(job'[k].req)
    BY <1>2, <2>1, <2>3, <2>5 DEF WalkInv, SessionsKept, Session
  <2> QED
    BY <1>1, <2>4, <2>5, ParkedKeeps
<1>3. CASE job' = job
  BY <1>1, <1>3, ParkedKeeps DEF WalkInv, SessionsKept, Busy, Walker, Session
<1>4. CASE job' = Started(h, IF r.verb = "DELETE" THEN "has" ELSE "touch", r)
  <2> DEFINE step == IF r.verb = "DELETE" THEN "has" ELSE "touch"
  <2>1. step # "errors"
    OBVIOUS
  <2> HIDE DEF step
  <2> QED
    BY <1>1, <1>2, <1>4, <2>1 DEF step
<1>5. ASSUME NEW s \in NewIds, job' = Started(h, "create", [r EXCEPT !.session = s])
      PROVE  WalkInv'
  <2> DEFINE q == [r EXCEPT !.session = s]
  <2>1. ~q.walk /\ q.session = s
    BY <1>1 DEF IsRequest
  <2>2. s \notin scenario.ready
    BY <1>1, <1>5 DEF NewIds
  <2> HIDE DEF q
  <2>3. job' = Started(h, "create", q)
    BY <1>5 DEF q
  <2> QED
    BY <1>2, <2>1, <2>2, <2>3
<1> QED
  BY <1>3, <1>4, <1>5 DEF Admit

\* The client asks for the page it was pointed to.
LEMMA NextPageKeeps ==
    ASSUME Consistent, WalkInv, NEW h \in Handlers, NextPage(h)
    PROVE  WalkInv'
<1> PICK s \in scenario.ready : Admit(h, ListFrom(walk.next, s))
  BY DEF NextPage
<1> DEFINE q == ListFrom(walk.next, s)
<1>1. /\ scenario \in Scenarios /\ scenario.walks /\ s \in Sessions
      /\ walk.state \in {"idle", "open"} /\ walk' = [walk EXCEPT !.state = "waiting"]
      /\ UNCHANGED <<scenario, catalog, issued, sess>> /\ ~Busy(h)
  BY ScenarioAssumption DEF NextPage, Admit, Free, Consistent, Shapes
<1>2. q.session = s /\ EarlyAnswer(q) = "" /\ ~Changes(q) /\ q.verb = "POST" /\ q.walk
  <2>1. /\ q.session = s /\ q.verb = "POST" /\ q.header = "current" /\ q.walk
        /\ q.frame = ListFrom(0, s).frame
    BY DEF ListFrom
  <2> HIDE DEF q
  <2> QED
    BY <1>1, <2>1, ListRequest
<1>3. s # NoSession
  BY <1>1, IdsAssumption
<1>4. job' = Started(h, "touch", q)
  <2> HIDE DEF q
  <2>1. Admit(h, q)
    BY DEF q
  <2> QED
    BY <1>2, <1>3, <2>1 DEF Admit
<1>5. job'[h].req = q /\ job'[h].at = "touch"
  <2> HIDE DEF q
  <2> QED
    BY <1>4 DEF Started
<1>6. \A k \in Handlers : k # h => job'[k] = job[k]
  <2> HIDE DEF q
  <2> QED
    BY <1>2, <1>4 DEF Started
<1>7. /\ walk'.got = walk.got /\ walk'.next = walk.next /\ walk'.stable = walk.stable
      /\ walk'.state = "waiting"
  BY <1>1 DEF Consistent, Shapes
<1>8. \A k \in Handlers : Walker(k)' => k = h
  BY <1>1, <1>6 DEF WalkInv, Walkers, Walker, Busy
<1>9. SessionsKept'
  <2> SUFFICES ASSUME NEW k \in Handlers, Busy(k)', job'[k].req.session \in scenario.ready
               PROVE  ~Changes(job'[k].req)
    BY <1>1 DEF WalkInv, SessionsKept, IsFullyInitialized, Session
  <2> HIDE DEF q
  <2> QED
    BY <1>1, <1>2, <1>5, <1>6 DEF WalkInv, SessionsKept, Session, Busy
<1>10. Walkers'
  BY <1>1, <1>5, <1>7, <1>8 DEF Walkers
<1>11. PagesGot' /\ WalkIsComplete'
  BY <1>1, <1>7 DEF WalkInv, PagesGot, WalkIsComplete, PromptNames
<1> QED
  BY <1>1, <1>9, <1>10, <1>11 DEF WalkInv

\* A step of a request moves it on or ends it, and writes the table only when
\* the request changes its session.
LEMMA HandleMoves ==
    ASSUME Consistent, NEW h \in Handlers, Handle(h)
    PROVE  /\ Busy(h) /\ UNCHANGED <<scenario, catalog>>
           /\ \/ sess' = sess
              \/ Changes(job[h].req) /\ \E e : sess' = [sess EXCEPT ![Session(h)] = e]
           /\ \/ \E j : /\ Become(h, j) /\ j.req = job[h].req /\ walk' = walk /\ issued' = issued
                        /\ j.at = "errors" => catalog.prompts = <<>>
              \/ \E o : Finish(h, o)
<1>1. Busy(h)
  BY DEF Handle, At, Touch, Create, Accept, Grant, Mark, Check, Context, Call, Count, Errors,
         ServePrompts, Has, RemoveSession
<1>2. IsJob(job[h]) /\ RightStep(job[h].at, job[h].req)
  BY <1>1 DEF Consistent, Shapes, RightSteps
<1>3. ASSUME NEW step, Goto(h, step), step = "errors" => catalog.prompts = <<>>
      PROVE  /\ UNCHANGED <<scenario, catalog>>
             /\ \E j : /\ Become(h, j) /\ j.req = job[h].req /\ walk' = walk /\ issued' = issued
                       /\ j.at = "errors" => catalog.prompts = <<>>
  <2> DEFINE j == [job[h] EXCEPT !.at = step]
  <2>1. j.req = job[h].req /\ j.at = step
    BY <1>2 DEF IsJob
  <2> HIDE DEF j
  <2> QED
    BY <1>3, <2>1 DEF Goto, j
<1>4. ASSUME NEW o, Finish(h, o)
      PROVE  UNCHANGED <<scenario, catalog>> /\ \E p : Finish(h, p)
  BY <1>4 DEF Finish
<1>5. CASE Touch(h)
  BY <1>1, <1>3, <1>4, <1>5 DEF Touch, Steps
<1>6. CASE Create(h) \/ Accept(h) \/ Grant(h)
  <2>1. Changes(job[h].req)
    BY <1>2, <1>6 DEF Create, Accept, Grant, At, RightStep, Writing, Changes
  <2> QED
    BY <1>1, <1>3, <1>4, <1>6, <2>1 DEF Create, Accept, Grant, Write
<1>7. CASE Mark(h)
  <2>1. Changes(job[h].req)
    BY <1>2, <1>7 DEF Mark, At, RightStep, Changes
  <2> QED
    BY <1>1, <1>4, <1>7, <2>1 DEF Mark, Write
<1>8. CASE Check(h)
  BY <1>1, <1>3, <1>4, <1>8 DEF Check
<1>9. CASE Context(h)
  <2> DEFINE j == [job[h] EXCEPT !.at = "call", !.initialized = sess[Session(h)].initialized]
  <2>1. j.req = job[h].req /\ j.at = "call"
    BY <1>2 DEF IsJob
  <2> HIDE DEF j
  <2> QED
    BY <1>1, <1>9, <2>1 DEF Context, j
<1>10. CASE Call(h)
  BY <1>1, <1>4, <1>10 DEF Call
<1>11. CASE Count(h) \/ Errors(h) \/ ServePrompts(h)
  BY <1>1, <1>3, <1>4, <1>11 DEF Count, Errors, ServePrompts
<1>12. CASE Has(h)
  BY <1>1, <1>3, <1>4, <1>12 DEF Has
<1>13. CASE RemoveSession(h)
  <2>1. Changes(job[h].req)
    BY <1>2, <1>13 DEF RemoveSession, At, RightStep, Changes, Kind
  <2> QED
    BY <1>1, <1>4, <1>13, <2>1 DEF RemoveSession, Write
<1> QED
  BY <1>5, <1>6, <1>7, <1>8, <1>9, <1>10, <1>11, <1>12, <1>13 DEF Handle

\* The request of a client that walks ends as the client expects: refused when
\* the prompts could not be loaded, and else with a page.
LEMMA WalkerEnds ==
    ASSUME Consistent, WalkInv, NEW h \in Handlers, Walker(h), Handle(h), NEW p, Finish(h, p)
    PROVE  \E o : /\ Finish(h, o)
                  /\ walk.stable => o = "page" \/ Unavailable
<1> DEFINE r == job[h].req
<1>1. PICK s \in scenario.ready : r = ListFrom(walk.next, s)
  BY DEF WalkInv, Walkers
<1>2. /\ scenario \in Scenarios /\ scenario.walks /\ scenario.enabled /\ s \in Sessions
      /\ sess[s].exists /\ IsFullyInitialized(s)
  BY <1>1, ScenarioAssumption, WalksAssumption
     DEF WalkInv, Walkers, SessionsKept, Consistent, Shapes
<1>3. /\ Session(h) = s /\ r.arg.cursor = walk.next /\ r.verb = "POST"
      /\ r.frame.method = "prompts/list" /\ Kind(r) = "request"
      /\ ~Changes(r) /\ ~Initializes(r) /\ ~Completes(r)
  <2>1. /\ r.session = s /\ r.verb = "POST" /\ r.header = "current"
        /\ r.frame = ListFrom(0, s).frame /\ r.arg.cursor = walk.next
    BY <1>1 DEF ListFrom
  <2>2. Session(h) = s
    BY <2>1 DEF Session
  <2> HIDE DEF r
  <2> QED
    BY <1>2, <2>1, <2>2, ListRequest
<1>4. job[h].at \in AllSteps /\ RightStep(job[h].at, r) /\ job[h] # Idle /\ IsJob(job[h])
  BY DEF Walker, Busy, Consistent, Shapes, RightSteps, IsJob
<1>5. job[h].at \in {"touch", "check", "count", "errors", "serve"}
  BY <1>3, <1>4 DEF RightStep, Writing, AllSteps, Steps
<1>6. ASSUME NEW step, Goto(h, step) PROVE FALSE
  <2>1. job'[h] = [job[h] EXCEPT !.at = step] /\ job'[h] = Idle
    BY <1>6 DEF Goto, Finish, Become, Consistent, Shapes
  <2>2. IsJob(job[h])
    BY <1>4
  <2> QED
    BY <2>1, <2>2 DEF IsJob, Idle
<1>7. CASE Touch(h)
  <2>1. Routed(r) = "check"
    BY <1>3 DEF Routed
  <2> QED
    BY <1>2, <1>3, <1>6, <1>7, <2>1 DEF Touch, Steps
<1>8. CASE Check(h)
  BY <1>2, <1>3, <1>6, <1>8 DEF Check, IsPromptMethod
<1>9. CASE Count(h)
  BY <1>6, <1>9 DEF Count
<1>10. CASE Errors(h)
  <2>1. job[h].at = "errors" /\ catalog.failed /\ Finish(h, "not_available")
    BY <1>6, <1>10 DEF Errors, At
  <2> QED
    BY <2>1 DEF WalkInv, Walkers, Unavailable
<1>11. CASE ServePrompts(h)
  <2>1. Finish(h, PromptMethod(r))
    BY <1>11 DEF ServePrompts
  <2>2. PromptMethod(r) = ListOutcome(walk.next, Len(catalog.prompts))
    BY <1>3 DEF PromptMethod
  <2>3. walk.stable => walk.next \in 0 .. Len(catalog.prompts)
    BY DEF WalkInv, Walkers, PagesGot
  <2>4. Len(catalog.prompts) \in Nat
    BY <1>2, NamesAreASequence DEF WalkInv
  <2>5. walk.stable => PromptMethod(r) = "page"
    BY <2>2, <2>3, <2>4 DEF ListOutcome, ValidCursor
  <2> QED
    BY <2>1, <2>5
<1> QED
  BY <1>4, <1>5, <1>7, <1>8, <1>9, <1>10, <1>11
     DEF Handle, At, Touch, Create, Accept, Grant, Mark, Check, Context, Call, Count, Errors,
         ServePrompts, Has, RemoveSession

\* A client that walks adds the page it got, or gives up.
LEMMA PageKeeps ==
    ASSUME Consistent, WalkInv, NEW h \in Handlers, Walker(h), sess' = sess,
           NEW o, Finish(h, o), walk.stable => o = "page" \/ Unavailable
    PROVE  WalkInv'
<1> DEFINE r == job[h].req
           n == Len(PromptNames)
           next == NextCursor(walk.next, n)
<1>1. PICK s \in scenario.ready : r = ListFrom(walk.next, s)
  BY DEF WalkInv, Walkers
<1>2. r.arg.cursor = walk.next /\ r.walk /\ walk.state = "waiting"
  BY <1>1 DEF ListFrom, WalkInv, Walkers, Walker
<1>3. /\ scenario \in Scenarios /\ UNCHANGED <<scenario, catalog>>
      /\ job' = [job EXCEPT ![h] = Idle] /\ walk' = WalkAfter(r, o) /\ issued \subseteq issued'
  BY DEF Finish, Become, Conclude, Consistent, Shapes
<1>4. /\ PromptNames \in Seq(Range(PromptNames))
      /\ n = Len(catalog.prompts) /\ n \in Nat
  BY <1>3, NamesAreASequence DEF WalkInv
<1>5. walk'.stable = walk.stable
  BY <1>2, <1>3 DEF WalkAfter, Consistent, Shapes
<1>6. \A k \in Handlers : Busy(k)' => k # h /\ Busy(k) /\ job'[k] = job[k]
  BY <1>3 DEF Busy, Consistent, Shapes
<1>7. SessionsKept'
  BY <1>3, <1>6 DEF WalkInv, SessionsKept, IsFullyInitialized, Session
<1>8. \A k \in Handlers : ~Walker(k)'
  BY <1>6 DEF Walker, WalkInv, Walkers
<1>9. walk'.state \in {"refused", "done", "open"}
  BY <1>2, <1>3 DEF WalkAfter, Consistent, Shapes
<1>10. CASE o # "page"
  <2>1. walk'.state = "refused"
    BY <1>2, <1>3, <1>10 DEF WalkAfter, Consistent, Shapes
  <2> QED
    BY <1>3, <1>5, <1>7, <1>8, <1>10, <2>1
       DEF WalkInv, Walkers, PagesGot, WalkIsComplete, Unavailable
<1>11. CASE o = "page"
  <2> DEFINE got == walk.got \o Page(PromptNames, walk.next)
  <2>1. walk' = [got |-> got, next |-> next, stable |-> walk.stable,
                 state |-> IF next = 0 THEN "done" ELSE "open"]
    <3>1. walk' = [walk EXCEPT !.got = @ \o Page(PromptNames, r.arg.cursor),
                               !.next = NextCursor(r.arg.cursor, Len(PromptNames)),
                               !.state = IF NextCursor(r.arg.cursor, Len(PromptNames)) = 0
                                         THEN "done" ELSE "open"]
      BY <1>2, <1>3, <1>11 DEF WalkAfter
    <3>2. walk' = [walk EXCEPT !.got = walk.got \o Page(PromptNames, walk.next), !.next = next,
                               !.state = IF next = 0 THEN "done" ELSE "open"]
      BY <1>2, <3>1
    <3>3. walk = [got |-> walk.got, next |-> walk.next, state |-> walk.state,
                  stable |-> walk.stable]
      BY DEF Consistent, Shapes
    <3> HIDE DEF got, next
    <3>4. walk' = [walk EXCEPT !.got = got, !.next = next,
                               !.state = IF next = 0 THEN "done" ELSE "open"]
      BY <3>2 DEF got
    <3> QED
      BY <3>3, <3>4
  <2>2. walk.stable => /\ next \in 0 .. n
                       /\ got = IF next = 0 THEN PromptNames ELSE SubSeq(PromptNames, 1, next)
    <3> SUFFICES ASSUME walk.stable
                 PROVE  /\ next \in 0 .. n
                        /\ got = IF next = 0 THEN PromptNames
                                 ELSE SubSeq(PromptNames, 1, next)
      OBVIOUS
    <3>1. walk.next \in 0 .. n /\ walk.got = SubSeq(PromptNames, 1, walk.next)
      BY <1>2, <1>4 DEF WalkInv, PagesGot
    <3> QED
      BY <1>4, <3>1, PagesFit
  <2>3. PromptNames' = PromptNames
    BY <1>3 DEF PromptNames
  <2> HIDE DEF got, next
  <2>4. PagesGot' /\ WalkIsComplete'
    BY <1>3, <1>4, <2>1, <2>2, <2>3 DEF PagesGot, WalkIsComplete
  <2> QED
    BY <1>3, <1>7, <1>8, <2>4 DEF WalkInv, Walkers
<1> QED
  BY <1>10, <1>11

LEMMA HandleKeepsWalk ==
    ASSUME Consistent, WalkInv, NEW h \in Handlers, Handle(h)
    PROVE  WalkInv'
<1> DEFINE r == job[h].req
<1>1. /\ Busy(h) /\ UNCHANGED <<scenario, catalog>>
      /\ \/ sess' = sess
         \/ Changes(r) /\ \E e : sess' = [sess EXCEPT ![Session(h)] = e]
      /\ \/ \E j : /\ Become(h, j) /\ j.req = r /\ walk' = walk /\ issued' = issued
                   /\ j.at = "errors" => catalog.prompts = <<>>
         \/ \E o : Finish(h, o)
  BY HandleMoves
<1>2. scenario \in Scenarios /\ (scenario.walks => \A s \in scenario.ready : sess'[s] = sess[s])
  <2>1. scenario \in Scenarios /\ sess \in [Ids -> Entry] /\ scenario.ready \subseteq Ids
    BY ScenarioAssumption DEF Consistent, Shapes, DispatchTypeOK, Ids
  <2>2. scenario.walks /\ Changes(r) => Session(h) \notin scenario.ready
    BY <1>1 DEF WalkInv, SessionsKept
  <2> QED
    BY <1>1, <2>1, <2>2
<1>3. ASSUME NEW j, Become(h, j), j.req = r, walk' = walk, issued' = issued,
             j.at = "errors" => catalog.prompts = <<>>
      PROVE  WalkInv'
  <2>1. job'[h] = j /\ \A k \in Handlers : k # h => job'[k] = job[k]
    BY <1>3 DEF Become, Consistent, Shapes
  <2>2. \A k \in Handlers : Busy(k)' => Busy(k) /\ job'[k].req = job[k].req
    BY <1>1, <1>3, <2>1 DEF Busy
  <2>3. \A k \in Handlers : Walker(k)' =>
            /\ Walker(k) /\ job'[k].req = job[k].req
            /\ job'[k].at = "errors" => job[k].at = "errors" \/ catalog.prompts = <<>>
    BY <1>3, <2>1, <2>2 DEF Walker
  <2>4. ASSUME scenario.walks, NEW k \in Handlers,
               Busy(k)', job'[k].req.session \in scenario.ready
        PROVE  ~Changes(job'[k].req)
    BY <2>2, <2>4 DEF WalkInv, SessionsKept, Session
  <2> QED
    BY <1>1, <1>2, <1>3, <2>3, <2>4, ParkedKeeps
<1>4. ASSUME NEW p, Finish(h, p), ~Walker(h) PROVE WalkInv'
  <2>1. walk' = walk /\ issued \subseteq issued' /\ job' = [job EXCEPT ![h] = Idle]
    BY <1>1, <1>4 DEF Finish, Become, Conclude, WalkAfter, Walker
  <2>2. \A k \in Handlers : Busy(k)' => Busy(k) /\ job'[k] = job[k]
    BY <2>1 DEF Busy, Consistent, Shapes
  <2>3. \A k \in Handlers : Walker(k)' => Walker(k) /\ job'[k] = job[k]
    BY <2>2 DEF Walker
  <2>4. ASSUME scenario.walks, NEW k \in Handlers,
               Busy(k)', job'[k].req.session \in scenario.ready
        PROVE  ~Changes(job'[k].req)
    BY <2>2, <2>4 DEF WalkInv, SessionsKept, Session
  <2> QED
    BY <1>1, <1>2, <2>1, <2>3, <2>4, ParkedKeeps
<1>5. ASSUME NEW p, Finish(h, p), Walker(h) PROVE WalkInv'
  <2>1. PICK o : Finish(h, o) /\ (walk.stable => o = "page" \/ Unavailable)
    BY <1>5, WalkerEnds
  <2>2. ~Changes(r)
    <3>1. PICK s \in scenario.ready : r = ListFrom(walk.next, s)
      BY <1>5 DEF WalkInv, Walkers
    <3>2. scenario.walks /\ Session(h) \in scenario.ready
      BY <1>5, <3>1 DEF WalkInv, Walkers, ListFrom, Session
    <3> QED
      BY <1>1, <3>2 DEF WalkInv, SessionsKept
  <2> QED
    BY <1>1, <1>5, <2>1, <2>2, PageKeeps
<1> QED
  BY <1>1, <1>3, <1>4, <1>5

LEMMA ExpireKeepsWalk ==
    ASSUME Consistent, WalkInv, NEW s \in Sessions, Expire(s)
    PROVE  WalkInv'
<1>1. /\ ~scenario.walks /\ UNCHANGED <<scenario, catalog, walk, issued>>
      /\ job' = [h \in Handlers |-> IF Busy(h) /\ Session(h) = s
                                    THEN [job[h] EXCEPT !.clean = FALSE] ELSE job[h]]
  BY WalksAssumption DEF Expire, Consistent, Shapes
<1>2. ASSUME NEW k \in Handlers, Walker(k)' PROVE FALSE
  <2>1. Busy(k)
    BY <1>1, <1>2 DEF Walker, Busy
  <2>2. job'[k].req = job[k].req
    BY <1>1, <2>1 DEF Consistent, Shapes, IsJob
  <2> QED
    BY <1>1, <1>2, <2>1, <2>2 DEF Walker, WalkInv, Walkers
<1> QED
  BY <1>1, <1>2, ParkedKeeps

\* A reload makes the walk unstable, unless it has not begun.
LEMMA ReloadKeepsWalk ==
    ASSUME Consistent, WalkInv, NEW c \in CatalogsOf(scenario.menu), Reload(c)
    PROVE  WalkInv'
<1>1. /\ UNCHANGED <<scenario, sess, issued, job>> /\ catalog' = c
      /\ walk' = [walk EXCEPT !.stable = @ /\ walk.state = "idle"]
  BY DEF Reload
<1>2. /\ walk'.got = walk.got /\ walk'.next = walk.next /\ walk'.state = walk.state
      /\ walk'.stable => walk.state = "idle"
  BY <1>1 DEF Consistent, Shapes
<1>3. SessionsKept'
  BY <1>1 DEF WalkInv, SessionsKept, Busy, Session, IsFullyInitialized
<1>4. \A h \in Handlers : Walker(h)' <=> Walker(h)
  BY <1>1 DEF Walker, Busy
<1>5. Walkers'
  BY <1>1, <1>2, <1>4 DEF WalkInv, Walkers
<1>6. PagesGot' /\ WalkIsComplete'
  <2>1. Len(catalog'.prompts) \in Nat
    <3>1. c.prompts \in Seq(Range(c.prompts))
      BY CatalogsAssumption DEF Consistent, Shapes
    <3>2. Len(c.prompts) \in Nat
      BY <3>1, LenProperties
    <3> QED
      BY <1>1, <3>2
  <2>2. walk'.state = "idle" => walk'.next = 0 /\ walk'.got = <<>>
    BY <1>2 DEF WalkInv, PagesGot
  <2>3. walk'.stable => walk'.state = "idle"
    BY <1>2
  <2>4. ASSUME walk'.stable
        PROVE  /\ walk'.next \in 0 .. Len(catalog'.prompts)
               /\ walk'.got = SubSeq(PromptNames', 1, walk'.next)
    <3>1. walk'.next = 0 /\ walk'.got = <<>>
      BY <2>2, <2>3, <2>4
    <3>2. walk'.next \in 0 .. Len(catalog'.prompts)
      BY <2>1, <3>1
    <3>3. SubSeq(PromptNames', 1, walk'.next) = <<>>
      BY <3>1, SubSeqEmpty
    <3> QED
      BY <3>1, <3>2, <3>3
  <2>5. PagesGot'
    BY <2>2, <2>4 DEF PagesGot
  <2> QED
    BY <2>3, <2>5 DEF WalkIsComplete
<1> QED
  BY <1>1, <1>3, <1>5, <1>6 DEF WalkInv

LEMMA StdioKeepsWalk ==
    ASSUME Consistent, WalkInv, NEW r \in RequestsOf(scenario.menu), StdioMessage(r)
    PROVE  WalkInv'
<1>1. /\ scenario \in Scenarios /\ ~r.walk /\ Stdio \notin scenario.ready
      /\ sess \in [Ids -> Entry] /\ scenario.ready \subseteq Ids
  BY RequestsAssumption, ScenarioAssumption, IdsAssumption
     DEF Consistent, Shapes, DispatchTypeOK, Ids
<1>2. UNCHANGED <<scenario, catalog, walk, job>> /\ issued \subseteq issued'
  BY <1>1 DEF StdioMessage, Conclude, WalkAfter
<1>3. \A s \in scenario.ready : sess'[s] = sess[s]
  BY <1>1 DEF StdioMessage, Write
<1> QED
  BY <1>2, <1>3, ParkedKeeps DEF WalkInv, SessionsKept, Busy, Walker, Session

LEMMA WalkBegins == Init /\ Consistent => WalkInv
<1> SUFFICES ASSUME Init, Consistent PROVE WalkInv
  OBVIOUS
<1>1. /\ scenario \in Scenarios /\ catalog \in CatalogsOf(scenario.menu)
      /\ scenario.ready \subseteq Ids /\ issued = scenario.ready
  BY ScenarioAssumption DEF Init, Ids
<1>2. \A h \in Handlers : ~Busy(h)
  BY DEF Init, Busy
<1>3. \A s \in scenario.ready : sess[s] = Open(scenario.granted)
  BY <1>1 DEF Init
<1>4. SessionsKept /\ Walkers
  BY <1>1, <1>2, <1>3 DEF SessionsKept, IsFullyInitialized, Open, Walkers, Walker
<1>5. PagesGot /\ WalkIsComplete
  <2>1. Len(catalog.prompts) \in Nat
    BY <1>1, NamesAreASequence
  <2>2. SubSeq(PromptNames, 1, 0) = <<>>
    BY SubSeqEmpty
  <2>3. walk = [got |-> <<>>, next |-> 0, state |-> "idle", stable |-> TRUE]
    BY DEF Init
  <2> QED
    BY <2>1, <2>2, <2>3 DEF PagesGot, WalkIsComplete
<1> QED
  BY <1>1, <1>4, <1>5 DEF WalkInv

LEMMA StepKeepsWalk ==
    ASSUME Consistent, WalkInv, [Next]_vars
    PROVE  WalkInv'
<1>1. CASE UNCHANGED vars
  BY <1>1, ParkedKeeps DEF vars, WalkInv, SessionsKept, Busy, Walker, Session
<1>2. ASSUME NEW h \in Handlers, Receive(h) PROVE WalkInv'
  BY <1>2, ArrivalKeeps DEF Receive
<1>3. ASSUME NEW h \in Handlers, NextPage(h) PROVE WalkInv'
  BY <1>3, NextPageKeeps
<1>4. ASSUME NEW h \in Handlers, Handle(h) PROVE WalkInv'
  BY <1>4, HandleKeepsWalk
<1>5. ASSUME NEW s \in Sessions, Expire(s) PROVE WalkInv'
  BY <1>5, ExpireKeepsWalk
<1>6. ASSUME NEW c \in CatalogsOf(scenario.menu), Reload(c) PROVE WalkInv'
  BY <1>6, ReloadKeepsWalk
<1>7. ASSUME NEW r \in RequestsOf(scenario.menu), StdioMessage(r) PROVE WalkInv'
  BY <1>7, StdioKeepsWalk
<1> QED
  BY <1>1, <1>2, <1>3, <1>4, <1>5, <1>6, <1>7 DEF Next

\* Whatever happens around it, a client that walks holds the prompts before
\* its cursor, in the order of the catalog (helpers.go:178-228).
THEOREM WalkInvariant == Spec => []WalkInv
<1>1. Init => Consistent /\ Replies
  BY InitConsistent
<1>2. Init /\ Consistent => WalkInv
  BY WalkBegins
<1>3. (Consistent /\ Replies) /\ WalkInv /\ [Next]_vars => WalkInv'
  BY StepKeepsWalk
<1> QED
  BY <1>1, <1>2, <1>3, DispatchInvariant, PTL DEF Spec

\* A client that follows the cursors to the end while nothing is reloaded has
\* every prompt once, in order, and is refused only without any prompts.
THEOREM WalksAreComplete == Spec => []WalkIsComplete
<1>1. WalkInv => WalkIsComplete
  BY DEF WalkInv
<1> QED
  BY <1>1, WalkInvariant, PTL

-----------------------------------------------------------------------------
(* The governance of prompts: the loop over the roots finds the innermost. *)

LEMMA LeastNumber ==
    ASSUME NEW T, T \subseteq Nat, T # {}
    PROVE  \E n \in T : \A m \in T : n <= m
<1> DEFINE R == OpToRel(<, Nat)
<1>1. IsWellFoundedOn(R, Nat)
  BY NatLessThanWellFounded
<1>2. \A x, y \in Nat : <<x, y>> \in R <=> x < y
  BY DEF OpToRel
<1> HIDE DEF R
<1>3. PICK n \in T : \A m \in T : ~(<<m, n>> \in R)
  BY <1>1, WFMin
<1>4. ASSUME NEW m \in T PROVE n <= m
  <2>1. n \in Nat /\ m \in Nat /\ ~(m < n)
    BY <1>2, <1>3, <1>4
  <2> QED
    BY <2>1
<1> QED
  BY <1>4

\* What the loop has found after each root.
LEMMA BestRootIsDefined ==
    ASSUME NEW path, NEW roots, Len(roots) \in Nat
    PROVE  BestRoot(path, roots) =
             [i \in 0 .. Len(roots) |->
                IF i = 0 THEN NoRoot
                ELSE BetterRoot(BestRoot(path, roots)[i - 1], roots[i], path)]
<1> DEFINE N == Len(roots)
           Run(g, n) == g = [i \in 0 .. n |-> IF i = 0 THEN NoRoot
                                              ELSE BetterRoot(g[i - 1], roots[i], path)]
           T == {n \in 0 .. N : ~ \E g : Run(g, n)}
<1>1. ASSUME T # {} PROVE FALSE
  <2>1. PICK n \in T : \A m \in T : n <= m
    <3>1. T \subseteq Nat
      OBVIOUS
    <3> HIDE DEF T
    <3> QED
      BY <1>1, <3>1, LeastNumber
  <2>2. CASE n = 0
    <3> DEFINE h == [i \in 0 .. 0 |-> NoRoot]
    <3>1. Run(h, 0)
      OBVIOUS
    <3> QED
      BY <2>1, <2>2, <3>1
  <2>3. CASE n # 0
    <3>1. n - 1 \in 0 .. N /\ n - 1 \notin T /\ n \in Nat
      BY <2>1, <2>3
    <3>2. PICK g : Run(g, n - 1)
      BY <3>1
    <3> DEFINE h == [i \in 0 .. n |-> IF i < n THEN g[i]
                                      ELSE BetterRoot(g[n - 1], roots[n], path)]
    <3>3. ASSUME NEW i \in 0 .. n
          PROVE  h[i] = IF i = 0 THEN NoRoot ELSE BetterRoot(h[i - 1], roots[i], path)
      <4>1. CASE i = n
        BY <2>3, <3>1, <4>1
      <4>2. CASE i # n
        <5>1. i \in 0 .. n - 1 /\ h[i] = g[i]
          BY <3>1, <4>2
        <5>2. g[i] = IF i = 0 THEN NoRoot ELSE BetterRoot(g[i - 1], roots[i], path)
          BY <3>2, <5>1
        <5>3. i # 0 => h[i - 1] = g[i - 1]
          BY <3>1, <5>1
        <5> QED
          BY <5>1, <5>2, <5>3
      <4> QED
        BY <4>1, <4>2
    <3>4. Run(h, n)
      BY <3>3
    <3> QED
      BY <2>1, <3>4
  <2> QED
    BY <2>2, <2>3
<1>2. \E g : Run(g, N)
  BY <1>1
<1>3. BestRoot(path, roots) = CHOOSE g : Run(g, N)
  BY DEF BestRoot
<1> QED
  BY <1>2, <1>3

\* best is the longest of the first n roots that cover the path.
Innermost(best, path, roots, n) ==
    \/ best = NoRoot /\ \A k \in 1 .. n : ~Covers(roots[k], path)
    \/ \E i \in 1 .. n :
         /\ best = roots[i] /\ Covers(roots[i], path)
         /\ \A k \in 1 .. n : Covers(roots[k], path) => Len(roots[k].path) <= Len(roots[i].path)

LEMMA BestRootIsInnermost ==
    ASSUME NEW path, NEW roots, Len(roots) \in Nat,
           \A i \in 1 .. Len(roots) : Len(roots[i].path) \in Nat
    PROVE  \A n \in 0 .. Len(roots) : Innermost(BestRoot(path, roots)[n], path, roots, n)
<1> DEFINE N == Len(roots)
           best == BestRoot(path, roots)
           T == {n \in 0 .. N : ~Innermost(best[n], path, roots, n)}
<1>1. \A i \in 0 .. N : best[i] = IF i = 0 THEN NoRoot
                                  ELSE BetterRoot(best[i - 1], roots[i], path)
  <2> HIDE DEF best
  <2>1. best = [i \in 0 .. N |-> IF i = 0 THEN NoRoot
                                 ELSE BetterRoot(best[i - 1], roots[i], path)]
    BY BestRootIsDefined DEF best
  <2> QED
    BY <2>1
<1> HIDE DEF best
<1>2. ASSUME T # {} PROVE FALSE
  <2>1. PICK n \in T : \A m \in T : n <= m
    <3>1. T \subseteq Nat
      OBVIOUS
    <3> HIDE DEF T
    <3> QED
      BY <1>2, <3>1, LeastNumber
  <2>2. n \in 0 .. N /\ ~Innermost(best[n], path, roots, n)
    BY <2>1
  <2>3. CASE n = 0
    BY <1>1, <2>2, <2>3 DEF Innermost
  <2>4. CASE n # 0
    <3>1. n - 1 \in 0 .. N /\ n - 1 \notin T /\ n \in 1 .. N
      BY <2>1, <2>2, <2>4
    <3>2. Innermost(best[n - 1], path, roots, n - 1)
      BY <3>1
    <3>3. best[n] = BetterRoot(best[n - 1], roots[n], path)
      BY <1>1, <2>2, <2>4
    <3> HIDE DEF T
    <3>4. CASE best[n - 1] = NoRoot /\ \A k \in 1 .. n - 1 : ~Covers(roots[k], path)
      <4>1. Len(roots[n].path) >= Len(best[n - 1].path)
        BY <3>1, <3>4 DEF NoRoot
      <4>2. CASE Covers(roots[n], path)
        <5>1. best[n] = roots[n]
          BY <3>3, <4>1, <4>2 DEF BetterRoot
        <5>2. \A k \in 1 .. n : Covers(roots[k], path) =>
                  Len(roots[k].path) <= Len(roots[n].path)
          <6>1. \A k \in 1 .. n : Covers(roots[k], path) => k = n
            BY <3>1, <3>4
          <6>2. Len(roots[n].path) \in Nat
            BY <3>1
          <6> QED
            BY <6>1, <6>2
        <5> QED
          BY <2>2, <3>1, <4>2, <5>1, <5>2 DEF Innermost
      <4>3. CASE ~Covers(roots[n], path)
        <5>1. best[n] = NoRoot
          BY <3>3, <3>4, <4>3 DEF BetterRoot
        <5>2. \A k \in 1 .. n : ~Covers(roots[k], path)
          BY <3>1, <3>4, <4>3
        <5> QED
          BY <2>2, <5>1, <5>2 DEF Innermost
      <4> QED
        BY <4>2, <4>3
    <3>5. ASSUME NEW i \in 1 .. n - 1, best[n - 1] = roots[i], Covers(roots[i], path),
                 \A k \in 1 .. n - 1 :
                     Covers(roots[k], path) => Len(roots[k].path) <= Len(roots[i].path)
          PROVE  FALSE
      <4>1. i \in 1 .. N /\ i \in 1 .. n /\ Len(roots[i].path) \in Nat /\ Len(roots[n].path) \in Nat
        BY <3>1, <3>5
      <4>2. CASE Covers(roots[n], path) /\ Len(roots[n].path) >= Len(roots[i].path)
        <5>1. best[n] = roots[n]
          BY <3>3, <3>5, <4>2 DEF BetterRoot
        <5>2. ASSUME NEW k \in 1 .. n, Covers(roots[k], path)
              PROVE  Len(roots[k].path) <= Len(roots[n].path)
          <6>1. CASE k = n
            BY <4>1, <6>1
          <6>2. CASE k \in 1 .. n - 1
            <7>1. Len(roots[k].path) \in Nat
              BY <3>1
            <7> QED
              BY <3>5, <4>1, <4>2, <5>2, <6>2, <7>1
          <6> QED
            BY <3>1, <6>1, <6>2
        <5> QED
          BY <2>2, <3>1, <4>2, <5>1, <5>2 DEF Innermost
      <4>3. CASE ~(Covers(roots[n], path) /\ Len(roots[n].path) >= Len(roots[i].path))
        <5>1. best[n] = roots[i]
          BY <3>3, <3>5, <4>3 DEF BetterRoot
        <5>2. ASSUME NEW k \in 1 .. n, Covers(roots[k], path)
              PROVE  Len(roots[k].path) <= Len(roots[i].path)
          <6>1. CASE k = n
            BY <4>1, <4>3, <5>2, <6>1
          <6>2. CASE k \in 1 .. n - 1
            BY <3>5, <5>2, <6>2
          <6> QED
            BY <3>1, <6>1, <6>2
        <5> QED
          BY <2>2, <3>5, <4>1, <5>1, <5>2 DEF Innermost
      <4> QED
        BY <4>2, <4>3
    <3> QED
      BY <3>2, <3>4, <3>5 DEF Innermost
  <2> QED
    BY <2>2, <2>3, <2>4
<1> QED
  BY <1>2 DEF best

\* Templates are executed for these outcomes in advanced mode.
Executed == {"rendered", "render_error", "too_large"}

TrustedRoot(p, roots) ==
    \E i \in DOMAIN roots :
        /\ Covers(roots[i], p.source) /\ roots[i].tier = "trusted"
        /\ \A k \in DOMAIN roots :
             Covers(roots[k], p.source) => Len(roots[k].path) <= Len(roots[i].path)

LEMMA TrustedByRoot ==
    ASSUME scenario \in Scenarios, NEW p,
           GovernanceTier(p.source, scenario.prompts.roots) = "trusted"
    PROVE  TrustedRoot(p, scenario.prompts.roots)
<1> DEFINE roots == scenario.prompts.roots
           N == Len(roots)
<1>1. roots \in Seq(Range(roots)) /\ \A root \in Range(roots) : root.path \in Seq(Range(root.path))
  BY RootsAssumption
<1>2. N \in Nat /\ DOMAIN roots = 1 .. N
  <2> HIDE DEF roots
  <2> QED
    BY <1>1, LenProperties
<1>3. ASSUME NEW i \in 1 .. N PROVE Len(roots[i].path) \in Nat
  <2>1. roots[i] \in Range(roots)
    BY <1>2 DEF Range
  <2>2. roots[i].path \in Seq(Range(roots[i].path))
    BY <1>1, <2>1
  <2> QED
    BY <2>2, LenProperties
<1> HIDE DEF roots
<1>4. Innermost(BestRoot(p.source, roots)[N], p.source, roots, N)
  BY <1>2, <1>3, BestRootIsInnermost
<1>5. BestRoot(p.source, roots)[N].tier = "trusted"
  BY DEF GovernanceTier, roots
<1>6. BestRoot(p.source, roots)[N] # NoRoot
  BY <1>5 DEF NoRoot
<1> QED
  BY <1>2, <1>4, <1>5, <1>6 DEF Innermost, TrustedRoot, roots

\* An answer that keeps PromptsAreGoverned.
Governed(r, o) ==
    Calls(r, {"prompts/get"}) /\ scenario.prompts.mode = "advanced" /\ o \in Executed =>
      \E p \in Range(catalog.prompts) :
        p.name = r.arg.name /\ TrustedRoot(p, scenario.prompts.roots)

LEMMA GovernedKeeps ==
    ASSUME NEW r, NEW o, Governed(r, o), UNCHANGED <<scenario, catalog>>,
           reply'.req = r, reply'.outcome = o
    PROVE  PromptsAreGoverned'
BY DEF PromptsAreGoverned, Governed, TrustedRoot, Executed

LEMMA MethodIsGoverned ==
    ASSUME scenario \in Scenarios, NEW r, NEW context
    PROVE  Governed(r, PromptMethod(r)) /\ Governed(r, Method(r, context))
<1>1. Calls(r, {"prompts/get"}) => Method(r, context) = "not_supported"
  BY DEF Calls, Method, IsPromptMethod
<1>2. ASSUME Calls(r, {"prompts/get"}), scenario.prompts.mode = "advanced",
             PromptMethod(r) \in Executed
      PROVE  \E p \in Range(catalog.prompts) :
                p.name = r.arg.name /\ TrustedRoot(p, scenario.prompts.roots)
  <2> DEFINE found == {p \in Range(catalog.prompts) : p.name = r.arg.name}
             p == CHOOSE p \in found : TRUE
  <2>1. PromptMethod(r) = GetOutcome(r.arg)
    BY <1>2 DEF PromptMethod, Calls
  <2>2. found # {} /\ PromptMethod(r) = PromptOutcome(p, r.arg.raw, scenario.prompts)
    BY <1>2, <2>1 DEF GetOutcome, GetPayloadErrors, Executed
  <2>3. p \in found
    BY <2>2
  <2> HIDE DEF p
  <2>4. GovernanceTier(p.source, scenario.prompts.roots) = "trusted"
    <3>1. \A args : StrictError(p, args, scenario.prompts) = ""
      BY <1>2 DEF StrictError
    <3> QED
      BY <1>2, <2>2, <3>1 DEF PromptOutcome, Executed
  <2> QED
    BY <2>3, <2>4, TrustedByRoot
<1> QED
  BY <1>1, <1>2 DEF Governed, Executed

LEMMA FinishGoverned ==
    ASSUME NEW h, NEW o, Finish(h, o), Governed(job[h].req, o)
    PROVE  PromptsAreGoverned'
BY GovernedKeeps DEF Finish, Conclude

LEMMA NotExecuted ==
    ASSUME NEW r, NEW o, o \notin Executed PROVE Governed(r, o)
BY DEF Governed

LEMMA NoReplyGoverned ==
    ASSUME reply' = NoReply PROVE PromptsAreGoverned'
BY DEF PromptsAreGoverned

LEMMA AdmitGoverned ==
    ASSUME NEW h, NEW r, Admit(h, r)
    PROVE  PromptsAreGoverned'
<1>1. EarlyAnswer(r) \notin Executed
  BY DEF EarlyAnswer, Executed
<1>2. CASE reply' = [req |-> r, outcome |-> EarlyAnswer(r), answer |-> EarlyAnswer(r),
                     clean |-> FALSE, told |-> told[r.session]]
  BY <1>1, <1>2, NotExecuted, GovernedKeeps DEF Admit
<1> QED
  BY <1>2, NoReplyGoverned DEF Admit

LEMMA HandleGoverned ==
    ASSUME scenario \in Scenarios, NEW h \in Handlers, Handle(h)
    PROVE  PromptsAreGoverned'
<1> DEFINE r == job[h].req
<1>1. ASSUME NEW o, Finish(h, o), o \notin Executed PROVE PromptsAreGoverned'
  BY <1>1, NotExecuted, FinishGoverned
<1>2. ASSUME NEW step, Goto(h, step) PROVE PromptsAreGoverned'
  BY <1>2, NoReplyGoverned DEF Goto
<1>3. ASSUME NEW context, Finish(h, Method(r, context)) PROVE PromptsAreGoverned'
  BY <1>3, MethodIsGoverned, FinishGoverned
<1>4. CASE Touch(h)
  <2>1. Routed(r) \notin Steps => Routed(r) \notin Executed
    BY DEF Routed, Steps, Executed
  <2> QED
    BY <1>1, <1>2, <1>4, <2>1 DEF Touch, Executed
<1>5. CASE Create(h) \/ Accept(h)
  BY <1>2, <1>5 DEF Create, Accept
<1>6. CASE Grant(h) \/ Mark(h) \/ RemoveSession(h)
  BY <1>1, <1>6 DEF Grant, Mark, RemoveSession, Executed
<1>7. CASE Check(h)
  BY <1>1, <1>2, <1>3, <1>7 DEF Check, Executed
<1>8. CASE Context(h)
  BY <1>8, NoReplyGoverned DEF Context
<1>9. CASE Call(h)
  BY <1>3, <1>9 DEF Call
<1>10. CASE Count(h) \/ Errors(h) \/ Has(h)
  BY <1>1, <1>2, <1>10 DEF Count, Errors, Has, Executed
<1>11. CASE ServePrompts(h)
  BY <1>11, MethodIsGoverned, FinishGoverned DEF ServePrompts
<1> QED
  BY <1>4, <1>5, <1>6, <1>7, <1>8, <1>9, <1>10, <1>11 DEF Handle

LEMMA StdioGoverned ==
    ASSUME scenario \in Scenarios, NEW r \in RequestsOf(scenario.menu), StdioMessage(r)
    PROVE  PromptsAreGoverned'
<1>1. Governed(r, StdioMethod(r))
  <2>1. Governed(r, "not_available")
    BY NotExecuted DEF Executed
  <2> QED
    BY <2>1, MethodIsGoverned DEF StdioMethod
<1>2. StdioOutcome(r) = StdioMethod(r) \/ StdioOutcome(r) \notin Executed
  <2>1. StdioRequest(r) = StdioMethod(r) \/ StdioRequest(r) \notin Executed
    BY DEF StdioRequest, Executed
  <2>2. Kind(r) \in {"parse_error", "prebuilt", "one_way", "request"}
    BY RequestsAssumption DEF StdioMessage, Kind, ParseFrame
  <2> QED
    BY <2>1, <2>2 DEF StdioOutcome, Executed
<1>3. Governed(r, StdioOutcome(r))
  BY <1>1, <1>2, NotExecuted
<1> QED
  BY <1>3, GovernedKeeps DEF StdioMessage, Conclude

LEMMA GovernanceKept ==
    ASSUME Consistent, PromptsAreGoverned, [Next]_vars
    PROVE  PromptsAreGoverned'
<1>1. scenario \in Scenarios
  BY DEF Consistent, Shapes
<1>2. CASE UNCHANGED vars
  BY <1>2 DEF vars, PromptsAreGoverned
<1>3. ASSUME NEW h \in Handlers, Receive(h) \/ NextPage(h) PROVE PromptsAreGoverned'
  BY <1>3, AdmitGoverned DEF Receive, NextPage
<1>4. ASSUME NEW h \in Handlers, Handle(h) PROVE PromptsAreGoverned'
  BY <1>1, <1>4, HandleGoverned
<1>5. ASSUME NEW s \in Sessions, Expire(s) PROVE PromptsAreGoverned'
  BY <1>5, NoReplyGoverned DEF Expire
<1>6. ASSUME NEW c, Reload(c) PROVE PromptsAreGoverned'
  BY <1>6, NoReplyGoverned DEF Reload
<1>7. ASSUME NEW r \in RequestsOf(scenario.menu), StdioMessage(r) PROVE PromptsAreGoverned'
  BY <1>1, <1>7, StdioGoverned
<1> QED
  BY <1>2, <1>3, <1>4, <1>5, <1>6, <1>7 DEF Next

\* In advanced mode a template is executed only when the innermost of the
\* roots that hold its file is trusted (helpers.go:597-627).
THEOREM GovernanceHolds == Spec => []PromptsAreGoverned
<1>1. Init => PromptsAreGoverned
  BY DEF Init, PromptsAreGoverned
<1>2. (Consistent /\ Replies) /\ PromptsAreGoverned /\ [Next]_vars => PromptsAreGoverned'
  BY GovernanceKept
<1> QED
  BY <1>1, <1>2, DispatchInvariant, PTL DEF Spec
=============================================================================
