----------------------------- MODULE MCDispatch -----------------------------
(***************************************************************************)
(* Servers and clients for Dispatch.  Each scenario asks one question, so  *)
(* that what matters to it can vary without the rest.                      *)
(***************************************************************************)
EXTENDS Dispatch, TLC

MCRead == "godot.scene.read"
MCSave == "godot.scene.save"
MCRun == "godot.project.run"
MCAck == "godot.bridge.command.ack"
MCReload == "godot.prompts.reload"

MCRegistered == {MCRead, MCSave, MCRun, MCAck, MCReload}
MCResources == {"godot://project/info", "godot://no/such"}
MCValid == MCRegistered \cup {"godot.Scene.Read", "godot.no.tool"}
MCNames == MCValid \cup MCResources \cup {"save"}
MCLower == [n \in MCNames |-> IF n = "godot.Scene.Read" THEN MCRead ELSE n]
MCSchema == [n \in MCRegistered |->
    CASE n = MCRead -> [required |-> {"path"}, types |-> [path |-> "string"]]
      [] n = MCRun -> [required |-> {}, types |-> [depth |-> "integer", rate |-> "number"]]
      [] OTHER -> [required |-> {}, types |-> [path |-> "any"]]]

-----------------------------------------------------------------------------
(* Requests.                                                               *)

Frame(method, id) ==
    [json |-> "object", id |-> id, version |-> TRUE, typed |-> TRUE, params |-> "object",
     body |-> {}, method |-> method]
Post(s, frame, arg) ==
    [verb |-> "POST", session |-> s, header |-> "current", walk |-> FALSE,
     frame |-> frame, arg |-> arg]
Delete(s) == [Post(s, Frame("", "absent"), <<>>) EXCEPT !.verb = "DELETE"]

Initialize(s, version, mutating) ==
    Post(s, Frame("initialize", "valid"), [version |-> version, mutating |-> mutating])
Initialized(s, id) == Post(s, Frame("initialized", id), <<>>)
CallOf(s, name, args) ==
    Post(s, Frame("tools/call", "valid"),
         [payload |-> TRUE, token |-> "none", name |-> name, args |-> args])
Bare(s, method, id, arg) == Post(s, Frame(method, id), arg)

NoArgs == <<>>
Arguments == {NoArgs, [path |-> "string"], [path |-> "null", extra |-> "string"],
              [depth |-> "integer", rate |-> "fraction"], [depth |-> "fraction"]}
ToolCalls(s) ==
    {CallOf(s, n, a) : n \in MCNames, a \in Arguments}
    \cup {[CallOf(s, MCRead, NoArgs) EXCEPT !.arg.payload = FALSE],
          [CallOf(s, MCRead, NoArgs) EXCEPT !.arg.token = "invalid"],
          [CallOf(s, MCSave, NoArgs) EXCEPT !.frame.id = "absent"]}
PlainCalls(s) ==
    {Bare(s, "ping", id, <<>>) : id \in {"valid", "absent"}}
    \cup {Bare(s, "no/such", id, <<>>) : id \in {"valid", "absent"}}
    \cup {Bare(s, m, "valid", [cursor |-> c]) :
            m \in {"tools/list", "resources/list", "prompts/list"}, c \in {-1, 0, 2, 9}}
    \cup {Bare(s, "resources/read", "valid", [payload |-> p, uri |-> u]) :
            p \in BOOLEAN, u \in MCResources \cup {""}}
    \cup {Bare(s, "notifications/initialized", id, <<>>) : id \in {"valid", "absent"}}
GetOf(s, name, raw) == Bare(s, "prompts/get", "valid", [payload |-> "ok", name |-> name, raw |-> raw])

\* Messages that are not requests, or just barely.
Frames(s) ==
    {Post(s, f, [version |-> "legacy", mutating |-> FALSE]) :
        f \in {[Frame("ping", "valid") EXCEPT !.json = j] : j \in {"empty", "broken", "array"}}
              \cup {[Frame("ping", "valid") EXCEPT !.version = FALSE],
                    [Frame("ping", "valid") EXCEPT !.typed = FALSE],
                    [Frame("ping", "valid") EXCEPT !.params = "other"],
                    Frame("ping", "invalid"), Frame("initialize", "absent"),
                    Frame("initialize", "valid"), Frame("initialized", "valid"),
                    Frame("initialized", "absent"), Frame("ping", "valid"),
                    Frame("ping", "absent")}
              \cup {[Frame("", id) EXCEPT !.body = b] :
                      id \in {"valid", "absent"},
                      b \in {{}, {"result"}, {"result", "error"}}}}
    \cup {Initialize(s, v, TRUE) : v \in {"current", "missing"}} \cup {Delete(s)}
WithHeaders(requests) ==
    {[r EXCEPT !.header = x] : r \in requests, x \in {"current", "legacy", "absent"}}

-----------------------------------------------------------------------------
(* Prompts.                                                                *)

Text(n) == [key |-> "", size |-> n]
Hole(k) == [key |-> k, size |-> 2]
Prompt(name, source, declared, template, broken) ==
    [name |-> name, source |-> source, declared |-> declared, template |-> template,
     broken |-> broken]
P(name) == Prompt(name, <<"team", "open">>, {}, <<Text(1)>>, FALSE)

Plenty == [prompts |-> [i \in 1..5 |-> P(<<"p1", "p2", "p3", "p4", "p5">>[i])], failed |-> FALSE]
Few == [prompts |-> <<P("p2"), P("p3"), P("p4")>>, failed |-> TRUE]
Empty == [prompts |-> <<>>, failed |-> FALSE]
Lost == [prompts |-> <<>>, failed |-> TRUE]
Various ==
    [prompts |-> <<Prompt("open", <<"team", "open">>, {"x"}, <<Text(3), Hole("x")>>, FALSE),
                   Prompt("shut", <<"team", "shut">>, {}, <<Text(9), Hole("y")>>, FALSE),
                   Prompt("bad", <<"team", "open">>, {}, <<Text(4)>>, TRUE),
                   Prompt("far", <<"else">>, {}, <<Text(12)>>, FALSE)>>,
     failed |-> FALSE]

\* The outer root is trusted, one below it is not, and the other way round.
Root(path, tier) == [path |-> path, tier |-> tier]
RootOrders ==
    {<<Root(<<"team">>, "trusted"), Root(<<"team", "shut">>, "restricted")>>,
     <<Root(<<"team", "open">>, "trusted"), Root(<<"team">>, "restricted")>>, <<>>}

Arg(k, n) == [key |-> k, size |-> n]
RawArguments ==
    {<<>>, <<Arg("x", 1)>>, <<Arg("x", 9), Arg("", 1), Arg("x", 2)>>, <<Arg("x", 1), Arg("y", 8)>>}
PromptCalls(s) ==
    {GetOf(s, n, raw) : n \in {"", "none", "open", "shut", "bad", "far"}, raw \in RawArguments}
    \cup {[GetOf(s, "shut", <<>>) EXCEPT !.arg.payload = e] : e \in GetPayloadErrors}

-----------------------------------------------------------------------------
(* Scenarios.                                                              *)

Options(permission, validate, rejectUnknown) ==
    [permission |-> permission, allowed |-> {"godot.Scene.Read"}, validate |-> validate,
     rejectUnknown |-> rejectUnknown]
Rendering(mode, roots) == [mode |-> mode, rejectUnknown |-> TRUE, roots |-> roots]

Base ==
    [menu |-> "", transport |-> "http", ready |-> {"a"}, granted |-> FALSE,
     allowMutating |-> FALSE, enabled |-> TRUE, opts |-> Options("allow_all", TRUE, FALSE),
     prompts |-> Rendering("legacy", <<>>), budget |-> 1, walks |-> FALSE, reloads |-> 0,
     expires |-> FALSE]

\* Several requests of one session at once, from its first initialize on.
SessionRequests(tool) ==
    {Initialize(s, "current", m) : s \in {NoSession, "a"}, m \in BOOLEAN}
    \cup {Initialized("a", "absent"), Delete("a"), CallOf("a", tool, NoArgs)}
StdioRequests ==
    {Initialize(Stdio, v, TRUE) : v \in {"current", "legacy"}}
    \cup {Initialized(Stdio, id) : id \in {"valid", "absent"}}
    \cup {CallOf(Stdio, n, NoArgs) : n \in {MCSave, MCRun, MCReload}}
    \cup {Bare(Stdio, "prompts/list", "valid", [cursor |-> 0]), Bare(Stdio, "ping", "absent", <<>>)}
    \cup {r \in Frames(Stdio) : r.verb = "POST"}

MCRequestsOf(menu) ==
    CASE menu = "first handshake" -> SessionRequests(MCSave)
      [] menu = "open session" ->
           {r \in SessionRequests(MCRun) : r.session = "a"}
      [] menu = "configuration" -> ToolCalls("a")
      [] menu = "frames" -> WithHeaders(UNION {Frames(s) : s \in {NoSession, "a", Unknown}})
                            \cup PlainCalls("a") \cup PlainCalls(NoSession)
      [] menu = "pages" -> {Initialize(NoSession, "current", FALSE)}
      [] menu = "prompts" -> PromptCalls("a")
      [] menu = "stdio" -> StdioRequests

MCCatalogsOf(menu) ==
    CASE menu = "pages" -> {Plenty, Few, Empty, Lost}
      [] menu = "prompts" -> {Various}
      [] menu = "stdio" -> {Plenty, Lost}
      [] OTHER -> {Plenty}

MCScenarios ==
    {[Base EXCEPT !.menu = "first handshake", !.ready = {}, !.budget = 4],
     [Base EXCEPT !.menu = "open session", !.granted = TRUE, !.budget = 3, !.expires = TRUE],
     [Base EXCEPT !.menu = "pages", !.walks = TRUE, !.reloads = 2, !.budget = 1]}
    \cup {[Base EXCEPT !.menu = "configuration", !.granted = g, !.allowMutating = a,
                       !.opts = Options(p, v, r)] :
            g \in BOOLEAN, a \in BOOLEAN, v \in BOOLEAN, r \in BOOLEAN,
            p \in {"allow_all", "read_only", "allow_list", "other"}}
    \cup {[Base EXCEPT !.menu = "frames", !.enabled = e] : e \in BOOLEAN}
    \cup {[Base EXCEPT !.menu = "stdio", !.transport = "stdio", !.ready = {}, !.budget = 4,
                       !.enabled = e, !.reloads = 1] : e \in BOOLEAN}
    \cup {[Base EXCEPT !.menu = "prompts", !.prompts = Rendering(m, roots)] :
            m \in {"legacy", "strict", "advanced"}, roots \in RootOrders}
=============================================================================
