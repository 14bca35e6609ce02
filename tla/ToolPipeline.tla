---------------------------- MODULE ToolPipeline ----------------------------
(***************************************************************************)
(* What a tools/call goes through before its tool runs: the checks of the  *)
(* payload, the permission policy, the capability to mutate, the schema of *)
(* the arguments, and the call context the tool gets.  A call is a record  *)
(* of its frame; its arguments are a function from names to JSON types.    *)
(***************************************************************************)
EXTENDS Naturals, FiniteSets

CONSTANTS
    Names,          \* what a call may give as the name of a tool
    Lower,          \* Lower[n]: n in lower case
    ValidNames,     \* names of the canonical form
    ResourceNames,  \* names that begin with godot://
    KnownResources, \* the resources there are
    Registered,     \* the tools of the manager
    ReadOnlyTools, MutatingTools, BridgeTools,  \* the tables of toolspec
    NeedSession,    \* tools that refuse a caller whose session is not initialized
    Schema          \* Schema[n]: required arguments, types of the properties

ASSUME NamesAssumption ==
    /\ Lower \in [Names -> Names]
    /\ ValidNames \cup ResourceNames \cup Registered \subseteq Names
    /\ KnownResources \subseteq ResourceNames
    /\ ResourceNames \cap ValidNames = {}
    /\ ReadOnlyTools \cap MutatingTools = {} /\ BridgeTools \cap MutatingTools = {}

\* RegisterTool takes names of the canonical form alone.
ASSUME RegisteredAssumption == Registered \subseteq ValidNames

IsReadOnlyTool(n) == n \in ResourceNames \/ Lower[n] \in ReadOnlyTools
IsMutatingTool(n) == Lower[n] \in MutatingTools
IsInternalBridgeTool(n) == Lower[n] \in BridgeTools

\* An unknown permission mode allows the tools of the bridge only.
IsToolAllowed(n, opts) ==
    \/ IsInternalBridgeTool(n)
    \/ opts.permission \in {"", "allow_all"}
    \/ opts.permission = "read_only" /\ IsReadOnlyTool(n)
    \/ opts.permission = "allow_list" /\ Lower[n] \in {Lower[m] : m \in opts.allowed}

JSONTypes == {"string", "integer", "fraction", "boolean", "object", "array", "null"}

\* A type the schema does not know matches every value.
IsJSONTypeMatch(value, type) ==
    CASE type = "number" -> value \in {"integer", "fraction"}
      [] type \in JSONTypes \ {"fraction"} -> value = type
      [] OTHER -> TRUE

Given(call) == DOMAIN call.args
Properties(n) == DOMAIN Schema[n].types

MissingArgument(n, call) == Schema[n].required \ Given(call) # {}
UnknownArgument(n, call) == Given(call) \ Properties(n) # {}
MistypedArgument(n, call) ==
    \E a \in Given(call) \cap Properties(n) :
        ~IsJSONTypeMatch(call.args[a], Schema[n].types[a])

\* validateToolArguments: "" when the arguments fit.
ArgumentError(n, call, opts) ==
    IF ~opts.validate THEN ""
    ELSE IF MissingArgument(n, call) THEN "missing_arguments"
    ELSE IF opts.rejectUnknown /\ UnknownArgument(n, call) THEN "unknown_arguments"
    ELSE IF MistypedArgument(n, call) THEN "invalid_type"
    ELSE ""

\* A name that is not canonical, or a resource, before anything is looked up.
PayloadError(call) ==
    IF ~call.payload THEN "invalid_payload"
    ELSE IF call.name \notin ResourceNames \cup ValidNames THEN "invalid_name"
    ELSE IF call.token = "invalid" THEN "invalid_token"
    ELSE ""

\* A name that begins with godot:// reads the resource.
ResourceOutcome(call, opts) ==
    IF ~IsToolAllowed(call.name, opts) THEN "permission_denied"
    ELSE IF call.name \in KnownResources THEN "resource" ELSE "unknown_resource"

MayMutate(n, ctx) == IsMutatingTool(n) => ctx.mutating

\* The tool runs with the context of the call, which replaces whatever the
\* caller passed in its place.  The result of the tool itself is its own affair.
RunTool(n, ctx) ==
    IF n \in NeedSession /\ ~ctx.initialized THEN "session_required" ELSE "ran"

\* Mutant: a client that may mutate needs no permission to.
ToolOutcome_GrantPermits(call, ctx, opts) ==
    LET n == call.name
        permitted == \/ IsInternalBridgeTool(n) \/ IsToolAllowed(n, opts)
                     \/ IsMutatingTool(n) /\ ctx.mutating
    IN IF n \notin Registered THEN "tool_not_found"
       ELSE IF ~permitted THEN "permission_denied"
       ELSE IF ~MayMutate(n, ctx) THEN "capability_required"
       ELSE IF ArgumentError(n, call, opts) # "" THEN ArgumentError(n, call, opts)
       ELSE RunTool(n, ctx)

\* Execute, for a name that is not a resource's.  A tool that is not
\* registered is refused only when it is called.  The bridge tools are exempt
\* here as well as in IsToolAllowed.  The second look at the canonical name
\* (line 112) cannot fail: RegisteredAssumption.
ToolOutcome(call, ctx, opts) ==
    LET n == call.name
        permitted == IsInternalBridgeTool(n) \/ IsToolAllowed(n, opts)
    IN IF n \notin Registered THEN "tool_not_found"
       ELSE IF ~permitted THEN "permission_denied"
       ELSE IF ~MayMutate(n, ctx) THEN "capability_required"
       ELSE IF ArgumentError(n, call, opts) # "" THEN ArgumentError(n, call, opts)
       ELSE RunTool(n, ctx)

CallOutcome(call, ctx, opts) ==
    IF PayloadError(call) # "" THEN PayloadError(call)
    ELSE IF call.name \in ResourceNames THEN ResourceOutcome(call, opts)
    ELSE ToolOutcome(call, ctx, opts)
=============================================================================
