SPECIFICATION Spec
CONSTANTS
    Handlers = {h1, h2, h3}
    Sessions = {"a", "b"}
    NoSession = "none"
    Unknown = "unknown"
    Stdio = "stdio"
    NoReply = NoReply
    Scenarios <- MCScenarios
    RequestsOf <- MCRequestsOf
    CatalogsOf <- MCCatalogsOf
    Names <- MCNames
    Lower <- MCLower
    ValidNames <- MCValid
    ResourceNames <- MCResources
    KnownResources = {"godot://project/info"}
    Registered <- MCRegistered
    ReadOnlyTools = {"godot.scene.read"}
    MutatingTools = {"godot.scene.save", "godot.project.run"}
    BridgeTools = {"godot.bridge.command.ack"}
    NeedSession = {"godot.project.run", "godot.bridge.command.ack"}
    Schema <- MCSchema
    PageSize = 2
    MaxRenderedBytes = 10
    WrapBytes = 1
INVARIANTS
    DispatchTypeOK
    ReadyAsTold
    CapabilityAsTold
    RequestsAreAnswered
    PolicyKept
    PromptsAreGoverned
    WalkIsComplete
PROPERTY WalksEnd
CHECK_DEADLOCK FALSE
