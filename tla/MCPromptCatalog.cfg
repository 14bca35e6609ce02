CONSTANTS
    Files = {1, 2}
    Installed = {1}
    Callers = {r1}
    Clients = {c1}
    Text <- MCText
    Modes = {"poll", "event"}
    AutoReload = TRUE
    WatchOutcomes = {TRUE, FALSE}
    MaxAttempts = 2
    MaxEdits = 3
    ClientModes = {"poll"}
SPECIFICATION Spec
INVARIANTS CatalogTypeOK RecordedIsServed NoStaleClient
CHECK_DEADLOCK FALSE
PROPERTIES SourceIsFollowed
