CONSTANTS
    Files = {1, 2}
    Installed = {1}
    Callers = {}
    Clients = {}
    Text <- MCText
    Modes = {"event"}
    AutoReload = TRUE
    WatchOutcomes = {FALSE}
    MaxAttempts = 2
    MaxEdits = 2
    ClientModes = {}
SPECIFICATION Spec
PROPERTIES FallbackPolls
CHECK_DEADLOCK FALSE
