---------------------------- MODULE PromptCatalog ----------------------------
(***************************************************************************)
(* The prompt catalog of the HTTP server while the SKILL.md files it is    *)
(* read from change under it: the initial load, the two ways to watch the  *)
(* source (a polling ticker and file system events behind a debounce       *)
(* timer), the reload they share with the tool godot.prompts.reload, and   *)
(* the list_changed notification to the clients that hold a stream.        *)
(*                                                                         *)
(* Every write of a file gets a stamp of its own, which stands for its     *)
(* modification time and the hash of its content; 0 is an absent file.  A  *)
(* fingerprint is then the stamps of all files.  A scan of the source, for *)
(* a fingerprint or for a load, reads the files one at a time, and files   *)
(* may change in between.  Each file has a directory of its own, as skills *)
(* have, which must be watched before changes of the file raise events.    *)
(***************************************************************************)
EXTENDS Naturals, FiniteSets

CONSTANTS
    Files,         \* the SKILL.md files, numbered in the order of their paths
    Installed,     \* those there when the server starts
    Callers,       \* requests that call godot.prompts.reload, one call each
    Clients,       \* MCP clients that may hold an event stream
    Text,          \* Text[s]: the name and the list metadata written with stamp s
    Modes,         \* the values of prompt_catalog.watch.mode to explore
    AutoReload,    \* prompt_catalog.auto_reload.enabled
    WatchOutcomes, \* whether the event watch can be set up: a subset of BOOLEAN
    MaxAttempts,   \* promptCatalogLoadConsistencyMaxAttempts
    MaxEdits,      \* bound: stamps given out
    ClientModes    \* bound: the watch modes explored with clients

ASSUME FilesAssumption == Files \subseteq Nat \ {0} /\ Installed \subseteq Files
ASSUME CallersAssumption == {"main", "watcher", "nobody"} \cap Callers = {}
ASSUME LimitAssumption == MaxAttempts \in Nat \ {0} /\ MaxEdits \in Nat \ {0}
ASSUME ModesAssumption ==
    /\ Modes \subseteq {"poll", "event"}
    /\ AutoReload \in BOOLEAN
    /\ WatchOutcomes \subseteq BOOLEAN

VARIABLES
    source, dirs, clock,            \* the files, their directories, stamps given out
    mode, watch, watched,           \* how the source is watched, directories watched
    events, debounce,               \* events not yet handled, the debounce timer
    pc,                             \* what the starting server, the watcher, callers do
    pre, preTodo,                   \* the watcher's fingerprint taken before the lock
    reloadMu, phase, todo, scan,    \* the reload lock, and the scan of its holder
    before, attempt, oldList,       \* fingerprint before the load, try, list before
    loaded, fingerprint,            \* prompts served, fingerprint recorded for them
    gaveUp, blind,                  \* history: retry limit hit, change before the watch
    streams, told, held, early,     \* clients with a stream, about to list, their lists
    targets                         \* clients a broadcast has still to send to

sourceVars == <<source, dirs, clock>>
watchVars  == <<mode, watch, watched, events, debounce, blind>>
preVars    == <<pre, preTodo>>
loadVars   == <<reloadMu, phase, todo, scan, before, attempt, oldList>>
servedVars == <<loaded, fingerprint, gaveUp>>
clientVars == <<streams, told, held, early>>
vars == <<sourceVars, watchVars, preVars, loadVars, servedVars, clientVars, pc, targets>>

Actors == Callers \cup {"main", "watcher"}
Nobody == "nobody"
Stamps == 0 .. MaxEdits
OtherChange == 0    \* an event that is not the creation of a directory
Absent == [f \in Files |-> 0]

(***************************************************************************)
(* The prompts of a load: two files with the same name are a load error,   *)
(* and the first in the order of paths is kept.  A client that lists the   *)
(* prompts sees their names and metadata, not their templates.             *)
(***************************************************************************)
Kept(l) == {f \in Files :
    /\ l[f] # 0
    /\ \A g \in Files : g < f /\ l[g] # 0 => Text[l[g]].name # Text[l[f]].name}
Visible(l) == {Text[l[f]] : f \in Kept(l)}

Init ==
    /\ source = [f \in Files |-> IF f \in Installed THEN 1 ELSE 0] /\ clock = 1
    /\ dirs = {f \in Files : source[f] # 0}
    /\ mode \in Modes /\ watch = "starting" /\ watched = {}
    /\ events = {} /\ debounce = FALSE
    /\ pc = [a \in Actors |-> IF a = "main" THEN "reload" ELSE "idle"]
    /\ pre = Absent /\ preTodo = {}
    /\ reloadMu = "main" /\ phase = "before" /\ todo = Files /\ scan = Absent
    /\ before = Absent /\ attempt = 1 /\ oldList = {}
    /\ loaded = Absent /\ fingerprint = Absent
    /\ gaveUp = FALSE /\ blind = FALSE
    /\ streams = {} /\ told = {} /\ early = {}
    /\ held = [c \in Clients |-> {}]
    /\ targets = [a \in Actors |-> {}]

-----------------------------------------------------------------------------
(* The source, changed by whoever edits the skills (external).             *)

\* The event a change raises once the event watch runs: the root is watched
\* from the start, the directory of a file when it was there then or since
\* the event of its creation was handled.
Raise(e) ==
    /\ events' = IF watch = "event" THEN events \cup {e} ELSE events
    /\ blind' = (blind \/ watch = "starting")

MakeDirectory(f) ==
    /\ f \notin dirs
    /\ dirs' = dirs \cup {f}
    /\ Raise(f)
    /\ UNCHANGED <<source, clock, mode, watch, watched, debounce, preVars, loadVars,
                   servedVars, clientVars, pc, targets>>

WriteFile(f) ==
    /\ f \in dirs
    /\ clock < MaxEdits
    /\ clock' = clock + 1
    /\ source' = [source EXCEPT ![f] = clock + 1]
    /\ IF f \in watched \/ watch = "starting"
         THEN Raise(OtherChange) ELSE UNCHANGED <<events, blind>>
    /\ UNCHANGED <<dirs, mode, watch, watched, debounce, preVars, loadVars,
                   servedVars, clientVars, pc, targets>>

\* The skill's directory is removed with the file in it, and its watch with it.
RemoveSkill(f) ==
    /\ f \in dirs
    /\ clock < MaxEdits
    /\ clock' = clock + 1
    /\ source' = [source EXCEPT ![f] = 0]
    /\ dirs' = dirs \ {f}
    /\ watched' = watched \ {f}
    /\ Raise(OtherChange)
    /\ UNCHANGED <<mode, watch, debounce, preVars, loadVars,
                   servedVars, clientVars, pc, targets>>

-----------------------------------------------------------------------------
(* The reload, run by the holder of the reload lock.                       *)

Begin(a, ph, fp) ==
    /\ reloadMu' = a
    /\ phase' = ph /\ todo' = Files /\ scan' = Absent
    /\ before' = fp /\ attempt' = 1
    /\ oldList' = Visible(loaded)

NextPhase(ph) == phase' = ph /\ todo' = Files /\ scan' = Absent

\* One file of the scan is read; the last one of a fingerprint before a load
\* completes it.
ScanFile(f) ==
    /\ reloadMu # Nobody /\ f \in todo
    /\ LET read == [scan EXCEPT ![f] = source[f]] IN
         IF phase = "before" /\ todo = {f}
           THEN before' = read /\ NextPhase("load")
           ELSE scan' = read /\ todo' = todo \ {f} /\ UNCHANGED <<before, phase>>
    /\ UNCHANGED <<sourceVars, watchVars, preVars, reloadMu, attempt, oldList, servedVars,
                   clientVars, pc, targets>>

ScanEnds(ph) == reloadMu # Nobody /\ phase = ph /\ todo = {}

\* The parsed prompts replace the catalog in one step under its own lock.
ReplacePrompts ==
    /\ ScanEnds("load")
    /\ loaded' = scan
    /\ NextPhase("after")
    /\ UNCHANGED <<sourceVars, watchVars, preVars, reloadMu, before, attempt, oldList,
                   fingerprint, gaveUp, clientVars, pc, targets>>

Stable_Trusting == TRUE
Stable == scan = before
TriesLeft_OneMore == attempt <= MaxAttempts
TriesLeft == attempt < MaxAttempts

Retry ==
    /\ ScanEnds("after")
    /\ ~Stable /\ TriesLeft
    /\ attempt' = attempt + 1
    /\ NextPhase("before")
    /\ UNCHANGED <<sourceVars, watchVars, preVars, reloadMu, before, oldList,
                   servedVars, clientVars, pc, targets>>

\* The list changed, so the actor goes on to tell the clients.
ListChanged_Counted == Cardinality(Visible(loaded)) # Cardinality(oldList)
ListChanged == Visible(loaded) # oldList

\* A caller makes one request; the watcher goes on watching.
Rest(a) == IF a = "watcher" THEN "idle" ELSE "done"

\* The fingerprint after the load is recorded, stable or not, and the lock
\* released.  The starting server notifies nobody.
FinishReload ==
    /\ ScanEnds("after")
    /\ Stable \/ ~TriesLeft
    /\ fingerprint' = scan
    /\ gaveUp' = (~TriesLeft /\ scan # before)
    /\ reloadMu' = Nobody /\ phase' = "none" /\ todo' = {} /\ scan' = Absent
    /\ before' = Absent /\ attempt' = 1 /\ oldList' = {}
    /\ pc' = [pc EXCEPT ![reloadMu] =
                CASE reloadMu = "main" -> "start"
                  [] reloadMu # "main" /\ ListChanged -> "announce"
                  [] OTHER -> Rest(reloadMu)]
    /\ early' = IF Visible(loaded) # oldList THEN {} ELSE early
    /\ blind' = (blind /\ reloadMu = "main")
    /\ UNCHANGED <<sourceVars, mode, watch, watched, events, debounce, preVars, loaded,
                   streams, told, held, targets>>

-----------------------------------------------------------------------------
(* The watchers.                                                           *)

\* The event watch is set up on every directory there is; when it cannot be,
\* the fallback starts the polling ticker, which refuses to run in event mode.
Watches(ok) ==
    IF mode = "event" THEN IF ok THEN "event" ELSE "none"
                      ELSE IF AutoReload THEN "poll" ELSE "none"

StartWatchers ==
    /\ pc["main"] = "start"
    /\ \E ok \in WatchOutcomes :
         /\ watch' = Watches(ok)
         /\ watched' = IF watch' = "event" THEN dirs ELSE {}
    /\ pc' = [pc EXCEPT !["main"] = "serving"]
    /\ UNCHANGED <<sourceVars, mode, events, debounce, blind, preVars, loadVars,
                   servedVars, clientVars, targets>>

Detect == preTodo' = Files /\ pre' = Absent /\ pc' = [pc EXCEPT !["watcher"] = "detect"]

PollTick ==
    /\ watch = "poll" /\ pc["watcher"] = "idle"
    /\ Detect
    /\ UNCHANGED <<sourceVars, watchVars, loadVars, servedVars, clientVars, targets>>

HandleEvent_NoNewWatch(e) ==
    /\ watch = "event" /\ pc["watcher"] = "idle" /\ e \in events
    /\ events' = events \ {e}
    /\ debounce' = TRUE
    /\ UNCHANGED <<sourceVars, mode, watch, watched, blind, preVars, loadVars, servedVars,
                   clientVars, pc, targets>>

\* Any event arms the debounce timer anew; that of a new directory first adds
\* the directory to the watch.
HandleEvent(e) ==
    /\ watch = "event" /\ pc["watcher"] = "idle" /\ e \in events
    /\ events' = events \ {e}
    /\ watched' = watched \cup ({e} \cap dirs)
    /\ debounce' = TRUE
    /\ UNCHANGED <<sourceVars, mode, watch, blind, preVars, loadVars, servedVars,
                   clientVars, pc, targets>>

DebounceFires ==
    /\ debounce /\ pc["watcher"] = "idle"
    /\ debounce' = FALSE
    /\ Detect
    /\ UNCHANGED <<sourceVars, mode, watch, watched, events, blind, loadVars, servedVars,
                   clientVars, targets>>

\* The watcher fingerprints the source before it asks for the lock.
DetectFile(f) ==
    /\ pc["watcher"] = "detect" /\ f \in preTodo
    /\ pre' = [pre EXCEPT ![f] = source[f]]
    /\ preTodo' = preTodo \ {f}
    /\ UNCHANGED <<sourceVars, watchVars, loadVars, servedVars, clientVars, pc, targets>>

Detected == pc["watcher"] = "detect" /\ preTodo = {} /\ reloadMu = Nobody

SourcesUnchanged ==
    /\ Detected /\ pre = fingerprint
    /\ pc' = [pc EXCEPT !["watcher"] = "idle"]
    /\ pre' = Absent
    /\ UNCHANGED <<sourceVars, watchVars, preTodo, loadVars, servedVars, clientVars, targets>>

\* The fingerprint serves as the one before the first load.
ReloadChanged ==
    /\ Detected /\ pre # fingerprint
    /\ pc' = [pc EXCEPT !["watcher"] = "reload"]
    /\ Begin("watcher", "load", pre)
    /\ pre' = Absent
    /\ UNCHANGED <<sourceVars, watchVars, preTodo, servedVars, clientVars, targets>>

\* godot.prompts.reload reloads whether the source changed or not.
CallReload(a) ==
    /\ pc["main"] = "serving" /\ pc[a] = "idle"
    /\ reloadMu = Nobody
    /\ pc' = [pc EXCEPT ![a] = "reload"]
    /\ Begin(a, "before", Absent)
    /\ UNCHANGED <<sourceVars, watchVars, preVars, servedVars, clientVars, targets>>

-----------------------------------------------------------------------------
(* Notifications and the clients that react to them.                       *)

\* A client (external) that opens a stream lists the prompts after it, as it
\* does on every notification; it may list them at any other time too.  What
\* a client holds that is about to list again, or has no stream, is left out.
ListAgain(c) ==
    /\ told' = told \cup {c}
    /\ held' = [held EXCEPT ![c] = {}]
    /\ early' = early \ {c}

Forget(c) ==
    /\ told' = told \ {c}
    /\ held' = [held EXCEPT ![c] = {}]
    /\ early' = early \ {c}

\* The sessions with a stream are looked up after the lock is released.
Announce(a) ==
    /\ pc[a] = "announce"
    /\ targets' = [targets EXCEPT ![a] = streams]
    /\ pc' = [pc EXCEPT ![a] = IF streams = {} THEN Rest(a) ELSE "send"]
    /\ UNCHANGED <<sourceVars, watchVars, preVars, loadVars, servedVars, clientVars>>

\* A stream that is gone is skipped; one that fails is dropped.
SendListChanged(a, c) ==
    /\ pc[a] = "send" /\ c \in targets[a]
    /\ targets' = [targets EXCEPT ![a] = @ \ {c}]
    /\ pc' = [pc EXCEPT ![a] = IF targets[a] = {c} THEN Rest(a) ELSE "send"]
    /\ \/ c \in streams /\ ListAgain(c) /\ UNCHANGED streams
       \/ c \in streams /\ streams' = streams \ {c} /\ Forget(c)
       \/ c \notin streams /\ UNCHANGED clientVars
    /\ UNCHANGED <<sourceVars, watchVars, preVars, loadVars, servedVars>>

OpenStream(c) ==
    /\ pc["main"] = "serving" /\ c \notin streams /\ mode \in ClientModes
    /\ streams' = streams \cup {c}
    /\ ListAgain(c)
    /\ UNCHANGED <<sourceVars, watchVars, preVars, loadVars, servedVars, pc, targets>>

ListPrompts(c) ==
    /\ c \in streams
    /\ held' = [held EXCEPT ![c] = Visible(loaded)]
    /\ told' = told \ {c}
    /\ early' = IF reloadMu = Nobody THEN early \ {c} ELSE early \cup {c}
    /\ UNCHANGED <<sourceVars, watchVars, preVars, loadVars, servedVars, streams, pc, targets>>

-----------------------------------------------------------------------------
EditSource == \E f \in Files : MakeDirectory(f) \/ WriteFile(f) \/ RemoveSkill(f)
ReloadStep ==
    \/ \E f \in Files : ScanFile(f)
    \/ ReplacePrompts \/ Retry \/ FinishReload
WatcherStep ==
    \/ PollTick \/ DebounceFires
    \/ \E e \in Files \cup {OtherChange} : HandleEvent(e)
    \/ \E f \in Files : DetectFile(f)
    \/ SourcesUnchanged \/ ReloadChanged
NotifyStep(a) == Announce(a) \/ \E c \in Clients : SendListChanged(a, c)

Next ==
    \/ EditSource \/ ReloadStep \/ StartWatchers \/ WatcherStep
    \/ \E a \in Callers : CallReload(a)
    \/ \E a \in Actors : NotifyStep(a)
    \/ \E c \in Clients : OpenStream(c) \/ ListPrompts(c)

\* The goroutines of the starting server, of a reload and of the watcher run,
\* its ticker ticks and its timer fires; a mutex is fair, so the watcher gets
\* the lock that callers keep taking.
Fairness ==
    /\ WF_vars(ReloadStep \/ StartWatchers)
    /\ SF_vars(WatcherStep \/ NotifyStep("watcher"))

Spec == Init /\ [][Next]_vars /\ Fairness

-----------------------------------------------------------------------------
Listings == SUBSET {Text[s] : s \in 1 .. MaxEdits}

\* The variables keep their types.
CatalogTypeOK ==
    /\ source \in [Files -> Stamps] /\ dirs \subseteq Files /\ clock \in 1 .. MaxEdits
    /\ mode \in Modes /\ watch \in {"starting", "poll", "event", "none"}
    /\ watched \subseteq dirs
    /\ events \subseteq Files \cup {OtherChange} /\ debounce \in BOOLEAN
    /\ pc \in [Actors -> {"idle", "start", "serving", "detect", "reload", "announce", "send", "done"}]
    /\ pre \in [Files -> Stamps] /\ preTodo \subseteq Files
    /\ reloadMu \in Actors \cup {Nobody} /\ phase \in {"none", "before", "load", "after"}
    /\ todo \subseteq Files /\ scan \in [Files -> Stamps]
    /\ before \in [Files -> Stamps] /\ attempt \in 1 .. MaxAttempts
    /\ oldList \in Listings
    /\ loaded \in [Files -> Stamps] /\ fingerprint \in [Files -> Stamps]
    /\ gaveUp \in BOOLEAN /\ blind \in BOOLEAN
    /\ streams \subseteq Clients /\ told \subseteq Clients /\ early \subseteq Clients
    /\ held \in [Clients -> Listings]
    /\ targets \in [Actors -> SUBSET Clients]

\* A file that the recorded fingerprint holds is served as it was when it was
\* fingerprinted, although the files are read one at a time in three scans
\* and may be written between any two reads.  It is excepted that the source
\* kept changing until the retry limit, when the fingerprint recorded is that
\* of a source nobody loaded.
RecordedIsServed ==
    reloadMu = Nobody /\ ~gaveUp =>
        \A f \in Files : fingerprint[f] # 0 => loaded[f] = fingerprint[f]

\* No reload loses a notification: a client that holds a stream and a list
\* other than the one served has been told, or is about to be.  Excepted is
\* a list taken in the middle of a reload whose later try brought back the
\* list of before, which notifies nobody.
NoStaleClient ==
    \A c \in streams : held[c] # Visible(loaded) =>
        \/ c \in told \/ c \in early
        \/ reloadMu # Nobody
        \/ \E a \in Actors : pc[a] = "announce" \/ c \in targets[a]

\* Once nobody edits the skills, a watched source ends up served: no change
\* is missed between the detection, the lock, the debounce timer and the watch
\* of new directories.  Excepted are the sources whose fingerprint was recorded
\* without being loaded, and changes after the initial load that came before
\* the event watch.
SourceIsFollowed ==
    <>[](\/ loaded = source
         \/ fingerprint # loaded
         \/ watch = "none"
         \/ mode = "event" /\ blind)

\* When the event watch cannot be set up the server says it falls back to
\* polling (startPromptCatalogWatchers), so that the source is still followed.
FallbackPolls == <>[](loaded = source)
=============================================================================
