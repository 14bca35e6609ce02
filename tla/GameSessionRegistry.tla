------------------------ MODULE GameSessionRegistry ------------------------
(***************************************************************************)
(* runtimebridge/game_session_registry.go: which game session belongs to   *)
(* which editor session and which runtime transport.  Three maps behind    *)
(* one RWMutex; every method holds the lock from its first read to its     *)
(* last write, so a method is one action, and the code that calls several  *)
(* methods is several actions (RuntimeBridge).  Scene paths and timestamps *)
(* are left out; a stop time is kept as the flag "stopped".                *)
(***************************************************************************)
EXTENDS Naturals, FiniteSets

CONSTANTS Games,      \* game session ids
          Editors,    \* MCP sessions of editor plugins
          Runtimes,   \* MCP sessions of running games (runtime transports)
          Tokens,     \* launch tokens
          None        \* the empty string

ASSUME NoneIsNoId == None \notin Games \cup Editors \cup Runtimes \cup Tokens

VARIABLES known,      \* the keys of bySessionID
          session,    \* session[g]: the record under g, the zero value if absent
          byEditor,   \* byEditorSessionID, None where there is no entry
          byRuntime   \* byRuntimeSession, None where there is no entry

registryVars == <<known, session, byEditor, byRuntime>>

GameSession == [editor: Editors \cup {None}, runtime: Runtimes \cup {None},
                token: Tokens \cup {None}, running: BOOLEAN, stopped: BOOLEAN,
                hasSnapshot: BOOLEAN]

ZeroSession == [editor |-> None, runtime |-> None, token |-> None,
                running |-> FALSE, stopped |-> FALSE, hasSnapshot |-> FALSE]

RegistryTypeOK ==
  /\ known \subseteq Games
  /\ session \in [Games -> GameSession]
  /\ byEditor \in [Editors -> Games \cup {None}]
  /\ byRuntime \in [Runtimes -> Games \cup {None}]

RegistryInit ==
  /\ known = {}
  /\ session = [g \in Games |-> ZeroSession]
  /\ byEditor = [e \in Editors |-> None]
  /\ byRuntime = [r \in Runtimes |-> None]

OrElse(new, old) == IF new # None THEN new ELSE old

\* Mutant: a launch does not set the running flag.
Launched_NotRunning(s, e, t) ==
  [s EXCEPT !.editor = OrElse(e, @), !.token = OrElse(t, @), !.stopped = FALSE]

(* What the methods make of one record s.                                  *)
Launched(s, e, t) ==
  [s EXCEPT !.editor = OrElse(e, @), !.token = OrElse(t, @), !.running = TRUE, !.stopped = FALSE]
Detached(s) == [s EXCEPT !.runtime = None]
Attached(s, r, e, t) == [Launched(s, e, t) EXCEPT !.runtime = OrElse(r, @)]
Observed(s) == [s EXCEPT !.hasSnapshot = TRUE, !.running = TRUE]
Stopped(s) == [s EXCEPT !.running = FALSE, !.stopped = TRUE, !.runtime = None]

-----------------------------------------------------------------------------
(* Queries                                                                 *)

ActiveForEditor(e) ==
  IF e # None /\ byEditor[e] \in known /\ session[byEditor[e]].running
    THEN byEditor[e] ELSE None

RuntimeSessionID(g) == IF g \in known /\ session[g].running THEN session[g].runtime ELSE None
MatchesLaunchToken(g, t) == g \in known /\ session[g].token = t
RuntimeSessionMatches(g, r) == r # None /\ g \in known /\ session[g].runtime = r
IsRunning(g) == g \in known /\ session[g].running

(* LatestRunning returns the running session with the greatest start time; *)
(* start times are not kept, so any running session can be the latest.     *)
LatestRunning == {g \in known : session[g].running}

-----------------------------------------------------------------------------
(* Updates                                                                 *)

\* Mutant: the old editor's entry stays when the session moves.
RebindEditor_KeepOld(g, e) == IF e = None THEN byEditor ELSE [byEditor EXCEPT ![e] = g]

(* Both upserts move the session to the editor e, when e is given: the     *)
(* entry of the old editor goes if it still names this session.            *)
RebindEditor(g, e) ==
  IF e = None THEN byEditor
  ELSE [f \in Editors |-> IF f = e THEN g
                          ELSE IF f = session[g].editor /\ byEditor[f] = g THEN None
                          ELSE byEditor[f]]

\* Mutant: the empty session id is accepted.
UpsertFromRun_NoGuard(g, e, t) ==
  /\ byEditor' = IF e = None THEN byEditor ELSE [byEditor EXCEPT ![e] = g]
  /\ known' = known \cup {g}
  /\ UNCHANGED <<session, byRuntime>>

UpsertFromRun(g, e, t) ==
  /\ g # None
  /\ byEditor' = RebindEditor(g, e)
  /\ known' = known \cup {g}
  /\ session' = [session EXCEPT ![g] = Launched(@, e, t)]
  /\ UNCHANGED byRuntime

\* Mutant: the previous owner of the transport is not told.
Evicted_Nobody(g, r) == {}

(* The session that owned the transport r before g does.                   *)
Evicted(g, r) ==
  {h \in known \ {g} : r # None /\ byRuntime[r] = h /\ session[h].runtime = r}

RegisterRuntimeTransport(g, r, e, t) ==
  LET evicted == Evicted(g, r) IN
  /\ byEditor' = RebindEditor(g, e)
  /\ known' = known \cup {g}
  /\ session' = [h \in Games |->
       IF h = g THEN Attached(session[g], r, e, t)
       ELSE IF h \in evicted THEN Detached(session[h])
       ELSE session[h]]
  /\ byRuntime' = IF r = None THEN byRuntime
                  ELSE [q \in Runtimes |->
                          IF q = r THEN g
                          ELSE IF q = session[g].runtime /\ byRuntime[q] = g THEN None
                          ELSE byRuntime[q]]

MarkSnapshotReceived(g) ==
  /\ session' = IF g \in known THEN [session EXCEPT ![g] = Observed(@)] ELSE session
  /\ UNCHANGED <<known, byEditor, byRuntime>>

\* Mutant: a stop clears the running flag and forgets about the transport.
StopLocked_KeepTransport(S) ==
  /\ session' = [g \in Games |->
       IF g \in S THEN [session[g] EXCEPT !.running = FALSE, !.stopped = TRUE] ELSE session[g]]
  /\ UNCHANGED <<known, byEditor, byRuntime>>

(* stopSessionLocked, for every session of S (S \subseteq known).          *)
StopLocked(S) ==
  /\ session' = [g \in Games |-> IF g \in S THEN Stopped(session[g]) ELSE session[g]]
  /\ byRuntime' = [r \in Runtimes |->
                     IF \E g \in S : session[g].runtime = r THEN None ELSE byRuntime[r]]
  /\ UNCHANGED <<known, byEditor>>

StopSession(g) == StopLocked({g} \cap known)

(* An entry that names no session is healed.                               *)
StopByEditorSession(e) ==
  LET g == byEditor[e] IN
  IF g = None \/ g \in known
    THEN StopLocked({g} \cap known)
    ELSE /\ byEditor' = [byEditor EXCEPT ![e] = None]
         /\ UNCHANGED <<known, session, byRuntime>>

(* removeSessionLocked: an index entry goes only if it names this session. *)
RemoveSession(g) ==
  /\ known' = known \ {g}
  /\ session' = [session EXCEPT ![g] = ZeroSession]
  /\ byEditor' = [e \in Editors |->
                    IF e = session[g].editor /\ byEditor[e] = g THEN None ELSE byEditor[e]]
  /\ byRuntime' = [r \in Runtimes |->
                     IF r = session[g].runtime /\ byRuntime[r] = g THEN None ELSE byRuntime[r]]

RemoveByEditorSession(e) ==
  LET g == byEditor[e] IN
  IF g = None THEN UNCHANGED registryVars
  ELSE IF g \in known THEN RemoveSession(g)
  ELSE /\ byEditor' = [byEditor EXCEPT ![e] = None]
       /\ UNCHANGED <<known, session, byRuntime>>

(* Running, of this editor, with no runtime transport, not the excluded.   *)
Stale(e, exclude) ==
  {g \in known \ {exclude} :
     session[g].running /\ session[g].editor = e /\ session[g].runtime = None}

StopStaleForEditor(e, exclude) == StopLocked(Stale(e, exclude))

-----------------------------------------------------------------------------
(* Any sequence of calls.                                                  *)
RegistryNext ==
  \/ \E g \in Games \cup {None}, e \in Editors \cup {None}, t \in Tokens \cup {None} :
       UpsertFromRun(g, e, t)
  \/ \E g \in Games, r \in Runtimes \cup {None}, e \in Editors \cup {None}, t \in Tokens \cup {None} :
       RegisterRuntimeTransport(g, r, e, t)
  \/ \E g \in Games : MarkSnapshotReceived(g)
  \/ \E g \in Games : StopSession(g)
  \/ \E e \in Editors : StopByEditorSession(e)
  \/ \E g \in Games : RemoveSession(g)
  \/ \E e \in Editors : RemoveByEditorSession(e)
  \/ \E e \in Editors, g \in Games : StopStaleForEditor(e, g)

RegistrySpec == RegistryInit /\ [][RegistryNext]_registryVars

-----------------------------------------------------------------------------
(* Properties                                                              *)

(* The transport index and the sessions agree in both directions: r leads  *)
(* to g exactly when g owns r.  So a transport has one owner, and no stop, *)
(* removal or transfer can leave or take away another session's entry.     *)
RuntimeIndexExact ==
  \A r \in Runtimes, g \in Games : byRuntime[r] = g <=> session[g].runtime = r

(* An editor's entry names a session that exists and is of that editor:    *)
(* the "stale mapping" branches of the code are never taken.               *)
EditorIndexSound ==
  \A e \in Editors : byEditor[e] # None =>
    byEditor[e] \in known /\ session[byEditor[e]].editor = e

(* Once stopped or removed, a game gets no commands until a process        *)
(* registers for it: a snapshot that arrives late sets the record running  *)
(* again (MarkSnapshotReceived), and so does the next project.run, but     *)
(* RuntimeSessionID must not lead to the transport of before the stop.     *)
StoppedIsUnreachable ==
  [][\A g \in Games :
       RuntimeSessionID(g) = None /\ RuntimeSessionID(g)' # None =>
         session'[g].runtime # session[g].runtime]_registryVars

(* What the properties rest on: the record of an unknown session is the    *)
(* zero value, and a session that is not running owns no transport.        *)
NoGhosts ==
  \A g \in Games :
    /\ g \notin known => session[g] = ZeroSession
    /\ session[g].runtime # None => session[g].running

(* The registry's inductive invariant.                                     *)
RegistryInv ==
  /\ RegistryTypeOK
  /\ RuntimeIndexExact
  /\ EditorIndexSound
  /\ NoGhosts
=============================================================================
