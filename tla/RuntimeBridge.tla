--------------------------- MODULE RuntimeBridge ---------------------------
(***************************************************************************)
(* Launching, attaching to, observing and stopping games: the tool         *)
(* handlers of tools/project/tools.go and tools/runtime/bridge_tools.go    *)
(* and the expiry of MCP sessions in transport/http/session.go, over the   *)
(* registry of GameSessionRegistry, the runtime snapshot store and the     *)
(* runtime log store; and, on the other side of the wire, the editor       *)
(* plugin and the runtime companion inside a game.                         *)
(*                                                                         *)
(* Each handler runs in the goroutine of its HTTP request and takes the    *)
(* lock of one store at a time: every lock section is one action, and the  *)
(* handlers of all requests interleave between them.  The command broker   *)
(* appears as what it promises (CommandContract): a command is answered,   *)
(* or times out, or could not be sent, and in the last two cases may still *)
(* reach the plugin.  Snapshots age, so an await may time out at any time. *)
(***************************************************************************)
EXTENDS GameSessionRegistry

CONSTANT Calls   \* requests of API clients, and expiries of MCP sessions

VARIABLES
  call,       \* call[k]: where the request k is, and its local variables
  wire,       \* commands on their way to an editor plugin
  snap,       \* snap[g]: launch token of the process whose snapshot is stored, or None
  logs,       \* games with entries in the runtime log store
  live,       \* MCP sessions of editors, with their editor snapshots
  drawn,      \* launch tokens drawn so far
  playing,    \* playing[e]: the editor of e is playing the project
  handshake,  \* handshake[e]: the launch named by the handshake file of e
  client,     \* client[r]: the runtime companion that uses the MCP session r
  push        \* push[r]: where the request of r is

storeVars == <<snap, logs>>
pluginVars == <<playing, handshake>>
runtimeVars == <<client, push>>
vars == <<registryVars, call, wire, storeVars, live, drawn, pluginVars, runtimeVars>>

CallPCs == {"idle", "done",
            "sweep", "upsert", "dispatch", "wait", "dropSnap", "dropLogs", "attach", "confirm",
            "await", "succeeded",
            "stopAddress", "stopSend", "stopWait", "stopSnap", "stopLogs", "stopped",
            "expireSnap", "expireLogs", "expireGame", "expireForget", "expireSession"}
RunPCs == {"sweep", "upsert", "dispatch", "wait", "dropSnap", "dropLogs", "attach", "confirm",
           "await", "succeeded"}
PushPCs == {"idle", "register", "storeSnap", "markSnap", "storeLogs"}
Expiring == {"expireSnap", "expireLogs", "expireGame", "expireForget", "expireSession"}

MaybeGame == Games \cup {None}
MaybeToken == Tokens \cup {None}
MaybeEditor == Editors \cup {None}

(* ack: the launch the plugin answered with, or that it refused.  alone is *)
(* history: no other request overlaps this one, no command nobody waits    *)
(* for and no registration comes late.                                     *)
CallRecord == [pc: CallPCs, game: MaybeGame, editor: MaybeEditor, token: MaybeToken,
               ack: {"none", "failed", "ok"}, ackGame: MaybeGame, ackToken: MaybeToken,
               alone: BOOLEAN]
IdleCall == [pc |-> "idle", game |-> None, editor |-> None, token |-> None,
             ack |-> "none", ackGame |-> None, ackToken |-> None, alone |-> FALSE]
DoneCall == [IdleCall EXCEPT !.pc = "done"]

Command == [kind: {"run", "stop"}, editor: Editors, game: MaybeGame, token: MaybeToken,
            caller: Calls \cup {None}]

Handshake == [game: MaybeGame, token: MaybeToken, stopped: BOOLEAN]
Client == [home: MaybeEditor, alive: BOOLEAN, game: MaybeGame, token: MaybeToken]

BridgeTypeOK ==
  /\ RegistryTypeOK
  /\ call \in [Calls -> CallRecord]
  /\ wire \subseteq Command
  /\ snap \in [Games -> MaybeToken]
  /\ logs \subseteq Games
  /\ live \subseteq Editors
  /\ drawn \subseteq Tokens
  /\ playing \in [Editors -> BOOLEAN]
  /\ handshake \in [Editors -> Handshake]
  /\ client \in [Runtimes -> Client]
  /\ push \in [Runtimes -> PushPCs]
  /\ \A k \in Calls : call[k].pc \in RunPCs => call[k].game \in Games /\ call[k].editor \in Editors

BridgeInit ==
  /\ RegistryInit
  /\ call = [k \in Calls |-> IdleCall]
  /\ wire = {}
  /\ snap = [g \in Games |-> None]
  /\ logs = {}
  /\ live = Editors
  /\ drawn = {}
  /\ playing = [e \in Editors |-> FALSE]
  /\ handshake = [e \in Editors |-> [game |-> None, token |-> None, stopped |-> TRUE]]
  /\ client = [r \in Runtimes |-> [home |-> None, alive |-> FALSE, game |-> None, token |-> None]]
  /\ push = [r \in Runtimes |-> "idle"]

-----------------------------------------------------------------------------
(* Requests                                                                *)

(* A request begins: no request that overlaps another is alone.            *)
Begin(k, record) ==
  LET others == {j \in Calls \ {k} : call[j].pc \notin {"idle", "done"}} IN
  /\ call[k].pc = "idle"
  /\ call' = [j \in Calls |->
       IF j = k THEN [record EXCEPT !.alone = (others = {})]
       ELSE IF j \in others THEN [call[j] EXCEPT !.alone = FALSE]
       ELSE call[j]]

Disturbed == [k \in Calls |-> [call[k] EXCEPT !.alone = FALSE]]

Step(k, from, to) == call[k].pc = from /\ call' = [call EXCEPT ![k].pc = to]
Finish(k, from) == call[k].pc = from /\ call' = [call EXCEPT ![k] = DoneCall]

(* Which editor a project command may go to: an explicit one, the caller   *)
(* or the latest, all with a live snapshot; without an explicit one, the   *)
(* editor of the game session, whose snapshot is not looked at.            *)
EditorsFor(g) ==
  live \cup (IF g \in known THEN {session[g].editor} \ {None} ELSE {})

Sent(k, kind) == [kind |-> kind, editor |-> call[k].editor, game |-> call[k].game,
                  token |-> call[k].token, caller |-> k]
Unclaimed(c) == [c EXCEPT !.caller = None]

(* The sender takes the session manager's lock, which an expiry holds.     *)
CanSend == \A k \in Calls : call[k].pc \notin Expiring

(* The commands on the wire when the broker gives up on that of k:    *)
(* it may be on its way or lost (and then it was perhaps never sent).      *)
Abandon(k, kind) ==
  LET c == Sent(k, kind) IN
  wire' = IF c \in wire THEN (wire \ {c}) \cup {Unclaimed(c)} ELSE wire
-----------------------------------------------------------------------------
(* godot.project.run                                                       *)

(* A launch token is drawn and the editor resolved.                        *)
RunStart(k, g, e, t) ==
  /\ e \in EditorsFor(g)
  /\ t \notin drawn
  /\ drawn' = drawn \cup {t}
  /\ Begin(k, [IdleCall EXCEPT !.pc = "sweep", !.game = g, !.editor = e, !.token = t])
  /\ UNCHANGED <<registryVars, wire, storeVars, live, pluginVars, runtimeVars>>

RunSweep(k) ==
  /\ Step(k, "sweep", "upsert")
  /\ StopStaleForEditor(call[k].editor, call[k].game)
  /\ UNCHANGED <<wire, storeVars, live, drawn, pluginVars, runtimeVars>>

RunUpsert(k) ==
  /\ Step(k, "upsert", "dispatch")
  /\ UpsertFromRun(call[k].game, call[k].editor, call[k].token)
  /\ UNCHANGED <<wire, storeVars, live, drawn, pluginVars, runtimeVars>>

RunSend(k) ==
  /\ CanSend /\ call[k].editor \in live
  /\ Step(k, "dispatch", "wait")
  /\ wire' = wire \cup {Sent(k, "run")}
  /\ UNCHANGED <<registryVars, storeVars, live, drawn, pluginVars, runtimeVars>>

(* Not sent, timed out or refused: cleanupFailedRunSession begins.  What   *)
(* could not be sent may have left all the same.                           *)
RunFails(k) ==
  /\ call[k].pc \in {"dispatch", "wait"}
  /\ call[k].pc = "dispatch" => CanSend
  /\ \/ Abandon(k, "run")
     \/ /\ call[k].pc = "dispatch" /\ call[k].editor \in live
        /\ wire' = wire \cup {Unclaimed(Sent(k, "run"))}
  /\ call' = [call EXCEPT ![k] = [@ EXCEPT !.pc = "dropSnap", !.ack = "failed"]]
  /\ RemoveSession(call[k].game)
  /\ UNCHANGED <<storeVars, live, drawn, pluginVars, runtimeVars>>

\* Mutant: the session attached to is cleaned up, not the requested one.
RunRemapped_WrongSession(k) ==
  /\ Step(k, "wait", "dropSnap")
  /\ call[k].ack = "ok" /\ call[k].ackGame # call[k].game
  /\ RemoveSession(call[k].ackGame)
  /\ UNCHANGED <<wire, storeVars, live, drawn, pluginVars, runtimeVars>>

(* The editor attached to a game it was already playing: the requested     *)
(* session is cleaned up and the call goes on with the other.              *)
RunRemapped(k) ==
  /\ Step(k, "wait", "dropSnap")
  /\ call[k].ack = "ok" /\ call[k].ackGame # call[k].game
  /\ RemoveSession(call[k].game)
  /\ UNCHANGED <<wire, storeVars, live, drawn, pluginVars, runtimeVars>>

RunDropSnapshot(k) ==
  /\ Step(k, "dropSnap", "dropLogs")
  /\ snap' = [snap EXCEPT ![call[k].game] = None]
  /\ UNCHANGED <<registryVars, wire, logs, live, drawn, pluginVars, runtimeVars>>

\* Mutant: a failed run goes on like a remapped one.
RunDropLogs_AlwaysOn(k) ==
  /\ call[k].pc = "dropLogs"
  /\ call' = [call EXCEPT ![k] = [@ EXCEPT !.pc = "attach", !.game = call[k].ackGame]]
  /\ logs' = logs \ {call[k].game}
  /\ UNCHANGED <<registryVars, wire, snap, live, drawn, pluginVars, runtimeVars>>

RunDropLogs(k) ==
  /\ IF call[k].ack = "ok"
       THEN /\ call[k].pc = "dropLogs"
            /\ call' = [call EXCEPT ![k] = [@ EXCEPT !.pc = "attach", !.game = call[k].ackGame]]
       ELSE Finish(k, "dropLogs")
  /\ logs' = logs \ {call[k].game}
  /\ UNCHANGED <<registryVars, wire, snap, live, drawn, pluginVars, runtimeVars>>

RunAttach(k) ==
  /\ Step(k, "attach", "confirm")
  /\ UpsertFromRun(call[k].game, call[k].editor, None)
  /\ UNCHANGED <<wire, storeVars, live, drawn, pluginVars, runtimeVars>>

\* Mutant: the drawn token goes into the record of the game attached to.
RunConfirm_DrawnToken(k) ==
  /\ \/ call[k].pc = "confirm"
     \/ call[k].pc = "wait" /\ call[k].ack = "ok" /\ call[k].ackGame = call[k].game
  /\ call' = [call EXCEPT ![k].pc = "await"]
  /\ UpsertFromRun(call[k].game, call[k].editor, call[k].token)
  /\ UNCHANGED <<wire, storeVars, live, drawn, pluginVars, runtimeVars>>

(* The token of the acknowledgement, which the plugin always gives, takes  *)
(* the place of the drawn one.                                             *)
RunConfirm(k) ==
  /\ \/ call[k].pc = "confirm"
     \/ call[k].pc = "wait" /\ call[k].ack = "ok" /\ call[k].ackGame = call[k].game
  /\ call' = [call EXCEPT ![k] = [@ EXCEPT !.pc = "await", !.token = call[k].ackToken]]
  /\ UpsertFromRun(call[k].game, call[k].editor, call[k].ackToken)
  /\ UNCHANGED <<wire, storeVars, live, drawn, pluginVars, runtimeVars>>

(* Await sees a fresh snapshot, or times out and the mapping is kept.      *)
RunReady(k) ==
  /\ Step(k, "await", "succeeded")
  /\ snap[call[k].game] # None
  /\ UNCHANGED <<registryVars, wire, storeVars, live, drawn, pluginVars, runtimeVars>>

RunNotReady(k) ==
  /\ Finish(k, "await")
  /\ UNCHANGED <<registryVars, wire, storeVars, live, drawn, pluginVars, runtimeVars>>

Return(k) ==
  /\ Finish(k, "succeeded") \/ Finish(k, "stopped")
  /\ UNCHANGED <<registryVars, wire, storeVars, live, drawn, pluginVars, runtimeVars>>

Run(k) ==
  \/ RunSweep(k) \/ RunUpsert(k) \/ RunSend(k) \/ RunFails(k) \/ RunRemapped(k)
  \/ RunDropSnapshot(k) \/ RunDropLogs(k) \/ RunAttach(k) \/ RunConfirm(k)
  \/ RunReady(k) \/ RunNotReady(k)

-----------------------------------------------------------------------------
(* godot.project.stop                                                      *)

(* With a session id, or with that of the game active on a live editor,    *)
(* or with none.                                                           *)
StopStart(k, g) ==
  /\ g \in Games \/ \E e \in live : g = ActiveForEditor(e)
  /\ Begin(k, [IdleCall EXCEPT !.pc = "stopAddress", !.game = g])
  /\ UNCHANGED <<registryVars, wire, storeVars, live, drawn, pluginVars, runtimeVars>>

StopAddress(k, e) ==
  /\ call[k].pc = "stopAddress"
  /\ e \in EditorsFor(call[k].game)
  /\ call' = [call EXCEPT ![k] = [@ EXCEPT !.pc = "stopSend", !.editor = e]]
  /\ UNCHANGED <<registryVars, wire, storeVars, live, drawn, pluginVars, runtimeVars>>

StopSend(k) ==
  /\ CanSend /\ call[k].editor \in live
  /\ Step(k, "stopSend", "stopWait")
  /\ wire' = wire \cup {Sent(k, "stop")}
  /\ UNCHANGED <<registryVars, storeVars, live, drawn, pluginVars, runtimeVars>>

(* No editor with a fresh snapshot, not sent, timed out or refused.        *)
StopFails(k) ==
  /\ \/ Finish(k, "stopAddress")
     \/ Finish(k, "stopSend") /\ CanSend
     \/ Finish(k, "stopWait")
  /\ \/ Abandon(k, "stop")
     \/ /\ call[k].pc = "stopSend" /\ call[k].editor \in live
        /\ wire' = wire \cup {Unclaimed(Sent(k, "stop"))}
  /\ UNCHANGED <<registryVars, storeVars, live, drawn, pluginVars, runtimeVars>>

(* The plugin stopped; with no target nothing is forgotten.                *)
StopAcked(k) ==
  /\ call[k].ack = "ok"
  /\ IF call[k].game = None
       THEN Step(k, "stopWait", "stopped") /\ UNCHANGED registryVars
       ELSE Step(k, "stopWait", "stopSnap") /\ StopSession(call[k].game)
  /\ UNCHANGED <<wire, storeVars, live, drawn, pluginVars, runtimeVars>>

StopDropSnapshot(k) ==
  /\ Step(k, "stopSnap", "stopLogs")
  /\ snap' = [snap EXCEPT ![call[k].game] = None]
  /\ UNCHANGED <<registryVars, wire, logs, live, drawn, pluginVars, runtimeVars>>

StopDropLogs(k) ==
  /\ Step(k, "stopLogs", "stopped")
  /\ logs' = logs \ {call[k].game}
  /\ UNCHANGED <<registryVars, wire, snap, live, drawn, pluginVars, runtimeVars>>

Stop(k) ==
  \/ \E e \in Editors : StopAddress(k, e)
  \/ StopSend(k) \/ StopFails(k) \/ StopAcked(k) \/ StopDropSnapshot(k) \/ StopDropLogs(k)

-----------------------------------------------------------------------------
(* RemoveSession and CleanupSessions of the session manager, for one       *)
(* editor: its lock is held from the first step to the last.               *)

ExpireStart(k, e) ==
  /\ CanSend
  /\ e \in live
  /\ LET g == ActiveForEditor(e) IN
     Begin(k, [IdleCall EXCEPT !.pc = IF g = None THEN "expireForget" ELSE "expireSnap",
                               !.game = g, !.editor = e])
  /\ UNCHANGED <<registryVars, wire, storeVars, live, drawn, pluginVars, runtimeVars>>

ExpireSnapshot(k) ==
  /\ Step(k, "expireSnap", "expireLogs")
  /\ snap' = [snap EXCEPT ![call[k].game] = None]
  /\ UNCHANGED <<registryVars, wire, logs, live, drawn, pluginVars, runtimeVars>>

ExpireLogs(k) ==
  /\ Step(k, "expireLogs", "expireGame")
  /\ logs' = logs \ {call[k].game}
  /\ UNCHANGED <<registryVars, wire, snap, live, drawn, pluginVars, runtimeVars>>

ExpireGame(k) ==
  /\ \/ Step(k, "expireGame", "expireSession") /\ RemoveSession(call[k].game)
     \/ Step(k, "expireForget", "expireSession") /\ RemoveByEditorSession(call[k].editor)
  /\ UNCHANGED <<wire, storeVars, live, drawn, pluginVars, runtimeVars>>

ExpireSession(k) ==
  /\ Finish(k, "expireSession")
  /\ live' = live \ {call[k].editor}
  /\ UNCHANGED <<registryVars, wire, storeVars, drawn, pluginVars, runtimeVars>>

Expire(k) == ExpireSnapshot(k) \/ ExpireLogs(k) \/ ExpireGame(k) \/ ExpireSession(k)

-----------------------------------------------------------------------------
(* The editor plugin (godot_mcp.gd)                                        *)

Processes(e) == {r \in Runtimes : client[r].home = e /\ client[r].alive}
Killed(e) == [r \in Runtimes |-> IF r \in Processes(e) THEN [client[r] EXCEPT !.alive = FALSE]
                                                       ELSE client[r]]

(* The answer reaches the caller if it still waits; handling a command     *)
(* nobody waits for interferes with every request.                         *)
Answer(c, ack, g, t) ==
  call' = IF c.caller # None
            THEN [call EXCEPT ![c.caller] = [@ EXCEPT !.ack = ack, !.ackGame = g, !.ackToken = t]]
            ELSE Disturbed

(* _handle_project_run: while the editor plays, the launch of the          *)
(* handshake file wins over the one requested; no file, or a failed write, *)
(* are the other cases.                                                    *)
PluginRun(c) ==
  LET e == c.editor
      attach == playing[e] /\ handshake[e].game # None
      g == IF attach THEN handshake[e].game ELSE c.game
      t == IF attach THEN handshake[e].token ELSE c.token IN
  /\ c \in wire /\ c.kind = "run"
  /\ wire' = wire \ {c}
  /\ \/ /\ Answer(c, "ok", g, t)
        /\ handshake' = [handshake EXCEPT ![e] = [game |-> g, token |-> t, stopped |-> FALSE]]
        /\ playing' = [playing EXCEPT ![e] = TRUE]
     \/ Answer(c, "failed", None, None) /\ UNCHANGED pluginVars
  /\ UNCHANGED <<registryVars, storeVars, live, drawn, runtimeVars>>

(* _handle_project_stop: whatever plays is stopped, and its id answered.   *)
PluginStop(c) ==
  LET e == c.editor IN
  /\ c \in wire /\ c.kind = "stop"
  /\ wire' = wire \ {c}
  /\ Answer(c, "ok", IF handshake[e].stopped THEN c.game ELSE handshake[e].game, None)
  /\ handshake' = [handshake EXCEPT ![e].stopped = TRUE]
  /\ playing' = [playing EXCEPT ![e] = FALSE]
  /\ client' = Killed(e)
  /\ UNCHANGED <<registryVars, storeVars, live, drawn, push>>

(* The user plays the project by hand, or the game ends by itself.         *)
UserPlays(e) ==
  /\ ~playing[e]
  /\ playing' = [playing EXCEPT ![e] = TRUE]
  /\ UNCHANGED <<registryVars, call, wire, storeVars, live, drawn, handshake, runtimeVars>>

GameExits(e) ==
  /\ playing[e]
  /\ playing' = [playing EXCEPT ![e] = FALSE]
  /\ client' = Killed(e)
  /\ UNCHANGED <<registryVars, call, wire, storeVars, live, drawn, handshake, push>>

-----------------------------------------------------------------------------
(* The runtime companion (runtime_companion.gd) and the bridge tools       *)

(* A game that plays loads the handshake, unless it says "stopped", and    *)
(* opens an MCP session of its own.                                        *)
Boot(r, e) ==
  /\ playing[e] /\ Processes(e) = {}
  /\ client[r].home = None
  /\ ~handshake[e].stopped
  /\ client' = [client EXCEPT ![r] = [home |-> e, alive |-> TRUE, game |-> handshake[e].game,
                                      token |-> handshake[e].token]]
  /\ UNCHANGED <<registryVars, call, wire, storeVars, live, drawn, pluginVars, push>>

(* One request at a time; a check that fails answers an error and changes  *)
(* nothing.  The rest of an accepted request runs even if the game dies.   *)
PushBegins(r, check, next) ==
  /\ client[r].alive /\ push[r] = "idle"
  /\ check
  /\ push' = [push EXCEPT ![r] = next]
  /\ UNCHANGED <<registryVars, call, wire, storeVars, live, drawn, pluginVars, client>>
PushStep(r, from, to) == push[r] = from /\ push' = [push EXCEPT ![r] = to]

(* runtime.register: the session is read and its token compared, then the  *)
(* transport is bound; the editor of the handshake is presented.  It is    *)
(* late when the game has ended, or was launched anew, since the check.    *)
Late(r) == ~client[r].alive \/ ~MatchesLaunchToken(client[r].game, client[r].token)

RegisterCheck(r) == PushBegins(r, MatchesLaunchToken(client[r].game, client[r].token), "register")

RegisterBind(r) ==
  /\ PushStep(r, "register", "idle")
  /\ RegisterRuntimeTransport(client[r].game, r, client[r].home, client[r].token)
  /\ call' = IF Late(r) THEN Disturbed ELSE call
  /\ UNCHANGED <<wire, storeVars, live, drawn, pluginVars, client>>

(* A refused companion loads the handshake again.                          *)
RegisterRefused(r) ==
  LET h == handshake[client[r].home] IN
  /\ client[r].alive /\ push[r] = "idle"
  /\ ~MatchesLaunchToken(client[r].game, client[r].token)
  /\ ~h.stopped
  /\ client' = [client EXCEPT ![r] = [@ EXCEPT !.game = h.game, !.token = h.token]]
  /\ UNCHANGED <<registryVars, call, wire, storeVars, live, drawn, pluginVars, push>>

(* runtime.snapshot.push                                                   *)
SnapshotCheck(r) == PushBegins(r, RuntimeSessionMatches(client[r].game, r), "storeSnap")

SnapshotStore(r) ==
  /\ PushStep(r, "storeSnap", "markSnap")
  /\ snap' = [snap EXCEPT ![client[r].game] = client[r].token]
  /\ UNCHANGED <<registryVars, call, wire, logs, live, drawn, pluginVars, client>>

SnapshotMark(r) ==
  /\ PushStep(r, "markSnap", "idle")
  /\ MarkSnapshotReceived(client[r].game)
  /\ UNCHANGED <<call, wire, storeVars, live, drawn, pluginVars, client>>

(* runtime.log.push                                                        *)
LogCheck(r) == PushBegins(r, RuntimeSessionMatches(client[r].game, r), "storeLogs")

LogStore(r) ==
  /\ PushStep(r, "storeLogs", "idle")
  /\ logs' = logs \cup {client[r].game}
  /\ UNCHANGED <<registryVars, call, wire, snap, live, drawn, pluginVars, client>>

Companion(r) ==
  \/ RegisterCheck(r) \/ RegisterBind(r) \/ RegisterRefused(r)
  \/ SnapshotCheck(r) \/ SnapshotStore(r) \/ SnapshotMark(r)
  \/ LogCheck(r) \/ LogStore(r)

-----------------------------------------------------------------------------
BridgeNext ==
  \/ \E k \in Calls, g \in Games, e \in Editors, t \in Tokens : RunStart(k, g, e, t)
  \/ \E k \in Calls, g \in MaybeGame : StopStart(k, g)
  \/ \E k \in Calls, e \in Editors : ExpireStart(k, e)
  \/ \E k \in Calls : Run(k) \/ Stop(k) \/ Expire(k) \/ Return(k)
  \/ \E c \in wire : PluginRun(c) \/ PluginStop(c)
  \/ \E e \in Editors : UserPlays(e) \/ GameExits(e)
  \/ \E r \in Runtimes, e \in Editors : Boot(r, e)
  \/ \E r \in Runtimes : Companion(r)

BridgeSpec == BridgeInit /\ [][BridgeNext]_vars

-----------------------------------------------------------------------------
(* Properties                                                              *)

(* A run that succeeds with no other request in the way leaves the game it *)
(* names the running game of the editor it names: what is_running,         *)
(* get_active and a stop without arguments will find.  A registration that *)
(* comes late is in the way too.                                           *)
RunSuccessIsActive ==
  \A k \in Calls : call[k].pc = "succeeded" /\ call[k].alone =>
    ActiveForEditor(call[k].editor) = call[k].game

(* A game loses its transport only to a stop, a failed run, a remap or an  *)
(* expiry that is about this very game, or because its transport registers *)
(* for another: a sweep, an attach or a removal of another game never      *)
(* cuts a connected game off.                                              *)
Concerns(k, g) ==
  \/ call[k].game = g /\ call[k].pc \in {"dispatch", "wait", "stopWait", "expireGame"}
  \/ call[k].pc = "expireForget" /\ byEditor[call[k].editor] = g

LossIsOwn ==
  \A g \in Games, r \in Runtimes :
    session[g].runtime = r /\ session'[g].runtime # r =>
      \/ \E k \in Calls : Concerns(k, g) /\ call'[k].pc # call[k].pc
      \/ \E q \in Runtimes : push[q] = "register" /\ push'[q] = "idle"

TransportLossIsOwn == [][LossIsOwn]_vars

(* While a run with no other request in the way waits for the game, and    *)
(* when it gives up and keeps the mapping for a late registration, the     *)
(* process that plays for its editor, of this launch or of the one it      *)
(* attached to, is one whose registration is accepted: the effective       *)
(* launch token survived attach and remap (TOOL_CONTRACT.md).              *)
LaunchIsAccepted ==
  \A k \in Calls : call[k].pc \in {"await", "succeeded"} /\ call[k].alone =>
    \A r \in Processes(call[k].editor) : MatchesLaunchToken(client[r].game, client[r].token)

-----------------------------------------------------------------------------
(* What documents and tests say and the handlers do not guarantee.         *)

(* tools_test.go: after a successful stop the game is stopped and its      *)
(* snapshot gone; here with no other tool call in the way.                 *)
StopSuccessMeansStopped ==
  \A k \in Calls : call[k].pc = "stopped" /\ call[k].alone /\ call[k].game # None =>
    ~IsRunning(call[k].game) /\ snap[call[k].game] = None

(* TOOL_CONTRACT.md: a run succeeds after the registration and the first   *)
(* snapshot of the launch are both observed.                               *)
RunSuccessMeansRegistered ==
  \A k \in Calls : call[k].pc = "succeeded" /\ call[k].alone =>
    /\ snap[call[k].game] = call[k].token
    /\ \E r \in Runtimes : session[call[k].game].runtime = r /\ client[r].token = call[k].token
=============================================================================
