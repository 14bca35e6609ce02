------------------------- MODULE RuntimeBridgeProofs -------------------------
(***************************************************************************)
(* What the checks of RuntimeBridge show for every number of games,        *)
(* editors, runtimes, launch tokens and requests.  The handlers use the    *)
(* registry only by its methods and with arguments it accepts, so they     *)
(* inherit its invariant; no game loses its transport to a request that is *)
(* not about it.  What makes the types inductive is the bookkeeping of     *)
(* commands: one that is on the wire for a request was sent by it, the     *)
(* request still waits, and it has no answer.  At the end: a successful    *)
(* run that nothing disturbed leaves its game the active one of its editor.*)
(***************************************************************************)
EXTENDS RuntimeBridge, GameSessionRegistryProofs

(* What a request keeps in its local variables, by where it is.            *)
RecordOK(x) ==
  /\ x \in CallRecord
  /\ x.pc \in RunPCs => x.game \in Games /\ x.editor \in Editors
  /\ x.pc \in {"stopSnap", "stopLogs", "expireSnap", "expireLogs", "expireGame"} => x.game \in Games
  /\ x.pc \in Expiring => x.editor \in Editors
  /\ x.pc \in {"sweep", "upsert", "dispatch", "stopAddress", "stopSend"} => x.ack = "none"
  /\ x.pc \in {"wait", "dropSnap", "dropLogs"} /\ x.ack = "ok" => x.ackGame \in Games

CallsOK == call \in [Calls -> CallRecord] /\ \A k \in Calls : RecordOK(call[k])

(* The state a request is in while its command is on the wire.             *)
Waiting(kind) == IF kind = "run" THEN "wait" ELSE "stopWait"

ClaimOK(c) ==
  /\ c.kind = "run" => c.game \in Games
  /\ c.caller # None =>
       /\ call[c.caller].pc = Waiting(c.kind)
       /\ call[c.caller].ack = "none"
       /\ c = Sent(c.caller, c.kind)

WireOK == wire \subseteq Command /\ \A c \in wire : ClaimOK(c)

StoresOK ==
  /\ snap \in [Games -> MaybeToken]
  /\ logs \subseteq Games
  /\ live \subseteq Editors
  /\ drawn \subseteq Tokens
  /\ playing \in [Editors -> BOOLEAN]
  /\ handshake \in [Editors -> Handshake]

(* A companion has a home once it is alive, and a request of it that was   *)
(* let through names a game.                                               *)
CompanionsOK ==
  /\ client \in [Runtimes -> Client]
  /\ push \in [Runtimes -> PushPCs]
  /\ \A r \in Runtimes : /\ client[r].alive => client[r].home \in Editors
                         /\ push[r] # "idle" => /\ client[r].home \in Editors
                                               /\ client[r].game \in Games

BridgeInv ==
  /\ RegistryInv
  /\ CallsOK
  /\ WireOK
  /\ StoresOK
  /\ CompanionsOK

-----------------------------------------------------------------------------
(* One request                                                             *)

Moved(x, to) == [x EXCEPT !.pc = to]
Failed(x) == [x EXCEPT !.pc = "dropSnap", !.ack = "failed"]
Attaching(x) == [x EXCEPT !.pc = "attach", !.game = x.ackGame]
Confirmed(x) == [x EXCEPT !.pc = "await", !.token = x.ackToken]
Addressed(x, e) == [x EXCEPT !.pc = "stopSend", !.editor = e]
Answered(x, ack, g, t) == [x EXCEPT !.ack = ack, !.ackGame = g, !.ackToken = t]
Overlapped(x, alone) == [x EXCEPT !.alone = alone]

(* What these updates of a request keep.                                   *)
LEMMA MovedFields ==
  ASSUME NEW x \in CallRecord, NEW to \in CallPCs
  PROVE  LET y == Moved(x, to) IN
         /\ y \in CallRecord /\ y.pc = to
         /\ y.game = x.game /\ y.editor = x.editor /\ y.token = x.token
         /\ y.ack = x.ack /\ y.ackGame = x.ackGame
  BY DEF CallRecord, Moved

LEMMA FailedFields ==
  ASSUME NEW x \in CallRecord
  PROVE  LET y == Failed(x) IN
         /\ y \in CallRecord /\ y.pc = "dropSnap" /\ y.ack = "failed"
         /\ y.game = x.game /\ y.editor = x.editor
  BY DEF CallRecord, CallPCs, Failed

LEMMA AttachingFields ==
  ASSUME NEW x \in CallRecord
  PROVE  LET y == Attaching(x) IN
         /\ y \in CallRecord /\ y.pc = "attach"
         /\ y.game = x.ackGame /\ y.editor = x.editor
  BY DEF CallRecord, CallPCs, Attaching

LEMMA ConfirmedFields ==
  ASSUME NEW x \in CallRecord
  PROVE  LET y == Confirmed(x) IN
         /\ y \in CallRecord /\ y.pc = "await"
         /\ y.game = x.game /\ y.editor = x.editor
  BY DEF CallRecord, CallPCs, Confirmed

LEMMA AddressedFields ==
  ASSUME NEW x \in CallRecord, NEW e \in Editors
  PROVE  LET y == Addressed(x, e) IN
         y \in CallRecord /\ y.pc = "stopSend" /\ y.ack = x.ack
  BY DEF CallRecord, CallPCs, MaybeEditor, Addressed

LEMMA AnsweredFields ==
  ASSUME NEW x \in CallRecord, NEW ack \in {"failed", "ok"}, NEW g \in MaybeGame,
         NEW t \in MaybeToken
  PROVE  LET y == Answered(x, ack, g, t) IN
         /\ y \in CallRecord /\ y.pc = x.pc
         /\ y.game = x.game /\ y.editor = x.editor
         /\ y.ack = ack /\ y.ackGame = g
  BY DEF CallRecord, Answered

LEMMA OverlappedFields ==
  ASSUME NEW x \in CallRecord, NEW b \in BOOLEAN
  PROVE  LET y == Overlapped(x, b) IN
         /\ y \in CallRecord /\ y.pc = x.pc
         /\ y.game = x.game /\ y.editor = x.editor /\ y.token = x.token
         /\ y.ack = x.ack /\ y.ackGame = x.ackGame
  BY DEF CallRecord, Overlapped

(* What the command of a request is made of.                               *)
SameCall(x, y) == /\ x.pc = y.pc /\ x.ack = y.ack
                  /\ x.game = y.game /\ x.editor = y.editor /\ x.token = y.token

LEMMA DoneOK == RecordOK(DoneCall)
  BY DEF RecordOK, DoneCall, IdleCall, CallRecord, CallPCs, RunPCs, Expiring, MaybeGame,
         MaybeEditor, MaybeToken

(* An overlap changes nothing but the history.                             *)
LEMMA OverlapOK ==
  ASSUME NEW x, RecordOK(x), NEW b \in BOOLEAN
  PROVE  RecordOK(Overlapped(x, b)) /\ SameCall(Overlapped(x, b), x)
<1>1. x \in CallRecord
  BY DEF RecordOK
<1> QED BY <1>1, OverlappedFields DEF RecordOK, SameCall

-----------------------------------------------------------------------------
(* The commands on the wire                                                *)

LEMMA CallerIsCall ==
  ASSUME WireOK, NEW c \in wire, c.caller # None
  PROVE  c.caller \in Calls
  BY DEF WireOK, Command

(* Commands stay in order as long as the requests that claim them do not   *)
(* move.                                                                   *)
LEMMA WireKept ==
  ASSUME WireOK, wire' \subseteq wire,
         \A c \in wire' : c.caller # None => SameCall(call'[c.caller], call[c.caller])
  PROVE  WireOK'
<1> SUFFICES ASSUME NEW c \in wire' PROVE ClaimOK(c)'
  BY DEF WireOK
<1>1. ClaimOK(c)
  BY DEF WireOK
<1>2. CASE c.caller = None
  BY <1>1, <1>2 DEF ClaimOK
<1>3. CASE c.caller # None
  <2>1. SameCall(call'[c.caller], call[c.caller])
    BY <1>3
  <2> QED BY <1>1, <1>3, <2>1 DEF ClaimOK, SameCall, Sent
<1> QED BY <1>2, <1>3

(* A step of a request that has no command on the wire.                    *)
LEMMA CallStep ==
  ASSUME CallsOK, WireOK, NEW k \in Calls, NEW x, RecordOK(x),
         call' = [call EXCEPT ![k] = x], wire' = wire,
         call[k].pc \notin {"wait", "stopWait"} \/ call[k].ack # "none"
  PROVE  CallsOK' /\ WireOK'
<1>1. x \in CallRecord
  BY DEF RecordOK
<1>2. CallsOK'
  BY <1>1 DEF CallsOK
<1>3. \A c \in wire : c.caller # k \/ c.caller = None
  BY DEF WireOK, ClaimOK, Waiting
<1>4. \A c \in wire : c.caller # None => call'[c.caller] = call[c.caller]
  BY <1>3, CallerIsCall DEF CallsOK
<1> QED BY <1>2, <1>4, WireKept DEF SameCall

(* A request that begins may overlap others.                               *)
LEMMA BeginOK ==
  ASSUME CallsOK, WireOK, NEW k \in Calls, NEW x, \A b \in BOOLEAN : RecordOK(Overlapped(x, b)),
         Begin(k, x), wire' = wire
  PROVE  CallsOK' /\ WireOK'
<1> DEFINE others == {j \in Calls \ {k} : call[j].pc \notin {"idle", "done"}}
<1>1. /\ call[k].pc = "idle"
      /\ call' = [j \in Calls |-> IF j = k THEN Overlapped(x, others = {})
                                  ELSE IF j \in others THEN Overlapped(call[j], FALSE)
                                  ELSE call[j]]
  BY DEF Begin, Overlapped
<1>2. \A j \in Calls : RecordOK(call'[j]) /\ (j # k => SameCall(call'[j], call[j]))
  <2> SUFFICES ASSUME NEW j \in Calls
               PROVE  RecordOK(call'[j]) /\ (j # k => SameCall(call'[j], call[j]))
    OBVIOUS
  <2>1. RecordOK(call[j])
    BY DEF CallsOK
  <2>2. RecordOK(Overlapped(call[j], FALSE)) /\ SameCall(Overlapped(call[j], FALSE), call[j])
    BY <2>1, OverlapOK
  <2>3. CASE j = k
    BY <1>1, <2>3
  <2>4. CASE j \in others
    BY <1>1, <2>2, <2>4
  <2>5. CASE j # k /\ j \notin others
    BY <1>1, <2>1, <2>5 DEF SameCall
  <2> QED BY <2>3, <2>4, <2>5
<1>3. \A j \in Calls : call'[j] \in CallRecord
  BY <1>2 DEF RecordOK
<1>4. call' \in [Calls -> CallRecord]
  BY <1>1, <1>3
<1>5. CallsOK'
  BY <1>2, <1>4 DEF CallsOK
<1>6. \A c \in wire : c.caller # None => c.caller # k
  BY <1>1 DEF WireOK, ClaimOK, Waiting
<1>7. WireOK'
  BY <1>2, <1>6, CallerIsCall, WireKept
<1> QED BY <1>5, <1>7

-----------------------------------------------------------------------------
(* What a step must keep.                                                  *)

CallsStep == CallsOK' /\ WireOK'
DataStep == StoresOK' /\ CompanionsOK'
RegistryMove == [RegistryNext]_registryVars
StepOK == CallsStep /\ DataStep /\ RegistryMove

LEMMA DataKept ==
  ASSUME StoresOK, CompanionsOK,
         UNCHANGED <<storeVars, live, drawn, pluginVars, runtimeVars>>
  PROVE  DataStep
  BY DEF DataStep, StoresOK, CompanionsOK, storeVars, pluginVars, runtimeVars

LEMMA RegistryKept == UNCHANGED registryVars => RegistryMove
  BY DEF RegistryMove

(* A request that goes on to its next lock section.                        *)
LEMMA StepKeeps ==
  ASSUME BridgeInv, NEW k \in Calls, NEW from, NEW to \in CallPCs, Step(k, from, to), wire' = wire,
         from \notin {"wait", "stopWait"} \/ call[k].ack # "none",
         RecordOK(Moved(call[k], to))
  PROVE  CallsStep
<1>1. call' = [call EXCEPT ![k] = Moved(call[k], to)] /\ call[k].pc = from
  BY DEF Step, Moved
<1> QED BY <1>1, CallStep DEF BridgeInv, CallsStep

(* The record a step leaves is in order, if what the next section needs of *)
(* it is there.                                                            *)
LEMMA MoveOK ==
  ASSUME NEW x, RecordOK(x), NEW to \in CallPCs,
         to \in RunPCs => x.game \in Games /\ x.editor \in Editors,
         to \in {"stopSnap", "stopLogs", "expireSnap", "expireLogs", "expireGame"} =>
           x.game \in Games,
         to \in Expiring => x.editor \in Editors,
         to \in {"sweep", "upsert", "dispatch", "stopAddress", "stopSend", "wait"} =>
           x.ack = "none",
         to \in {"dropSnap", "dropLogs"} /\ x.ack = "ok" => x.ackGame \in Games
  PROVE  RecordOK(Moved(x, to))
<1>1. x \in CallRecord
  BY DEF RecordOK
<1> QED BY <1>1, MovedFields DEF RecordOK

LEMMA FinishKeeps ==
  ASSUME BridgeInv, NEW k \in Calls, NEW from, Finish(k, from), wire' = wire,
         from \notin {"wait", "stopWait"}
  PROVE  CallsStep
<1>1. call' = [call EXCEPT ![k] = DoneCall] /\ call[k].pc = from
  BY DEF Finish
<1> QED BY <1>1, DoneOK, CallStep DEF BridgeInv, CallsStep

(* A run goes on after its answer, or after a step of its own.             *)
LEMMA RunMoves ==
  ASSUME BridgeInv, NEW k \in Calls,
         NEW to \in {"upsert", "dispatch", "dropSnap", "dropLogs", "attach", "confirm",
                     "await", "succeeded"},
         NEW from \in RunPCs, Step(k, from, to), wire' = wire,
         from = "wait" => call[k].ack = "ok",
         to \in {"upsert", "dispatch"} => call[k].ack = "none",
         to \in {"dropSnap", "dropLogs"} => from \in {"wait", "dropSnap"}
  PROVE  CallsStep
<1>1. RecordOK(call[k]) /\ call[k].pc = from
  BY DEF BridgeInv, CallsOK, Step
<1>2. to \in CallPCs /\ to \notin Expiring /\ from # "stopWait"
  BY DEF CallPCs, Expiring, RunPCs
<1>3. call[k].game \in Games /\ call[k].editor \in Editors
  BY <1>1 DEF RecordOK
<1>4. to \in {"dropSnap", "dropLogs"} /\ call[k].ack = "ok" => call[k].ackGame \in Games
  BY <1>1 DEF RecordOK
<1>5. RecordOK(Moved(call[k], to))
  BY <1>1, <1>2, <1>3, <1>4, MoveOK
<1> QED BY <1>2, <1>5, StepKeeps

LEMMA RunOwnGame ==
  ASSUME BridgeInv, NEW k \in Calls, call[k].pc \in RunPCs
  PROVE  call[k].game \in Games /\ call[k].editor \in Editors /\ call[k].token \in MaybeToken
           /\ call[k].ackToken \in MaybeToken
  BY DEF BridgeInv, CallsOK, RecordOK, CallRecord

(* The steps of a run that no answer of the plugin decides.                *)
LEMMA RunSectionsOK ==
  ASSUME BridgeInv, NEW k \in Calls,
         \/ RunSweep(k) \/ RunUpsert(k) \/ RunDropSnapshot(k) \/ RunAttach(k)
         \/ RunReady(k) \/ RunNotReady(k)
  PROVE  StepOK
<1> USE DEF StepOK
<1>1. CASE RunSweep(k)
  <2>1. call[k].pc = "sweep" /\ call[k].ack = "none" /\ "sweep" \in RunPCs
    BY <1>1 DEF RunSweep, Step, BridgeInv, CallsOK, RecordOK, RunPCs
  <2>2. CallsStep
    BY <1>1, <2>1, RunMoves DEF RunSweep
  <2>3. RegistryMove
    BY <1>1, <2>1, RunOwnGame DEF RunSweep, RegistryMove, RegistryNext
  <2> QED BY <1>1, <2>2, <2>3, DataKept DEF RunSweep, BridgeInv
<1>2. CASE RunUpsert(k)
  <2>1. call[k].pc = "upsert" /\ call[k].ack = "none" /\ "upsert" \in RunPCs
    BY <1>2 DEF RunUpsert, Step, BridgeInv, CallsOK, RecordOK, RunPCs
  <2>2. CallsStep
    BY <1>2, <2>1, RunMoves DEF RunUpsert
  <2>3. RegistryMove
    BY <1>2, <2>1, RunOwnGame DEF RunUpsert, RegistryMove, RegistryNext, MaybeToken
  <2> QED BY <1>2, <2>2, <2>3, DataKept DEF RunUpsert, BridgeInv
<1>3. CASE RunDropSnapshot(k)
  <2>1. call[k].pc = "dropSnap" /\ "dropSnap" \in RunPCs
    BY <1>3 DEF RunDropSnapshot, Step, RunPCs
  <2>2. CallsStep
    BY <1>3, <2>1, RunMoves DEF RunDropSnapshot
  <2>3. DataStep
    BY <1>3 DEF RunDropSnapshot, DataStep, BridgeInv, StoresOK, CompanionsOK, storeVars,
                pluginVars, runtimeVars, MaybeToken
  <2> QED BY <1>3, <2>2, <2>3, RegistryKept DEF RunDropSnapshot
<1>4. CASE RunAttach(k)
  <2>1. call[k].pc = "attach" /\ "attach" \in RunPCs
    BY <1>4 DEF RunAttach, Step, RunPCs
  <2>2. CallsStep
    BY <1>4, <2>1, RunMoves DEF RunAttach
  <2>3. RegistryMove
    BY <1>4, <2>1, RunOwnGame DEF RunAttach, RegistryMove, RegistryNext
  <2> QED BY <1>4, <2>2, <2>3, DataKept DEF RunAttach, BridgeInv
<1>5. CASE RunReady(k)
  <2>1. "await" \in RunPCs
    BY DEF RunPCs
  <2>2. CallsStep
    BY <1>5, <2>1, RunMoves DEF RunReady
  <2> QED BY <1>5, <2>2, DataKept, RegistryKept DEF RunReady, BridgeInv
<1>6. CASE RunNotReady(k)
  <2>1. CallsStep
    BY <1>6, FinishKeeps DEF RunNotReady
  <2> QED BY <1>6, <2>1, DataKept, RegistryKept DEF RunNotReady, BridgeInv
<1> QED BY <1>1, <1>2, <1>3, <1>4, <1>5, <1>6

-----------------------------------------------------------------------------
(* Commands are sent and given up                                          *)

LEMMA SentFields ==
  ASSUME BridgeInv, NEW k \in Calls, NEW kind \in {"run", "stop"}, call[k].editor \in Editors
  PROVE  /\ Sent(k, kind) \in Command
         /\ Unclaimed(Sent(k, kind)) \in Command /\ Unclaimed(Sent(k, kind)).caller = None
         /\ Unclaimed(Sent(k, kind)).kind = kind
         /\ Unclaimed(Sent(k, kind)).game = call[k].game
  BY DEF Sent, Unclaimed, Command, BridgeInv, CallsOK, CallRecord

LEMMA UnclaimedFields ==
  ASSUME NEW c \in Command
  PROVE  /\ Unclaimed(c) \in Command /\ Unclaimed(c).caller = None
         /\ Unclaimed(c).kind = c.kind /\ Unclaimed(c).game = c.game
  BY DEF Unclaimed, Command

(* The request waits for the command it sent, and has no other.            *)
LEMMA SendKeeps ==
  ASSUME BridgeInv, NEW k \in Calls, NEW kind \in {"run", "stop"},
         Step(k, IF kind = "run" THEN "dispatch" ELSE "stopSend", Waiting(kind)),
         call[k].editor \in Editors, wire' = wire \cup {Sent(k, kind)}
  PROVE  CallsStep
<1> DEFINE x == Moved(call[k], Waiting(kind))
<1>1. /\ RecordOK(call[k]) /\ call[k] \in CallRecord /\ WireOK
      /\ call[k].pc \in {"dispatch", "stopSend"} /\ (kind = "run" => call[k].pc = "dispatch")
      /\ call' = [call EXCEPT ![k] = x]
  BY DEF BridgeInv, CallsOK, Step, Moved
<1>2. /\ Waiting(kind) \in CallPCs /\ Waiting(kind) \in {"wait", "stopWait"}
      /\ kind = "run" <=> Waiting(kind) = "wait"
  BY DEF Waiting, CallPCs
<1>3. call[k].ack = "none" /\ (kind = "run" => call[k].game \in Games)
  BY <1>1 DEF RecordOK, RunPCs
<1>4. RecordOK(x)
  BY <1>1, <1>2, <1>3, MoveOK DEF Expiring, RunPCs, RecordOK
<1>5. CallsOK'
  BY <1>1, <1>4 DEF BridgeInv, CallsOK, RecordOK
<1>6. call'[k] = x /\ \A j \in Calls \ {k} : call'[j] = call[j]
  BY <1>1 DEF BridgeInv, CallsOK
<1>7. /\ x.pc = Waiting(kind) /\ x.ack = "none" /\ x.game = call[k].game
      /\ x.editor = call[k].editor /\ x.token = call[k].token
  BY <1>1, <1>2, <1>3, MovedFields
<1>8. ASSUME NEW c \in wire' PROVE ClaimOK(c)'
  <2>1. CASE c = Sent(k, kind)
    <3>1. Sent(k, kind)' = Sent(k, kind)
      BY <1>6, <1>7 DEF Sent
    <3>2. Sent(k, kind).kind = kind /\ Sent(k, kind).game = call[k].game
          /\ Sent(k, kind).caller = k
      BY DEF Sent
    <3> QED BY <1>3, <1>6, <1>7, <2>1, <3>1, <3>2 DEF ClaimOK
  <2>2. CASE c # Sent(k, kind)
    <3>1. c \in wire /\ ClaimOK(c)
      BY <1>1, <2>2 DEF WireOK
    <3>2. c.caller # None => c.caller \in Calls \ {k}
      BY <1>1, <3>1, CallerIsCall DEF ClaimOK, Waiting
    <3> QED BY <1>6, <3>1, <3>2 DEF ClaimOK, Sent
  <2> QED BY <2>1, <2>2
<1>9. wire' \subseteq Command
  BY <1>1, SentFields DEF WireOK
<1> QED BY <1>5, <1>8, <1>9 DEF CallsStep, WireOK

(* A request that gives up leaves its command unclaimed, if it was sent.   *)
LEMMA GiveUpKeeps ==
  ASSUME BridgeInv, NEW k \in Calls, NEW kind \in {"run", "stop"}, NEW x, RecordOK(x),
         call' = [call EXCEPT ![k] = x],
         call[k].pc \in IF kind = "run" THEN {"dispatch", "wait"}
                                        ELSE {"stopAddress", "stopSend", "stopWait"},
         \/ Abandon(k, kind)
         \/ /\ call[k].pc \notin {"wait", "stopWait"} /\ call[k].editor \in Editors
            /\ wire' = wire \cup {Unclaimed(Sent(k, kind))}
  PROVE  CallsStep
<1>1. CallsOK' /\ WireOK /\ RecordOK(call[k])
  BY DEF BridgeInv, CallsOK, RecordOK
<1>2. \A j \in Calls \ {k} : call'[j] = call[j]
  BY DEF BridgeInv, CallsOK
<1>3. ASSUME NEW c \in wire, c.caller = k, k # None PROVE c = Sent(k, kind)
  <2>1. ClaimOK(c) /\ c.kind \in {"run", "stop"}
    BY <1>1 DEF WireOK, Command
  <2>2. c.kind = kind
    BY <1>3, <2>1 DEF ClaimOK, Waiting
  <2> QED BY <1>3, <2>1, <2>2 DEF ClaimOK
<1>4. ASSUME NEW c \in wire, c.caller # k \/ k = None PROVE ClaimOK(c)'
  <2>1. ClaimOK(c)
    BY <1>1 DEF WireOK
  <2>2. c.caller # None => call'[c.caller] = call[c.caller]
    BY <1>1, <1>2, <1>4, CallerIsCall
  <2> QED BY <2>1, <2>2 DEF ClaimOK, Sent
<1>5. ASSUME NEW c \in Command, c.caller = None, c.kind = "run" => c.game \in Games
      PROVE  ClaimOK(c)'
  BY <1>5 DEF ClaimOK
<1>6. CASE Abandon(k, kind)
  <2> DEFINE sent == Sent(k, kind)
  <2>1. sent.caller = k
    BY DEF Sent
  <2>2. wire' = IF sent \in wire THEN (wire \ {sent}) \cup {Unclaimed(sent)} ELSE wire
    BY <1>6 DEF Abandon
  <2>3. CASE sent \in wire
    <3>1. sent \in Command /\ (sent.kind = "run" => sent.game \in Games)
      BY <1>1, <2>3 DEF WireOK, ClaimOK
    <3>2. /\ Unclaimed(sent) \in Command /\ Unclaimed(sent).caller = None
          /\ Unclaimed(sent).kind = sent.kind /\ Unclaimed(sent).game = sent.game
      BY <3>1, UnclaimedFields
    <3>3. ASSUME NEW c \in wire' PROVE c \in Command /\ ClaimOK(c)'
      <4>1. CASE c = Unclaimed(sent)
        BY <1>5, <3>1, <3>2, <4>1
      <4>2. CASE c # Unclaimed(sent)
        <5>1. c \in wire /\ c # sent
          BY <2>2, <2>3, <4>2
        <5> QED BY <1>1, <1>3, <1>4, <5>1 DEF WireOK
      <4> QED BY <4>1, <4>2
    <3> QED BY <1>1, <3>3 DEF CallsStep, WireOK
  <2>4. CASE sent \notin wire
    BY <1>1, <1>3, <1>4, <2>2, <2>4 DEF CallsStep, WireOK
  <2> QED BY <2>3, <2>4
<1>7. CASE /\ call[k].pc \notin {"wait", "stopWait"} /\ call[k].editor \in Editors
           /\ wire' = wire \cup {Unclaimed(Sent(k, kind))}
  <2>1. \A c \in wire : c.caller # k \/ k = None
    BY <1>1, <1>7 DEF WireOK, ClaimOK, Waiting
  <2>2. kind = "run" => call[k].game \in Games
    BY <1>1 DEF RecordOK, RunPCs
  <2>3. ASSUME NEW c \in wire' PROVE c \in Command /\ ClaimOK(c)'
    <3>1. CASE c = Unclaimed(Sent(k, kind))
      BY <1>5, <1>7, <2>2, <3>1, SentFields
    <3>2. CASE c # Unclaimed(Sent(k, kind))
      BY <1>1, <1>4, <1>7, <2>1, <3>2 DEF WireOK
    <3> QED BY <3>1, <3>2
  <2> QED BY <1>1, <2>3 DEF CallsStep, WireOK
<1> QED BY <1>6, <1>7

-----------------------------------------------------------------------------
(* The handlers                                                            *)

LEMMA RunAnswersOK ==
  ASSUME BridgeInv, NEW k \in Calls,
         \/ RunSend(k) \/ RunFails(k) \/ RunRemapped(k) \/ RunDropLogs(k) \/ RunConfirm(k)
  PROVE  StepOK
<1> USE DEF StepOK
<1>0. /\ RecordOK(call[k]) /\ call[k] \in CallRecord /\ StoresOK /\ CompanionsOK
      /\ {"dispatch", "wait", "dropLogs", "confirm"} \subseteq RunPCs
  BY DEF BridgeInv, CallsOK, RunPCs
<1>1. CASE RunSend(k)
  <2>1. call[k].editor \in Editors
    BY <1>1 DEF RunSend, BridgeInv, StoresOK
  <2>2. CallsStep
    BY <1>1, <2>1, SendKeeps DEF RunSend, Waiting
  <2> QED BY <1>0, <1>1, <2>2, DataKept, RegistryKept DEF RunSend
<1>2. CASE RunFails(k)
  <2>1. call[k].pc \in {"dispatch", "wait"} /\ call[k].game \in Games /\ call[k].editor \in Editors
    BY <1>0, <1>2, RunOwnGame DEF RunFails
  <2>2. call' = [call EXCEPT ![k] = Failed(call[k])]
    BY <1>2 DEF RunFails, Failed
  <2>3. RecordOK(Failed(call[k]))
    BY <1>0, <2>1, FailedFields DEF RecordOK, Expiring
  <2>4. CallsStep
    BY <1>2, <2>1, <2>2, <2>3, GiveUpKeeps DEF RunFails
  <2>5. RegistryMove
    BY <1>2, <2>1 DEF RunFails, RegistryMove, RegistryNext
  <2> QED BY <1>0, <1>2, <2>4, <2>5, DataKept DEF RunFails
<1>3. CASE RunRemapped(k)
  <2>1. call[k].pc = "wait" /\ call[k].game \in Games
    BY <1>0, <1>3, RunOwnGame DEF RunRemapped, Step
  <2>2. CallsStep
    BY <1>0, <1>3, RunMoves DEF RunRemapped
  <2>3. RegistryMove
    BY <1>3, <2>1 DEF RunRemapped, RegistryMove, RegistryNext
  <2> QED BY <1>0, <1>3, <2>2, <2>3, DataKept DEF RunRemapped
<1>4. CASE RunDropLogs(k)
  <2>1. CallsStep
    <3>1. CASE call[k].ack = "ok"
      <4>1. /\ call[k].pc = "dropLogs" /\ wire' = wire
            /\ call' = [call EXCEPT ![k] = Attaching(call[k])]
        BY <1>4, <3>1 DEF RunDropLogs, Attaching
      <4>2. call[k].ackGame \in Games /\ call[k].editor \in Editors
        BY <1>0, <3>1, <4>1, RunOwnGame DEF RecordOK
      <4>3. RecordOK(Attaching(call[k]))
        BY <1>0, <4>2, AttachingFields DEF RecordOK, Expiring
      <4> QED BY <4>1, <4>3, CallStep DEF BridgeInv, CallsStep
    <3>2. CASE call[k].ack # "ok"
      BY <1>4, <3>2, FinishKeeps DEF RunDropLogs
    <3> QED BY <3>1, <3>2
  <2>2. DataStep
    BY <1>0, <1>4 DEF RunDropLogs, DataStep, StoresOK, CompanionsOK, pluginVars, runtimeVars
  <2> QED BY <1>4, <2>1, <2>2, RegistryKept DEF RunDropLogs
<1>5. CASE RunConfirm(k)
  <2>1. /\ call[k].pc = "confirm" \/ (call[k].pc = "wait" /\ call[k].ack = "ok")
        /\ call' = [call EXCEPT ![k] = Confirmed(call[k])] /\ wire' = wire
    BY <1>5 DEF RunConfirm, Confirmed
  <2>2. call[k].game \in Games /\ call[k].editor \in Editors /\ call[k].ackToken \in MaybeToken
    BY <1>0, <2>1, RunOwnGame
  <2>3. RecordOK(Confirmed(call[k]))
    BY <1>0, <2>2, ConfirmedFields DEF RecordOK, Expiring
  <2>4. CallsStep
    BY <2>1, <2>3, CallStep DEF BridgeInv, CallsStep
  <2>5. RegistryMove
    BY <1>5, <2>2 DEF RunConfirm, RegistryMove, RegistryNext, MaybeToken
  <2> QED BY <1>0, <1>5, <2>4, <2>5, DataKept DEF RunConfirm
<1> QED BY <1>1, <1>2, <1>3, <1>4, <1>5

LEMMA LiveEditors ==
  ASSUME BridgeInv, NEW g \in MaybeGame
  PROVE  EditorsFor(g) \subseteq Editors
  BY DEF BridgeInv, RegistryInv, RegistryTypeOK, GameSession, StoresOK, EditorsFor

LEMMA ActiveIsGame ==
  ASSUME BridgeInv, NEW e \in Editors
  PROVE  ActiveForEditor(e) \in MaybeGame
  BY DEF BridgeInv, RegistryInv, RegistryTypeOK, ActiveForEditor, MaybeGame

(* Every request begins in order.                                          *)
LEMMA StartsOK ==
  ASSUME BridgeInv, NEW k \in Calls,
         \/ \E g \in Games, e \in Editors, t \in Tokens : RunStart(k, g, e, t)
         \/ \E g \in MaybeGame : StopStart(k, g)
         \/ \E e \in Editors : ExpireStart(k, e)
  PROVE  StepOK
<1> USE DEF StepOK, IdleCall, RecordOK, Overlapped, CallRecord, CallPCs, RunPCs, Expiring,
            MaybeGame, MaybeEditor, MaybeToken
<1>0. CallsOK /\ WireOK /\ StoresOK /\ CompanionsOK
  BY DEF BridgeInv
<1>1. ASSUME NEW g \in Games, NEW e \in Editors, NEW t \in Tokens, RunStart(k, g, e, t)
      PROVE  StepOK
  <2>1. \A b \in BOOLEAN :
          RecordOK(Overlapped([IdleCall EXCEPT !.pc = "sweep", !.game = g, !.editor = e,
                                               !.token = t], b))
    OBVIOUS
  <2>2. CallsStep
    BY <1>0, <1>1, <2>1, BeginOK DEF RunStart, CallsStep
  <2>3. DataStep
    BY <1>0, <1>1 DEF RunStart, DataStep, StoresOK, CompanionsOK, storeVars, pluginVars, runtimeVars
  <2> QED BY <1>1, <2>2, <2>3, RegistryKept DEF RunStart
<1>2. ASSUME NEW g \in MaybeGame, StopStart(k, g) PROVE StepOK
  <2>1. \A b \in BOOLEAN :
          RecordOK(Overlapped([IdleCall EXCEPT !.pc = "stopAddress", !.game = g], b))
    OBVIOUS
  <2>2. CallsStep
    BY <1>0, <1>2, <2>1, BeginOK DEF StopStart, CallsStep
  <2> QED BY <1>0, <1>2, <2>2, DataKept, RegistryKept DEF StopStart
<1>3. ASSUME NEW e \in Editors, ExpireStart(k, e) PROVE StepOK
  <2> DEFINE g == ActiveForEditor(e)
             x == [IdleCall EXCEPT !.pc = IF g = None THEN "expireForget" ELSE "expireSnap",
                                   !.game = g, !.editor = e]
  <2>1. g \in MaybeGame
    BY ActiveIsGame
  <2>2. Begin(k, x) /\ wire' = wire
    BY <1>3 DEF ExpireStart
  <2> HIDE DEF g
  <2>3. \A b \in BOOLEAN : RecordOK(Overlapped(x, b))
    BY <2>1
  <2> HIDE DEF x
  <2>4. CallsStep
    BY <1>0, <2>2, <2>3, BeginOK DEF CallsStep
  <2> QED BY <1>0, <1>3, <2>4, DataKept, RegistryKept DEF ExpireStart
<1> QED BY <1>1, <1>2, <1>3

(* A stop or an expiry goes on, with the game it is about.                 *)
LEMMA EndMoves ==
  ASSUME BridgeInv, NEW k \in Calls, NEW from,
         NEW to \in {"stopWait", "stopSnap", "stopLogs", "stopped",
                     "expireLogs", "expireGame", "expireSession"},
         Step(k, from, to), wire' = wire,
         from # "wait", from = "stopWait" => call[k].ack = "ok",
         to \in {"stopSnap", "stopLogs", "expireLogs", "expireGame"} => call[k].game \in Games,
         to \in Expiring => call[k].editor \in Editors
  PROVE  CallsStep
<1>1. RecordOK(call[k]) /\ to \in CallPCs /\ to \notin RunPCs
  BY DEF BridgeInv, CallsOK, CallPCs, RunPCs
<1>2. RecordOK(Moved(call[k], to))
  BY <1>1, MoveOK
<1> QED BY <1>2, <1>1, StepKeeps

LEMMA StopSectionsOK ==
  ASSUME BridgeInv, NEW k \in Calls, Stop(k) \/ Return(k)
  PROVE  StepOK
<1> USE DEF StepOK
<1>0. /\ RecordOK(call[k]) /\ call[k] \in CallRecord /\ StoresOK /\ CompanionsOK
      /\ call[k].game \in Games \cup {None}
  BY DEF BridgeInv, CallsOK, CallRecord, MaybeGame
<1>1. ASSUME NEW e \in Editors, StopAddress(k, e) PROVE StepOK
  <2>1. /\ call[k].pc = "stopAddress" /\ wire' = wire
        /\ call' = [call EXCEPT ![k] = Addressed(call[k], e)]
    BY <1>1 DEF StopAddress, Addressed
  <2>2. RecordOK(Addressed(call[k], e))
    BY <1>0, <2>1, AddressedFields DEF RecordOK, RunPCs, Expiring
  <2>3. CallsStep
    BY <2>1, <2>2, CallStep DEF BridgeInv, CallsStep
  <2> QED BY <1>0, <1>1, <2>3, DataKept, RegistryKept DEF StopAddress
<1>2. CASE StopSend(k)
  <2>1. call[k].editor \in Editors
    BY <1>0, <1>2 DEF StopSend, StoresOK
  <2>2. CallsStep
    BY <1>2, <2>1, SendKeeps DEF StopSend, Waiting
  <2> QED BY <1>0, <1>2, <2>2, DataKept, RegistryKept DEF StopSend
<1>3. CASE StopFails(k)
  <2>1. /\ call[k].pc \in {"stopAddress", "stopSend", "stopWait"}
        /\ call' = [call EXCEPT ![k] = DoneCall]
    BY <1>3 DEF StopFails, Finish
  <2>2. call[k].editor \in live => call[k].editor \in Editors
    BY <1>0 DEF StoresOK
  <2>3. CallsStep
    BY <1>3, <2>1, <2>2, DoneOK, GiveUpKeeps DEF StopFails
  <2> QED BY <1>0, <1>3, <2>3, DataKept, RegistryKept DEF StopFails
<1>4. CASE StopAcked(k)
  <2>1. CASE call[k].game = None
    <3>1. CallsStep
      BY <1>4, <2>1, EndMoves DEF StopAcked, Expiring
    <3> QED BY <1>0, <1>4, <2>1, <3>1, DataKept, RegistryKept DEF StopAcked
  <2>2. CASE call[k].game \in Games
    <3>1. Step(k, "stopWait", "stopSnap") /\ StopSession(call[k].game)
      BY <1>4, <2>2, NoneIsNoId DEF StopAcked
    <3>2. CallsStep
      BY <1>4, <2>2, <3>1, EndMoves DEF StopAcked, Expiring
    <3>3. RegistryMove
      BY <2>2, <3>1 DEF RegistryMove, RegistryNext
    <3> QED BY <1>0, <1>4, <3>2, <3>3, DataKept DEF StopAcked
  <2> QED BY <1>0, <2>1, <2>2
<1>5. CASE StopDropSnapshot(k)
  <2>1. call[k].pc = "stopSnap" /\ call[k].game \in Games
    BY <1>0, <1>5 DEF StopDropSnapshot, Step, RecordOK
  <2>2. CallsStep
    BY <1>5, <2>1, EndMoves DEF StopDropSnapshot, Expiring
  <2>3. DataStep
    BY <1>0, <1>5 DEF StopDropSnapshot, DataStep, StoresOK, CompanionsOK, pluginVars,
                      runtimeVars, MaybeToken
  <2> QED BY <1>5, <2>2, <2>3, RegistryKept DEF StopDropSnapshot
<1>6. CASE StopDropLogs(k)
  <2>1. CallsStep
    BY <1>6, EndMoves DEF StopDropLogs, Expiring
  <2>2. DataStep
    BY <1>0, <1>6 DEF StopDropLogs, DataStep, StoresOK, CompanionsOK, pluginVars, runtimeVars
  <2> QED BY <1>6, <2>1, <2>2, RegistryKept DEF StopDropLogs
<1>7. CASE Return(k)
  <2>1. CallsStep
    BY <1>7, FinishKeeps DEF Return
  <2> QED BY <1>0, <1>7, <2>1, DataKept, RegistryKept DEF Return
<1> QED BY <1>1, <1>2, <1>3, <1>4, <1>5, <1>6, <1>7 DEF Stop

LEMMA ExpirySectionsOK ==
  ASSUME BridgeInv, NEW k \in Calls, Expire(k)
  PROVE  StepOK
<1> USE DEF StepOK
<1>0. RecordOK(call[k]) /\ StoresOK /\ CompanionsOK
  BY DEF BridgeInv, CallsOK
<1>1. CASE ExpireSnapshot(k)
  <2>1. call[k].game \in Games /\ call[k].editor \in Editors
    BY <1>0, <1>1 DEF ExpireSnapshot, Step, RecordOK, Expiring
  <2>2. CallsStep
    BY <1>1, <2>1, EndMoves DEF ExpireSnapshot
  <2>3. DataStep
    BY <1>0, <1>1 DEF ExpireSnapshot, DataStep, StoresOK, CompanionsOK, pluginVars,
                      runtimeVars, MaybeToken
  <2> QED BY <1>1, <2>2, <2>3, RegistryKept DEF ExpireSnapshot
<1>2. CASE ExpireLogs(k)
  <2>1. call[k].game \in Games /\ call[k].editor \in Editors
    BY <1>0, <1>2 DEF ExpireLogs, Step, RecordOK, Expiring
  <2>2. CallsStep
    BY <1>2, <2>1, EndMoves DEF ExpireLogs
  <2>3. DataStep
    BY <1>0, <1>2 DEF ExpireLogs, DataStep, StoresOK, CompanionsOK, pluginVars, runtimeVars
  <2> QED BY <1>2, <2>2, <2>3, RegistryKept DEF ExpireLogs
<1>3. CASE ExpireGame(k)
  <2>1. /\ call[k].editor \in Editors
        /\ call[k].pc = "expireGame" => call[k].game \in Games
    BY <1>0, <1>3 DEF ExpireGame, Step, RecordOK, Expiring
  <2>2. CallsStep
    BY <1>3, <2>1, EndMoves DEF ExpireGame
  <2>3. RegistryMove
    BY <1>3, <2>1 DEF ExpireGame, Step, RegistryMove, RegistryNext
  <2> QED BY <1>0, <1>3, <2>2, <2>3, DataKept DEF ExpireGame
<1>4. CASE ExpireSession(k)
  <2>1. CallsStep
    BY <1>4, FinishKeeps DEF ExpireSession
  <2>2. DataStep
    BY <1>0, <1>4 DEF ExpireSession, DataStep, StoresOK, CompanionsOK, storeVars, pluginVars,
                      runtimeVars
  <2> QED BY <1>4, <2>1, <2>2, RegistryKept DEF ExpireSession
<1> QED BY <1>1, <1>2, <1>3, <1>4 DEF Expire

-----------------------------------------------------------------------------
(* The plugin                                                              *)

(* No request moves, whether another interferes with it or not.            *)
LEMMA DisturbKeeps ==
  ASSUME BridgeInv, call' = call \/ call' = Disturbed, wire' \subseteq wire
  PROVE  CallsStep
<1>1. CallsOK /\ WireOK
  BY DEF BridgeInv
<1>2. \A j \in Calls : RecordOK(call'[j]) /\ SameCall(call'[j], call[j])
  <2> SUFFICES ASSUME NEW j \in Calls PROVE RecordOK(call'[j]) /\ SameCall(call'[j], call[j])
    OBVIOUS
  <2>1. RecordOK(call[j])
    BY <1>1 DEF CallsOK
  <2>2. CASE call' = call
    BY <2>1, <2>2 DEF SameCall
  <2>3. CASE call' = Disturbed
    <3>1. call'[j] = Overlapped(call[j], FALSE)
      BY <2>3 DEF Disturbed, Overlapped
    <3> QED BY <2>1, <3>1, OverlapOK
  <2> QED BY <2>2, <2>3
<1>3. call' \in [Calls -> CallRecord]
  <2>1. \A j \in Calls : call'[j] \in CallRecord
    BY <1>2 DEF RecordOK
  <2>2. CASE call' = call
    BY <1>1, <2>2 DEF CallsOK
  <2>3. CASE call' = Disturbed
    BY <2>1, <2>3 DEF Disturbed
  <2> QED BY <2>2, <2>3
<1>4. \A c \in wire' : c.caller # None => SameCall(call'[c.caller], call[c.caller])
  BY <1>1, <1>2, CallerIsCall
<1>5. WireOK'
  BY <1>1, <1>4, WireKept
<1> QED BY <1>2, <1>3, <1>5 DEF CallsStep, CallsOK

(* The answer to a command reaches the request that waits for it, and the  *)
(* command it answers was the only one of that request.                    *)
LEMMA AnswerKeeps ==
  ASSUME BridgeInv, NEW c \in wire, wire' = wire \ {c}, NEW ack \in {"failed", "ok"},
         NEW g \in MaybeGame, NEW t \in MaybeToken, Answer(c, ack, g, t),
         c.kind = "run" /\ ack = "ok" => g \in Games
  PROVE  CallsStep
<1>0. CallsOK /\ WireOK /\ ClaimOK(c) /\ c.kind \in {"run", "stop"}
  BY DEF BridgeInv, WireOK, Command
<1>1. CASE c.caller = None
  BY <1>1, DisturbKeeps DEF Answer
<1>2. CASE c.caller # None
  <2> DEFINE k == c.caller
             x == Answered(call[k], ack, g, t)
  <2>1. k \in Calls /\ RecordOK(call[k]) /\ call[k] \in CallRecord
    BY <1>0, <1>2, CallerIsCall DEF CallsOK
  <2>2. call' = [call EXCEPT ![k] = x]
    BY <1>2 DEF Answer, Answered
  <2>3. call[k].pc = Waiting(c.kind) /\ c = Sent(k, c.kind)
    BY <1>0, <1>2 DEF ClaimOK
  <2>4. /\ x \in CallRecord /\ x.pc = call[k].pc /\ x.game = call[k].game
        /\ x.editor = call[k].editor /\ x.ack = ack /\ x.ackGame = g
    BY <2>1, AnsweredFields
  <2>5. RecordOK(x)
    <3>1. CASE c.kind = "run"
      BY <2>1, <2>3, <2>4, <3>1 DEF RecordOK, Waiting, Expiring, RunPCs
    <3>2. CASE c.kind = "stop"
      BY <2>1, <2>3, <2>4, <3>2 DEF RecordOK, Waiting, Expiring, RunPCs
    <3> QED BY <1>0, <3>1, <3>2
  <2>6. CallsOK'
    BY <1>0, <2>1, <2>2, <2>4, <2>5 DEF CallsOK
  <2>7. ASSUME NEW d \in wire', d.caller # None
        PROVE  SameCall(call'[d.caller], call[d.caller])
    <3>1. d \in wire /\ d # c /\ ClaimOK(d) /\ d.kind \in {"run", "stop"} /\ d.caller \in Calls
      BY <1>0, <2>7, CallerIsCall DEF WireOK, Command
    <3>2. d.caller # k
      BY <1>0, <2>3, <2>7, <3>1 DEF ClaimOK, Waiting
    <3> QED BY <1>0, <2>1, <2>2, <3>1, <3>2 DEF SameCall, CallsOK
  <2>8. WireOK'
    BY <1>0, <2>7, WireKept
  <2> QED BY <2>6, <2>8 DEF CallsStep
<1> QED BY <1>1, <1>2

(* The processes of a game end; what they asked for still runs.            *)
LEMMA KilledKeeps ==
  ASSUME CompanionsOK, NEW e \in Editors, client' = Killed(e), push' = push
  PROVE  CompanionsOK'
<1>1. ASSUME NEW r \in Runtimes
      PROVE  /\ client'[r] \in Client /\ client'[r].game = client[r].game
             /\ client'[r].home = client[r].home
             /\ client'[r].alive => client[r].alive
  BY <1>1 DEF Killed, CompanionsOK, Client
<1>2. client' \in [Runtimes -> Client]
  BY <1>1 DEF Killed
<1> QED BY <1>1, <1>2 DEF CompanionsOK

LEMMA PluginOK ==
  ASSUME BridgeInv, NEW c \in wire, PluginRun(c) \/ PluginStop(c)
  PROVE  StepOK
<1> USE DEF StepOK
<1>0. /\ StoresOK /\ CompanionsOK /\ c \in Command /\ ClaimOK(c)
      /\ c.editor \in Editors /\ c.game \in MaybeGame /\ c.token \in MaybeToken
      /\ handshake[c.editor] \in Handshake
  BY DEF BridgeInv, WireOK, Command, StoresOK
<1>a. handshake[c.editor].game \in MaybeGame /\ handshake[c.editor].token \in MaybeToken
  BY <1>0 DEF Handshake
<1>1. CASE PluginRun(c)
  <2> DEFINE attach == playing[c.editor] /\ handshake[c.editor].game # None
             g == IF attach THEN handshake[c.editor].game ELSE c.game
             t == IF attach THEN handshake[c.editor].token ELSE c.token
  <2>1. g \in Games /\ t \in MaybeToken
    BY <1>0, <1>1, <1>a DEF ClaimOK, PluginRun, MaybeGame
  <2>2. /\ wire' = wire \ {c}
        /\ \/ /\ Answer(c, "ok", g, t)
              /\ handshake' =
                   [handshake EXCEPT ![c.editor] = [game |-> g, token |-> t, stopped |-> FALSE]]
              /\ playing' = [playing EXCEPT ![c.editor] = TRUE]
           \/ Answer(c, "failed", None, None) /\ UNCHANGED pluginVars
        /\ UNCHANGED <<registryVars, storeVars, live, drawn, runtimeVars>>
    BY <1>1 DEF PluginRun
  <2> HIDE DEF g, t
  <2>3. CallsStep
    <3>1. g \in MaybeGame /\ None \in MaybeGame /\ None \in MaybeToken
      BY <2>1 DEF MaybeGame, MaybeToken
    <3> QED BY <2>1, <2>2, <3>1, AnswerKeeps
  <2>4. DataStep
    <3>1. [game |-> g, token |-> t, stopped |-> FALSE] \in Handshake
      BY <2>1 DEF Handshake, MaybeGame
    <3> QED BY <1>0, <2>2, <3>1 DEF DataStep, StoresOK, CompanionsOK, storeVars, pluginVars,
                                  runtimeVars
  <2> QED BY <2>2, <2>3, <2>4, RegistryKept
<1>2. CASE PluginStop(c)
  <2> DEFINE g == IF handshake[c.editor].stopped THEN c.game ELSE handshake[c.editor].game
  <2>1. g \in MaybeGame /\ None \in MaybeToken
    BY <1>0, <1>a DEF MaybeToken
  <2>2. /\ c.kind = "stop" /\ wire' = wire \ {c}
        /\ Answer(c, "ok", g, None)
        /\ handshake' = [handshake EXCEPT ![c.editor].stopped = TRUE]
        /\ playing' = [playing EXCEPT ![c.editor] = FALSE]
        /\ client' = Killed(c.editor)
        /\ UNCHANGED <<registryVars, storeVars, live, drawn, push>>
    BY <1>2 DEF PluginStop
  <2> HIDE DEF g
  <2>3. CallsStep
    BY <2>1, <2>2, AnswerKeeps
  <2>4. CompanionsOK'
    BY <1>0, <2>2, KilledKeeps
  <2>5. StoresOK'
    <3>1. [handshake[c.editor] EXCEPT !.stopped = TRUE] \in Handshake
      BY <1>0 DEF Handshake
    <3> QED BY <1>0, <2>2, <3>1 DEF StoresOK, storeVars
  <2> QED BY <2>2, <2>3, <2>4, <2>5, RegistryKept DEF DataStep
<1> QED BY <1>1, <1>2

LEMMA UserOK ==
  ASSUME BridgeInv, NEW e \in Editors, UserPlays(e) \/ GameExits(e)
  PROVE  StepOK
<1> USE DEF StepOK
<1>0. StoresOK /\ CompanionsOK
  BY DEF BridgeInv
<1>1. CallsStep
  BY DisturbKeeps DEF UserPlays, GameExits
<1>2. CASE UserPlays(e)
  BY <1>0, <1>1, <1>2, RegistryKept
     DEF UserPlays, DataStep, StoresOK, CompanionsOK, storeVars, runtimeVars
<1>3. CASE GameExits(e)
  <2>1. CompanionsOK'
    BY <1>0, <1>3, KilledKeeps DEF GameExits
  <2>2. StoresOK'
    BY <1>0, <1>3 DEF GameExits, StoresOK, storeVars
  <2> QED BY <1>1, <1>3, <2>1, <2>2, RegistryKept DEF GameExits, DataStep
<1> QED BY <1>2, <1>3

-----------------------------------------------------------------------------
(* The companions                                                          *)

LEMMA BootOK ==
  ASSUME BridgeInv, NEW r \in Runtimes, NEW e \in Editors, Boot(r, e)
  PROVE  StepOK
<1> USE DEF StepOK
<1>0. StoresOK /\ CompanionsOK /\ client[r].home = None /\ None \notin Editors
  BY NoneIsNoId DEF BridgeInv, Boot
<1>1. CallsStep
  BY DisturbKeeps DEF Boot
<1>2. StoresOK'
  BY <1>0 DEF Boot, StoresOK, storeVars, pluginVars
<1>3. handshake[e].game \in MaybeGame /\ handshake[e].token \in MaybeToken
  BY <1>0 DEF StoresOK, Handshake
<1>4. CompanionsOK'
  BY <1>0, <1>3 DEF Boot, CompanionsOK, Client, MaybeEditor
<1> QED BY <1>1, <1>2, <1>4, RegistryKept DEF Boot, DataStep

(* A request of a companion begins only for the game it runs.              *)
LEMMA PushBeginsOK ==
  ASSUME BridgeInv, NEW r \in Runtimes, NEW check, NEW next \in PushPCs,
         PushBegins(r, check, next), check => client[r].game \in Games
  PROVE  StepOK
<1> USE DEF StepOK, PushBegins
<1>0. StoresOK /\ CompanionsOK /\ client[r].alive /\ client[r].game \in Games
  BY DEF BridgeInv
<1>1. CallsStep
  BY DisturbKeeps
<1>2. StoresOK'
  BY <1>0 DEF StoresOK, storeVars, pluginVars
<1>3. CompanionsOK'
  BY <1>0 DEF CompanionsOK
<1> QED BY <1>1, <1>2, <1>3, RegistryKept DEF DataStep

LEMMA CompanionOK ==
  ASSUME BridgeInv, NEW r \in Runtimes, Companion(r)
  PROVE  StepOK
<1> USE DEF StepOK
<1>0. /\ StoresOK /\ CompanionsOK /\ known \subseteq Games
      /\ client[r].game \in MaybeGame /\ client[r].home \in MaybeEditor
      /\ client[r].token \in MaybeToken
      /\ {"idle", "register", "storeSnap", "markSnap", "storeLogs"} \subseteq PushPCs
  BY DEF BridgeInv, RegistryInv, RegistryTypeOK, CompanionsOK, Client, PushPCs
<1>1. CASE RegisterCheck(r)
  BY <1>0, <1>1, PushBeginsOK DEF RegisterCheck, MatchesLaunchToken
<1>2. CASE RegisterBind(r)
  <2>1. client[r].game \in Games /\ client[r].home \in Editors
    BY <1>0, <1>2 DEF RegisterBind, PushStep, CompanionsOK
  <2>2. CallsStep
    BY <1>2, DisturbKeeps DEF RegisterBind
  <2>3. RegistryMove
    BY <1>0, <1>2, <2>1 DEF RegisterBind, RegistryMove, RegistryNext, MaybeToken
  <2>4. DataStep
    BY <1>0, <1>2 DEF RegisterBind, PushStep, DataStep, StoresOK, CompanionsOK, storeVars, pluginVars
  <2> QED BY <2>2, <2>3, <2>4
<1>3. CASE RegisterRefused(r)
  <2> DEFINE h == handshake[client[r].home]
  <2>1. client[r].home \in Editors /\ push[r] = "idle"
    BY <1>0, <1>3 DEF RegisterRefused, CompanionsOK
  <2>2. h.game \in MaybeGame /\ h.token \in MaybeToken
    BY <1>0, <2>1 DEF StoresOK, Handshake
  <2>3. CallsStep
    BY <1>3, DisturbKeeps DEF RegisterRefused
  <2>4. /\ client' = [client EXCEPT ![r] = [@ EXCEPT !.game = h.game, !.token = h.token]]
        /\ UNCHANGED <<registryVars, storeVars, live, drawn, pluginVars, push>>
    BY <1>3 DEF RegisterRefused
  <2> HIDE DEF h
  <2>5. CompanionsOK'
    <3>1. /\ client[r] \in Client
          /\ client'[r] = [client[r] EXCEPT !.game = h.game, !.token = h.token]
      BY <1>0, <2>4 DEF CompanionsOK
    <3>2. client'[r] \in Client /\ client'[r].home = client[r].home
      BY <2>2, <3>1 DEF Client
    <3>3. \A q \in Runtimes \ {r} : client'[q] = client[q]
      BY <1>0, <2>4 DEF CompanionsOK
    <3>4. client' \in [Runtimes -> Client]
      BY <1>0, <2>4, <3>1, <3>2 DEF CompanionsOK
    <3> QED BY <1>0, <2>1, <2>4, <3>2, <3>3, <3>4 DEF CompanionsOK
  <2>6. StoresOK'
    BY <1>0, <2>4 DEF StoresOK, storeVars, pluginVars
  <2> QED BY <2>3, <2>4, <2>5, <2>6, RegistryKept DEF DataStep
<1>4. CASE SnapshotCheck(r)
  BY <1>0, <1>4, PushBeginsOK DEF SnapshotCheck, RuntimeSessionMatches
<1>5. CASE SnapshotStore(r)
  <2>1. CallsStep
    BY <1>5, DisturbKeeps DEF SnapshotStore
  <2>2. DataStep
    BY <1>0, <1>5 DEF SnapshotStore, PushStep, DataStep, StoresOK, CompanionsOK, pluginVars
  <2> QED BY <1>5, <2>1, <2>2, RegistryKept DEF SnapshotStore
<1>6. CASE SnapshotMark(r)
  <2>1. client[r].game \in Games
    BY <1>0, <1>6 DEF SnapshotMark, PushStep, CompanionsOK
  <2>2. CallsStep
    BY <1>6, DisturbKeeps DEF SnapshotMark
  <2>3. RegistryMove
    BY <1>6, <2>1 DEF SnapshotMark, RegistryMove, RegistryNext
  <2>4. DataStep
    BY <1>0, <1>6 DEF SnapshotMark, PushStep, DataStep, StoresOK, CompanionsOK, storeVars, pluginVars
  <2> QED BY <2>2, <2>3, <2>4
<1>7. CASE LogCheck(r)
  BY <1>0, <1>7, PushBeginsOK DEF LogCheck, RuntimeSessionMatches
<1>8. CASE LogStore(r)
  <2>1. client[r].game \in Games
    BY <1>0, <1>8 DEF LogStore, PushStep, CompanionsOK
  <2>2. CallsStep
    BY <1>8, DisturbKeeps DEF LogStore
  <2>3. DataStep
    BY <1>0, <1>8, <2>1 DEF LogStore, PushStep, DataStep, StoresOK, CompanionsOK, pluginVars
  <2> QED BY <1>8, <2>2, <2>3, RegistryKept DEF LogStore
<1> QED BY <1>1, <1>2, <1>3, <1>4, <1>5, <1>6, <1>7, <1>8 DEF Companion

-----------------------------------------------------------------------------
(* The theorems                                                            *)

LEMMA BridgeInitInv == BridgeInit => BridgeInv
<1> SUFFICES ASSUME BridgeInit PROVE BridgeInv
  OBVIOUS
<1>1. RegistryInv
  BY InitRegistryInv DEF BridgeInit
<1>2. CallsOK
  <2>1. RecordOK(IdleCall)
    BY DEF RecordOK, IdleCall, CallRecord, CallPCs, RunPCs, Expiring, MaybeGame, MaybeEditor,
           MaybeToken
  <2> QED BY <2>1 DEF BridgeInit, CallsOK, RecordOK
<1>3. WireOK
  BY DEF BridgeInit, WireOK
<1>4. StoresOK
  BY DEF BridgeInit, StoresOK, MaybeToken, MaybeGame, Handshake
<1>5. CompanionsOK
  BY DEF BridgeInit, CompanionsOK, Client, MaybeEditor, MaybeGame, MaybeToken, PushPCs
<1> QED BY <1>1, <1>2, <1>3, <1>4, <1>5 DEF BridgeInv

LEMMA BridgeStepOK == BridgeInv /\ [BridgeNext]_vars => StepOK
<1> SUFFICES ASSUME BridgeInv, [BridgeNext]_vars PROVE StepOK
  OBVIOUS
<1>1. ASSUME NEW k \in Calls, Run(k) PROVE StepOK
  BY <1>1, RunSectionsOK, RunAnswersOK DEF Run
<1>2. ASSUME NEW k \in Calls, Stop(k) \/ Return(k) PROVE StepOK
  BY <1>2, StopSectionsOK
<1>3. ASSUME NEW k \in Calls, Expire(k) PROVE StepOK
  BY <1>3, ExpirySectionsOK
<1>4. CASE UNCHANGED vars
  <2>1. CallsStep
    BY <1>4, DisturbKeeps DEF vars
  <2> QED BY <1>4, <2>1, DataKept, RegistryKept DEF vars, StepOK, BridgeInv
<1> QED
  BY <1>1, <1>2, <1>3, <1>4, StartsOK, PluginOK, UserOK, BootOK, CompanionOK DEF BridgeNext

LEMMA BridgeStep == BridgeInv /\ [BridgeNext]_vars => BridgeInv'
<1> SUFFICES ASSUME BridgeInv, [BridgeNext]_vars PROVE BridgeInv'
  OBVIOUS
<1>1. StepOK
  BY BridgeStepOK
<1>2. RegistryInv'
  BY <1>1, RegistryStep DEF StepOK, RegistryMove, BridgeInv
<1> QED BY <1>1, <1>2 DEF StepOK, CallsStep, DataStep, BridgeInv

(* The invariant holds whatever the requests, the editors and the games do.*)
THEOREM BridgeInvariant == BridgeSpec => []BridgeInv
<1> QED BY BridgeInitInv, BridgeStep, PTL DEF BridgeSpec

(* The handlers, the expiry of sessions and the bridge tools change the    *)
(* registry by its methods only, with arguments these are meant for: what  *)
(* is proved of any sequence of calls holds of theirs.                     *)
THEOREM BridgeUsesRegistry == BridgeSpec => RegistrySpec
<1>1. BridgeInit => RegistryInit
  BY DEF BridgeInit
<1>2. BridgeInv /\ [BridgeNext]_vars => [RegistryNext]_registryVars
  BY BridgeStepOK DEF StepOK, RegistryMove
<1> QED BY <1>1, <1>2, BridgeInvariant, PTL DEF BridgeSpec, RegistrySpec

(* The three maps of the registry agree in every state of the system.      *)
THEOREM BridgeKeepsRegistry == BridgeSpec => []RegistryInv
<1>1. BridgeInv => RegistryInv
  BY DEF BridgeInv
<1> QED BY <1>1, BridgeInvariant, PTL

(* Whatever the handlers and late requests of dying games do, a game that  *)
(* was stopped stays unreachable until a process registers for it.         *)
THEOREM BridgeStoppedUnreachable == BridgeSpec => StoppedIsUnreachable
BY BridgeUsesRegistry, StoppedStaysUnreachable

(* Types; among them, that a run always has a game and an editor, whatever *)
(* the plugin answered.                                                    *)
THEOREM BridgeTypes == BridgeSpec => []BridgeTypeOK
<1>1. BridgeInv => BridgeTypeOK
  BY DEF BridgeInv, RegistryInv, CallsOK, RecordOK, WireOK, StoresOK, CompanionsOK, BridgeTypeOK
<1> QED BY <1>1, BridgeInvariant, PTL

-----------------------------------------------------------------------------
(* Transports                                                              *)

RuntimesKept(S) == \A g \in S : session'[g].runtime = session[g].runtime

(* What the methods of the registry do to transports.                      *)
LEMMA UpsertKeepsRuntimes ==
  ASSUME BridgeInv, NEW g \in Games, NEW e, NEW t, UpsertFromRun(g, e, t)
  PROVE  RuntimesKept(Games)
<1>1. session \in [Games -> GameSession]
  BY DEF BridgeInv, RegistryInv, RegistryTypeOK
<1>2. session' = [session EXCEPT ![g] = Launched(session[g], e, t)]
  BY DEF UpsertFromRun
<1>3. Launched(session[g], e, t).runtime = session[g].runtime
  BY <1>1 DEF Launched, GameSession
<1> QED BY <1>1, <1>2, <1>3 DEF RuntimesKept

LEMMA MarkKeepsRuntimes ==
  ASSUME BridgeInv, NEW g \in Games, MarkSnapshotReceived(g)
  PROVE  RuntimesKept(Games)
<1>1. session \in [Games -> GameSession]
  BY DEF BridgeInv, RegistryInv, RegistryTypeOK
<1>2. Observed(session[g]).runtime = session[g].runtime
  BY <1>1 DEF Observed, GameSession
<1> QED BY <1>1, <1>2 DEF RuntimesKept, MarkSnapshotReceived

(* A sweep stops only sessions that have none.                             *)
LEMMA SweepKeepsRuntimes ==
  ASSUME BridgeInv, NEW e, NEW x, StopStaleForEditor(e, x)
  PROVE  RuntimesKept(Games)
<1>1. session \in [Games -> GameSession]
  BY DEF BridgeInv, RegistryInv, RegistryTypeOK
<1>2. \A g \in Games : session'[g] = IF g \in Stale(e, x) THEN Stopped(session[g]) ELSE session[g]
  BY DEF StopStaleForEditor, StopLocked
<1>3. \A g \in Games : Stopped(session[g]).runtime = None
  BY <1>1 DEF Stopped, GameSession
<1>4. \A g \in Stale(e, x) : session[g].runtime = None
  BY DEF Stale
<1> QED BY <1>2, <1>3, <1>4 DEF RuntimesKept

LEMMA OthersKeepRuntimes ==
  ASSUME BridgeInv, NEW g \in Games, StopSession(g) \/ RemoveSession(g)
  PROVE  RuntimesKept(Games \ {g})
<1>1. session \in [Games -> GameSession]
  BY DEF BridgeInv, RegistryInv, RegistryTypeOK
<1> QED BY <1>1 DEF StopSession, StopLocked, RemoveSession, RuntimesKept

(* A step that keeps all transports, or all but one of a game it concerns. *)
LEMMA KeptIsOwn == RuntimesKept(Games) => LossIsOwn
  BY DEF RuntimesKept, LossIsOwn

LEMMA ConcernedIsOwn ==
  ASSUME NEW k \in Calls, NEW g \in Games, Concerns(k, g), call'[k].pc # call[k].pc,
         RuntimesKept(Games \ {g})
  PROVE  LossIsOwn
  BY DEF RuntimesKept, LossIsOwn

LEMMA RequestLossIsOwn ==
  ASSUME BridgeInv, NEW k \in Calls, Run(k) \/ Stop(k) \/ Expire(k) \/ Return(k)
  PROVE  LossIsOwn
<1>0. /\ call \in [Calls -> CallRecord] /\ RecordOK(call[k])
      /\ byEditor \in [Editors -> Games \cup {None}]
      /\ {"sweep", "upsert", "dispatch", "wait", "attach", "confirm"} \subseteq RunPCs
  BY DEF BridgeInv, CallsOK, RegistryInv, RegistryTypeOK, RunPCs
<1>m. \A from, to : Step(k, from, to) /\ from # to => /\ call[k].pc = from
                                                      /\ call'[k].pc # call[k].pc
  BY <1>0 DEF Step, CallRecord
<1>1. CASE RunSweep(k)
  BY <1>1, SweepKeepsRuntimes, KeptIsOwn DEF RunSweep
<1>2. CASE RunUpsert(k) \/ RunAttach(k) \/ RunConfirm(k)
  <2>1. call[k].pc \in RunPCs /\ \E t : UpsertFromRun(call[k].game, call[k].editor, t)
    BY <1>0, <1>2 DEF RunUpsert, RunAttach, RunConfirm, Step
  <2> QED BY <2>1, RunOwnGame, UpsertKeepsRuntimes, KeptIsOwn
<1>3. CASE RunFails(k) \/ RunRemapped(k)
  <2>1. /\ call[k].pc \in {"dispatch", "wait"} /\ RemoveSession(call[k].game)
        /\ call'[k].pc # call[k].pc
    BY <1>0, <1>3, <1>m DEF RunFails, RunRemapped, Step, CallRecord
  <2>2. call[k].game \in Games
    BY <1>0, <2>1, RunOwnGame
  <2> QED BY <2>1, <2>2, OthersKeepRuntimes, ConcernedIsOwn DEF Concerns
<1>4. CASE StopAcked(k) /\ call[k].game # None
  <2>1. Step(k, "stopWait", "stopSnap") /\ StopSession(call[k].game) /\ call[k].game \in Games
    BY <1>0, <1>4 DEF StopAcked, RecordOK, CallRecord, MaybeGame
  <2> QED BY <1>m, <2>1, OthersKeepRuntimes, ConcernedIsOwn DEF Concerns
<1>5. CASE ExpireGame(k)
  <2>1. CASE Step(k, "expireGame", "expireSession") /\ RemoveSession(call[k].game)
    <3>1. call[k].game \in Games
      BY <1>0, <2>1 DEF Step, RecordOK
    <3> QED BY <1>m, <2>1, <3>1, OthersKeepRuntimes, ConcernedIsOwn DEF Concerns
  <2>2. CASE Step(k, "expireForget", "expireSession") /\ RemoveByEditorSession(call[k].editor)
    <3> DEFINE g == byEditor[call[k].editor]
    <3>1. call[k].editor \in Editors /\ g \in Games \cup {None}
      BY <1>0, <2>2 DEF Step, RecordOK, Expiring
    <3>2. CASE g \in known /\ g \in Games
      <4>1. RemoveSession(g)
        BY <2>2, <3>2, NoneIsNoId DEF RemoveByEditorSession
      <4> QED BY <1>m, <2>2, <3>2, <4>1, OthersKeepRuntimes, ConcernedIsOwn DEF Concerns
    <3>3. CASE g \notin known \/ g = None
      BY <2>2, <3>3, KeptIsOwn DEF RemoveByEditorSession, RuntimesKept, registryVars
    <3> QED BY <3>1, <3>2, <3>3
  <2> QED BY <1>5, <2>1, <2>2 DEF ExpireGame
<1>6. CASE UNCHANGED registryVars
  BY <1>6, KeptIsOwn DEF RuntimesKept, registryVars
<1> QED
  BY <1>1, <1>2, <1>3, <1>4, <1>5, <1>6
  DEF Run, Stop, Expire, Return, RunSend, RunDropSnapshot, RunDropLogs, RunReady, RunNotReady,
      StopAddress, StopSend, StopFails, StopAcked, StopDropSnapshot, StopDropLogs,
      ExpireSnapshot, ExpireLogs, ExpireSession

LEMMA StepLossIsOwn == BridgeInv /\ [BridgeNext]_vars => [LossIsOwn]_vars
<1> SUFFICES ASSUME BridgeInv, BridgeNext PROVE LossIsOwn
  OBVIOUS
<1>1. ASSUME NEW k \in Calls, Run(k) \/ Stop(k) \/ Expire(k) \/ Return(k) PROVE LossIsOwn
  BY <1>1, RequestLossIsOwn
<1>2. ASSUME NEW r \in Runtimes, RegisterBind(r) PROVE LossIsOwn
  <2>1. push[r] = "register" /\ push'[r] = "idle"
    BY <1>2 DEF RegisterBind, PushStep, BridgeInv, CompanionsOK
  <2> QED BY <2>1 DEF LossIsOwn
<1>3. ASSUME NEW r \in Runtimes, SnapshotMark(r) PROVE LossIsOwn
  <2>1. client[r].game \in Games
    BY <1>3 DEF SnapshotMark, PushStep, BridgeInv, CompanionsOK
  <2> QED BY <1>3, <2>1, MarkKeepsRuntimes, KeptIsOwn DEF SnapshotMark
<1>4. CASE UNCHANGED registryVars
  BY <1>4, KeptIsOwn DEF RuntimesKept, registryVars
<1> QED
  BY <1>1, <1>2, <1>3, <1>4
  DEF BridgeNext, RunStart, StopStart, ExpireStart, PluginRun, PluginStop, UserPlays, GameExits,
      Boot, Companion, PushBegins, RegisterCheck, RegisterRefused, SnapshotCheck, SnapshotStore,
      LogCheck, LogStore

(* A game loses its transport only to a stop, a failed run, a remap or an  *)
(* expiry that is about it, or to a registration.                          *)
THEOREM TransportLossHasCause == BridgeSpec => TransportLossIsOwn
<1> QED BY StepLossIsOwn, BridgeInvariant, PTL DEF BridgeSpec, TransportLossIsOwn

-----------------------------------------------------------------------------
(* Successful runs                                                         *)

(* What is left when no other request is in the way of a run: registrations*)
(* of games.  They cannot take its game from its editor because a live     *)
(* process is of the launch its editor made last, and no launch token is   *)
(* used on two editors.                                                    *)

(* A request that is alone is under way, and no other is.                  *)
Busy(k) == call[k].pc \notin {"idle", "done"}
AloneInv ==
  \A k \in Calls : call[k].alone => Busy(k) /\ \A j \in Calls \ {k} : ~Busy(j)

(* The launch with the token t was requested from the editor e.            *)
PendingRun == {"sweep", "upsert", "dispatch", "wait"}
LaunchedOn(t, e) ==
  \/ \E k \in Calls : call[k].pc \in PendingRun /\ call[k].token = t /\ call[k].editor = e
  \/ \E c \in wire : c.kind = "run" /\ c.token = t /\ c.editor = e
  \/ handshake[e].game # None /\ handshake[e].token = t
TokenInv ==
  \A t \in MaybeToken, e \in Editors : LaunchedOn(t, e) =>
    t \in drawn /\ \A f \in Editors : LaunchedOn(t, f) => f = e

(* A process that lives is of the launch in its editor's handshake file.   *)
Current(r) ==
  LET e == client[r].home IN
  /\ playing[e] /\ handshake[e].game # None
  /\ client[r].game = handshake[e].game /\ client[r].token = handshake[e].token
LiveInv ==
  /\ \A e \in Editors : handshake[e].game = None => handshake[e].stopped
  /\ \A r \in Runtimes : client[r].alive => Current(r)

(* A run that goes on was acknowledged, for the game it is about now.      *)
Acked(x) ==
  /\ x.pc \in {"attach", "confirm", "await", "succeeded"} => x.ack = "ok" /\ x.ackGame = x.game
  /\ x.pc \in {"await", "succeeded"} => x.token = x.ackToken

(* The handshake file still names the launch that an undisturbed run was   *)
(* answered with.                                                          *)
Followed(x) ==
  x.alone /\ x.pc \in RunPCs /\ x.ack = "ok" =>
    handshake[x.editor].game = x.ackGame /\ handshake[x.editor].token = x.ackToken

(* Its game is its editor's, runs, and is registered by that launch only.  *)
ActiveGame(x) ==
  /\ x.game \in known
  /\ session[x.game].running
  /\ session[x.game].token = x.token
  /\ byEditor[x.editor] = x.game
Active(x) == x.alone /\ x.pc \in {"await", "succeeded"} => ActiveGame(x)

CallInv == \A k \in Calls : Acked(call[k]) /\ Followed(call[k]) /\ Active(call[k])

SuccessInv ==
  /\ AloneInv
  /\ TokenInv
  /\ LiveInv
  /\ CallInv

(* While a request is under way, no other is alone.                        *)
LEMMA OnlyOneAlone ==
  ASSUME AloneInv, NEW k \in Calls, Busy(k), NEW j \in Calls, j # k
  PROVE  ~call[j].alone
  BY DEF AloneInv

(* Tokens stay where they were launched, if no step brings one elsewhere.  *)
LEMMA TokenKept ==
  ASSUME TokenInv, drawn \subseteq drawn',
         \A k \in Calls : call'[k].pc \in PendingRun =>
           LaunchedOn(call'[k].token, call'[k].editor),
         \A c \in wire' : c.kind = "run" => LaunchedOn(c.token, c.editor),
         \A e \in Editors : handshake'[e].game # None => LaunchedOn(handshake'[e].token, e)
  PROVE  TokenInv'
<1>1. \A t \in MaybeToken, e \in Editors : LaunchedOn(t, e)' => LaunchedOn(t, e)
  BY DEF LaunchedOn
<1> QED BY <1>1 DEF TokenInv

-----------------------------------------------------------------------------
(* A request takes a step                                                  *)

(* The commands on the wire are those that were, or that of k.             *)
WireMove(k) ==
  \A c \in wire' : c.kind = "run" =>
    \/ \E d \in wire : d.kind = "run" /\ d.token = c.token /\ d.editor = c.editor
    \/ call[k].pc \in PendingRun /\ c.token = call[k].token /\ c.editor = call[k].editor

(* The record x of a request may take the place of y.                      *)
Succeeds(x, y) ==
  /\ y.pc \notin {"idle", "done"}
  /\ x.alone => y.alone /\ x.pc \notin {"idle", "done"}
  /\ x.pc \in PendingRun => y.pc \in PendingRun /\ x.token = y.token /\ x.editor = y.editor
  /\ Acked(x)
  /\ x.alone /\ x.pc \in RunPCs /\ x.ack = "ok" =>
       /\ y.pc \in RunPCs /\ y.ack = "ok" /\ x.editor = y.editor
       /\ x.ackGame = y.ackGame /\ x.ackToken = y.ackToken

(* After the step the game of x is active.                                 *)
ActiveNext(x) ==
  /\ x.game \in known'
  /\ session'[x.game].running
  /\ session'[x.game].token = x.token
  /\ byEditor'[x.editor] = x.game

LEMMA RequestStep ==
  ASSUME BridgeInv, SuccessInv, NEW k \in Calls, NEW x, call' = [call EXCEPT ![k] = x],
         Succeeds(x, call[k]), WireMove(k),
         x.alone /\ x.pc \in {"await", "succeeded"} => ActiveNext(x),
         UNCHANGED <<drawn, pluginVars, client>>
  PROVE  SuccessInv'
<1>0. /\ AloneInv /\ TokenInv /\ LiveInv /\ CallInv
      /\ call'[k] = x /\ \A j \in Calls \ {k} : call'[j] = call[j]
      /\ drawn' = drawn /\ handshake' = handshake /\ playing' = playing /\ client' = client
  BY DEF SuccessInv, BridgeInv, CallsOK, pluginVars
<1>1. Busy(k) /\ \A j \in Calls \ {k} : ~call[j].alone
  BY <1>0, OnlyOneAlone DEF Busy, Succeeds
<1>2. AloneInv'
  <2>1. ASSUME NEW j \in Calls, call'[j].alone
        PROVE  j = k /\ Busy(j)'
    BY <1>0, <1>1, <2>1 DEF Busy, Succeeds
  <2>2. ASSUME NEW j \in Calls \ {k}, x.alone PROVE ~Busy(j)'
    BY <1>0, <2>2 DEF AloneInv, Busy, Succeeds
  <2> QED BY <1>0, <2>1, <2>2 DEF AloneInv
<1>3. TokenInv'
  <2>1. \A j \in Calls : call'[j].pc \in PendingRun => LaunchedOn(call'[j].token, call'[j].editor)
    BY <1>0 DEF LaunchedOn, Succeeds
  <2>2. \A c \in wire' : c.kind = "run" => LaunchedOn(c.token, c.editor)
    BY DEF WireMove, LaunchedOn
  <2>3. \A e \in Editors : handshake'[e].game # None => LaunchedOn(handshake'[e].token, e)
    BY <1>0 DEF LaunchedOn
  <2> QED BY <1>0, <2>1, <2>2, <2>3, TokenKept
<1>4. LiveInv'
  BY <1>0 DEF LiveInv, Current
<1>5. CallInv'
  <2>1. Acked(x) /\ Active(x)'
    BY DEF Succeeds, Active, ActiveGame, ActiveNext
  <2>2. Followed(x)'
    BY <1>0 DEF Succeeds, Followed, CallInv
  <2>3. \A j \in Calls \ {k} : Acked(call[j]) /\ Followed(call[j])' /\ Active(call[j])'
    BY <1>0, <1>1 DEF CallInv, Followed, Active
  <2>4. \A j \in Calls : (Acked(call[j]) /\ Followed(call[j]) /\ Active(call[j]))'
    <3> SUFFICES ASSUME NEW j \in Calls
                 PROVE  (Acked(call[j]) /\ Followed(call[j]) /\ Active(call[j]))'
      OBVIOUS
    <3>1. CASE j = k
      BY <1>0, <2>1, <2>2, <3>1 DEF Acked, Followed, Active, ActiveGame
    <3>2. CASE j # k
      BY <1>0, <1>1, <2>3, <3>2 DEF Acked, Followed, Active
    <3> QED BY <3>1, <3>2
  <2> QED BY <2>4 DEF CallInv
<1> QED BY <1>2, <1>3, <1>4, <1>5 DEF SuccessInv

(* A step to the next lock section, which changes only the place.          *)
LEMMA MovedSucceeds ==
  ASSUME BridgeInv, SuccessInv, NEW k \in Calls, NEW from, NEW to \in CallPCs \ {"idle", "done"},
         Step(k, from, to), from \notin {"idle", "done"},
         to \in PendingRun => from \in PendingRun,
         to = "attach" => FALSE,
         to = "confirm" => from = "attach",
         to = "await" => FALSE,
         to = "succeeded" => from = "await",
         to \in RunPCs => from \in RunPCs
  PROVE  /\ call' = [call EXCEPT ![k] = Moved(call[k], to)]
         /\ Succeeds(Moved(call[k], to), call[k])
         /\ Moved(call[k], to).alone = call[k].alone
         /\ Moved(call[k], to).pc = to
<1>1. call[k].pc = from /\ call' = [call EXCEPT ![k] = Moved(call[k], to)]
  BY DEF Step, Moved
<1>2. call[k] \in CallRecord /\ Acked(call[k])
  BY DEF BridgeInv, CallsOK, SuccessInv, CallInv
<1>3. /\ Moved(call[k], to).pc = to /\ Moved(call[k], to).alone = call[k].alone
      /\ Moved(call[k], to).game = call[k].game /\ Moved(call[k], to).editor = call[k].editor
      /\ Moved(call[k], to).token = call[k].token /\ Moved(call[k], to).ack = call[k].ack
      /\ Moved(call[k], to).ackGame = call[k].ackGame
      /\ Moved(call[k], to).ackToken = call[k].ackToken
  BY <1>2 DEF Moved, CallRecord
<1>4. Succeeds(Moved(call[k], to), call[k])
  BY <1>1, <1>2, <1>3 DEF Succeeds, Acked
<1> QED BY <1>1, <1>3, <1>4

(* A request that ends is no longer alone, nor a run.                      *)
LEMMA DoneSucceeds ==
  ASSUME NEW y, y.pc \notin {"idle", "done"}
  PROVE  Succeeds(DoneCall, y) /\ ~DoneCall.alone
  BY DEF Succeeds, DoneCall, IdleCall, PendingRun, RunPCs, Acked

(* The steps that make no run successful.                                  *)
LEMMA MoveSuccess ==
  ASSUME BridgeInv, SuccessInv, NEW k \in Calls, NEW from, NEW to \in CallPCs \ {"idle", "done"},
         Step(k, from, to), from \notin {"idle", "done"},
         to \in PendingRun => from \in PendingRun,
         to \notin {"attach", "await", "succeeded"},
         to = "confirm" => from = "attach",
         to \in RunPCs => from \in RunPCs,
         WireMove(k), UNCHANGED <<drawn, pluginVars, client>>
  PROVE  SuccessInv'
<1>1. /\ call' = [call EXCEPT ![k] = Moved(call[k], to)]
      /\ Succeeds(Moved(call[k], to), call[k])
      /\ Moved(call[k], to).pc = to
  BY MovedSucceeds
<1> QED BY <1>1, RequestStep

LEMMA FinishSuccess ==
  ASSUME BridgeInv, SuccessInv, NEW k \in Calls, NEW from, Finish(k, from),
         from \notin {"idle", "done"}, WireMove(k), UNCHANGED <<drawn, pluginVars, client>>
  PROVE  SuccessInv'
<1>1. call[k].pc = from /\ call' = [call EXCEPT ![k] = DoneCall]
  BY DEF Finish
<1> QED BY <1>1, DoneSucceeds, RequestStep

(* What reaches or leaves the wire when a request sends or gives up.       *)
LEMMA WireUnchanged ==
  ASSUME NEW k, wire' = wire PROVE WireMove(k)
  BY DEF WireMove

LEMMA SendMove ==
  ASSUME NEW k \in Calls, NEW kind \in {"run", "stop"}, wire' = wire \cup {Sent(k, kind)},
         kind = "run" => call[k].pc \in PendingRun
  PROVE  WireMove(k)
  BY DEF WireMove, Sent

LEMMA GiveUpMove ==
  ASSUME NEW k \in Calls, NEW kind \in {"run", "stop"},
         \/ Abandon(k, kind)
         \/ wire' = wire \cup {Unclaimed(Sent(k, kind))},
         kind = "run" => call[k].pc \in PendingRun
  PROVE  WireMove(k)
<1>1. /\ Unclaimed(Sent(k, kind)).kind = kind
      /\ Unclaimed(Sent(k, kind)).token = call[k].token
      /\ Unclaimed(Sent(k, kind)).editor = call[k].editor
  BY DEF Unclaimed, Sent
<1>2. \A c \in wire' : c \in wire \/ c = Unclaimed(Sent(k, kind))
  BY DEF Abandon
<1> QED BY <1>1, <1>2 DEF WireMove

(* UpsertFromRun makes the game active, with the token it is given.        *)
LEMMA UpsertActive ==
  ASSUME BridgeInv, NEW g \in Games, NEW e \in Editors, NEW t \in Tokens, UpsertFromRun(g, e, t)
  PROVE  /\ g \in known' /\ session'[g].running
         /\ session'[g].token = t /\ byEditor'[e] = g
<1>1. session[g] \in GameSession /\ session \in [Games -> GameSession] /\ e # None /\ t # None
  BY NoneIsNoId DEF BridgeInv, RegistryInv, RegistryTypeOK
<1>2. session'[g] = Launched(session[g], e, t) /\ byEditor' = RebindEditor(g, e) /\ g \in known'
  BY <1>1 DEF UpsertFromRun
<1>3. Launched(session[g], e, t).running /\ Launched(session[g], e, t).token = t
  BY <1>1 DEF Launched, GameSession, OrElse
<1>4. byEditor'[e] = g
  BY <1>1, <1>2 DEF RebindEditor
<1> QED BY <1>2, <1>3, <1>4

LEMMA RunSuccess ==
  ASSUME BridgeInv, SuccessInv, NEW k \in Calls, Run(k)
  PROVE  SuccessInv'
<1>0. /\ RecordOK(call[k]) /\ call[k] \in CallRecord
      /\ Acked(call[k]) /\ Followed(call[k]) /\ Active(call[k])
  BY DEF BridgeInv, CallsOK, SuccessInv, CallInv
<1> USE DEF CallPCs, PendingRun, RunPCs
<1>1. CASE RunSweep(k)
  BY <1>1, WireUnchanged, MoveSuccess DEF RunSweep, runtimeVars
<1>2. CASE RunUpsert(k)
  BY <1>2, WireUnchanged, MoveSuccess DEF RunUpsert, runtimeVars
<1>3. CASE RunSend(k)
  <2>1. WireMove(k)
    BY <1>3, SendMove DEF RunSend, Step
  <2> QED BY <1>3, <2>1, MoveSuccess DEF RunSend, runtimeVars
<1>4. CASE RunFails(k)
  <2>1. call[k].pc \in {"dispatch", "wait"} /\ call' = [call EXCEPT ![k] = Failed(call[k])]
    BY <1>4 DEF RunFails, Failed
  <2>2. WireMove(k)
    BY <1>4, <2>1, GiveUpMove DEF RunFails
  <2>3. /\ Failed(call[k]).pc = "dropSnap" /\ Failed(call[k]).ack = "failed"
        /\ Failed(call[k]).alone = call[k].alone
    BY <1>0 DEF Failed, CallRecord
  <2>4. Succeeds(Failed(call[k]), call[k])
    BY <2>1, <2>3 DEF Succeeds, Acked
  <2> QED BY <1>4, <2>1, <2>2, <2>3, <2>4, RequestStep DEF RunFails, runtimeVars
<1>5. CASE RunRemapped(k)
  BY <1>5, WireUnchanged, MoveSuccess DEF RunRemapped, runtimeVars
<1>6. CASE RunDropSnapshot(k)
  BY <1>6, WireUnchanged, MoveSuccess DEF RunDropSnapshot, runtimeVars
<1>7. CASE RunDropLogs(k)
  <2>1. WireMove(k) /\ UNCHANGED <<drawn, pluginVars, client>>
    BY <1>7, WireUnchanged DEF RunDropLogs, runtimeVars
  <2>2. CASE call[k].ack = "ok"
    <3> DEFINE x == Attaching(call[k])
    <3>1. call[k].pc = "dropLogs" /\ call' = [call EXCEPT ![k] = x]
      BY <1>7, <2>2 DEF RunDropLogs, Attaching
    <3>2. /\ x.pc = "attach" /\ x.game = call[k].ackGame /\ x.alone = call[k].alone
          /\ x.ack = call[k].ack /\ x.ackGame = call[k].ackGame
          /\ x.ackToken = call[k].ackToken /\ x.editor = call[k].editor
      BY <1>0 DEF Attaching, CallRecord
    <3>3. Succeeds(x, call[k])
      BY <2>2, <3>1, <3>2 DEF Succeeds, Acked
    <3> QED BY <2>1, <3>1, <3>2, <3>3, RequestStep
  <2>3. CASE call[k].ack # "ok"
    BY <1>7, <2>1, <2>3, FinishSuccess DEF RunDropLogs
  <2> QED BY <2>2, <2>3
<1>8. CASE RunAttach(k)
  BY <1>8, WireUnchanged, MoveSuccess DEF RunAttach, runtimeVars
<1>9. CASE RunConfirm(k)
  <2> DEFINE x == Confirmed(call[k])
  <2>1. /\ call[k].pc = "confirm" \/ (call[k].pc = "wait" /\ call[k].ack = "ok"
                                        /\ call[k].ackGame = call[k].game)
        /\ call' = [call EXCEPT ![k] = x]
        /\ UpsertFromRun(call[k].game, call[k].editor, call[k].ackToken)
        /\ WireMove(k) /\ UNCHANGED <<drawn, pluginVars, client>>
    BY <1>9, WireUnchanged DEF RunConfirm, Confirmed, runtimeVars
  <2>2. /\ x.pc = "await" /\ x.game = call[k].game /\ x.alone = call[k].alone
        /\ x.ack = call[k].ack /\ x.ackGame = call[k].ackGame /\ x.token = call[k].ackToken
        /\ x.ackToken = call[k].ackToken /\ x.editor = call[k].editor
    BY <1>0 DEF Confirmed, CallRecord
  <2>3. call[k].ack = "ok" /\ call[k].ackGame = call[k].game
    BY <1>0, <2>1 DEF Acked
  <2>4. Succeeds(x, call[k])
    BY <2>1, <2>2, <2>3 DEF Succeeds, Acked
  <2>5. ASSUME call[k].alone PROVE ActiveNext(x)
    <3> DEFINE g == call[k].game
               e == call[k].editor
               t == call[k].ackToken
    <3>1. g \in Games /\ e \in Editors /\ t \in MaybeToken /\ g # None
      BY <2>1, NoneIsNoId, RunOwnGame
    <3>2. handshake[e].game = g /\ handshake[e].token = t
      BY <1>0, <2>1, <2>3, <2>5 DEF Followed
    <3>3. t \in Tokens
      BY <3>1, <3>2 DEF SuccessInv, TokenInv, LaunchedOn, BridgeInv, StoresOK
    <3>4. /\ g \in known' /\ session'[g].running
          /\ session'[g].token = t /\ byEditor'[e] = g
      BY <2>1, <3>1, <3>3, UpsertActive
    <3> QED BY <2>2, <3>4 DEF ActiveNext
  <2> QED BY <2>1, <2>2, <2>4, <2>5, RequestStep
<1>a. CASE RunReady(k)
  <2>1. /\ Step(k, "await", "succeeded") /\ UNCHANGED registryVars
        /\ WireMove(k) /\ UNCHANGED <<drawn, pluginVars, client>>
    BY <1>a, WireUnchanged DEF RunReady, runtimeVars
  <2> DEFINE x == Moved(call[k], "succeeded")
  <2>2. /\ call' = [call EXCEPT ![k] = x] /\ Succeeds(x, call[k]) /\ x.pc = "succeeded"
        /\ x.alone = call[k].alone /\ x.game = call[k].game /\ x.editor = call[k].editor
        /\ x.token = call[k].token
    BY <1>0, <2>1, MovedSucceeds, MovedFields
  <2>3. ASSUME x.alone PROVE ActiveNext(x)
    <3>1. ActiveGame(call[k])
      BY <1>0, <2>1, <2>2, <2>3 DEF Active, Step
    <3> QED BY <2>1, <2>2, <3>1 DEF ActiveGame, ActiveNext, registryVars
  <2> QED BY <2>1, <2>2, <2>3, RequestStep
<1>b. CASE RunNotReady(k)
  BY <1>b, WireUnchanged, FinishSuccess DEF RunNotReady, runtimeVars
<1> QED BY <1>1, <1>2, <1>3, <1>4, <1>5, <1>6, <1>7, <1>8, <1>9, <1>a, <1>b DEF Run

LEMMA EndSuccess ==
  ASSUME BridgeInv, SuccessInv, NEW k \in Calls, Stop(k) \/ Expire(k) \/ Return(k)
  PROVE  SuccessInv'
<1>0. call[k] \in CallRecord
  BY DEF BridgeInv, CallsOK
<1> USE DEF CallPCs, PendingRun, RunPCs
<1>1. ASSUME NEW e \in Editors, StopAddress(k, e) PROVE SuccessInv'
  <2> DEFINE x == Addressed(call[k], e)
  <2>1. call[k].pc = "stopAddress" /\ call' = [call EXCEPT ![k] = x]
    BY <1>1 DEF StopAddress, Addressed
  <2>2. x.pc = "stopSend" /\ x.alone = call[k].alone
    BY <1>0 DEF Addressed, CallRecord
  <2>3. Succeeds(x, call[k])
    BY <2>1, <2>2 DEF Succeeds, Acked
  <2> QED BY <1>1, <2>1, <2>2, <2>3, WireUnchanged, RequestStep DEF StopAddress, runtimeVars
<1>2. CASE StopSend(k)
  <2>1. WireMove(k)
    BY <1>2, SendMove DEF StopSend
  <2> QED BY <1>2, <2>1, MoveSuccess DEF StopSend, runtimeVars
<1>3. CASE StopFails(k)
  <2>1. WireMove(k)
    BY <1>3, GiveUpMove DEF StopFails
  <2> QED BY <1>3, <2>1, FinishSuccess DEF StopFails, runtimeVars
<1>4. CASE StopAcked(k)
  BY <1>4, WireUnchanged, MoveSuccess DEF StopAcked, runtimeVars
<1>5. CASE StopDropSnapshot(k) \/ StopDropLogs(k)
  BY <1>5, WireUnchanged, MoveSuccess DEF StopDropSnapshot, StopDropLogs, runtimeVars
<1>6. CASE ExpireSnapshot(k) \/ ExpireLogs(k) \/ ExpireGame(k)
  BY <1>6, WireUnchanged, MoveSuccess DEF ExpireSnapshot, ExpireLogs, ExpireGame, runtimeVars
<1>7. CASE ExpireSession(k) \/ Return(k)
  BY <1>7, WireUnchanged, FinishSuccess DEF ExpireSession, Return, runtimeVars
<1> QED BY <1>1, <1>2, <1>3, <1>4, <1>5, <1>6, <1>7 DEF Stop, Expire

-----------------------------------------------------------------------------
(* A request begins                                                        *)

LEMMA BeginSuccess ==
  ASSUME BridgeInv, SuccessInv, NEW k \in Calls, NEW x \in CallRecord, Begin(k, x),
         x.pc \in {"sweep", "stopAddress", "expireForget", "expireSnap"}, x.ack = "none",
         x.pc = "sweep" => x.token \in Tokens \ drawn /\ x.token \in drawn',
         drawn \subseteq drawn',
         wire' = wire, UNCHANGED <<registryVars, pluginVars, client>>
  PROVE  SuccessInv'
<1> DEFINE others == {j \in Calls \ {k} : Busy(j)}
           y == Overlapped(x, others = {})
<1>0. /\ AloneInv /\ TokenInv /\ LiveInv /\ CallInv /\ call \in [Calls -> CallRecord]
      /\ handshake' = handshake /\ playing' = playing /\ client' = client
      /\ \A c \in wire : c.token \in MaybeToken /\ c.editor \in Editors
      /\ drawn \subseteq Tokens /\ Tokens \subseteq MaybeToken
  BY DEF SuccessInv, BridgeInv, CallsOK, WireOK, Command, StoresOK, pluginVars, MaybeToken
<1>1. /\ call[k].pc = "idle"
      /\ call'[k] = y
      /\ \A j \in others : call'[j] = Overlapped(call[j], FALSE)
      /\ \A j \in (Calls \ {k}) \ others : call'[j] = call[j]
  BY DEF Begin, Overlapped, Busy
<1>2. /\ y.pc = x.pc /\ y.token = x.token /\ y.editor = x.editor /\ y.ack = x.ack
      /\ y.alone <=> others = {}
  <2> HIDE DEF others
  <2> QED BY DEF CallRecord, Overlapped
<1>3. ASSUME NEW j \in Calls \ {k}
      PROVE  /\ call'[j].pc = call[j].pc /\ call'[j].token = call[j].token
             /\ call'[j].editor = call[j].editor /\ call'[j].game = call[j].game
             /\ call'[j].ack = call[j].ack /\ call'[j].ackGame = call[j].ackGame
             /\ call'[j].ackToken = call[j].ackToken
             /\ ~call'[j].alone
  <2>1. call[j] \in CallRecord
    BY <1>0
  <2>2. CASE j \in others
    <3>1. call'[j] = [call[j] EXCEPT !.alone = FALSE]
      BY <1>1, <2>2 DEF Overlapped
    <3> QED BY <2>1, <3>1 DEF CallRecord
  <2>3. CASE j \notin others
    BY <1>0, <1>1, <2>3 DEF AloneInv
  <2> QED BY <2>2, <2>3
<1> HIDE DEF y
<1>4. AloneInv'
  <2>1. ASSUME NEW j \in Calls, call'[j].alone
        PROVE  Busy(j)' /\ \A i \in Calls \ {j} : ~Busy(i)'
    <3>1. j = k /\ others = {}
      BY <1>1, <1>2, <1>3, <2>1
    <3> QED BY <1>1, <1>2, <1>3, <3>1 DEF Busy
  <2> QED BY <2>1 DEF AloneInv
<1>5. TokenInv'
  <2>1. \A j \in Calls \ {k} : call'[j].pc \in PendingRun =>
          LaunchedOn(call'[j].token, call'[j].editor)
    BY <1>3 DEF LaunchedOn
  <2>2. \A c \in wire' : c.kind = "run" => LaunchedOn(c.token, c.editor)
    BY DEF LaunchedOn
  <2>3. \A e \in Editors : handshake'[e].game # None => LaunchedOn(handshake'[e].token, e)
    BY <1>0 DEF LaunchedOn
  <2>4. CASE x.pc # "sweep"
    <3>1. call'[k].pc \notin PendingRun
      BY <1>1, <1>2, <2>4 DEF PendingRun
    <3> QED BY <1>0, <2>1, <2>2, <2>3, <3>1, TokenKept
  <2>5. CASE x.pc = "sweep"
    <3>1. \A t, e : LaunchedOn(t, e)' => LaunchedOn(t, e) \/ (t = x.token /\ e = x.editor)
      <4> SUFFICES ASSUME NEW t, NEW e, LaunchedOn(t, e)', ~LaunchedOn(t, e)
                   PROVE  t = x.token /\ e = x.editor
        OBVIOUS
      <4>1. \E j \in Calls : /\ call'[j].pc \in PendingRun
                             /\ call'[j].token = t /\ call'[j].editor = e
        BY <1>0 DEF LaunchedOn
      <4> QED BY <1>1, <1>2, <2>1, <4>1
    <3>2. x.token \in MaybeToken /\ x.token \notin drawn /\ x.token \in drawn'
      BY <2>5 DEF CallRecord
    <3>3. \A e \in Editors : ~LaunchedOn(x.token, e)
      BY <1>0, <3>2 DEF TokenInv
    <3> QED BY <1>0, <3>1, <3>2, <3>3 DEF TokenInv
  <2> QED BY <2>4, <2>5
<1>6. LiveInv'
  BY <1>0 DEF LiveInv, Current
<1>7. CallInv'
  <2>1. ASSUME NEW j \in Calls \ {k} PROVE (Acked(call[j]) /\ Followed(call[j]) /\ Active(call[j]))'
    <3>1. Acked(call[j])
      BY <1>0 DEF CallInv
    <3> QED BY <1>3, <3>1 DEF Acked, Followed, Active
  <2>2. (Acked(call[k]) /\ Followed(call[k]) /\ Active(call[k]))'
    BY <1>1, <1>2 DEF Acked, Followed, Active
  <2> QED BY <2>1, <2>2 DEF CallInv
<1> QED BY <1>4, <1>5, <1>6, <1>7 DEF SuccessInv

LEMMA StartSuccess ==
  ASSUME BridgeInv, SuccessInv, NEW k \in Calls,
         \/ \E g \in Games, e \in Editors, t \in Tokens : RunStart(k, g, e, t)
         \/ \E g \in MaybeGame : StopStart(k, g)
         \/ \E e \in Editors : ExpireStart(k, e)
  PROVE  SuccessInv'
<1> USE DEF IdleCall, CallRecord, CallPCs, MaybeGame, MaybeEditor, MaybeToken
<1>1. ASSUME NEW g \in Games, NEW e \in Editors, NEW t \in Tokens, RunStart(k, g, e, t)
      PROVE  SuccessInv'
  <2> DEFINE x == [IdleCall EXCEPT !.pc = "sweep", !.game = g, !.editor = e, !.token = t]
  <2>1. /\ x \in CallRecord /\ x.pc = "sweep" /\ x.ack = "none" /\ x.token = t
    OBVIOUS
  <2>2. /\ Begin(k, x) /\ t \notin drawn /\ drawn' = drawn \cup {t} /\ wire' = wire
        /\ UNCHANGED <<registryVars, pluginVars, client>>
    BY <1>1 DEF RunStart, runtimeVars
  <2> HIDE DEF x
  <2> QED BY <2>1, <2>2, BeginSuccess
<1>2. ASSUME NEW g \in MaybeGame, StopStart(k, g) PROVE SuccessInv'
  <2> DEFINE x == [IdleCall EXCEPT !.pc = "stopAddress", !.game = g]
  <2>1. x \in CallRecord /\ x.pc = "stopAddress" /\ x.ack = "none"
    OBVIOUS
  <2>2. /\ Begin(k, x) /\ drawn' = drawn /\ wire' = wire
        /\ UNCHANGED <<registryVars, pluginVars, client>>
    BY <1>2 DEF StopStart, runtimeVars
  <2> HIDE DEF x
  <2> QED BY <2>1, <2>2, BeginSuccess
<1>3. ASSUME NEW e \in Editors, ExpireStart(k, e) PROVE SuccessInv'
  <2> DEFINE g == ActiveForEditor(e)
             x == [IdleCall EXCEPT !.pc = IF g = None THEN "expireForget" ELSE "expireSnap",
                                   !.game = g, !.editor = e]
  <2>1. g \in MaybeGame
    BY ActiveIsGame
  <2>2. /\ Begin(k, x) /\ drawn' = drawn /\ wire' = wire
        /\ UNCHANGED <<registryVars, pluginVars, client>>
    BY <1>3 DEF ExpireStart, runtimeVars
  <2> HIDE DEF g
  <2>3. x \in CallRecord /\ x.pc \in {"expireForget", "expireSnap"} /\ x.ack = "none"
    BY <2>1
  <2> HIDE DEF x
  <2> QED BY <2>2, <2>3, BeginSuccess
<1> QED BY <1>1, <1>2, <1>3

-----------------------------------------------------------------------------
(* The plugin and the user                                                 *)

(* The game of a request, and all it was answered, as before.              *)
SameAnswer(x, y) ==
  SameCall(x, y) /\ x.ackGame = y.ackGame /\ x.ackToken = y.ackToken

LEMMA DisturbedFields ==
  ASSUME BridgeInv, call' = Disturbed, NEW j \in Calls
  PROVE  SameAnswer(call'[j], call[j]) /\ ~call'[j].alone
<1>1. call'[j] = Overlapped(call[j], FALSE) /\ call[j] \in CallRecord
  BY DEF Disturbed, Overlapped, BridgeInv, CallsOK
<1> QED BY <1>1 DEF Overlapped, CallRecord, SameAnswer, SameCall

(* A disturbance leaves nothing to show of the requests.                   *)
LEMMA DisturbSuccess ==
  ASSUME BridgeInv, SuccessInv, call' = Disturbed
  PROVE  AloneInv' /\ CallInv'
<1>1. AloneInv'
  BY DisturbedFields DEF AloneInv
<1>2. \A j \in Calls : (Acked(call[j]) /\ Followed(call[j]) /\ Active(call[j]))'
  <2> SUFFICES ASSUME NEW j \in Calls
               PROVE  (Acked(call[j]) /\ Followed(call[j]) /\ Active(call[j]))'
    OBVIOUS
  <2>1. SameAnswer(call'[j], call[j]) /\ ~call'[j].alone /\ Acked(call[j])
    BY DisturbedFields DEF SuccessInv, CallInv
  <2> QED BY <2>1 DEF SameAnswer, SameCall, Acked, Followed, Active
<1> QED BY <1>1, <1>2 DEF CallInv

(* The command of a request is answered: the answer of a run is what the   *)
(* handshake file says now.                                                *)
LEMMA AnswerSuccess ==
  ASSUME BridgeInv, SuccessInv, NEW c \in wire, NEW ack \in {"failed", "ok"},
         NEW g \in MaybeGame, NEW t \in MaybeToken, Answer(c, ack, g, t),
         c.kind = "run" /\ ack = "ok" =>
           handshake'[c.editor].game = g /\ handshake'[c.editor].token = t
  PROVE  /\ AloneInv' /\ CallInv'
         /\ \A j \in Calls : call'[j].pc \in PendingRun =>
              LaunchedOn(call'[j].token, call'[j].editor)
<1>0. /\ AloneInv /\ CallInv /\ WireOK /\ ClaimOK(c) /\ c.kind \in {"run", "stop"}
      /\ call \in [Calls -> CallRecord]
  BY DEF SuccessInv, BridgeInv, WireOK, Command, CallsOK
<1>1. CASE c.caller = None
  <2>1. call' = Disturbed
    BY <1>1 DEF Answer
  <2>2. \A j \in Calls : call'[j].pc \in PendingRun => LaunchedOn(call'[j].token, call'[j].editor)
    BY <2>1, DisturbedFields DEF SameAnswer, SameCall, LaunchedOn
  <2> QED BY <2>1, <2>2, DisturbSuccess
<1>2. CASE c.caller # None
  <2> DEFINE k == c.caller
             x == Answered(call[k], ack, g, t)
  <2>1. k \in Calls /\ call[k] \in CallRecord
    BY <1>0, <1>2, CallerIsCall
  <2>2. call'[k] = x /\ \A j \in Calls \ {k} : call'[j] = call[j]
    BY <1>0, <1>2, <2>1 DEF Answer, Answered
  <2>3. call[k].pc = Waiting(c.kind) /\ c = Sent(k, c.kind)
    BY <1>0, <1>2 DEF ClaimOK
  <2>4. /\ x.pc = call[k].pc /\ x.game = call[k].game /\ x.token = call[k].token
        /\ x.editor = call[k].editor /\ x.ack = ack /\ x.ackGame = g /\ x.ackToken = t
        /\ x.alone = call[k].alone
    BY <2>1 DEF Answered, CallRecord
  <2> HIDE DEF x
  <2>5. x.pc \in {"wait", "stopWait"} /\ (x.pc = "wait" => c.kind = "run") /\ c.editor = x.editor
    BY <1>0, <2>3, <2>4 DEF Waiting, Sent
  <2>6. \A j \in Calls \ {k} : ~call[j].alone
    BY <1>0, <2>1, <2>4, <2>5, OnlyOneAlone DEF Busy
  <2>7. AloneInv'
    BY <1>0, <2>1, <2>2, <2>4 DEF AloneInv, Busy
  <2>8. ASSUME NEW j \in Calls PROVE (Acked(call[j]) /\ Followed(call[j]) /\ Active(call[j]))'
    <3>1. CASE j = k
      BY <2>2, <2>4, <2>5, <3>1 DEF Acked, Followed, Active, RunPCs
    <3>2. CASE j # k
      <4>1. Acked(call[j])
        BY <1>0 DEF CallInv
      <4> QED BY <2>2, <2>6, <3>2, <4>1 DEF Acked, Followed, Active
    <3> QED BY <3>1, <3>2
  <2>9. \A j \in Calls : call'[j].pc \in PendingRun => LaunchedOn(call'[j].token, call'[j].editor)
    BY <2>1, <2>2, <2>4 DEF LaunchedOn
  <2> QED BY <2>7, <2>8, <2>9 DEF CallInv
<1> QED BY <1>1, <1>2

(* Killing the processes of an editor leaves the others current.           *)
LEMMA KilledLive ==
  ASSUME BridgeInv, LiveInv, NEW e \in Editors, client' = Killed(e),
         playing' = [playing EXCEPT ![e] = FALSE],
         \A f \in Editors : /\ handshake'[f].game = handshake[f].game
                            /\ handshake'[f].token = handshake[f].token
                            /\ handshake[f].stopped => handshake'[f].stopped
  PROVE  LiveInv'
<1>1. ASSUME NEW r \in Runtimes, client'[r].alive PROVE Current(r)'
  <2>1. client[r] \in Client /\ (client[r].alive => client[r].home \in Editors)
        /\ playing \in [Editors -> BOOLEAN]
    BY DEF BridgeInv, CompanionsOK, StoresOK
  <2>2. client'[r] = client[r] /\ client[r].alive /\ client[r].home # e
    BY <1>1, <2>1 DEF Killed, Processes, Client
  <2> QED BY <2>1, <2>2 DEF LiveInv, Current
<1> QED BY <1>1 DEF LiveInv

LEMMA PluginSuccess ==
  ASSUME BridgeInv, SuccessInv, NEW c \in wire, PluginRun(c) \/ PluginStop(c)
  PROVE  SuccessInv'
<1>0. /\ StoresOK /\ CompanionsOK /\ c \in Command /\ ClaimOK(c) /\ TokenInv /\ LiveInv
      /\ c.editor \in Editors /\ c.game \in MaybeGame /\ c.token \in MaybeToken
      /\ handshake[c.editor] \in Handshake /\ handshake \in [Editors -> Handshake]
      /\ playing \in [Editors -> BOOLEAN]
      /\ \A r \in Runtimes : client[r].alive => client[r].home \in Editors
  BY DEF BridgeInv, WireOK, Command, StoresOK, SuccessInv, CompanionsOK
<1>a. handshake[c.editor].game \in MaybeGame /\ handshake[c.editor].token \in MaybeToken
  BY <1>0 DEF Handshake
<1>b. None \in MaybeGame /\ None \in MaybeToken
  BY DEF MaybeGame, MaybeToken
<1>w. \A d \in wire : d.kind = "run" => LaunchedOn(d.token, d.editor)
  BY DEF LaunchedOn
<1>h. \A e \in Editors : handshake[e].game # None => LaunchedOn(handshake[e].token, e)
  BY DEF LaunchedOn
<1>1. CASE PluginRun(c)
  <2> DEFINE e == c.editor
             attach == playing[e] /\ handshake[e].game # None
             g == IF attach THEN handshake[e].game ELSE c.game
             t == IF attach THEN handshake[e].token ELSE c.token
  <2>1. g \in Games /\ g \in MaybeGame /\ t \in MaybeToken /\ c.kind = "run" /\ g # None
    BY <1>0, <1>1, <1>a, NoneIsNoId DEF ClaimOK, PluginRun, MaybeGame
  <2>2. /\ wire' = wire \ {c}
        /\ \/ /\ Answer(c, "ok", g, t)
              /\ handshake' = [handshake EXCEPT ![e] = [game |-> g, token |-> t, stopped |-> FALSE]]
              /\ playing' = [playing EXCEPT ![e] = TRUE]
           \/ Answer(c, "failed", None, None) /\ UNCHANGED pluginVars
        /\ drawn' = drawn /\ client' = client
    BY <1>1 DEF PluginRun, runtimeVars
  <2>3. attach => g = handshake[e].game /\ t = handshake[e].token
    OBVIOUS
  <2>4. ~attach => ~playing[e] \/ handshake[e].game = None
    OBVIOUS
  <2>5. LaunchedOn(t, e)
    <3>1. CASE attach
      <4>1. t = handshake[e].token
        BY <3>1
      <4> QED BY <1>0, <1>h, <3>1, <4>1
    <3>2. CASE ~attach
      BY <1>w, <2>1, <3>2
    <3> QED BY <3>1, <3>2
  <2> HIDE DEF g, t, attach
  <2>6. CASE Answer(c, "failed", None, None) /\ UNCHANGED pluginVars
    <3>1. /\ AloneInv' /\ CallInv'
          /\ \A j \in Calls : call'[j].pc \in PendingRun =>
               LaunchedOn(call'[j].token, call'[j].editor)
      BY <1>b, <2>6, AnswerSuccess
    <3>2. TokenInv'
      BY <1>0, <1>w, <1>h, <2>2, <2>6, <3>1, TokenKept DEF pluginVars
    <3>3. LiveInv'
      BY <1>0, <2>2, <2>6 DEF LiveInv, Current, pluginVars
    <3> QED BY <3>1, <3>2, <3>3 DEF SuccessInv
  <2>7. CASE /\ Answer(c, "ok", g, t)
             /\ handshake' = [handshake EXCEPT ![e] = [game |-> g, token |-> t, stopped |-> FALSE]]
             /\ playing' = [playing EXCEPT ![e] = TRUE]
    <3>1. /\ handshake'[e].game = g /\ handshake'[e].token = t
          /\ \A f \in Editors \ {e} : handshake'[f] = handshake[f]
      BY <1>0, <2>7
    <3>2. /\ AloneInv' /\ CallInv'
          /\ \A j \in Calls : call'[j].pc \in PendingRun =>
               LaunchedOn(call'[j].token, call'[j].editor)
      BY <2>1, <2>7, <3>1, AnswerSuccess
    <3>3. \A f \in Editors : handshake'[f].game # None => LaunchedOn(handshake'[f].token, f)
      BY <1>h, <2>5, <3>1
    <3>4. TokenInv'
      BY <1>0, <1>w, <2>2, <3>2, <3>3, TokenKept
    <3>5. LiveInv'
      <4>1. ASSUME NEW r \in Runtimes, client'[r].alive PROVE Current(r)'
        <5>1. client[r].alive /\ Current(r) /\ client[r].home \in Editors
          BY <1>0, <2>2, <4>1 DEF LiveInv
        <5>2. CASE client[r].home = e
          <6>1. attach
            BY <2>4, <5>1, <5>2 DEF Current, attach
          <6> QED BY <1>0, <2>2, <2>3, <2>7, <3>1, <5>1, <5>2, <6>1 DEF Current
        <5>3. CASE client[r].home # e
          BY <1>0, <2>2, <2>7, <3>1, <5>1, <5>3 DEF Current
        <5> QED BY <5>2, <5>3
      <4>2. \A f \in Editors : handshake'[f].game = None => handshake'[f].stopped
        BY <1>0, <2>1, <3>1 DEF LiveInv
      <4> QED BY <4>1, <4>2 DEF LiveInv
    <3> QED BY <3>2, <3>4, <3>5 DEF SuccessInv
  <2> QED BY <2>2, <2>6, <2>7
<1>2. CASE PluginStop(c)
  <2> DEFINE g == IF handshake[c.editor].stopped THEN c.game ELSE handshake[c.editor].game
  <2>1. g \in MaybeGame
    BY <1>0, <1>a
  <2>2. /\ c.kind = "stop" /\ wire' = wire \ {c}
        /\ Answer(c, "ok", g, None)
        /\ handshake' = [handshake EXCEPT ![c.editor].stopped = TRUE]
        /\ playing' = [playing EXCEPT ![c.editor] = FALSE]
        /\ client' = Killed(c.editor) /\ drawn' = drawn
    BY <1>2 DEF PluginStop
  <2> HIDE DEF g
  <2>3. /\ AloneInv' /\ CallInv'
        /\ \A j \in Calls : call'[j].pc \in PendingRun =>
             LaunchedOn(call'[j].token, call'[j].editor)
    BY <1>b, <2>1, <2>2, AnswerSuccess
  <2>4. \A f \in Editors : /\ handshake'[f].game = handshake[f].game
                           /\ handshake'[f].token = handshake[f].token
                           /\ handshake[f].stopped => handshake'[f].stopped
    <3>1. handshake' = [handshake EXCEPT ![c.editor] = [handshake[c.editor] EXCEPT !.stopped = TRUE]]
      BY <2>2
    <3> QED BY <1>0, <3>1 DEF Handshake
  <2>5. TokenInv'
    BY <1>0, <1>w, <1>h, <2>2, <2>3, <2>4, TokenKept
  <2>6. LiveInv'
    BY <1>0, <2>2, <2>4, KilledLive
  <2> QED BY <2>3, <2>5, <2>6 DEF SuccessInv
<1> QED BY <1>1, <1>2

-----------------------------------------------------------------------------
(* The user, the games and their companions                                *)

(* A step of theirs leaves the requests, the wire and the handshakes.      *)
LEMMA OutsideSuccess ==
  ASSUME BridgeInv, SuccessInv, LiveInv', call' = call,
         UNCHANGED <<wire, drawn, handshake>>,
         \A k \in Calls : call[k].alone /\ call[k].pc \in {"await", "succeeded"} =>
           ActiveNext(call[k])
  PROVE  SuccessInv'
<1>1. AloneInv'
  BY DEF SuccessInv, AloneInv, Busy
<1>2. TokenInv'
  BY DEF SuccessInv, TokenInv, LaunchedOn
<1>3. CallInv'
  BY DEF SuccessInv, CallInv, Acked, Followed, Active, ActiveGame, ActiveNext
<1> QED BY <1>1, <1>2, <1>3 DEF SuccessInv

LEMMA RegistryKeepsActive ==
  ASSUME SuccessInv, UNCHANGED registryVars, NEW k \in Calls, call[k].alone,
         call[k].pc \in {"await", "succeeded"}
  PROVE  ActiveNext(call[k])
  BY DEF SuccessInv, CallInv, Active, ActiveGame, ActiveNext, registryVars

LEMMA UserSuccess ==
  ASSUME BridgeInv, SuccessInv, NEW e \in Editors,
         UserPlays(e) \/ GameExits(e) \/ \E r \in Runtimes : Boot(r, e)
  PROVE  SuccessInv'
<1>0. /\ LiveInv /\ playing \in [Editors -> BOOLEAN] /\ client \in [Runtimes -> Client]
      /\ \A r \in Runtimes : client[r].alive => client[r].home \in Editors
  BY DEF SuccessInv, BridgeInv, StoresOK, CompanionsOK
<1>1. CASE UserPlays(e)
  <2>1. LiveInv'
    BY <1>0, <1>1 DEF UserPlays, LiveInv, Current, runtimeVars
  <2> QED BY <1>1, <2>1, RegistryKeepsActive, OutsideSuccess DEF UserPlays
<1>2. CASE GameExits(e)
  <2>1. LiveInv'
    BY <1>0, <1>2, KilledLive DEF GameExits
  <2> QED BY <1>2, <2>1, RegistryKeepsActive, OutsideSuccess DEF GameExits
<1>3. ASSUME NEW r \in Runtimes, Boot(r, e) PROVE SuccessInv'
  <2> DEFINE x == [home |-> e, alive |-> TRUE, game |-> handshake[e].game,
                   token |-> handshake[e].token]
  <2>1. /\ playing[e] /\ ~handshake[e].stopped /\ client'[r] = x
        /\ \A q \in Runtimes \ {r} : client'[q] = client[q]
        /\ handshake' = handshake /\ playing' = playing
    BY <1>0, <1>3 DEF Boot, pluginVars
  <2>2. LiveInv'
    BY <1>0, <2>1 DEF LiveInv, Current
  <2> QED BY <1>3, <2>2, RegistryKeepsActive, OutsideSuccess DEF Boot, pluginVars
<1> QED BY <1>1, <1>2, <1>3

(* A registration that is not late, and comes while a run is successful    *)
(* and undisturbed, is of the launch of this run, or of another game on    *)
(* another editor.                                                         *)
LEMMA RegistrationInTime ==
  ASSUME BridgeInv, SuccessInv, NEW r \in Runtimes, push[r] = "register", ~Late(r),
         NEW k \in Calls, call[k].alone, call[k].pc \in {"await", "succeeded"}
  PROVE  \/ /\ client[r].game = call[k].game /\ client[r].home = call[k].editor
            /\ client[r].token = call[k].token
         \/ client[r].game # call[k].game /\ client[r].home # call[k].editor
<1> DEFINE h == client[r].home
           e == call[k].editor
<1>1. /\ Current(r) /\ h \in Editors
      /\ client[r].game \in known /\ session[client[r].game].token = client[r].token
  BY DEF SuccessInv, LiveInv, Late, MatchesLaunchToken, BridgeInv, CompanionsOK
<1>2. /\ call[k].pc \in RunPCs /\ e \in Editors /\ call[k].game \in Games /\ call[k].game # None
      /\ call[k].token \in MaybeToken
  BY RunOwnGame, NoneIsNoId DEF RunPCs
<1>3. /\ ActiveGame(call[k])
      /\ handshake[e].game = call[k].game /\ handshake[e].token = call[k].token
  BY <1>2 DEF SuccessInv, CallInv, Active, Acked, Followed
<1>4. CASE h = e
  BY <1>1, <1>3, <1>4 DEF Current
<1>5. CASE client[r].game = call[k].game
  <2>1. handshake[h].token = call[k].token /\ handshake[h].game # None
    BY <1>1, <1>3, <1>5 DEF Current, ActiveGame
  <2>2. LaunchedOn(call[k].token, h) /\ LaunchedOn(call[k].token, e)
    BY <1>2, <1>3, <2>1 DEF LaunchedOn
  <2>3. h = e
    BY <1>1, <1>2, <2>2 DEF SuccessInv, TokenInv
  <2> QED BY <1>4, <2>3
<1> QED BY <1>4, <1>5

(* A registration with the token the session has leaves it that token.     *)
LEMMA AttachedToken ==
  ASSUME NEW s \in GameSession, NEW r \in Runtimes, NEW e \in Editors, NEW t \in MaybeToken,
         s.token = t
  PROVE  Attached(s, r, e, t).running /\ Attached(s, r, e, t).token = t
<1>1. /\ Launched(s, e, t) \in GameSession /\ Launched(s, e, t).running
      /\ Launched(s, e, t).token = t
  BY DEF Launched, GameSession, OrElse, MaybeToken
<1> QED BY <1>1 DEF Attached, GameSession

LEMMA RegisterSuccess ==
  ASSUME BridgeInv, SuccessInv, NEW r \in Runtimes, RegisterBind(r)
  PROVE  SuccessInv'
<1>0. /\ push[r] = "register" /\ client' = client /\ wire' = wire /\ drawn' = drawn
      /\ handshake' = handshake /\ playing' = playing
      /\ RegisterRuntimeTransport(client[r].game, r, client[r].home, client[r].token)
      /\ call' = IF Late(r) THEN Disturbed ELSE call
  BY DEF RegisterBind, PushStep, pluginVars
<1>1. LiveInv'
  BY <1>0 DEF SuccessInv, LiveInv, Current
<1>2. CASE Late(r)
  <2>1. AloneInv' /\ CallInv'
    BY <1>0, <1>2, DisturbSuccess
  <2>2. \A j \in Calls : call'[j].pc \in PendingRun => LaunchedOn(call'[j].token, call'[j].editor)
    BY <1>0, <1>2, DisturbedFields DEF SameAnswer, SameCall, LaunchedOn
  <2>3. /\ \A c \in wire' : c.kind = "run" => LaunchedOn(c.token, c.editor)
        /\ \A e \in Editors : handshake'[e].game # None => LaunchedOn(handshake'[e].token, e)
    BY <1>0 DEF LaunchedOn
  <2>4. TokenInv'
    BY <1>0, <2>2, <2>3, TokenKept DEF SuccessInv
  <2> QED BY <1>1, <2>1, <2>4 DEF SuccessInv
<1>3. CASE ~Late(r)
  <2>1. ASSUME NEW k \in Calls, call[k].alone, call[k].pc \in {"await", "succeeded"}
        PROVE  ActiveNext(call[k])
    <3> DEFINE h == client[r].game
               f == client[r].home
               g == call[k].game
               e == call[k].editor
    <3>1. /\ session \in [Games -> GameSession] /\ h \in Games /\ f \in Editors /\ f # None
          /\ g \in Games /\ e \in Editors
          /\ byEditor \in [Editors -> Games \cup {None}]
      BY <1>0, <2>1, RunOwnGame, NoneIsNoId
         DEF BridgeInv, RegistryInv, RegistryTypeOK, CompanionsOK, RunPCs
    <3>2. ActiveGame(call[k])
      BY <2>1 DEF SuccessInv, CallInv, Active
    <3>3. /\ known' = known \cup {h} /\ byEditor' = RebindEditor(h, f)
          /\ session'[h] = Attached(session[h], r, f, client[r].token)
          /\ \A x \in Games \ {h} : session'[x] \in {session[x], Detached(session[x])}
      BY <1>0, <3>1 DEF RegisterRuntimeTransport
    <3>4. CASE h = g /\ f = e /\ client[r].token = call[k].token
      <4>1. session'[g].running /\ session'[g].token = call[k].token
        <5>1. call[k].token \in MaybeToken /\ session[g] \in GameSession
          BY <2>1, <3>1, RunOwnGame DEF RunPCs
        <5> QED BY <3>1, <3>2, <3>3, <3>4, <5>1, AttachedToken DEF ActiveGame
      <4>2. byEditor'[e] = g
        BY <3>1, <3>3, <3>4 DEF RebindEditor
      <4> QED BY <3>3, <3>4, <4>1, <4>2 DEF ActiveNext
    <3>5. CASE h # g /\ f # e
      <4>1. session'[g].running /\ session'[g].token = call[k].token
        BY <3>1, <3>2, <3>3, <3>5 DEF Detached, GameSession, ActiveGame
      <4>2. byEditor'[e] = g
        BY <3>1, <3>2, <3>3, <3>5 DEF RebindEditor, ActiveGame
      <4> QED BY <3>2, <3>3, <4>1, <4>2 DEF ActiveNext, ActiveGame
    <3> QED BY <1>0, <1>3, <2>1, <3>4, <3>5, RegistrationInTime
  <2> QED BY <1>0, <1>1, <1>3, <2>1, OutsideSuccess
<1> QED BY <1>2, <1>3

LEMMA CompanionSuccess ==
  ASSUME BridgeInv, SuccessInv, NEW r \in Runtimes, Companion(r)
  PROVE  SuccessInv'
<1>0. LiveInv /\ CompanionsOK
  BY DEF SuccessInv, BridgeInv
<1>1. CASE RegisterRefused(r)
  <2> DEFINE h == handshake[client[r].home]
  <2>1. /\ client[r].alive
        /\ client' = [client EXCEPT ![r] = [client[r] EXCEPT !.game = h.game, !.token = h.token]]
        /\ handshake' = handshake /\ playing' = playing
    BY <1>1 DEF RegisterRefused, pluginVars
  <2>2. client[r] \in Client /\ client[r].game = h.game /\ client[r].token = h.token
    BY <1>0, <2>1 DEF LiveInv, Current, CompanionsOK
  <2> HIDE DEF h
  <2>3. client' = client
    BY <1>0, <2>1, <2>2 DEF CompanionsOK, Client
  <2>4. LiveInv'
    BY <1>0, <2>1, <2>3 DEF LiveInv, Current
  <2> QED BY <1>1, <2>1, <2>4, RegistryKeepsActive, OutsideSuccess DEF RegisterRefused
<1>2. CASE SnapshotMark(r)
  <2>1. /\ client[r].game \in Games /\ UNCHANGED <<call, wire, drawn, pluginVars, client>>
        /\ MarkSnapshotReceived(client[r].game)
    BY <1>0, <1>2 DEF SnapshotMark, PushStep, CompanionsOK
  <2>2. LiveInv'
    BY <1>0, <2>1 DEF LiveInv, Current, pluginVars
  <2>3. ASSUME NEW k \in Calls, call[k].alone, call[k].pc \in {"await", "succeeded"}
        PROVE  ActiveNext(call[k])
    <3>1. ActiveGame(call[k]) /\ call[k].game \in Games /\ session \in [Games -> GameSession]
      BY <2>3, RunOwnGame DEF SuccessInv, CallInv, Active, RunPCs, BridgeInv, RegistryInv,
                              RegistryTypeOK
    <3>2. \A g \in Games : session'[g] \in {session[g], Observed(session[g])}
      BY <2>1, <3>1 DEF MarkSnapshotReceived
    <3>3. session'[call[k].game].running /\ session'[call[k].game].token = call[k].token
      BY <3>1, <3>2 DEF Observed, GameSession, ActiveGame
    <3> QED BY <2>1, <3>1, <3>3 DEF ActiveNext, ActiveGame, MarkSnapshotReceived
  <2> QED BY <2>1, <2>2, <2>3, OutsideSuccess DEF pluginVars
<1>3. CASE UNCHANGED <<registryVars, call, wire, drawn, pluginVars, client>>
  <2>1. LiveInv'
    BY <1>0, <1>3 DEF LiveInv, Current, pluginVars
  <2> QED BY <1>3, <2>1, RegistryKeepsActive, OutsideSuccess DEF pluginVars
<1> QED
  BY <1>1, <1>2, <1>3, RegisterSuccess
  DEF Companion, PushBegins, RegisterCheck, SnapshotCheck, SnapshotStore, LogCheck, LogStore

LEMMA SuccessInit == BridgeInit => SuccessInv
<1> SUFFICES ASSUME BridgeInit PROVE SuccessInv
  OBVIOUS
<1>1. IdleCall.pc = "idle" /\ ~IdleCall.alone /\ IdleCall.ack = "none"
  BY DEF IdleCall
<1>2. AloneInv /\ CallInv
  BY <1>1 DEF BridgeInit, AloneInv, CallInv, Acked, Followed, Active
<1>3. TokenInv
  BY <1>1 DEF BridgeInit, TokenInv, LaunchedOn, PendingRun
<1>4. LiveInv
  BY DEF BridgeInit, LiveInv
<1> QED BY <1>2, <1>3, <1>4 DEF SuccessInv

LEMMA SuccessStep == BridgeInv /\ SuccessInv /\ [BridgeNext]_vars => SuccessInv'
<1> SUFFICES ASSUME BridgeInv, SuccessInv, [BridgeNext]_vars PROVE SuccessInv'
  OBVIOUS
<1>1. CASE UNCHANGED vars
  <2>1. LiveInv'
    BY <1>1 DEF vars, SuccessInv, LiveInv, Current, pluginVars, runtimeVars
  <2> QED BY <1>1, <2>1, RegistryKeepsActive, OutsideSuccess DEF vars, pluginVars
<1> QED
  BY <1>1, StartSuccess, RunSuccess, EndSuccess, PluginSuccess, UserSuccess, CompanionSuccess
  DEF BridgeNext

(* What the proof of RunSuccessIsActive rests on: requests that are alone, *)
(* tokens of one editor each, processes of the latest launch, and answers  *)
(* the handshake file still bears out.                                     *)
THEOREM SuccessInvariant == BridgeSpec => []SuccessInv
<1> QED BY SuccessInit, SuccessStep, BridgeInvariant, PTL DEF BridgeSpec

(* A run that succeeds with no other request and no late registration in   *)
(* the way leaves its game the running one of its editor, for any number   *)
(* of editors, games and processes that register and push meanwhile.       *)
THEOREM SuccessMakesActive == BridgeSpec => []RunSuccessIsActive
<1>1. BridgeInv /\ SuccessInv => RunSuccessIsActive
  <2> SUFFICES ASSUME BridgeInv, SuccessInv, NEW k \in Calls, call[k].pc = "succeeded",
                      call[k].alone
               PROVE  ActiveForEditor(call[k].editor) = call[k].game
    BY DEF RunSuccessIsActive
  <2>1. call[k].editor \in Editors /\ call[k].editor # None
    BY RunOwnGame, NoneIsNoId DEF RunPCs
  <2>2. ActiveGame(call[k])
    BY DEF SuccessInv, CallInv, Active
  <2> QED BY <2>1, <2>2 DEF ActiveGame, ActiveForEditor
<1> QED BY <1>1, BridgeInvariant, SuccessInvariant, PTL

(* The process that plays for the editor of such a run can register, at    *)
(* once or late: attach and remap keep the effective launch token.         *)
THEOREM LaunchStaysAccepted == BridgeSpec => []LaunchIsAccepted
<1>1. BridgeInv /\ SuccessInv => LaunchIsAccepted
  <2> SUFFICES ASSUME BridgeInv, SuccessInv, NEW k \in Calls,
                      call[k].pc \in {"await", "succeeded"}, call[k].alone,
                      NEW r \in Processes(call[k].editor)
               PROVE  MatchesLaunchToken(client[r].game, client[r].token)
    BY DEF LaunchIsAccepted
  <2>1. client[r].home = call[k].editor /\ Current(r)
    BY DEF SuccessInv, LiveInv, Processes
  <2>2. /\ call[k].ackGame = call[k].game /\ call[k].ackToken = call[k].token
        /\ handshake[call[k].editor].game = call[k].ackGame
        /\ handshake[call[k].editor].token = call[k].ackToken
    BY DEF SuccessInv, CallInv, Acked, Followed, RunPCs
  <2>3. call[k].game \in known /\ session[call[k].game].token = call[k].token
    BY DEF SuccessInv, CallInv, Active, ActiveGame
  <2> QED BY <2>1, <2>2, <2>3 DEF Current, MatchesLaunchToken
<1> QED BY <1>1, BridgeInvariant, SuccessInvariant, PTL
=============================================================================
