--------------------------- MODULE CommandBroker ---------------------------
(***************************************************************************)
(* runtimebridge/command_broker.go: the round trip of a command from a     *)
(* tool call in the server to a Godot plugin and back.  DispatchAndWait    *)
(* runs in the goroutine of the caller's HTTP request; Ack runs in the     *)
(* goroutine of another request, made by the plugin.  They share the       *)
(* pending table (one mutex), one buffered channel per command, and the    *)
(* metrics (a mutex of their own).                                         *)
(***************************************************************************)
EXTENDS Naturals, FiniteSets

CONSTANTS Commands,   \* calls of DispatchAndWait; each draws a fresh command id
          Sessions,   \* MCP sessions a command may be sent to
          Acks,       \* calls of godot.bridge.command.ack
          None        \* no session, no acknowledgement, no command

ASSUME NoneAssumption == None \notin Commands \cup Sessions \cup Acks

VARIABLES
  pc,         \* pc[c]: where DispatchAndWait(c) is
  target,     \* target[c]: its sessionID argument
  pending,    \* pending[c]: session of the entry of c in the table, None: no entry
  wire,       \* commands whose notification reached the client's stream
  timer,      \* timer[c]: "off", "armed" or "fired" (a tick waits in timer.C)
  channel,    \* channel[c]: the acknowledgement buffered in resultCh, or None
  answer,     \* answer[c]: the acknowledgement DispatchAndWait received, or None
  outcome,    \* outcome[c]: "open", then what DispatchAndWait returned
  ackPc,      \* ackPc[a]: where Ack(a) is
  ackFrom,    \* ackFrom[a]: the calling session
  ackOf,      \* ackOf[a]: the command id presented
  metrics     \* dispatchTotal, ackedTotal, timeoutTotal, transportErrorTotal

dispatchVars == <<pc, target, timer, answer, outcome>>
ackVars == <<ackPc, ackFrom, ackOf>>
vars == <<pc, target, pending, wire, timer, channel, answer, outcome,
          ackPc, ackFrom, ackOf, metrics>>

PCs == {"idle", "counting", "sending", "waiting", "dropSend", "failSend",
        "dropTimeout", "failTimeout", "gotAck", "returned"}
AckPCs == {"idle", "offering", "accepted", "rejected"}
Outcomes == {"acked", "timeout", "unreachable"}
Counters == {"dispatch", "acked", "timeout", "transportError"}

TypeOK ==
  /\ pc \in [Commands -> PCs]
  /\ target \in [Commands -> Sessions \cup {None}]
  /\ pending \in [Commands -> Sessions \cup {None}]
  /\ wire \subseteq Commands
  /\ timer \in [Commands -> {"off", "armed", "fired"}]
  /\ channel \in [Commands -> Acks \cup {None}]
  /\ answer \in [Commands -> Acks \cup {None}]
  /\ outcome \in [Commands -> Outcomes \cup {"open"}]
  /\ ackPc \in [Acks -> AckPCs]
  /\ ackFrom \in [Acks -> Sessions \cup {None}]
  /\ ackOf \in [Acks -> Commands \cup {None}]
  /\ metrics \in [Counters -> Nat]

Init ==
  /\ pc = [c \in Commands |-> "idle"]
  /\ target = [c \in Commands |-> None]
  /\ pending = [c \in Commands |-> None]
  /\ wire = {}
  /\ timer = [c \in Commands |-> "off"]
  /\ channel = [c \in Commands |-> None]
  /\ answer = [c \in Commands |-> None]
  /\ outcome = [c \in Commands |-> "open"]
  /\ ackPc = [a \in Acks |-> "idle"]
  /\ ackFrom = [a \in Acks |-> None]
  /\ ackOf = [a \in Acks |-> None]
  /\ metrics = [k \in Counters |-> 0]

\* Mutant: a counter is stepped the wrong way.
Count_Down(k) == metrics' = [metrics EXCEPT ![k] = @ - 1]

Count(k) == metrics' = [metrics EXCEPT ![k] = @ + 1]
Goto(c, from, to) == pc[c] = from /\ pc' = [pc EXCEPT ![c] = to]

-----------------------------------------------------------------------------
(* DispatchAndWait                                                         *)

(* A fresh command id and its waiter enter the pending table.              *)
Register(c, s) ==
  /\ Goto(c, "idle", "counting")
  /\ target' = [target EXCEPT ![c] = s]
  /\ pending' = [pending EXCEPT ![c] = s]
  /\ UNCHANGED <<wire, timer, channel, answer, outcome, ackVars, metrics>>

CountDispatch(c) ==
  /\ Goto(c, "counting", "sending")
  /\ Count("dispatch")
  /\ UNCHANGED <<target, pending, wire, timer, channel, answer, outcome, ackVars>>

(* The bytes of the notification reach the client while sendToSession is   *)
(* still running: from here on the plugin can answer.                      *)
Deliver(c) ==
  /\ pc[c] = "sending"
  /\ c \notin wire
  /\ wire' = wire \cup {c}
  /\ UNCHANGED <<dispatchVars, pending, channel, ackVars, metrics>>

\* Mutant: the wait starts without a timer.
SendSucceeds_NoTimer(c) ==
  /\ Goto(c, "sending", "waiting")
  /\ c \in wire
  /\ UNCHANGED <<target, pending, wire, timer, channel, answer, outcome, ackVars, metrics>>

(* sendToSession returns true: the write and the flush succeeded, and the  *)
(* timer is created.                                                       *)
SendSucceeds(c) ==
  /\ Goto(c, "sending", "waiting")
  /\ c \in wire
  /\ timer' = [timer EXCEPT ![c] = "armed"]
  /\ UNCHANGED <<target, pending, wire, channel, answer, outcome, ackVars, metrics>>

(* sendToSession returns false: no sender, no bound stream, or an error,   *)
(* which may come after the bytes left (a flush or deadline error).        *)
SendFails(c) ==
  /\ Goto(c, "sending", "dropSend")
  /\ UNCHANGED <<target, pending, wire, timer, channel, answer, outcome, ackVars, metrics>>

TimerFires(c) ==
  /\ timer[c] = "armed"
  /\ timer' = [timer EXCEPT ![c] = "fired"]
  /\ UNCHANGED <<pc, target, pending, wire, channel, answer, outcome, ackVars, metrics>>

(* select: when both the channel and the timer are ready, either is taken. *)
ReceiveAck(c) ==
  /\ Goto(c, "waiting", "gotAck")
  /\ channel[c] # None
  /\ answer' = [answer EXCEPT ![c] = channel[c]]
  /\ channel' = [channel EXCEPT ![c] = None]
  /\ UNCHANGED <<target, pending, wire, timer, outcome, ackVars, metrics>>

ReceiveTimeout(c) ==
  /\ Goto(c, "waiting", "dropTimeout")
  /\ timer[c] = "fired"
  /\ timer' = [timer EXCEPT ![c] = "off"]
  /\ UNCHANGED <<target, pending, wire, channel, answer, outcome, ackVars, metrics>>

\* Mutant: the entry is left in the table.
Remove_Forgotten(c) == c \in Commands /\ UNCHANGED pending

(* The two failure paths: drop the table entry, count, return.             *)
Remove(c) == pending' = [pending EXCEPT ![c] = None]

DropSend(c) ==
  /\ Goto(c, "dropSend", "failSend")
  /\ Remove(c)
  /\ UNCHANGED <<target, wire, timer, channel, answer, outcome, ackVars, metrics>>

\* Mutant: only the transport failure cleans the table.
DropTimeout_KeepsEntry(c) ==
  /\ Goto(c, "dropTimeout", "failTimeout")
  /\ UNCHANGED <<target, pending, wire, timer, channel, answer, outcome, ackVars, metrics>>

DropTimeout(c) ==
  /\ Goto(c, "dropTimeout", "failTimeout")
  /\ Remove(c)
  /\ UNCHANGED <<target, wire, timer, channel, answer, outcome, ackVars, metrics>>

(* Counting the outcome and returning it; the deferred timer.Stop runs.    *)
Return(c, from, counter, o) ==
  /\ Goto(c, from, "returned")
  /\ Count(counter)
  /\ outcome' = [outcome EXCEPT ![c] = o]
  /\ timer' = [timer EXCEPT ![c] = "off"]
  /\ UNCHANGED <<target, pending, wire, channel, answer, ackVars>>

ReturnUnreachable(c) == Return(c, "failSend", "transportError", "unreachable")
\* Mutant: an expired command is counted as a second dispatch.
ReturnTimeout_Miscounted(c) == Return(c, "failTimeout", "dispatch", "timeout")
ReturnTimeout(c) == Return(c, "failTimeout", "timeout", "timeout")
ReturnAcked(c) == Return(c, "gotAck", "acked", "acked")

-----------------------------------------------------------------------------
(* Ack.  The id of a command is known once its notification was delivered; *)
(* any session may then present it, more than once and at any later time.  *)

Present(a, s, c, to) ==
  /\ ackPc[a] = "idle"
  /\ c \in wire
  /\ ackPc' = [ackPc EXCEPT ![a] = to]
  /\ ackFrom' = [ackFrom EXCEPT ![a] = s]
  /\ ackOf' = [ackOf EXCEPT ![a] = c]

\* Mutant: the entry is looked up but not deleted.
AckTake_NoDelete(a, s, c) ==
  /\ pending[c] = s
  /\ Present(a, s, c, "offering")
  /\ UNCHANGED <<dispatchVars, pending, wire, channel, metrics>>

\* Mutant: the session of the entry is not compared.
AckTake_AnySession(a, s, c) ==
  /\ pending[c] # None
  /\ Present(a, s, c, "offering")
  /\ Remove(c)
  /\ UNCHANGED <<dispatchVars, wire, channel, metrics>>

(* Under the mutex: the entry exists and is of this session; it goes.      *)
AckTake(a, s, c) ==
  /\ pending[c] = s
  /\ Present(a, s, c, "offering")
  /\ Remove(c)
  /\ UNCHANGED <<dispatchVars, wire, channel, metrics>>

(* No entry, or the entry of another session: unknown_or_expired_command.  *)
AckReject(a, s, c) ==
  /\ pending[c] # s
  /\ Present(a, s, c, "rejected")
  /\ UNCHANGED <<dispatchVars, pending, wire, channel, metrics>>

(* The non-blocking send on the waiter's channel, after the unlock.        *)
AckOffer(a) ==
  /\ ackPc[a] = "offering"
  /\ LET c == ackOf[a] IN
     IF channel[c] = None
       THEN /\ channel' = [channel EXCEPT ![c] = a]
            /\ ackPc' = [ackPc EXCEPT ![a] = "accepted"]
       ELSE /\ ackPc' = [ackPc EXCEPT ![a] = "rejected"]
            /\ UNCHANGED channel
  /\ UNCHANGED <<dispatchVars, pending, wire, ackFrom, ackOf, metrics>>

-----------------------------------------------------------------------------
(* The steps of DispatchAndWait that do not wait for another actor.        *)
Dispatcher(c) ==
  \/ CountDispatch(c)
  \/ Deliver(c)
  \/ SendSucceeds(c)
  \/ SendFails(c)
  \/ ReceiveAck(c)
  \/ ReceiveTimeout(c)
  \/ DropSend(c)
  \/ DropTimeout(c)
  \/ ReturnUnreachable(c)
  \/ ReturnTimeout(c)
  \/ ReturnAcked(c)

Next ==
  \/ \E c \in Commands, s \in Sessions : Register(c, s)
  \/ \E c \in Commands : Dispatcher(c)
  \/ \E c \in Commands : TimerFires(c)
  \/ \E a \in Acks, s \in Sessions, c \in Commands : AckTake(a, s, c) \/ AckReject(a, s, c)
  \/ \E a \in Acks : AckOffer(a)

(* The Go scheduler runs a goroutine that can run, and a timer expires.    *)
(* Neither a caller nor a plugin is obliged to call anything.              *)
Fairness ==
  /\ \A c \in Commands : WF_vars(Dispatcher(c)) /\ WF_vars(TimerFires(c))
  /\ \A a \in Acks : WF_vars(AckOffer(a))

Spec == Init /\ [][Next]_vars /\ Fairness

-----------------------------------------------------------------------------
(* Properties                                                              *)

Open == {"counting", "sending", "waiting", "dropSend", "dropTimeout"}
Taken(c) == {a \in Acks : ackOf[a] = c /\ ackPc[a] \in {"offering", "accepted"}}

(* The table holds an entry for exactly the commands somebody can still    *)
(* answer: an entry belongs to a call that has not finished, and to the    *)
(* session it addressed (nothing leaks); a call that waits has its entry,  *)
(* or an acknowledgement being offered, or one in its channel (no answer   *)
(* is refused early and no wakeup is lost).                                *)
TableExact ==
  \A c \in Commands :
    /\ pending[c] # None => pending[c] = target[c] /\ pc[c] \in Open
    /\ pc[c] = "waiting" =>
         \/ pending[c] # None
         \/ channel[c] # None
         \/ \E a \in Taken(c) : ackPc[a] = "offering"

(* However often an id is presented, one acknowledgement at most passes    *)
(* the table, it comes from the session the command was sent to, and its   *)
(* non-blocking send always finds the buffer free: Ack never loses it.     *)
OneTaker ==
  \A c \in Commands :
    /\ \A a, b \in Taken(c) : a = b
    /\ \A a \in Taken(c) :
         /\ ackFrom[a] = target[c]
         /\ pending[c] = None
         /\ ackPc[a] = "offering" => channel[c] = None

(* What DispatchAndWait returns as acknowledged is the acknowledgement the *)
(* addressed session made for this very command.                           *)
AnswerIsGenuine ==
  \A c \in Commands :
    outcome[c] = "acked" =>
      /\ answer[c] \in Acks
      /\ ackOf[answer[c]] = c
      /\ ackFrom[answer[c]] = target[c]

UnderWay == {c \in Commands : pc[c] \notin {"idle", "counting", "returned"}}

(* Metrics: every dispatch counted is counted again under exactly one      *)
(* outcome or is still under way.                                          *)
MetricsBalance ==
  metrics["dispatch"] =
    metrics["acked"] + metrics["timeout"] + metrics["transportError"] + Cardinality(UnderWay)

(* A call that started returns, whatever the plugin does: the timer bounds *)
(* the wait.                                                               *)
EveryDispatchReturns ==
  \A c \in Commands : pc[c] # "idle" ~> pc[c] = "returned"

(* What holds of one command at every step, strong enough to be inductive: *)
(* where its call is determines its table entry, its channel and its       *)
(* answer.                                                                 *)
CommandInv(c) ==
  /\ pc[c] = "idle" <=> target[c] = None
  /\ pc[c] = "idle" => /\ pending[c] = None
                       /\ channel[c] = None
                       /\ c \notin wire
  /\ pending[c] # None => /\ pending[c] = target[c]
                          /\ pc[c] \in Open
                          /\ Taken(c) = {}
  /\ pc[c] \in {"counting", "sending", "waiting"} =>
       \/ pending[c] # None
       \/ channel[c] # None
       \/ \E a \in Taken(c) : ackPc[a] = "offering"
  /\ \A a, b \in Taken(c) : a = b
  /\ \A a \in Taken(c) :
       /\ ackFrom[a] = target[c]
       /\ ackPc[a] = "offering" => channel[c] = None /\ answer[c] = None
  /\ channel[c] # None => channel[c] \in Taken(c) /\ answer[c] = None
  /\ answer[c] # None => answer[c] \in Taken(c) /\ pc[c] \in {"gotAck", "returned"}
  /\ pc[c] = "gotAck" \/ outcome[c] = "acked" => answer[c] # None
  /\ outcome[c] = "open" <=> pc[c] # "returned"

BrokerInv ==
  /\ TypeOK
  /\ \A a \in Acks : ackPc[a] = "idle" <=> ackOf[a] = None
  /\ \A a \in Acks : ackPc[a] = "idle" <=> ackFrom[a] = None
  /\ \A c \in Commands : CommandInv(c)

OneOf(S) == IF S = {} THEN None ELSE CHOOSE a \in S : TRUE
TakenBy == [c \in Commands |-> OneOf(Taken(c))]

(* The broker keeps the contract of CommandContract: what a caller is told *)
(* is decided once, and an acknowledgement is taken only from the session  *)
(* addressed and never after the caller was told.                          *)
Contract == INSTANCE CommandContract WITH taken <- TakenBy, sender <- ackFrom
ContractHolds == Contract!ContractSpec
=============================================================================
