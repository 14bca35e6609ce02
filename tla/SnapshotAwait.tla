--------------------------- MODULE SnapshotAwait ----------------------------
(***************************************************************************)
(* RuntimeSnapshotStore.Await: tool calls that wait for a snapshot of a    *)
(* game session to reach a frame and a freshness.  Each arms one timer for *)
(* its deadline and parks on the store's condition variable; every update  *)
(* of the store, and the timer, wake all that are parked, and each then    *)
(* looks again under the lock.  The clock is taken to have moved past the  *)
(* deadline when the timer has fired (the timer is created after the       *)
(* deadline is computed, and Await compares strictly).                     *)
(***************************************************************************)
EXTENDS FreshnessStore

CONSTANTS Waiters,    \* calls of Await
          MaxFrame,   \* bound of the frame number
          Timeouts    \* timeouts of calls, in ticks

ASSUME AwaitAssumption == MaxFrame \in Nat /\ Timeouts \subseteq Nat

VARIABLES frame,   \* frame[s]: frame of the snapshot held
          waiter   \* waiter[w]: a call of Await

vars == <<clock, storeVars, frame, waiter>>

Results == {"none", "ok", "runtime_snapshot_missing", "runtime_snapshot_stale", "command_timeout"}
Frames == 0..MaxFrame
Waiter == [pc: {"idle", "ready", "parked", "done"}, id: Ids \cup {None}, minFrame: Frames,
           minState: States, deadline: Time, armed: BOOLEAN, result: Results]
IdleWaiter == [pc |-> "idle", id |-> None, minFrame |-> 0, minState |-> "fresh",
               deadline |-> 0, armed |-> FALSE, result |-> "none"]

AwaitTypeOK ==
  /\ StoreTypeOK
  /\ frame \in [Ids -> Frames]
  /\ waiter \in [Waiters -> Waiter]

AwaitInit ==
  /\ StoreInit
  /\ frame = [s \in Ids |-> 0]
  /\ waiter = [w \in Waiters |-> IdleWaiter]

\* Mutant: only one of the parked calls is woken.
Broadcast_One ==
  \/ \E w \in Waiters : waiter[w].pc = "parked" /\ waiter' = [waiter EXCEPT ![w].pc = "ready"]
  \/ (\A w \in Waiters : waiter[w].pc # "parked") /\ UNCHANGED waiter

Woken == [w \in Waiters |-> IF waiter[w].pc = "parked" THEN [waiter[w] EXCEPT !.pc = "ready"]
                                                       ELSE waiter[w]]
Broadcast == waiter' = Woken

-----------------------------------------------------------------------------
(* The store                                                               *)

Push(s, f, t) ==
  /\ Upsert(s, t)
  /\ frame' = [frame EXCEPT ![s] = f]
  /\ Broadcast

Forget(s) == RemoveSession(s) /\ frame' = [frame EXCEPT ![s] = 0] /\ Broadcast

Configure(w) == ConfigureFreshness(w) /\ UNCHANGED frame /\ Broadcast

-----------------------------------------------------------------------------
(* Await                                                                   *)

Begin(w, s, f, m, timeout) ==
  /\ waiter[w].pc = "idle"
  /\ clock + timeout < MaxTime
  /\ waiter' = [waiter EXCEPT ![w] = [pc |-> "ready", id |-> s, minFrame |-> f, minState |-> m,
                                      deadline |-> clock + timeout, armed |-> TRUE,
                                      result |-> "none"]]
  /\ UNCHANGED <<clock, storeVars, frame>>

\* Mutant: the deadline passes and nobody is told.
TimerFires_Silent(w) ==
  /\ waiter[w].armed /\ clock > waiter[w].deadline
  /\ waiter' = [waiter EXCEPT ![w].armed = FALSE]
  /\ UNCHANGED <<clock, storeVars, frame>>

TimerFires(w) ==
  /\ waiter[w].armed /\ clock > waiter[w].deadline
  /\ waiter' = [Woken EXCEPT ![w].armed = FALSE]
  /\ UNCHANGED <<clock, storeVars, frame>>

Rank(state) == CASE state = "missing" -> 0 [] state = "stale" -> 1
                 [] state = "grace" -> 2   [] state = "fresh" -> 3

Satisfied(w) ==
  LET r == waiter[w] IN
  /\ r.id \in held
  /\ frame[r.id] >= r.minFrame
  /\ Rank(State(r.id, clock)) >= Rank(r.minState)

\* Mutant: the state is answered where the reason is due.
TooLate_State(w) == State(waiter[w].id, clock)

(* What a call whose deadline has passed answers.                          *)
TooLate(w) ==
  IF waiter[w].id \notin held THEN "runtime_snapshot_missing"
  ELSE IF State(waiter[w].id, clock) = "stale" THEN "runtime_snapshot_stale"
  ELSE "command_timeout"

Answer(w, result) ==
  waiter' = [waiter EXCEPT ![w] = [@ EXCEPT !.pc = "done", !.armed = FALSE, !.result = result]]

(* One turn of the loop, under the lock, with the clock read there.        *)
Look(w) ==
  /\ waiter[w].pc = "ready"
  /\ IF Satisfied(w) THEN Answer(w, "ok")
     ELSE IF clock > waiter[w].deadline THEN Answer(w, TooLate(w))
     ELSE waiter' = [waiter EXCEPT ![w].pc = "parked"]
  /\ Observe(waiter[w].id, clock)
  /\ UNCHANGED <<clock, held, at, latest, window, frame>>

-----------------------------------------------------------------------------
AwaitNext ==
  \/ Tick /\ UNCHANGED <<frame, waiter>>
  \/ \E s \in Ids, f \in Frames, t \in Recent : Push(s, f, t)
  \/ \E s \in Ids : Forget(s)
  \/ \E w \in Windows : Configure(w)
  \/ \E w \in Waiters, s \in Ids, f \in Frames, m \in {"fresh", "grace", "stale"}, d \in Timeouts :
       Begin(w, s, f, m, d)
  \/ \E w \in Waiters : TimerFires(w) \/ Look(w)

(* Time passes, a timer that is due fires, a call that can run does.       *)
AwaitFairness ==
  /\ WF_vars(Tick /\ UNCHANGED <<frame, waiter>>)
  /\ \A w \in Waiters : WF_vars(TimerFires(w)) /\ WF_vars(Look(w))

AwaitSpec == AwaitInit /\ [][AwaitNext]_vars /\ AwaitFairness

-----------------------------------------------------------------------------
(* Properties                                                              *)

(* No lost wakeup: what a parked call waits for is not there, at whatever  *)
(* moment one looks; and one that is past its deadline has its timer.      *)
NoMissedWakeup ==
  \A w \in Waiters : waiter[w].pc = "parked" =>
    /\ ~Satisfied(w)
    /\ waiter[w].armed

(* Every call of Await returns, whatever is pushed, removed or configured. *)
AwaitReturns == \A w \in Waiters : waiter[w].pc = "ready" ~> waiter[w].pc = "done"
=============================================================================
