------------------------- MODULE SnapshotAwaitProofs -------------------------
(***************************************************************************)
(* What the checks of FreshnessStore and SnapshotAwait show for every      *)
(* number of sessions and of calls of Await, every lag, every timeout and  *)
(* every freshness configuration.                                          *)
(*                                                                         *)
(* The store: LatestIsNewest is not inductive alone.  That no entry is of  *)
(* the future bounds the distance between an entry just written and those  *)
(* written before it.                                                      *)
(*                                                                         *)
(* The calls: the store they see is the store of FreshnessStore.  A call   *)
(* parks only before its deadline, so its timer is still armed then: that  *)
(* a call which runs without its timer is past its deadline is what makes  *)
(* NoMissedWakeup inductive.                                               *)
(***************************************************************************)
EXTENDS SnapshotAwait, TLAPS

USE FreshnessAssumption, AwaitAssumption

-----------------------------------------------------------------------------
(* The store                                                               *)

NothingFromTheFuture == \A s \in Ids : at[s] <= clock

StoreInv ==
  /\ StoreTypeOK
  /\ NothingFromTheFuture
  /\ LatestIsNewest
  /\ NoObservationWithoutEntry

(* The initial store satisfies the invariant.                              *)
LEMMA StoreInitInv == StoreInit => StoreInv
  BY DEF StoreInit, StoreInv, StoreTypeOK, NothingFromTheFuture, LatestIsNewest,
         NoObservationWithoutEntry, Time, States

(* The freshness of an entry is one of three, never "missing".             *)
LEMMA FreshnessOfEntry ==
  ASSUME NEW age, NEW w
  PROVE  FreshnessForAge(age, w) \in States \ {"missing"}
  BY DEF FreshnessForAge, States

(* Refresh, the part Upsert and Touch share, when the entry is held.       *)
LEMMA RefreshInv ==
  ASSUME StoreInv, NEW s \in Ids, NEW t \in Recent,
         held' = held \cup {s}, Refresh(s, t)
  PROVE  StoreInv'
<1> USE DEF Refresh, Recent, Time
<1>1. /\ clock \in Nat /\ clock' = clock /\ t \in Nat /\ t <= clock /\ clock <= t + Lag
      /\ at \in [Ids -> 0..MaxTime] /\ \A r \in Ids : at[r] <= clock
      /\ held \subseteq Ids
  BY DEF StoreInv, StoreTypeOK, NothingFromTheFuture
<1>2. StoreTypeOK'
  BY FreshnessOfEntry, <1>1 DEF StoreInv, StoreTypeOK
<1>3. NothingFromTheFuture'
  BY <1>1 DEF NothingFromTheFuture
<1>4. LatestIsNewest'
  <2>1. \A r \in Ids : at'[r] \in Nat /\ at'[r] <= clock /\ at'[s] = t
    BY <1>1
  <2>2. /\ latest' = s /\ s \in held' /\ s # None
    OBVIOUS
  <2>3. \A r \in held' : at'[r] <= at'[s] + Lag
    BY <1>1, <2>1
  <2> QED BY <2>2, <2>3 DEF LatestIsNewest
<1>5. NoObservationWithoutEntry'
  BY FreshnessOfEntry DEF StoreInv, StoreTypeOK, NoObservationWithoutEntry
<1> QED BY <1>2, <1>3, <1>4, <1>5 DEF StoreInv

(* The removal of a session, whoever takes its place as the latest.        *)
LEMMA RemoveInv ==
  ASSUME StoreInv, NEW s \in Ids, RemoveSession(s)
  PROVE  StoreInv'
<1> USE DEF RemoveSession, Time
<1>1. /\ clock \in Nat /\ clock' = clock /\ held' = held \ {s} /\ held \subseteq Ids
      /\ at \in [Ids -> 0..MaxTime] /\ at' = [at EXCEPT ![s] = 0]
  BY DEF StoreInv, StoreTypeOK
<1>2. latest' \in Ids \cup {None}
  BY DEF StoreInv, StoreTypeOK, NewestOf
<1>3. StoreTypeOK'
  BY <1>2 DEF StoreInv, StoreTypeOK, States
<1>4. NothingFromTheFuture'
  BY <1>1 DEF StoreInv, NothingFromTheFuture
<1>5. LatestIsNewest'
  <2>1. \A r \in held' : r \in Ids /\ at'[r] = at[r] /\ at[r] \in Nat
    BY <1>1
  <2>2. CASE latest # s
    BY <1>1, <2>1, <2>2 DEF StoreInv, LatestIsNewest
  <2>3. CASE latest = s /\ held' = {}
    BY <1>1, <2>3 DEF NewestOf, LatestIsNewest
  <2>4. CASE latest = s /\ held' # {}
    <3>1. latest' \in held' /\ \A r \in held' : at[r] <= at[latest']
      BY <1>1, <2>4 DEF NewestOf
    <3>2. latest' # None
      BY <1>1, <3>1
    <3>3. \A r \in held' : at'[r] <= at'[latest'] + Lag
      BY <2>1, <3>1
    <3> QED BY <2>4, <3>1, <3>2, <3>3 DEF LatestIsNewest
  <2> QED BY <2>2, <2>3, <2>4
<1>6. NoObservationWithoutEntry'
  BY DEF StoreInv, StoreTypeOK, NoObservationWithoutEntry
<1> QED BY <1>3, <1>4, <1>5, <1>6 DEF StoreInv

(* Every step preserves the invariant.                                     *)
LEMMA StoreStep == StoreInv /\ [StoreNext]_<<clock, storeVars>> => StoreInv'
<1> SUFFICES ASSUME StoreInv, [StoreNext]_<<clock, storeVars>> PROVE StoreInv'
  OBVIOUS
<1>1. CASE Tick
  <2>1. StoreTypeOK' /\ NoObservationWithoutEntry'
    BY <1>1 DEF Tick, storeVars, StoreInv, StoreTypeOK, NoObservationWithoutEntry, Time
  <2>2. NothingFromTheFuture'
    BY <1>1 DEF Tick, storeVars, StoreInv, StoreTypeOK, NothingFromTheFuture, Time
  <2>3. LatestIsNewest'
    BY <1>1 DEF Tick, storeVars, StoreInv, LatestIsNewest
  <2> QED BY <2>1, <2>2, <2>3 DEF StoreInv
<1>2. ASSUME NEW s \in Ids, NEW t \in Recent, Upsert(s, t) PROVE StoreInv'
  BY <1>2, RefreshInv DEF Upsert
<1>3. ASSUME NEW s \in Ids, NEW t \in Recent, Touch(s, t) PROVE StoreInv'
  <2>1. held' = held \cup {s} /\ Refresh(s, t)
    BY <1>3 DEF Touch
  <2> QED BY <2>1, RefreshInv
<1>4. ASSUME NEW s \in Ids, NEW t \in Recent, Query(s, t) PROVE StoreInv'
  <2>1. last' = [last EXCEPT ![s] = FreshnessForAge(t - at[s], window)]
    BY <1>4 DEF Query, Observe, State
  <2>2. s \in held /\ UNCHANGED <<clock, held, at, latest, window>>
    BY <1>4 DEF Query
  <2>3. StoreTypeOK' /\ NoObservationWithoutEntry'
    BY <2>1, <2>2, FreshnessOfEntry DEF StoreInv, StoreTypeOK, NoObservationWithoutEntry
  <2>4. NothingFromTheFuture' /\ LatestIsNewest'
    BY <2>2 DEF StoreInv, NothingFromTheFuture, LatestIsNewest
  <2> QED BY <2>3, <2>4 DEF StoreInv
<1>5. ASSUME NEW s \in Ids, RemoveSession(s) PROVE StoreInv'
  BY <1>5, RemoveInv
<1>6. ASSUME NEW w \in Windows, ConfigureFreshness(w) PROVE StoreInv'
  <2>1. UNCHANGED <<clock, held, at, latest>> /\ window' = w
    BY <1>6 DEF ConfigureFreshness
  <2>2. StoreTypeOK' /\ NoObservationWithoutEntry'
    BY <1>6, FreshnessOfEntry
       DEF ConfigureFreshness, StoreInv, StoreTypeOK, NoObservationWithoutEntry
  <2>3. NothingFromTheFuture' /\ LatestIsNewest'
    BY <2>1 DEF StoreInv, NothingFromTheFuture, LatestIsNewest
  <2> QED BY <2>2, <2>3 DEF StoreInv
<1>7. CASE UNCHANGED <<clock, storeVars>>
  BY <1>7 DEF storeVars, StoreInv, StoreTypeOK, NothingFromTheFuture, LatestIsNewest,
              NoObservationWithoutEntry
<1> QED BY <1>1, <1>2, <1>3, <1>4, <1>5, <1>6, <1>7 DEF StoreNext

(* The stores keep their invariant whatever is pushed, touched, removed,   *)
(* queried and configured, in every order.                                 *)
THEOREM StoreConsistent == StoreSpec => []StoreInv
  BY StoreInitInv, StoreStep, PTL DEF StoreSpec

(* latestID is an entry, and no entry is more than Lag newer.              *)
THEOREM LatestEntryIsNewest == StoreSpec => []LatestIsNewest
<1>1. StoreInv => LatestIsNewest
  BY DEF StoreInv
<1> QED BY <1>1, StoreConsistent, PTL

(* A freshness is remembered for exactly the sessions that have an entry.  *)
THEOREM ObservationsFollowEntries == StoreSpec => []NoObservationWithoutEntry
<1>1. StoreInv => NoObservationWithoutEntry
  BY DEF StoreInv
<1> QED BY <1>1, StoreConsistent, PTL

-----------------------------------------------------------------------------
(* The calls of Await                                                      *)

(* A call that runs and has no timer left is past its deadline.            *)
LateIsDue ==
  \A w \in Waiters : waiter[w].pc = "ready" /\ ~waiter[w].armed => clock > waiter[w].deadline

WaitersTypeOK == frame \in [Ids -> Frames] /\ waiter \in [Waiters -> Waiter]

AwaitInv ==
  /\ StoreInv
  /\ WaitersTypeOK
  /\ LateIsDue
  /\ NoMissedWakeup

-----------------------------------------------------------------------------
(* The store under the calls of Await                                      *)

LEMMA TurnIsQuery ==
  ASSUME StoreTypeOK, NEW w \in Waiters, Look(w)
  PROVE  [StoreNext]_<<clock, storeVars>>
<1>1. clock \in Recent
  BY DEF StoreTypeOK, Recent, Time
<1>2. UNCHANGED <<clock, held, at, latest, window>> /\ Observe(waiter[w].id, clock)
  BY DEF Look
<1>3. CASE waiter[w].id \in held
  <2>1. waiter[w].id \in Ids
    BY <1>3 DEF StoreTypeOK
  <2>2. Query(waiter[w].id, clock)
    BY <1>2, <1>3 DEF Query
  <2> QED BY <1>1, <2>1, <2>2 DEF StoreNext
<1>4. CASE waiter[w].id \notin held
  BY <1>2, <1>4 DEF Observe, storeVars
<1> QED BY <1>3, <1>4

LEMMA AwaitStepIsStoreStep ==
  StoreTypeOK /\ [AwaitNext]_vars => [StoreNext]_<<clock, storeVars>>
<1> SUFFICES ASSUME StoreTypeOK, [AwaitNext]_vars PROVE [StoreNext]_<<clock, storeVars>>
  OBVIOUS
<1>1. CASE Tick
  BY <1>1 DEF StoreNext
<1>2. CASE \E s \in Ids, f \in Frames, t \in Recent : Push(s, f, t)
  BY <1>2 DEF Push, StoreNext
<1>3. CASE \E s \in Ids : Forget(s)
  BY <1>3 DEF Forget, StoreNext
<1>4. CASE \E w \in Windows : Configure(w)
  BY <1>4 DEF Configure, StoreNext
<1>5. CASE \E w \in Waiters, s \in Ids, f \in Frames, m \in {"fresh", "grace", "stale"},
             d \in Timeouts : Begin(w, s, f, m, d)
  BY <1>5 DEF Begin
<1>6. ASSUME NEW w \in Waiters, TimerFires(w) PROVE [StoreNext]_<<clock, storeVars>>
  BY <1>6 DEF TimerFires
<1>7. ASSUME NEW w \in Waiters, Look(w) PROVE [StoreNext]_<<clock, storeVars>>
  BY <1>7, TurnIsQuery
<1>8. CASE UNCHANGED vars
  BY <1>8 DEF vars
<1> QED BY <1>1, <1>2, <1>3, <1>4, <1>5, <1>6, <1>7, <1>8 DEF AwaitNext

-----------------------------------------------------------------------------
(* The calls of Await                                                      *)

(* An entry never gets fresher by itself.                                  *)
LEMMA AgeingLowersRank ==
  ASSUME NEW w \in Windows, NEW age \in Nat
  PROVE  Rank(FreshnessForAge(age + 1, w)) <= Rank(FreshnessForAge(age, w))
<1>1. w.after \in Nat /\ w.grace \in Nat
  OBVIOUS
<1> QED BY <1>1 DEF Rank, FreshnessForAge

LEMMA RankTyped == \A m \in States : Rank(m) \in 0..3
  BY DEF States, Rank

(* Time alone satisfies no call.                                           *)
LEMMA TickSatisfiesNobody ==
  ASSUME AwaitInv, Tick, UNCHANGED <<frame, waiter>>, NEW w \in Waiters, Satisfied(w)'
  PROVE  Satisfied(w)
<1> DEFINE s == waiter[w].id
<1>1. /\ s \in held /\ frame[s] >= waiter[w].minFrame /\ held' = held /\ clock' = clock + 1
      /\ window' = window /\ at' = at /\ waiter' = waiter
  BY DEF Satisfied, Tick, storeVars
<1>2. /\ s \in Ids /\ clock \in Nat /\ at[s] \in Nat /\ at[s] <= clock /\ window \in Windows
      /\ waiter[w].minState \in States
  BY <1>1 DEF AwaitInv, StoreInv, StoreTypeOK, NothingFromTheFuture, Time, WaitersTypeOK, Waiter
<1>3. Rank(FreshnessForAge(clock' - at[s], window)) >= Rank(waiter[w].minState)
  <2>1. Rank(State(waiter[w].id, clock)') >= Rank(waiter[w].minState)
    BY <1>1 DEF Satisfied
  <2>2. State(waiter[w].id, clock)' = FreshnessForAge(clock' - at[s], window)
    <3>1. State(waiter[w].id, clock)' =
            IF waiter'[w].id \in held' THEN FreshnessForAge(clock' - at'[waiter'[w].id], window')
                                       ELSE "missing"
      BY DEF State, FreshnessForAge
    <3> QED BY <1>1, <3>1
  <2> QED BY <2>1, <2>2
<1>4. clock - at[s] \in Nat /\ clock' - at[s] = (clock - at[s]) + 1
  BY <1>1, <1>2
<1>5. /\ FreshnessForAge(clock - at[s], window) \in States
      /\ FreshnessForAge((clock - at[s]) + 1, window) \in States
  BY FreshnessOfEntry
<1>6. Rank(FreshnessForAge(clock - at[s], window)) >= Rank(waiter[w].minState)
  BY <1>2, <1>3, <1>4, <1>5, AgeingLowersRank, RankTyped
<1> QED BY <1>1, <1>6 DEF Satisfied, State

(* The record of a call that is woken, loses its timer, or answers.        *)
WokenCall(r) == [r EXCEPT !.pc = "ready"]
TimedCall(r) == [r EXCEPT !.armed = FALSE]
AnsweredCall(r, result) == [r EXCEPT !.pc = "done", !.armed = FALSE, !.result = result]

LEMMA WaiterFields ==
  ASSUME NEW r \in Waiter
  PROVE  /\ WokenCall(r) \in Waiter /\ WokenCall(r).pc = "ready"
         /\ WokenCall(r).armed = r.armed /\ WokenCall(r).deadline = r.deadline
         /\ TimedCall(r) \in Waiter /\ TimedCall(r).pc = r.pc
         /\ TimedCall(r).deadline = r.deadline
         /\ \A a \in Results : /\ AnsweredCall(r, a) \in Waiter
                              /\ AnsweredCall(r, a).pc = "done"
  BY DEF Waiter, WokenCall, TimedCall, AnsweredCall

(* A broadcast parks nobody, and takes no timer away.                      *)
LEMMA BroadcastInv ==
  ASSUME WaitersTypeOK, LateIsDue, NoMissedWakeup, Broadcast, clock' = clock
  PROVE  waiter' \in [Waiters -> Waiter] /\ LateIsDue' /\ NoMissedWakeup'
<1>1. \A w \in Waiters : waiter[w] \in Waiter
  BY DEF WaitersTypeOK
<1>2. \A w \in Waiters : waiter'[w] = IF waiter[w].pc = "parked"
                                       THEN [waiter[w] EXCEPT !.pc = "ready"] ELSE waiter[w]
  BY DEF Broadcast, Woken
<1>3. \A w \in Waiters : waiter'[w] \in Waiter /\ waiter'[w].pc # "parked"
  BY <1>1, <1>2 DEF Waiter
<1>4. LateIsDue'
  BY <1>1, <1>2 DEF LateIsDue, NoMissedWakeup, Waiter
<1>5. waiter' \in [Waiters -> Waiter]
  BY <1>3 DEF Broadcast, Woken
<1> QED BY <1>3, <1>4, <1>5 DEF NoMissedWakeup

(* The start of a call, the end of its timer and a turn of its loop.       *)
LEMMA BeginInv ==
  ASSUME AwaitInv, NEW w \in Waiters, NEW s \in Ids, NEW f \in Frames,
         NEW m \in {"fresh", "grace", "stale"}, NEW d \in Timeouts, Begin(w, s, f, m, d)
  PROVE  WaitersTypeOK' /\ LateIsDue' /\ NoMissedWakeup'
<1> USE DEF Begin, storeVars
<1>1. clock + d \in Time
  BY DEF AwaitInv, StoreInv, StoreTypeOK, Time
<1>2. WaitersTypeOK'
  BY <1>1 DEF AwaitInv, WaitersTypeOK, Waiter, States, Results
<1>3. \A v \in Waiters : waiter'[v].pc # "idle" /\ v # w => waiter'[v] = waiter[v]
  BY DEF AwaitInv, WaitersTypeOK
<1>4. waiter'[w].pc = "ready" /\ waiter'[w].armed
  BY DEF AwaitInv, WaitersTypeOK
<1>5. LateIsDue'
  BY <1>3, <1>4 DEF AwaitInv, LateIsDue
<1>6. NoMissedWakeup'
  BY <1>3, <1>4 DEF AwaitInv, NoMissedWakeup, Satisfied, State
<1> QED BY <1>2, <1>5, <1>6

LEMMA TimerInv ==
  ASSUME AwaitInv, NEW w \in Waiters, TimerFires(w)
  PROVE  WaitersTypeOK' /\ LateIsDue' /\ NoMissedWakeup'
<1> USE DEF TimerFires, storeVars
<1>1. \A v \in Waiters : waiter[v] \in Waiter
  BY DEF AwaitInv, WaitersTypeOK
<1>2. \A v \in Waiters :
        Woken[v] = IF waiter[v].pc = "parked" THEN WokenCall(waiter[v]) ELSE waiter[v]
  BY DEF Woken, WokenCall
<1>3. \A v \in Waiters : /\ Woken[v] \in Waiter
                         /\ Woken[v].pc # "parked"
                         /\ Woken[v].deadline = waiter[v].deadline
                         /\ Woken[v].pc = "ready" /\ ~Woken[v].armed => clock > waiter[v].deadline
  BY <1>1, <1>2, WaiterFields DEF AwaitInv, LateIsDue, NoMissedWakeup
<1>4. \A v \in Waiters :
        waiter'[v] = IF v = w THEN TimedCall(Woken[w]) ELSE Woken[v]
  BY DEF Woken, TimedCall
<1>5. \A v \in Waiters : waiter'[v] \in Waiter /\ waiter'[v].pc # "parked"
  <2>1. TimedCall(Woken[w]) \in Waiter /\ TimedCall(Woken[w]).pc # "parked"
    BY <1>3, WaiterFields
  <2> QED BY <1>3, <1>4, <2>1
<1>6. LateIsDue'
  BY <1>3, <1>4, WaiterFields DEF LateIsDue
<1>7. WaitersTypeOK'
  BY <1>5 DEF AwaitInv, WaitersTypeOK, Woken
<1> QED BY <1>5, <1>6, <1>7 DEF NoMissedWakeup

LEMMA LookInv ==
  ASSUME AwaitInv, NEW w \in Waiters, Look(w)
  PROVE  WaitersTypeOK' /\ LateIsDue' /\ NoMissedWakeup'
<1>1. /\ waiter \in [Waiters -> Waiter] /\ waiter[w].pc = "ready"
      /\ UNCHANGED <<clock, held, at, window, frame>>
  BY DEF AwaitInv, WaitersTypeOK, Look
<1>2. \A v \in Waiters \ {w} : waiter'[v] = waiter[v]
  BY <1>1 DEF Look, Answer
<1>3. \/ waiter'[w] \in Waiter /\ waiter'[w].pc = "done"
      \/ /\ ~Satisfied(w) /\ ~(clock > waiter[w].deadline)
         /\ waiter'[w] = [waiter[w] EXCEPT !.pc = "parked"]
  <2>1. TooLate(w) \in Results /\ "ok" \in Results
    BY DEF TooLate, Results
  <2>2. \A r \in Results : Answer(w, r) => waiter'[w] \in Waiter /\ waiter'[w].pc = "done"
    <3>1. \A r \in Results : Answer(w, r) => waiter'[w] = AnsweredCall(waiter[w], r)
      BY <1>1 DEF Answer, AnsweredCall
    <3>2. waiter[w] \in Waiter
      BY <1>1
    <3> QED BY <3>1, <3>2, WaiterFields
  <2>3. \/ Answer(w, "ok") \/ Answer(w, TooLate(w))
        \/ /\ ~Satisfied(w) /\ ~(clock > waiter[w].deadline)
           /\ waiter' = [waiter EXCEPT ![w].pc = "parked"]
    BY DEF Look
  <2> QED BY <1>1, <2>1, <2>2, <2>3
<1>4. WaitersTypeOK'
  <2>1. waiter'[w] \in Waiter
    BY <1>1, <1>3 DEF Waiter
  <2>2. waiter' = [v \in Waiters |-> waiter'[v]]
    BY <1>1 DEF Look, Answer
  <2>3. \A v \in Waiters : waiter'[v] \in Waiter
    BY <1>1, <1>2, <2>1
  <2>4. waiter' \in [Waiters -> Waiter]
    BY <2>2, <2>3, Zenon
  <2> QED BY <1>1, <2>4 DEF AwaitInv, WaitersTypeOK
<1>5. LateIsDue'
  <2>1. waiter'[w].pc # "ready"
    BY <1>1, <1>3 DEF Waiter
  <2> QED BY <1>1, <1>2, <2>1 DEF AwaitInv, LateIsDue
<1>6. ASSUME NEW v \in Waiters, waiter'[v].pc = "parked"
      PROVE  ~Satisfied(v)' /\ waiter'[v].armed
  <2>1. CASE v # w
    BY <1>1, <1>2, <1>6, <2>1 DEF AwaitInv, NoMissedWakeup, Satisfied, State
  <2>2. CASE v = w
    <3>1. /\ ~Satisfied(w) /\ ~(clock > waiter[w].deadline)
          /\ waiter'[w] = [waiter[w] EXCEPT !.pc = "parked"]
      BY <1>3, <1>6, <2>2
    <3>2. waiter[w].armed
      BY <1>1, <3>1 DEF AwaitInv, LateIsDue
    <3>3. /\ waiter'[w].id = waiter[w].id /\ waiter'[w].minFrame = waiter[w].minFrame
          /\ waiter'[w].minState = waiter[w].minState /\ waiter'[w].armed = waiter[w].armed
      BY <1>1, <3>1 DEF Waiter
    <3> QED BY <1>1, <2>2, <3>1, <3>2, <3>3 DEF Satisfied, State
  <2> QED BY <2>1, <2>2
<1> QED BY <1>4, <1>5, <1>6 DEF NoMissedWakeup

-----------------------------------------------------------------------------
(* The invariant                                                           *)

LEMMA AwaitInitInv == AwaitInit => AwaitInv
<1> SUFFICES ASSUME AwaitInit PROVE AwaitInv
  OBVIOUS
<1>1. StoreInv
  BY StoreInitInv DEF AwaitInit
<1>2. WaitersTypeOK
  BY DEF AwaitInit, WaitersTypeOK, Frames, IdleWaiter, Waiter, Time, States, Results
<1>3. LateIsDue /\ NoMissedWakeup
  BY DEF AwaitInit, IdleWaiter, LateIsDue, NoMissedWakeup
<1> QED BY <1>1, <1>2, <1>3 DEF AwaitInv

LEMMA AwaitStep == AwaitInv /\ [AwaitNext]_vars => AwaitInv'
<1> SUFFICES ASSUME AwaitInv, [AwaitNext]_vars PROVE AwaitInv'
  OBVIOUS
<1>1. StoreInv'
  BY AwaitStepIsStoreStep, StoreStep DEF AwaitInv, StoreInv
<1> SUFFICES WaitersTypeOK' /\ LateIsDue' /\ NoMissedWakeup'
  BY <1>1 DEF AwaitInv
<1>2. CASE Tick /\ UNCHANGED <<frame, waiter>>
  <2>1. WaitersTypeOK' /\ LateIsDue'
    BY <1>2 DEF Tick, AwaitInv, WaitersTypeOK, LateIsDue, StoreInv, StoreTypeOK, Time, Waiter
  <2>2. NoMissedWakeup'
    BY <1>2, TickSatisfiesNobody DEF AwaitInv, NoMissedWakeup
  <2> QED BY <2>1, <2>2
<1>3. ASSUME Broadcast, clock' = clock, frame' \in [Ids -> Frames]
      PROVE  WaitersTypeOK' /\ LateIsDue' /\ NoMissedWakeup'
  BY <1>3, BroadcastInv DEF AwaitInv, WaitersTypeOK
<1>4. CASE \E s \in Ids, f \in Frames, t \in Recent : Push(s, f, t)
  BY <1>3, <1>4 DEF Push, Upsert, Refresh, AwaitInv, WaitersTypeOK
<1>5. CASE \E s \in Ids : Forget(s)
  <2>1. 0 \in Frames
    BY DEF Frames
  <2> QED BY <1>3, <1>5, <2>1 DEF Forget, RemoveSession, AwaitInv, WaitersTypeOK
<1>6. CASE \E w \in Windows : Configure(w)
  BY <1>3, <1>6 DEF Configure, ConfigureFreshness, AwaitInv, WaitersTypeOK
<1>7. CASE \E w \in Waiters, s \in Ids, f \in Frames, m \in {"fresh", "grace", "stale"},
             d \in Timeouts : Begin(w, s, f, m, d)
  BY <1>7, BeginInv
<1>8. ASSUME NEW w \in Waiters, TimerFires(w) \/ Look(w)
      PROVE  WaitersTypeOK' /\ LateIsDue' /\ NoMissedWakeup'
  BY <1>8, TimerInv, LookInv
<1>9. CASE UNCHANGED vars
  BY <1>9 DEF vars, storeVars, AwaitInv, WaitersTypeOK, LateIsDue, NoMissedWakeup, Satisfied, State
<1> QED BY <1>2, <1>4, <1>5, <1>6, <1>7, <1>8, <1>9 DEF AwaitNext

(* The invariant holds throughout, for any number of calls.                *)
THEOREM AwaitInvariant == AwaitSpec => []AwaitInv
<1> QED BY AwaitInitInv, AwaitStep, PTL DEF AwaitSpec

(* Types: among them, that every call answers one of the results named.    *)
THEOREM AwaitTypes == AwaitSpec => []AwaitTypeOK
<1>1. AwaitInv => AwaitTypeOK
  BY DEF AwaitInv, StoreInv, WaitersTypeOK, AwaitTypeOK
<1> QED BY <1>1, AwaitInvariant, PTL

(* No call of Await stays parked while what it waits for is there, nor     *)
(* without the timer that will end its wait.                               *)
THEOREM NoWakeupIsMissed == AwaitSpec => []NoMissedWakeup
<1>1. AwaitInv => NoMissedWakeup
  BY DEF AwaitInv
<1> QED BY <1>1, AwaitInvariant, PTL

(* Waiting changes nothing of what a store promises: with calls of Await   *)
(* in it, it is still the store of FreshnessStore.                         *)
THEOREM AwaitImplementsStore == AwaitSpec => StoreSpec
<1>1. AwaitInit => StoreInit
  BY DEF AwaitInit
<1>2. AwaitInv /\ [AwaitNext]_vars => [StoreNext]_<<clock, storeVars>>
  BY AwaitStepIsStoreStep DEF AwaitInv, StoreInv
<1> QED BY <1>1, <1>2, AwaitInvariant, PTL DEF AwaitSpec, StoreSpec
=============================================================================
