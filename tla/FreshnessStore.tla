--------------------------- MODULE FreshnessStore ---------------------------
(***************************************************************************)
(* The two snapshot stores, runtimebridge/store.go (editor snapshots by    *)
(* MCP session) and runtime_snapshot_store.go (runtime snapshots by game   *)
(* session), which are the same code but for Touch (editor) and Await      *)
(* (runtime, module SnapshotAwait): a timestamp per session, the session   *)
(* updated last, and a freshness that decays with age.  Callers read the   *)
(* clock before they wait for the lock, so the time of a call may lie up   *)
(* to Lag ticks in the past.  What a snapshot contains is left out.        *)
(***************************************************************************)
EXTENDS Integers

CONSTANTS Ids,       \* MCP sessions, or game sessions
          None,      \* no session
          MaxTime,   \* bound of the clock
          Lag,       \* bound of the wait for the lock
          Windows    \* configurations: [after, grace] in ticks

ASSUME FreshnessAssumption ==
  /\ None \notin Ids
  /\ MaxTime \in Nat /\ Lag \in Nat
  /\ Windows # {} /\ Windows \subseteq [after : Nat \ {0}, grace : Nat]

VARIABLES clock,    \* the wall clock
          held,     \* the keys of bySessionID
          at,       \* at[s]: UpdatedAt, 0 where there is no entry
          latest,   \* latestID
          window,   \* staleAfter and staleGrace
          last      \* lastStates: the freshness observed last, "missing" if none

storeVars == <<held, at, latest, window, last>>
Time == 0..MaxTime
States == {"missing", "fresh", "grace", "stale"}

StoreTypeOK ==
  /\ clock \in Time
  /\ held \subseteq Ids
  /\ at \in [Ids -> Time]
  /\ latest \in Ids \cup {None}
  /\ window \in Windows
  /\ last \in [Ids -> States]

StoreInit ==
  /\ clock = 0
  /\ held = {}
  /\ at = [s \in Ids |-> 0]
  /\ latest = None
  /\ window \in Windows
  /\ last = [s \in Ids |-> "missing"]

Tick == clock < MaxTime /\ clock' = clock + 1 /\ UNCHANGED storeVars

(* The times a caller may bring to the lock.                               *)
Recent == {t \in Time : t <= clock /\ clock <= t + Lag}

FreshnessForAge(age, w) ==
  IF age <= w.after THEN "fresh" ELSE IF age <= w.after + w.grace THEN "grace" ELSE "stale"

State(s, t) == IF s \in held THEN FreshnessForAge(t - at[s], window) ELSE "missing"

(* Every read of an entry records its freshness.                           *)
Observe(s, t) == last' = IF s \in held THEN [last EXCEPT ![s] = State(s, t)] ELSE last

(* FreshForSession and LatestFresh refuse only a stale snapshot.           *)
FreshForSession(s, t) == s \in held /\ State(s, t) # "stale"
LatestFresh(t) == latest # None /\ FreshForSession(latest, t)

-----------------------------------------------------------------------------
(* Updates, each under the lock                                            *)

Refresh(s, t) ==
  /\ at' = [at EXCEPT ![s] = t]
  /\ latest' = s
  /\ last' = [last EXCEPT ![s] = FreshnessForAge(0, window)]
  /\ UNCHANGED <<clock, window>>

Upsert(s, t) == held' = held \cup {s} /\ Refresh(s, t)

Touch(s, t) == s \in held /\ held' = held /\ Refresh(s, t)

\* Mutant: the latest entry is removed and nothing takes its place.
NewestOf_Nobody(S) == {None}

(* What may be latest once S is left: map order decides among equals.      *)
NewestOf(S) == IF S = {} THEN {None} ELSE {s \in S : \A r \in S : at[r] <= at[s]}

\* Mutant: the observed state of a removed session is kept.
RemoveSession_KeepState(s) ==
  /\ held' = held \ {s}
  /\ at' = [at EXCEPT ![s] = 0]
  /\ IF latest = s THEN latest' \in NewestOf(held \ {s}) ELSE UNCHANGED latest
  /\ UNCHANGED <<clock, window, last>>

RemoveSession(s) ==
  /\ held' = held \ {s}
  /\ at' = [at EXCEPT ![s] = 0]
  /\ last' = [last EXCEPT ![s] = "missing"]
  /\ IF latest = s THEN latest' \in NewestOf(held \ {s}) ELSE UNCHANGED latest
  /\ UNCHANGED <<clock, window>>

(* The freshness of every entry is observed under the new configuration.   *)
ConfigureFreshness(w) ==
  /\ window' = w
  /\ last' = [s \in Ids |-> IF s \in held THEN FreshnessForAge(clock - at[s], w) ELSE last[s]]
  /\ UNCHANGED <<clock, held, at, latest>>

(* FreshForSession, LatestFresh, StateForSession and Health.               *)
Query(s, t) == s \in held /\ Observe(s, t) /\ UNCHANGED <<clock, held, at, latest, window>>

StoreNext ==
  \/ Tick
  \/ \E s \in Ids, t \in Recent : Upsert(s, t) \/ Touch(s, t) \/ Query(s, t)
  \/ \E s \in Ids : RemoveSession(s)
  \/ \E w \in Windows : ConfigureFreshness(w)

StoreSpec == StoreInit /\ [][StoreNext]_<<clock, storeVars>>

-----------------------------------------------------------------------------
(* Properties                                                              *)

(* latestID names an entry whenever there is one, and none is more than    *)
(* Lag newer: LatestFresh, which looks at no other entry, refuses a tool   *)
(* call only if every snapshot is stale, or will be Lag ticks later.       *)
LatestIsNewest ==
  /\ latest = None <=> held = {}
  /\ latest # None => latest \in held /\ \A s \in held : at[s] <= at[latest] + Lag

(* A removed session leaves no observed state behind: the first snapshot   *)
(* of its successor is no transition.                                      *)
NoObservationWithoutEntry == \A s \in Ids : last[s] # "missing" <=> s \in held
=============================================================================
