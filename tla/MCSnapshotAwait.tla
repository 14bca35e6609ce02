-------------------------- MODULE MCSnapshotAwait --------------------------
(* The snapshot stores on a small instance, in two scenarios with two      *)
(* configurations of the freshness window: either store with a few         *)
(* sessions and callers that wait up to one tick for the lock, and the     *)
(* store of runtime snapshots with one session and calls of Await.         *)
EXTENDS SnapshotAwait, TLC

CONSTANT Awaited    \* the session the calls of Await name

VARIABLE waits      \* whether this is the scenario with calls of Await

TestWindows == {[after |-> 1, grace |-> 0], [after |-> 1, grace |-> 1]}

MCInit == AwaitInit /\ waits \in BOOLEAN

MCNext ==
  /\ UNCHANGED waits
  /\ \/ ~waits /\ StoreNext /\ UNCHANGED <<frame, waiter>>
     \/ /\ waits /\ AwaitNext
        /\ held' \subseteq {Awaited}
        /\ \A w \in Waiters : waiter'[w].id \in {None, Awaited}

MCSpec == MCInit /\ [][MCNext]_<<vars, waits>> /\ AwaitFairness
=============================================================================
