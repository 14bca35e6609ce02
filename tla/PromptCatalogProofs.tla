------------------------- MODULE PromptCatalogProofs -------------------------
(***************************************************************************)
(* What the checks of PromptCatalog show for any number of files, callers, *)
(* clients, writes and tries.                                              *)
(*                                                                         *)
(* That a recorded fingerprint is served rests on stamps never coming      *)
(* back: as long as a file still has the stamp it had before the load, the *)
(* load has read that stamp (LoadSees), so that the scan after the load    *)
(* finds it only when it is served (AfterSees).                            *)
(*                                                                         *)
(* That no client is left stale rests on the list taken under the lock     *)
(* before the load: a client that holds another one has a notification     *)
(* under way already (StaleBeforeIsTold).                                  *)
(***************************************************************************)
EXTENDS PromptCatalog, TLAPS

USE FilesAssumption, CallersAssumption, LimitAssumption, ModesAssumption
USE DEF sourceVars, watchVars, preVars, loadVars, servedVars, clientVars

Pending(c) == \E a \in Actors : pc[a] = "announce" \/ c \in targets[a]

\* No stamp is larger than the clock.
StampsGiven ==
    \A f \in Files : /\ source[f] <= clock /\ scan[f] <= clock
                     /\ before[f] <= clock /\ pre[f] <= clock

\* What was read of a file that has not been written since the fingerprint
\* before the load is what that fingerprint says.
LoadSees ==
    phase = "load" =>
        \A f \in Files \ todo : before[f] # 0 /\ source[f] = before[f] => scan[f] = before[f]

AfterSees ==
    phase = "after" =>
        /\ \A f \in Files : before[f] # 0 /\ source[f] = before[f] => loaded[f] = before[f]
        /\ \A f \in Files \ todo : before[f] # 0 /\ scan[f] = before[f]
                                     => loaded[f] = before[f]

\* The holder of the lock is in a reload, and the starting server serves nobody.
LockHeld ==
    /\ reloadMu # Nobody => pc[reloadMu] = "reload"
    /\ pc["main"] \in {"reload", "start", "serving"}
    /\ pc["main"] # "serving" => streams = {}

\* In a reload, a client with another list than the one before the reload has
\* a notification under way.
StaleBeforeIsTold ==
    reloadMu # Nobody =>
        \A c \in streams : held[c] # oldList => c \in told \/ c \in early \/ Pending(c)

CatalogInv ==
    /\ CatalogTypeOK /\ StampsGiven /\ LoadSees /\ AfterSees /\ RecordedIsServed
    /\ LockHeld /\ StaleBeforeIsTold /\ NoStaleClient

(* The list that clients see is made of prompts that were written.         *)
LEMMA VisibleTyped ==
  ASSUME NEW l \in [Files -> Stamps]
  PROVE  Visible(l) \in Listings
  BY DEF Visible, Kept, Listings, Stamps

(* One value of a function replaced.                                       *)
LEMMA ExceptTyped ==
  ASSUME NEW S, NEW T, NEW g \in [S -> T], NEW x, NEW v \in T
  PROVE  [g EXCEPT ![x] = v] \in [S -> T]
  OBVIOUS

LEMMA InitInv == Init => CatalogInv
<1> SUFFICES ASSUME Init PROVE CatalogInv
  OBVIOUS
<1>1. CatalogTypeOK
  <2>1. 0 \in Stamps /\ 1 \in Stamps /\ Absent \in [Files -> Stamps]
    BY DEF Stamps, Absent
  <2>2. {} \in Listings /\ held \in [Clients -> Listings]
    BY DEF Init, Listings
  <2>3. source \in [Files -> Stamps] /\ dirs \subseteq Files
    BY <2>1 DEF Init
  <2>4. pc \in [Actors -> {"reload", "idle"}] /\ "main" \in Actors
    BY DEF Init, Actors
  <2>5. pc \in [Actors -> {"idle", "start", "serving", "detect", "reload", "announce", "send", "done"}]
    BY <2>4
  <2>6. targets \in [Actors -> SUBSET Clients] /\ oldList \in Listings
    BY <2>2 DEF Init
  <2>7. clock \in 1 .. MaxEdits /\ attempt \in 1 .. MaxAttempts
    BY DEF Init
  <2>8. /\ pre \in [Files -> Stamps] /\ scan \in [Files -> Stamps] /\ before \in [Files -> Stamps]
        /\ loaded \in [Files -> Stamps] /\ fingerprint \in [Files -> Stamps]
    BY <2>1 DEF Init
  <2>9. reloadMu \in Actors \cup {Nobody}
    BY <2>4 DEF Init
  <2> QED BY <2>2, <2>3, <2>5, <2>6, <2>7, <2>8, <2>9 DEF Init, CatalogTypeOK
<1>2. StampsGiven
  BY DEF Init, StampsGiven, Absent
<1>3. LoadSees /\ AfterSees /\ RecordedIsServed
  BY DEF Init, LoadSees, AfterSees, RecordedIsServed, Nobody
<1>4. LockHeld
  BY DEF Init, LockHeld, Actors
<1>5. StaleBeforeIsTold /\ NoStaleClient
  BY DEF Init, StaleBeforeIsTold, NoStaleClient
<1> QED BY <1>1, <1>2, <1>3, <1>4, <1>5 DEF CatalogInv

(* A change of the source gives a stamp no scan has read.                  *)
LEMMA EditInv ==
  ASSUME CatalogInv, EditSource
  PROVE  CatalogInv'
<1> PICK f \in Files : MakeDirectory(f) \/ WriteFile(f) \/ RemoveSkill(f)
  BY DEF EditSource
<1> USE DEF MakeDirectory, WriteFile, RemoveSkill, Raise
<1>1. CatalogTypeOK'
  <2>1. source' \in [Files -> Stamps] /\ clock' \in 1 .. MaxEdits
    BY DEF CatalogInv, CatalogTypeOK, Stamps
  <2>2. dirs' \subseteq Files /\ watched' \subseteq dirs'
    BY DEF CatalogInv, CatalogTypeOK
  <2>3. events' \subseteq Files \cup {OtherChange} /\ blind' \in BOOLEAN
    BY DEF CatalogInv, CatalogTypeOK
  <2> QED BY <2>1, <2>2, <2>3 DEF CatalogInv, CatalogTypeOK
<1>2. StampsGiven'
  BY DEF CatalogInv, CatalogTypeOK, StampsGiven, Stamps
<1>3. LoadSees'
  BY DEF CatalogInv, CatalogTypeOK, StampsGiven, LoadSees, Stamps
<1>4. AfterSees'
  BY DEF CatalogInv, CatalogTypeOK, StampsGiven, AfterSees, Stamps
<1>5. RecordedIsServed' /\ LockHeld'
  BY DEF CatalogInv, RecordedIsServed, LockHeld
<1>6. StaleBeforeIsTold' /\ NoStaleClient'
  BY DEF CatalogInv, StaleBeforeIsTold, NoStaleClient, Pending, Visible, Kept
<1> QED BY <1>1, <1>2, <1>3, <1>4, <1>5, <1>6 DEF CatalogInv

(* One file read under the lock.                                           *)
LEMMA ScanInv ==
  ASSUME CatalogInv, NEW f \in Files, ScanFile(f)
  PROVE  CatalogInv'
<1> USE DEF ScanFile, NextPhase
<1>1. CatalogTypeOK'
  <2>1. [scan EXCEPT ![f] = source[f]] \in [Files -> Stamps] /\ Absent \in [Files -> Stamps]
    BY DEF CatalogInv, CatalogTypeOK, Absent, Stamps
  <2>2. /\ scan' \in [Files -> Stamps] /\ before' \in [Files -> Stamps]
        /\ todo' \subseteq Files /\ phase' \in {"none", "before", "load", "after"}
    BY <2>1 DEF CatalogInv, CatalogTypeOK
  <2> QED BY <2>2 DEF CatalogInv, CatalogTypeOK
<1>2. StampsGiven'
  BY DEF CatalogInv, CatalogTypeOK, StampsGiven, Absent, Stamps
<1>3. LoadSees'
  BY DEF CatalogInv, CatalogTypeOK, LoadSees
<1>4. AfterSees'
  BY DEF CatalogInv, CatalogTypeOK, AfterSees
<1>5. RecordedIsServed' /\ LockHeld'
  BY DEF CatalogInv, RecordedIsServed, LockHeld
<1>6. StaleBeforeIsTold' /\ NoStaleClient'
  BY DEF CatalogInv, StaleBeforeIsTold, NoStaleClient, Pending, Visible, Kept
<1> QED BY <1>1, <1>2, <1>3, <1>4, <1>5, <1>6 DEF CatalogInv

(* The load replaces the prompts; the scan after it starts.                *)
LEMMA ReplaceInv ==
  ASSUME CatalogInv, ReplacePrompts
  PROVE  CatalogInv'
<1> USE DEF ReplacePrompts, ScanEnds, NextPhase
<1>1. CatalogTypeOK'
  BY DEF CatalogInv, CatalogTypeOK, Absent, Stamps
<1>2. StampsGiven'
  BY DEF CatalogInv, CatalogTypeOK, StampsGiven, Absent, Stamps
<1>3. LoadSees' /\ AfterSees'
  BY DEF CatalogInv, CatalogTypeOK, LoadSees, AfterSees
<1>4. RecordedIsServed' /\ LockHeld'
  BY DEF CatalogInv, RecordedIsServed, LockHeld
<1>5. StaleBeforeIsTold' /\ NoStaleClient'
  BY DEF CatalogInv, StaleBeforeIsTold, NoStaleClient, Pending
<1> QED BY <1>1, <1>2, <1>3, <1>4, <1>5 DEF CatalogInv

LEMMA RetryInv ==
  ASSUME CatalogInv, Retry
  PROVE  CatalogInv'
<1> USE DEF Retry, ScanEnds, NextPhase, TriesLeft
<1>1. CatalogTypeOK'
  BY DEF CatalogInv, CatalogTypeOK, Absent, Stamps
<1>2. StampsGiven'
  BY DEF CatalogInv, CatalogTypeOK, StampsGiven, Absent, Stamps
<1>3. LoadSees' /\ AfterSees'
  BY DEF LoadSees, AfterSees
<1>4. RecordedIsServed' /\ LockHeld'
  BY DEF CatalogInv, RecordedIsServed, LockHeld
<1>5. StaleBeforeIsTold' /\ NoStaleClient'
  BY DEF CatalogInv, StaleBeforeIsTold, NoStaleClient, Pending, Visible, Kept
<1> QED BY <1>1, <1>2, <1>3, <1>4, <1>5 DEF CatalogInv

(* The fingerprint is recorded, and a changed list is going to be announced. *)
LEMMA FinishInv ==
  ASSUME CatalogInv, FinishReload
  PROVE  CatalogInv'
<1> USE DEF FinishReload, ScanEnds
<1>1. CatalogTypeOK'
  BY DEF CatalogInv, CatalogTypeOK, Absent, Stamps, Rest, Listings, Nobody
<1>2. StampsGiven'
  BY DEF CatalogInv, CatalogTypeOK, StampsGiven, Absent, Stamps
<1>3. LoadSees' /\ AfterSees'
  BY DEF LoadSees, AfterSees
<1>4. RecordedIsServed'
  BY DEF CatalogInv, CatalogTypeOK, AfterSees, RecordedIsServed, Stable
<1>5. LockHeld'
  BY DEF CatalogInv, CatalogTypeOK, LockHeld, Actors, Nobody, Rest
<1>6. StaleBeforeIsTold'
  BY DEF StaleBeforeIsTold
<1>7. NoStaleClient'
  <2> SUFFICES ASSUME NEW c \in streams, held[c] # Visible(loaded)
               PROVE  c \in told \/ c \in early' \/ Pending(c)'
    BY DEF NoStaleClient, Pending, Visible, Kept
  <2>1. reloadMu \in Actors /\ reloadMu # "main"
    BY DEF CatalogInv, CatalogTypeOK, LockHeld
  <2>2. CASE Visible(loaded) # oldList
    BY <2>1, <2>2 DEF CatalogInv, CatalogTypeOK, ListChanged, Pending
  <2>3. CASE Visible(loaded) = oldList
    <3>1. c \in told \/ c \in early \/ Pending(c)
      BY <2>3 DEF CatalogInv, StaleBeforeIsTold
    <3>2. Pending(c) => Pending(c)'
      BY DEF CatalogInv, CatalogTypeOK, LockHeld, Pending
    <3> QED BY <2>3, <3>1, <3>2
  <2> QED BY <2>2, <2>3
<1> QED BY <1>1, <1>2, <1>3, <1>4, <1>5, <1>6, <1>7 DEF CatalogInv

(* A reload begins with the list of now, which stale clients know to be old. *)
LEMMA BeginInv ==
  ASSUME CatalogInv, ReloadChanged \/ \E a \in Callers : CallReload(a)
  PROVE  CatalogInv'
<1> PICK a \in Actors \ {"main"}, ph \in {"before", "load"}, fp \in {Absent, pre} :
      /\ Begin(a, ph, fp) /\ reloadMu = Nobody
      /\ pc[a] \in {"idle", "detect"} /\ pc' = [pc EXCEPT ![a] = "reload"]
      /\ pre' \in {Absent, pre}
  BY DEF ReloadChanged, CallReload, Detected, Actors
<1>0. UNCHANGED <<sourceVars, watchVars, preTodo, servedVars, clientVars, targets>>
  BY DEF ReloadChanged, CallReload
<1> USE <1>0 DEF Begin
<1>1. CatalogTypeOK'
  BY VisibleTyped DEF CatalogInv, CatalogTypeOK, Absent, Stamps, Actors
<1>2. StampsGiven'
  BY DEF CatalogInv, CatalogTypeOK, StampsGiven, Absent, Stamps
<1>3. LoadSees' /\ AfterSees'
  BY DEF LoadSees, AfterSees
<1>4. RecordedIsServed' /\ LockHeld'
  BY DEF CatalogInv, CatalogTypeOK, RecordedIsServed, LockHeld, Actors, Nobody
<1>5. \A c \in Clients : Pending(c) => Pending(c)'
  BY DEF CatalogInv, CatalogTypeOK, Pending
<1>6. StaleBeforeIsTold' /\ NoStaleClient'
  BY <1>5 DEF CatalogInv, CatalogTypeOK, StaleBeforeIsTold, NoStaleClient, Pending,
              Visible, Kept, Actors, Nobody
<1> QED BY <1>1, <1>2, <1>3, <1>4, <1>6 DEF CatalogInv

(* The watchers before the lock.                                           *)
LEMMA WatchInv ==
  ASSUME CatalogInv,
         \/ StartWatchers \/ PollTick \/ DebounceFires \/ SourcesUnchanged
         \/ \E e \in Files \cup {OtherChange} : HandleEvent(e)
         \/ \E f \in Files : DetectFile(f)
  PROVE  CatalogInv'
<1> USE DEF StartWatchers, PollTick, DebounceFires, SourcesUnchanged, HandleEvent,
            DetectFile, Detect, Detected
<1>1. CatalogTypeOK'
  <2>1. /\ watch' \in {"starting", "poll", "event", "none"} /\ watched' \subseteq dirs
        /\ events' \subseteq Files \cup {OtherChange}
    BY DEF CatalogInv, CatalogTypeOK, Watches
  <2>2. debounce' \in BOOLEAN /\ blind' \in BOOLEAN
    BY DEF CatalogInv, CatalogTypeOK
  <2>3. pc' \in [Actors -> {"idle", "start", "serving", "detect", "reload", "announce", "send", "done"}]
    BY DEF CatalogInv, CatalogTypeOK
  <2>4. preTodo' \subseteq Files
    BY DEF CatalogInv, CatalogTypeOK
  <2>5. pre' \in [Files -> Stamps]
    <3>1. pre' \in {pre, Absent} \/ \E f \in Files : pre' = [pre EXCEPT ![f] = source[f]]
      OBVIOUS
    <3>2. /\ pre \in [Files -> Stamps] /\ Absent \in [Files -> Stamps]
          /\ \A f \in Files : source[f] \in Stamps
      BY DEF CatalogInv, CatalogTypeOK, Absent, Stamps
    <3> QED BY <3>1, <3>2, ExceptTyped
  <2> QED BY <2>1, <2>2, <2>3, <2>4, <2>5 DEF CatalogInv, CatalogTypeOK
<1>2. StampsGiven'
  BY DEF CatalogInv, CatalogTypeOK, StampsGiven, Absent, Stamps
<1>3. LoadSees' /\ AfterSees' /\ RecordedIsServed'
  BY DEF CatalogInv, LoadSees, AfterSees, RecordedIsServed
<1>4. LockHeld'
  BY DEF CatalogInv, CatalogTypeOK, LockHeld, Actors
<1>5. \A c \in Clients : Pending(c) => Pending(c)'
  BY DEF CatalogInv, CatalogTypeOK, Pending, Actors
<1>6. StaleBeforeIsTold' /\ NoStaleClient'
  BY <1>5 DEF CatalogInv, CatalogTypeOK, StaleBeforeIsTold, NoStaleClient, Pending,
              Visible, Kept
<1> QED BY <1>1, <1>2, <1>3, <1>4, <1>6 DEF CatalogInv

(* A broadcast: every client it owes a notification is told or dropped.    *)
LEMMA NotifyInv ==
  ASSUME CatalogInv, NEW a \in Actors, NotifyStep(a)
  PROVE  CatalogInv'
<1> USE DEF NotifyStep, Announce, SendListChanged, ListAgain, Forget
<1>0. {} \in Listings /\ "main" \in Actors
  BY DEF Listings, Actors
<1>1. CatalogTypeOK'
  <2>1. pc' \in [Actors -> {"idle", "start", "serving", "detect", "reload", "announce", "send", "done"}]
    BY DEF CatalogInv, CatalogTypeOK, Rest
  <2>2. targets' \in [Actors -> SUBSET Clients] /\ streams' \subseteq Clients
    BY DEF CatalogInv, CatalogTypeOK
  <2>3. held' \in [Clients -> Listings]
    <3>1. held' = held \/ \E c \in Clients : held' = [held EXCEPT ![c] = {}]
      OBVIOUS
    <3>2. held \in [Clients -> Listings]
      BY DEF CatalogInv, CatalogTypeOK
    <3>3. CASE held' = held
      BY <3>2, <3>3
    <3>4. ASSUME NEW c \in Clients, held' = [held EXCEPT ![c] = {}]
          PROVE  held' \in [Clients -> Listings]
      <4>1. [held EXCEPT ![c] = {}] \in [Clients -> Listings]
        BY <1>0, <3>2, ExceptTyped
      <4> QED BY <3>4, <4>1, Zenon
    <3> QED BY <3>1, <3>3, <3>4, Zenon
  <2>4. told' \subseteq Clients /\ early' \subseteq Clients
    BY DEF CatalogInv, CatalogTypeOK
  <2>5. UNCHANGED <<sourceVars, watchVars, preVars, loadVars, servedVars>>
    OBVIOUS
  <2> HIDE DEF NotifyStep, Announce, SendListChanged, ListAgain, Forget
  <2>6. CatalogTypeOK
    BY DEF CatalogInv
  <2> QED BY <2>1, <2>2, <2>3, <2>4, <2>5, <2>6
          DEF CatalogTypeOK, sourceVars, watchVars, preVars, loadVars, servedVars
<1>2. StampsGiven' /\ LoadSees' /\ AfterSees' /\ RecordedIsServed'
  BY DEF CatalogInv, StampsGiven, LoadSees, AfterSees, RecordedIsServed
<1>3. LockHeld'
  <2>1. a # "main"
    BY DEF CatalogInv, LockHeld
  <2>3. reloadMu # Nobody => a # reloadMu
    BY DEF CatalogInv, LockHeld
  <2>4. streams' \subseteq streams
    OBVIOUS
  <2>2. \A b \in Actors \ {a} : pc'[b] = pc[b]
    BY DEF CatalogInv, CatalogTypeOK
  <2> QED BY <1>0, <2>1, <2>2, <2>3, <2>4 DEF CatalogInv, CatalogTypeOK, LockHeld, Nobody
<1>4. ASSUME NEW c \in streams' PROVE
        /\ c \in streams /\ (held[c]' = held[c] \/ c \in told')
        /\ c \in told \/ c \in early \/ Pending(c)
             => c \in told' \/ c \in early' \/ Pending(c)'
  BY DEF CatalogInv, CatalogTypeOK, Pending
<1>5. StaleBeforeIsTold' /\ NoStaleClient'
  BY <1>4 DEF CatalogInv, StaleBeforeIsTold, NoStaleClient, Pending, Visible, Kept
<1> QED BY <1>1, <1>2, <1>3, <1>5 DEF CatalogInv

LEMMA ClientInv ==
  ASSUME CatalogInv, NEW c \in Clients, OpenStream(c) \/ ListPrompts(c)
  PROVE  CatalogInv'
<1> USE DEF OpenStream, ListPrompts, ListAgain
<1>1. CatalogTypeOK'
  <2>1. Visible(loaded) \in Listings /\ {} \in Listings
    BY VisibleTyped DEF CatalogInv, CatalogTypeOK, Listings
  <2>2. held' \in [Clients -> Listings]
    <3>1. held' = [held EXCEPT ![c] = {}] \/ held' = [held EXCEPT ![c] = Visible(loaded)]
      OBVIOUS
    <3>2. held \in [Clients -> Listings]
      BY DEF CatalogInv, CatalogTypeOK
    <3>3. [held EXCEPT ![c] = {}] \in [Clients -> Listings]
      BY <2>1, <3>2, ExceptTyped
    <3>4. [held EXCEPT ![c] = Visible(loaded)] \in [Clients -> Listings]
      BY <2>1, <3>2, ExceptTyped
    <3> QED BY <3>1, <3>3, <3>4, Zenon
  <2>3. streams' \subseteq Clients /\ told' \subseteq Clients /\ early' \subseteq Clients
    BY DEF CatalogInv, CatalogTypeOK
  <2> QED BY <2>2, <2>3 DEF CatalogInv, CatalogTypeOK
<1>2. StampsGiven' /\ LoadSees' /\ AfterSees' /\ RecordedIsServed' /\ LockHeld'
  BY DEF CatalogInv, StampsGiven, LoadSees, AfterSees, RecordedIsServed, LockHeld
<1>3. StaleBeforeIsTold' /\ NoStaleClient'
  BY DEF CatalogInv, CatalogTypeOK, StaleBeforeIsTold, NoStaleClient, Pending, Visible, Kept
<1> QED BY <1>1, <1>2, <1>3 DEF CatalogInv

LEMMA NextInv ==
  ASSUME CatalogInv, [Next]_vars
  PROVE  CatalogInv'
<1>1. CASE EditSource
  BY <1>1, EditInv
<1>2. CASE ReloadStep
  BY <1>2, ScanInv, ReplaceInv, RetryInv, FinishInv DEF ReloadStep
<1>3. CASE StartWatchers \/ WatcherStep
  BY <1>3, WatchInv, BeginInv DEF WatcherStep
<1>4. CASE \E a \in Callers : CallReload(a)
  BY <1>4, BeginInv
<1>5. CASE \E a \in Actors : NotifyStep(a)
  BY <1>5, NotifyInv
<1>6. CASE \E c \in Clients : OpenStream(c) \/ ListPrompts(c)
  BY <1>6, ClientInv
<1>7. CASE UNCHANGED vars
  BY <1>7 DEF vars, CatalogInv, CatalogTypeOK, StampsGiven, LoadSees, AfterSees,
       RecordedIsServed, LockHeld, StaleBeforeIsTold, NoStaleClient, Pending, Visible, Kept
<1> QED BY <1>1, <1>2, <1>3, <1>4, <1>5, <1>6, <1>7 DEF Next

(* The invariant of the catalog, its watchers and its clients.             *)
THEOREM CatalogInvariant == Spec => []CatalogInv
  BY InitInv, NextInv, PTL DEF Spec

(* The variables keep their types.                                         *)
THEOREM CatalogTypeCorrect == Spec => []CatalogTypeOK
<1>1. CatalogInv => CatalogTypeOK
  BY DEF CatalogInv
<1> QED BY <1>1, CatalogInvariant, PTL

(* Unless the retry limit was hit, a file in the recorded fingerprint is   *)
(* served as fingerprinted, however its writes fall between the reads.     *)
THEOREM RecordedIsServedHolds == Spec => []RecordedIsServed
<1>1. CatalogInv => RecordedIsServed
  BY DEF CatalogInv
<1> QED BY <1>1, CatalogInvariant, PTL

(* No notification is lost: whoever holds an old list has been told or is  *)
(* about to be, but for lists taken in the middle of a reload.             *)
THEOREM NoClientLeftStale == Spec => []NoStaleClient
<1>1. CatalogInv => NoStaleClient
  BY DEF CatalogInv
<1> QED BY <1>1, CatalogInvariant, PTL
=============================================================================
