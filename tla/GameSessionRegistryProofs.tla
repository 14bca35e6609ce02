--------------------- MODULE GameSessionRegistryProofs ---------------------
(***************************************************************************)
(* RegistryInv is inductive under every method of the registry, for any    *)
(* number of games, editors, transports and tokens.  Each method keeps it  *)
(* on its own, so it also holds of every program that calls the methods.   *)
(***************************************************************************)
EXTENDS GameSessionRegistry, TLAPS

-----------------------------------------------------------------------------
(* What each method makes of one record: its type and its fields.          *)

LEMMA ZeroFields ==
  /\ ZeroSession \in GameSession
  /\ ZeroSession.editor = None /\ ZeroSession.runtime = None /\ ZeroSession.running = FALSE
BY DEF ZeroSession, GameSession

LEMMA SessionFields ==
  ASSUME NEW s \in GameSession
  PROVE  /\ s.editor \in Editors \cup {None}
         /\ s.runtime \in Runtimes \cup {None}
         /\ s.running \in BOOLEAN
BY DEF GameSession

LEMMA LaunchedFields ==
  ASSUME NEW s \in GameSession, NEW e \in Editors \cup {None}, NEW t \in Tokens \cup {None}
  PROVE  /\ Launched(s, e, t) \in GameSession
         /\ Launched(s, e, t).editor = OrElse(e, s.editor)
         /\ Launched(s, e, t).runtime = s.runtime
         /\ Launched(s, e, t).running = TRUE
BY DEF Launched, GameSession, OrElse

LEMMA DetachedFields ==
  ASSUME NEW s \in GameSession
  PROVE  /\ Detached(s) \in GameSession
         /\ Detached(s).editor = s.editor
         /\ Detached(s).runtime = None
         /\ Detached(s).running = s.running
BY DEF Detached, GameSession

LEMMA AttachedFields ==
  ASSUME NEW s \in GameSession, NEW r \in Runtimes \cup {None},
         NEW e \in Editors \cup {None}, NEW t \in Tokens \cup {None}
  PROVE  /\ Attached(s, r, e, t) \in GameSession
         /\ Attached(s, r, e, t).editor = OrElse(e, s.editor)
         /\ Attached(s, r, e, t).runtime = OrElse(r, s.runtime)
         /\ Attached(s, r, e, t).running = TRUE
BY DEF Attached, Launched, GameSession, OrElse

LEMMA ObservedFields ==
  ASSUME NEW s \in GameSession
  PROVE  /\ Observed(s) \in GameSession
         /\ Observed(s).editor = s.editor
         /\ Observed(s).runtime = s.runtime
         /\ Observed(s).running = TRUE
BY DEF Observed, GameSession

LEMMA StoppedFields ==
  ASSUME NEW s \in GameSession
  PROVE  /\ Stopped(s) \in GameSession
         /\ Stopped(s).editor = s.editor
         /\ Stopped(s).runtime = None
         /\ Stopped(s).running = FALSE
BY DEF Stopped, GameSession

-----------------------------------------------------------------------------
(* Each method keeps the invariant.                                        *)

LEMMA InitRegistryInv == RegistryInit => RegistryInv
BY NoneIsNoId, ZeroFields DEF RegistryInit, RegistryInv, RegistryTypeOK, RuntimeIndexExact,
                              EditorIndexSound, NoGhosts

LEMMA UpsertKeepsInv ==
  ASSUME RegistryInv, NEW g \in Games \cup {None}, NEW e \in Editors \cup {None},
         NEW t \in Tokens \cup {None}, UpsertFromRun(g, e, t)
  PROVE  RegistryInv'
<1> USE NoneIsNoId DEF RegistryInv, RegistryTypeOK
<1>1. g \in Games /\ known' = known \cup {g} /\ byRuntime' = byRuntime
  BY DEF UpsertFromRun
<1>2. byEditor' = RebindEditor(g, e)
  BY DEF UpsertFromRun
<1>3. /\ session' \in [Games -> GameSession]
      /\ \A h \in Games \ {g} : session'[h] = session[h]
      /\ session'[g].editor = OrElse(e, session[g].editor)
      /\ session'[g].runtime = session[g].runtime
      /\ session'[g].running = TRUE
  <2>1. session[g] \in GameSession /\ session' = [session EXCEPT ![g] = Launched(@, e, t)]
    BY <1>1 DEF UpsertFromRun
  <2>2. session'[g] = Launched(session[g], e, t)
    BY <1>1, <2>1
  <2>3. /\ Launched(session[g], e, t) \in GameSession
        /\ Launched(session[g], e, t).editor = OrElse(e, session[g].editor)
        /\ Launched(session[g], e, t).runtime = session[g].runtime
        /\ Launched(session[g], e, t).running = TRUE
    BY <2>1, LaunchedFields
  <2>4. session' \in [Games -> GameSession]
    BY <1>1, <2>1, <2>3
  <2> QED BY <1>1, <2>1, <2>2, <2>3, <2>4
<1>4. RegistryTypeOK'
  BY <1>1, <1>2, <1>3 DEF RebindEditor
<1>5. RuntimeIndexExact'
  BY <1>1, <1>3 DEF RuntimeIndexExact
<1>6. EditorIndexSound'
  BY <1>1, <1>2, <1>3 DEF EditorIndexSound, RebindEditor, OrElse
<1>7. NoGhosts'
  BY <1>1, <1>3 DEF NoGhosts
<1> QED BY <1>4, <1>5, <1>6, <1>7

LEMMA RegisterKeepsInv ==
  ASSUME RegistryInv, NEW g \in Games, NEW r \in Runtimes \cup {None},
         NEW e \in Editors \cup {None}, NEW t \in Tokens \cup {None},
         RegisterRuntimeTransport(g, r, e, t)
  PROVE  RegistryInv'
<1> USE NoneIsNoId DEF RegistryInv, RegistryTypeOK
<1>1. known' = known \cup {g} /\ byEditor' = RebindEditor(g, e)
  BY DEF RegisterRuntimeTransport
<1>2. /\ session' \in [Games -> GameSession]
      /\ session'[g].editor = OrElse(e, session[g].editor)
      /\ session'[g].runtime = OrElse(r, session[g].runtime)
      /\ session'[g].running = TRUE
      /\ \A h \in Games \ {g} : h \notin Evicted(g, r) => session'[h] = session[h]
      /\ \A h \in Evicted(g, r) : /\ session'[h].editor = session[h].editor
                                 /\ session'[h].runtime = None
                                 /\ session'[h].running = session[h].running
  <2>1. \A h \in Games : session[h] \in GameSession
    OBVIOUS
  <2>2. Evicted(g, r) \subseteq Games \ {g}
    BY DEF Evicted
  <2>3. session' = [h \in Games |->
                      IF h = g THEN Attached(session[g], r, e, t)
                      ELSE IF h \in Evicted(g, r) THEN Detached(session[h])
                      ELSE session[h]]
    BY DEF RegisterRuntimeTransport
  <2>4. /\ session'[g] = Attached(session[g], r, e, t)
        /\ \A h \in Evicted(g, r) : session'[h] = Detached(session[h])
    BY <2>2, <2>3
  <2>5. \A h \in Games : session'[h] \in GameSession
    BY <2>1, <2>3, AttachedFields, DetachedFields
  <2>6. session' \in [Games -> GameSession]
    BY <2>3, <2>5
  <2>7. /\ session'[g].editor = OrElse(e, session[g].editor)
        /\ session'[g].runtime = OrElse(r, session[g].runtime)
        /\ session'[g].running = TRUE
    <3>1. session[g] \in GameSession
      BY <2>1
    <3>2. /\ Attached(session[g], r, e, t).editor = OrElse(e, session[g].editor)
          /\ Attached(session[g], r, e, t).runtime = OrElse(r, session[g].runtime)
          /\ Attached(session[g], r, e, t).running = TRUE
      BY <3>1 DEF Attached, Launched, GameSession
    <3> QED BY <2>4, <3>2
  <2>8. \A h \in Games \ {g} : h \notin Evicted(g, r) => session'[h] = session[h]
    BY <2>3
  <2>9. \A h \in Evicted(g, r) : /\ session'[h].editor = session[h].editor
                                 /\ session'[h].runtime = None
                                 /\ session'[h].running = session[h].running
    BY <2>1, <2>2, <2>4, DetachedFields
  <2> QED BY <2>6, <2>7, <2>8, <2>9
<1>3. byRuntime' \in [Runtimes -> Games \cup {None}]
  BY DEF RegisterRuntimeTransport
<1>4. RegistryTypeOK'
  BY <1>1, <1>2, <1>3 DEF RebindEditor
<1>5. RuntimeIndexExact'
  <2> SUFFICES ASSUME NEW q \in Runtimes, NEW h \in Games
               PROVE  byRuntime'[q] = h <=> session'[h].runtime = q
    BY DEF RuntimeIndexExact
  <2>1. byRuntime'[q] = IF r = None THEN byRuntime[q]
                        ELSE IF q = r THEN g
                        ELSE IF q = session[g].runtime /\ byRuntime[q] = g THEN None
                        ELSE byRuntime[q]
    BY DEF RegisterRuntimeTransport
  <2>2. byRuntime[q] = h <=> session[h].runtime = q
    BY DEF RuntimeIndexExact
  <2>3. byRuntime[q] = g <=> session[g].runtime = q
    BY DEF RuntimeIndexExact
  <2>4. CASE h = g
    BY <1>2, <2>1, <2>3, <2>4 DEF OrElse
  <2>5. CASE h # g /\ h \in Evicted(g, r)
    BY <1>2, <2>1, <2>2, <2>5 DEF Evicted
  <2>6. CASE h # g /\ h \notin Evicted(g, r)
    <3>1. session'[h] = session[h]
      BY <1>2, <2>6
    <3>2. h \notin known => session[h].runtime = None
      BY ZeroFields DEF NoGhosts
    <3> QED BY <2>1, <2>2, <2>6, <3>1, <3>2 DEF Evicted
  <2> QED BY <2>4, <2>5, <2>6
<1>6. EditorIndexSound'
  BY <1>1, <1>2 DEF EditorIndexSound, RebindEditor, OrElse
<1>7. NoGhosts'
  BY <1>1, <1>2 DEF NoGhosts, Evicted
<1> QED BY <1>4, <1>5, <1>6, <1>7

LEMMA MarkKeepsInv ==
  ASSUME RegistryInv, NEW g \in Games, MarkSnapshotReceived(g)
  PROVE  RegistryInv'
<1> USE DEF RegistryInv, RegistryTypeOK, MarkSnapshotReceived
<1>1. /\ session' \in [Games -> GameSession]
      /\ \A h \in Games : /\ session'[h].editor = session[h].editor
                          /\ session'[h].runtime = session[h].runtime
                          /\ session[h].running => session'[h].running
                          /\ h \notin known => session'[h] = session[h]
  <2>1. CASE g \notin known
    BY <2>1
  <2>2. CASE g \in known
    <3>1. session[g] \in GameSession /\ session' = [session EXCEPT ![g] = Observed(@)]
      BY <2>2
    <3>2. session'[g] = Observed(session[g]) /\ \A h \in Games \ {g} : session'[h] = session[h]
      BY <3>1
    <3> QED BY <2>2, <3>1, <3>2, ObservedFields
  <2> QED BY <2>1, <2>2
<1> QED BY <1>1 DEF RuntimeIndexExact, EditorIndexSound, NoGhosts

(* Stopping any set of known sessions; RuntimeIndexExact makes the         *)
(* unconditional delete of the code safe.                                  *)
LEMMA StopKeepsInv ==
  ASSUME RegistryInv, NEW S \in SUBSET known, StopLocked(S)
  PROVE  RegistryInv'
<1> USE NoneIsNoId DEF RegistryInv, RegistryTypeOK
<1>1. S \subseteq Games /\ known' = known /\ byEditor' = byEditor
  BY DEF StopLocked
<1>2. byRuntime' = [r \in Runtimes |->
                      IF \E g \in S : session[g].runtime = r THEN None ELSE byRuntime[r]]
  BY DEF StopLocked
<1>3. /\ session' \in [Games -> GameSession]
      /\ \A h \in Games \ S : session'[h] = session[h]
      /\ \A h \in S : /\ session'[h].editor = session[h].editor
                       /\ session'[h].runtime = None
  <2>1. \A h \in Games : session[h] \in GameSession
    OBVIOUS
  <2>2. session' = [h \in Games |-> IF h \in S THEN Stopped(session[h]) ELSE session[h]]
    BY DEF StopLocked
  <2>3. \A h \in Games : session'[h] \in GameSession
    BY <2>1, <2>2, StoppedFields
  <2>4. \A h \in S : session'[h] = Stopped(session[h])
    BY <1>1, <2>2
  <2> QED BY <1>1, <2>1, <2>2, <2>3, <2>4, StoppedFields
<1>4. RegistryTypeOK'
  BY <1>1, <1>2, <1>3
<1>5. RuntimeIndexExact'
  <2> SUFFICES ASSUME NEW q \in Runtimes, NEW h \in Games
               PROVE  byRuntime'[q] = h <=> session'[h].runtime = q
    BY DEF RuntimeIndexExact
  <2>1. \A k \in Games : byRuntime[q] = k <=> session[k].runtime = q
    BY DEF RuntimeIndexExact
  <2>2. byRuntime'[q] = IF \E g \in S : session[g].runtime = q THEN None ELSE byRuntime[q]
    BY <1>2
  <2> QED BY <1>1, <1>3, <2>1, <2>2
<1>6. EditorIndexSound'
  BY <1>1, <1>3 DEF EditorIndexSound
<1>7. NoGhosts'
  BY <1>1, <1>3 DEF NoGhosts
<1> QED BY <1>4, <1>5, <1>6, <1>7

LEMMA RemoveKeepsInv ==
  ASSUME RegistryInv, NEW g \in Games, RemoveSession(g)
  PROVE  RegistryInv'
<1> USE NoneIsNoId DEF RegistryInv, RegistryTypeOK, RemoveSession
<1>1. RegistryTypeOK'
  BY ZeroFields
<1>2. RuntimeIndexExact'
  BY ZeroFields DEF RuntimeIndexExact
<1>3. EditorIndexSound'
  BY ZeroFields DEF EditorIndexSound
<1>4. NoGhosts'
  BY ZeroFields DEF NoGhosts
<1> QED BY <1>1, <1>2, <1>3, <1>4

LEMMA StopByEditorKeepsInv ==
  ASSUME RegistryInv, NEW e \in Editors, StopByEditorSession(e)
  PROVE  RegistryInv'
<1>1. byEditor[e] = None \/ byEditor[e] \in known
  BY DEF RegistryInv, EditorIndexSound
<1>2. StopLocked({byEditor[e]} \cap known)
  BY <1>1 DEF StopByEditorSession
<1> QED BY <1>2, StopKeepsInv

LEMMA RemoveByEditorKeepsInv ==
  ASSUME RegistryInv, NEW e \in Editors, RemoveByEditorSession(e)
  PROVE  RegistryInv'
<1>1. CASE byEditor[e] = None
  BY <1>1 DEF RemoveByEditorSession, registryVars, RegistryInv, RegistryTypeOK,
              RuntimeIndexExact, EditorIndexSound, NoGhosts
<1>2. CASE byEditor[e] # None
  <2>1. byEditor[e] \in known /\ byEditor[e] \in Games
    BY <1>2 DEF RegistryInv, RegistryTypeOK, EditorIndexSound
  <2> QED BY <1>2, <2>1, RemoveKeepsInv DEF RemoveByEditorSession
<1> QED BY <1>1, <1>2

-----------------------------------------------------------------------------
(* One method call, or none.                                               *)
LEMMA RegistryStep == RegistryInv /\ [RegistryNext]_registryVars => RegistryInv'
<1> SUFFICES ASSUME RegistryInv, [RegistryNext]_registryVars PROVE RegistryInv'
  OBVIOUS
<1>1. CASE UNCHANGED registryVars
  BY <1>1 DEF registryVars, RegistryInv, RegistryTypeOK, RuntimeIndexExact,
              EditorIndexSound, NoGhosts
<1>2. ASSUME NEW g \in Games, StopSession(g) PROVE RegistryInv'
  BY <1>2, StopKeepsInv DEF StopSession
<1>3. ASSUME NEW e \in Editors, NEW g \in Games, StopStaleForEditor(e, g) PROVE RegistryInv'
  BY <1>3, StopKeepsInv DEF StopStaleForEditor, Stale
<1> QED BY <1>1, <1>2, <1>3, UpsertKeepsInv, RegisterKeepsInv, MarkKeepsInv, RemoveKeepsInv,
           StopByEditorKeepsInv, RemoveByEditorKeepsInv
        DEF RegistryNext

(* After any sequence of calls, from any goroutines, the three maps agree: *)
(* the transport index is exact, the editor index names known sessions of  *)
(* that editor, and a session that does not run owns no transport.         *)
THEOREM RegistryConsistent == RegistrySpec => []RegistryInv
BY InitRegistryInv, RegistryStep, PTL DEF RegistrySpec

(* byRuntimeSession is exact in both directions.                           *)
THEOREM TransportIndexIsExact == RegistrySpec => []RuntimeIndexExact
<1>1. RegistryInv => RuntimeIndexExact
  BY DEF RegistryInv
<1> QED BY <1>1, RegistryConsistent, PTL

(* An editor's entry is never dangling.                                    *)
THEOREM EditorIndexIsSound == RegistrySpec => []EditorIndexSound
<1>1. RegistryInv => EditorIndexSound
  BY DEF RegistryInv
<1> QED BY <1>1, RegistryConsistent, PTL

(* Where no transport is reached, none is recorded: a record that a late   *)
(* snapshot or a new run sets running again has nothing to lead to.        *)
LEMMA UnreachableOwnsNothing ==
  ASSUME RegistryInv, NEW g \in Games, RuntimeSessionID(g) = None
  PROVE  session[g].runtime = None
<1>1. CASE g \notin known
  BY <1>1, ZeroFields DEF RegistryInv, NoGhosts
<1>2. CASE g \in known /\ ~session[g].running
  BY <1>2 DEF RegistryInv, NoGhosts
<1>3. CASE g \in known /\ session[g].running
  BY <1>3 DEF RuntimeSessionID
<1> QED BY <1>1, <1>2, <1>3

LEMMA UnreachableStep ==
  ASSUME RegistryInv
  PROVE  \A g \in Games :
           RuntimeSessionID(g) = None /\ RuntimeSessionID(g)' # None =>
             session'[g].runtime # session[g].runtime
<1> SUFFICES ASSUME NEW g \in Games, RuntimeSessionID(g) = None, RuntimeSessionID(g)' # None
             PROVE  session'[g].runtime # session[g].runtime
  OBVIOUS
<1>1. session[g].runtime = None
  BY UnreachableOwnsNothing
<1>2. session'[g].runtime # None
  BY DEF RuntimeSessionID
<1> QED BY <1>1, <1>2

(* A stopped or removed game gets no commands until a process registers:   *)
(* no late snapshot and no new run makes its old transport reachable.      *)
THEOREM StoppedStaysUnreachable == RegistrySpec => StoppedIsUnreachable
<1>1. RegistryInv => [\A g \in Games :
         RuntimeSessionID(g) = None /\ RuntimeSessionID(g)' # None =>
           session'[g].runtime # session[g].runtime]_registryVars
  BY UnreachableStep
<1> QED BY <1>1, RegistryConsistent, PTL DEF StoppedIsUnreachable

(* The records and the indexes stay well typed: whichever empty arguments  *)
(* the calls leave out, an index entry names a game or nothing.            *)
THEOREM RecordsWellFormed == RegistrySpec => []RegistryTypeOK
<1>1. RegistryInv => RegistryTypeOK
  BY DEF RegistryInv
<1> QED BY <1>1, RegistryConsistent, PTL
=============================================================================
