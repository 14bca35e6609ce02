------------------------ MODULE SessionStreamsProofs ------------------------
(***************************************************************************)
(* What the checks of SessionStreams show for any number of sessions,      *)
(* streams and senders.  Neither property is inductive: that a handler     *)
(* whose ClearTransportIfMatch finds another stream, or none, has been     *)
(* closed follows from what every holder of mu promises (LockInv) and from *)
(* "a handler past its SetTransport is bound or closed" (HandlerInv).      *)
(***************************************************************************)
EXTENDS SessionStreams, TLAPS

USE SessionStreamsAssumption
USE DEF manager, handlers, transports, Unlocked

(* With no session there is nothing to serve, and nobody holds a lock.     *)
LEMMA StreamsInitInv == StreamsInit => StreamsInv
  BY DEF StreamsInit, StreamsInv, StreamsTypeOK, BoundIsServed, LockInv, HandlerInv,
         Untouched, Resting

(* A sender's record keeps its type when the sender moves on.              *)
LEMMA SendingTyped ==
  ASSUME StreamsTypeOK, NEW k \in Senders, NEW place \in {"failed", "writing", "returned"},
         Sending(k, place)
  PROVE  send' \in [Senders -> [pc : {"idle", "holding", "writing", "failed", "returned"},
                                session : Sessions \cup {None}, stream : Streams \cup {None}]]
  BY DEF StreamsTypeOK, Sending

(* Requests that concern a session and its age.                            *)
LEMMA ManageInv ==
  ASSUME StreamsInv, NEW s \in Sessions, Manage(s)
  PROVE  StreamsInv'
<1> USE DEF Manage, InitializeNew, InitializeAgain, InitializeRefused, CreateSession,
            TouchSession, GoStale, RemoveSession, Forget
<1>1. StreamsTypeOK'
  BY DEF StreamsInv, StreamsTypeOK, LockInv
<1>2. BoundIsServed'
  BY DEF StreamsInv, StreamsTypeOK, BoundIsServed, LockInv
<1>3. LockInv'
  BY DEF StreamsInv, StreamsTypeOK, BoundIsServed, LockInv
<1>4. ASSUME NEW g \in Streams PROVE HandlerInv(g)'
  BY DEF StreamsInv, StreamsTypeOK, BoundIsServed, LockInv, HandlerInv, Untouched
<1> QED BY <1>1, <1>2, <1>3, <1>4 DEF StreamsInv

(* The sweep of idle sessions, up to the first stream to close.            *)
LEMMA CleanupInv ==
  ASSUME StreamsInv, CleanupSessions
  PROVE  StreamsInv'
<1> USE DEF CleanupSessions, Forget
<1>1. StreamsTypeOK'
  BY DEF StreamsInv, StreamsTypeOK, LockInv
<1>2. BoundIsServed'
  BY DEF StreamsInv, StreamsTypeOK, BoundIsServed, LockInv
<1>3. LockInv'
  BY DEF StreamsInv, StreamsTypeOK, BoundIsServed, LockInv
<1>4. ASSUME NEW g \in Streams PROVE HandlerInv(g)'
  BY DEF StreamsInv, StreamsTypeOK, BoundIsServed, LockInv, HandlerInv, Untouched
<1> QED BY <1>1, <1>2, <1>3, <1>4 DEF StreamsInv

(* A handler before its SetTransport, and the end of its context.          *)
LEMMA OpeningInv ==
  ASSUME StreamsInv, NEW h \in Streams, SendComment(h) \/ ClientLeaves(h) \/ StreamDone(h)
  PROVE  StreamsInv'
<1> USE DEF SendComment, ClientLeaves, StreamDone, Goto
<1>1. StreamsTypeOK'
  BY DEF StreamsInv, StreamsTypeOK, LockInv
<1>2. BoundIsServed'
  BY DEF StreamsInv, StreamsTypeOK, BoundIsServed, LockInv
<1>3. LockInv'
  BY DEF StreamsInv, StreamsTypeOK, BoundIsServed, LockInv
<1>4. ASSUME NEW g \in Streams PROVE HandlerInv(g)'
  BY DEF StreamsInv, StreamsTypeOK, BoundIsServed, LockInv, HandlerInv, Untouched
<1> QED BY <1>1, <1>2, <1>3, <1>4 DEF StreamsInv

(* A handler takes its session.                                            *)
LEMMA HandleGetInv ==
  ASSUME StreamsInv, NEW h \in Streams, NEW s \in Sessions, HandleGet(h, s)
  PROVE  StreamsInv'
<1> USE DEF HandleGet, Goto
<1>1. StreamsTypeOK'
  BY DEF StreamsInv, StreamsTypeOK, LockInv
<1>2. BoundIsServed'
  BY DEF StreamsInv, StreamsTypeOK, BoundIsServed, LockInv
<1>3. LockInv'
  BY DEF StreamsInv, StreamsTypeOK, BoundIsServed, LockInv
<1>4. ASSUME NEW g \in Streams PROVE HandlerInv(g)'
  BY DEF StreamsInv, StreamsTypeOK, BoundIsServed, LockInv, HandlerInv, Untouched
<1> QED BY <1>1, <1>2, <1>3, <1>4 DEF StreamsInv

(* SetTransport, up to the stream it replaces.                             *)
LEMMA SetTransportInv ==
  ASSUME StreamsInv, NEW h \in Streams, SetTransport(h)
  PROVE  StreamsInv'
<1> USE DEF SetTransport, Goto
<1>1. StreamsTypeOK'
  BY DEF StreamsInv, StreamsTypeOK, LockInv
<1>2. BoundIsServed'
  BY DEF StreamsInv, StreamsTypeOK, BoundIsServed, LockInv
<1>3. LockInv'
  BY DEF StreamsInv, StreamsTypeOK, BoundIsServed, LockInv
<1>4. ASSUME NEW g \in Streams PROVE HandlerInv(g)'
  <2>1. Untouched(g)' <=> Untouched(g)
    BY DEF Untouched
  <2>2. CASE g = h
    BY <2>1, <2>2 DEF StreamsInv, StreamsTypeOK, HandlerInv, Untouched
  <2>3. CASE g # h
    BY <2>1, <2>3 DEF StreamsInv, StreamsTypeOK, HandlerInv
  <2> QED BY <2>2, <2>3
<1> QED BY <1>1, <1>2, <1>3, <1>4 DEF StreamsInv

(* The deferred ClearTransportIfMatch, up to the stream it closes.         *)
LEMMA ClearOnReturnInv ==
  ASSUME StreamsInv, NEW h \in Streams, ClearOnReturn(h)
  PROVE  StreamsInv'
<1> USE DEF ClearOnReturn, Goto, Matches
<1>1. StreamsTypeOK'
  BY DEF StreamsInv, StreamsTypeOK, LockInv
<1>2. BoundIsServed'
  BY DEF StreamsInv, StreamsTypeOK, BoundIsServed, LockInv
<1>3. LockInv'
  BY DEF StreamsInv, StreamsTypeOK, BoundIsServed, LockInv
<1>4. ASSUME NEW g \in Streams PROVE HandlerInv(g)'
  BY DEF StreamsInv, StreamsTypeOK, BoundIsServed, LockInv, HandlerInv, Untouched
<1> QED BY <1>1, <1>2, <1>3, <1>4 DEF StreamsInv

(* A sender looks up the stream.                                           *)
LEMMA GetTransportInv ==
  ASSUME StreamsInv, NEW k \in Senders, NEW s \in Sessions, GetTransport(k, s)
  PROVE  StreamsInv'
<1> USE DEF GetTransport
<1>1. StreamsTypeOK'
  BY DEF StreamsInv, StreamsTypeOK, LockInv
<1>2. BoundIsServed'
  BY DEF StreamsInv, StreamsTypeOK, BoundIsServed, LockInv
<1>3. LockInv'
  BY DEF StreamsInv, StreamsTypeOK, BoundIsServed, LockInv
<1>4. ASSUME NEW g \in Streams PROVE HandlerInv(g)'
  BY DEF StreamsInv, StreamsTypeOK, BoundIsServed, LockInv, HandlerInv, Untouched
<1> QED BY <1>1, <1>2, <1>3, <1>4 DEF StreamsInv

(* The write, under the lock of the stream.                                *)
LEMMA SendingInv ==
  ASSUME StreamsInv, NEW k \in Senders, SendSSE(k) \/ WriteEnds(k)
  PROVE  StreamsInv'
<1> USE DEF SendSSE, WriteEnds, Sending
<1>1. StreamsTypeOK'
  BY SendingTyped DEF StreamsInv, StreamsTypeOK
<1>2. BoundIsServed'
  BY DEF StreamsInv, StreamsTypeOK, BoundIsServed, LockInv
<1>3. LockInv'
  BY DEF StreamsInv, StreamsTypeOK, BoundIsServed, LockInv
<1>4. ASSUME NEW g \in Streams PROVE HandlerInv(g)'
  BY DEF StreamsInv, StreamsTypeOK, BoundIsServed, LockInv, HandlerInv, Untouched
<1> QED BY <1>1, <1>2, <1>3, <1>4 DEF StreamsInv

(* ClearTransportIfMatch after a failed write.                             *)
LEMMA ClearOnFailureInv ==
  ASSUME StreamsInv, NEW k \in Senders, ClearOnFailure(k)
  PROVE  StreamsInv'
<1> USE DEF ClearOnFailure, Sending, Matches
<1>1. StreamsTypeOK'
  BY DEF StreamsInv, StreamsTypeOK, LockInv
<1>2. BoundIsServed'
  BY DEF StreamsInv, StreamsTypeOK, BoundIsServed, LockInv
<1>3. LockInv'
  BY DEF StreamsInv, StreamsTypeOK, BoundIsServed, LockInv
<1>4. ASSUME NEW g \in Streams PROVE HandlerInv(g)'
  BY DEF StreamsInv, StreamsTypeOK, BoundIsServed, LockInv, HandlerInv, Untouched
<1> QED BY <1>1, <1>2, <1>3, <1>4 DEF StreamsInv

(* The replaced stream is closed.                                          *)
LEMMA FinishSetTransportInv ==
  ASSUME StreamsInv, FinishSetTransport
  PROVE  StreamsInv'
<1> USE DEF FinishSetTransport, Close, Goto
<1>1. StreamsTypeOK'
  BY DEF StreamsInv, StreamsTypeOK, LockInv
<1>2. BoundIsServed'
  BY DEF StreamsInv, StreamsTypeOK, BoundIsServed, LockInv
<1>3. LockInv'
  BY DEF StreamsInv, StreamsTypeOK, BoundIsServed, LockInv
<1>4. ASSUME NEW g \in Streams PROVE HandlerInv(g)'
  BY DEF StreamsInv, StreamsTypeOK, BoundIsServed, LockInv, HandlerInv, Untouched
<1> QED BY <1>1, <1>2, <1>3, <1>4 DEF StreamsInv

(* The stream cleared is closed.                                           *)
LEMMA FinishClearInv ==
  ASSUME StreamsInv, FinishClear
  PROVE  StreamsInv'
<1> USE DEF FinishClear, Close, Goto, Sending
<1>1. StreamsTypeOK'
  BY DEF StreamsInv, StreamsTypeOK, LockInv
<1>2. BoundIsServed'
  BY DEF StreamsInv, StreamsTypeOK, BoundIsServed, LockInv
<1>3. LockInv'
  BY DEF StreamsInv, StreamsTypeOK, BoundIsServed, LockInv
<1>4. ASSUME NEW g \in Streams PROVE HandlerInv(g)'
  BY DEF StreamsInv, StreamsTypeOK, BoundIsServed, LockInv, HandlerInv, Untouched
<1> QED BY <1>1, <1>2, <1>3, <1>4 DEF StreamsInv

(* The stream of a removed session is closed.                              *)
LEMMA FinishRemoveInv ==
  ASSUME StreamsInv, FinishRemove
  PROVE  StreamsInv'
<1> USE DEF FinishRemove, Close, Forget, NextRemoval
<1>1. StreamsTypeOK'
  BY DEF StreamsInv, StreamsTypeOK, LockInv
<1>2. BoundIsServed'
  BY DEF StreamsInv, StreamsTypeOK, BoundIsServed, LockInv
<1>3. LockInv'
  BY DEF StreamsInv, StreamsTypeOK, BoundIsServed, LockInv
<1>4. ASSUME NEW g \in Streams PROVE HandlerInv(g)'
  BY DEF StreamsInv, StreamsTypeOK, BoundIsServed, LockInv, HandlerInv, Untouched
<1> QED BY <1>1, <1>2, <1>3, <1>4 DEF StreamsInv

(* StreamsInv is inductive, a lemma for each group of actions.             *)
LEMMA StreamsInductive == StreamsInv /\ [StreamsNext]_vars => StreamsInv'
<1> SUFFICES ASSUME StreamsInv, [StreamsNext]_vars PROVE StreamsInv'
  OBVIOUS
<1>1. CASE UNCHANGED vars
  <2>1. StreamsTypeOK' /\ BoundIsServed' /\ LockInv'
    BY <1>1 DEF vars, StreamsInv, StreamsTypeOK, BoundIsServed, LockInv
  <2>2. \A h \in Streams : HandlerInv(h)'
    BY <1>1 DEF vars, StreamsInv, HandlerInv, Untouched
  <2> QED BY <2>1, <2>2 DEF StreamsInv
<1>2. CASE \E s \in Sessions : Manage(s)
  BY <1>2, ManageInv
<1>3. CASE CleanupSessions
  BY <1>3, CleanupInv
<1>4. CASE \E h \in Streams, s \in Sessions : HandleGet(h, s)
  BY <1>4, HandleGetInv
<1>5. CASE \E h \in Streams : SendComment(h) \/ SetTransport(h) \/ ClientLeaves(h)
                              \/ StreamDone(h) \/ ClearOnReturn(h)
  BY <1>5, OpeningInv, SetTransportInv, ClearOnReturnInv
<1>6. CASE \E k \in Senders, s \in Sessions : GetTransport(k, s)
  BY <1>6, GetTransportInv
<1>7. CASE \E k \in Senders : SendSSE(k) \/ WriteEnds(k) \/ ClearOnFailure(k)
  BY <1>7, SendingInv, ClearOnFailureInv
<1>8. CASE Finish
  BY <1>8, FinishSetTransportInv, FinishClearInv, FinishRemoveInv DEF Finish
<1> QED
  BY <1>1, <1>2, <1>3, <1>4, <1>5, <1>6, <1>7, <1>8 DEF StreamsNext

(* The invariant holds throughout.                                         *)
THEOREM StreamsInvariant == StreamsSpec => []StreamsInv
<1> QED BY StreamsInitInv, StreamsInductive, PTL DEF StreamsSpec

(* No handler of a GET returns before its stream is closed to every write, *)
(* under way or to come, whoever replaced, cleared or removed it.          *)
THEOREM NoWriteAfterReturnHolds == StreamsSpec => []NoWriteAfterReturn
<1>1. StreamsInv => NoWriteAfterReturn
  BY DEF StreamsInv, StreamsTypeOK, BoundIsServed, HandlerInv, Untouched, NoWriteAfterReturn
<1> QED BY <1>1, StreamsInvariant, PTL

(* A step of the manager unbinds a stream only for cause.                  *)
LEMMA StepLosesForCause == StreamsInv /\ [StreamsNext]_vars => LostForCause
<1> SUFFICES ASSUME StreamsInv, [StreamsNext]_vars, NEW s \in Sessions,
                    bound[s] # None, bound'[s] # bound[s]
             PROVE  \/ bound'[s] # None
                    \/ s \notin sessions'
                    \/ bound[s] \in done
                    \/ \E k \in Senders : send[k].stream = bound[s] /\ send[k].pc = "failed"
  BY DEF LostForCause
<1>1. bound' # bound
  OBVIOUS
<1>2. CASE \E h \in Streams : SetTransport(h)
  BY <1>2 DEF SetTransport, StreamsInv, StreamsTypeOK
<1>3. CASE FinishSetTransport
  BY <1>3 DEF FinishSetTransport, StreamsInv, StreamsTypeOK, LockInv
<1>4. CASE FinishClear
  BY <1>4 DEF FinishClear, StreamsInv, StreamsTypeOK, LockInv, HandlerInv
<1>5. CASE FinishRemove
  BY <1>5 DEF FinishRemove, Forget, StreamsInv, StreamsTypeOK
<1> QED
  BY <1>1, <1>2, <1>3, <1>4, <1>5
  DEF vars, StreamsNext, Manage, Finish, InitializeNew, InitializeAgain, InitializeRefused,
      CreateSession, TouchSession, GoStale, RemoveSession, CleanupSessions, HandleGet,
      SendComment, ClientLeaves, StreamDone, ClearOnReturn, GetTransport, SendSSE, WriteEnds,
      ClearOnFailure

(* What an older handler or a late failed send clears is never the stream  *)
(* that replaced its own: a session loses a stream only for cause.         *)
THEOREM StreamLossHasCause == StreamsSpec => StreamLostForCause
<1> QED BY StepLosesForCause, StreamsInvariant, PTL DEF StreamsSpec, StreamLostForCause

(* The variables keep their types; a clear or a removal under way always   *)
(* has a stream to close.                                                  *)
THEOREM StreamsWellFormed == StreamsSpec => []StreamsTypeOK
<1>1. StreamsInv => StreamsTypeOK
  BY DEF StreamsInv
<1> QED BY <1>1, StreamsInvariant, PTL
=============================================================================
