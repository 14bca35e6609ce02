--------------------------- MODULE SessionStreams ---------------------------
(***************************************************************************)
(* MCP sessions and their event streams: transport/http/session.go with    *)
(* the handlers of router.go that open a stream, delete a session and      *)
(* initialize one, the sender of notifications in                          *)
(* prompt_catalog_runtime.go, and StreamableHTTPTransport (streamable.go). *)
(*                                                                         *)
(* Two kinds of lock matter: the session manager's (mu), which an          *)
(* operation holds while it closes a stream, and the stream's own          *)
(* (writer), which a sender holds while it writes.  An operation that      *)
(* closes nothing is one step.  The handshake flags of a session and what  *)
(* its removal does to games are not here (see RuntimeBridge).             *)
(***************************************************************************)
EXTENDS FiniteSets

CONSTANTS Sessions,   \* session ids
          Streams,    \* GET requests, each with a transport of its own
          Senders,    \* calls of SendJSONRPCNotificationToSession
          None

ASSUME SessionStreamsAssumption ==
  /\ None \notin Sessions /\ None \notin Streams /\ None \notin Senders
  /\ Streams \cap Senders = {}

VARIABLES
  sessions,   \* the ids in SessionManager.sessions
  bound,      \* Session.Transport
  stale,      \* sessions whose LastSeen is older than the timeout
  inits,      \* initialize requests let in and not yet at CreateSession
  used,       \* ids that generateSessionID has returned
  mu,         \* who holds SessionManager.mu to close bound[mu.session]
  doomed,     \* sessions CleanupSessions has yet to remove
  get,        \* where the handler of a GET is
  of,         \* its session
  done,       \* streams whose streamCtx is done
  closed,     \* StreamableHTTPTransport.closed
  writer,     \* who holds StreamableHTTPTransport.mu
  send        \* a sender's place, session and transport

manager == <<sessions, bound, stale, inits, used, mu, doomed>>
handlers == <<get, of, done>>
transports == <<closed, writer>>
vars == <<manager, handlers, transports, send>>

Unlocked == [op |-> "free", session |-> None, by |-> None]
Resting == [pc |-> "idle", session |-> None, stream |-> None]

StreamsTypeOK ==
  /\ sessions \subseteq used /\ used \subseteq Sessions /\ inits \subseteq used
  /\ stale \subseteq sessions /\ doomed \subseteq sessions
  /\ bound \in [Sessions -> Streams \cup {None}]
  /\ mu \in {Unlocked} \cup [op : {"bind", "clear", "remove"}, session : Sessions,
                             by : Streams \cup Senders \cup {None}]
  /\ mu # Unlocked => bound[mu.session] # None
  /\ get \in [Streams -> {"idle", "opening", "binding", "open", "leaving", "returned"}]
  /\ of \in [Streams -> Sessions \cup {None}]
  /\ done \subseteq Streams /\ closed \subseteq done
  /\ writer \in [Streams -> Senders \cup {None}]
  /\ send \in [Senders -> [pc : {"idle", "holding", "writing", "failed", "returned"},
                           session : Sessions \cup {None}, stream : Streams \cup {None}]]

StreamsInit ==
  /\ sessions = {} /\ stale = {} /\ inits = {} /\ used = {} /\ doomed = {}
  /\ bound = [s \in Sessions |-> None] /\ mu = Unlocked
  /\ get = [h \in Streams |-> "idle"] /\ of = [h \in Streams |-> None]
  /\ done = {} /\ closed = {} /\ writer = [h \in Streams |-> None]
  /\ send = [k \in Senders |-> Resting]

-----------------------------------------------------------------------------
(* Sessions                                                                *)

(* A POST of initialize without a session id, or for a session there is.   *)
InitializeNew(s) ==
  /\ s \notin used
  /\ used' = used \cup {s} /\ inits' = inits \cup {s}
  /\ UNCHANGED <<sessions, bound, stale, mu, doomed, handlers, transports, send>>

InitializeAgain(s) ==
  /\ mu = Unlocked /\ s \in sessions
  /\ stale' = stale \ {s} /\ inits' = inits \cup {s}
  /\ UNCHANGED <<sessions, bound, used, mu, doomed, handlers, transports, send>>

(* An unsupported protocol version: handleInit leaves the session alone.   *)
InitializeRefused(s) ==
  /\ s \in inits /\ inits' = inits \ {s}
  /\ UNCHANGED <<sessions, bound, stale, used, mu, doomed, handlers, transports, send>>

CreateSession(s) ==
  /\ mu = Unlocked /\ s \in inits
  /\ sessions' = sessions \cup {s} /\ stale' = stale \ {s} /\ inits' = inits \ {s}
  /\ UNCHANGED <<bound, used, mu, doomed, handlers, transports, send>>

TouchSession(s) ==
  /\ mu = Unlocked /\ s \in stale /\ stale' = stale \ {s}
  /\ UNCHANGED <<sessions, bound, inits, used, mu, doomed, handlers, transports, send>>

(* Ten minutes without a request: LastSeen is not moved by notifications.  *)
GoStale(s) ==
  /\ s \in sessions \ stale /\ stale' = stale \cup {s}
  /\ UNCHANGED <<sessions, bound, inits, used, mu, doomed, handlers, transports, send>>

Forget(S) == sessions' = sessions \ S /\ stale' = stale \ S

RemoveSession(s) ==
  /\ mu = Unlocked /\ s \in sessions
  /\ \/ bound[s] = None /\ Forget({s}) /\ UNCHANGED mu
     \/ /\ bound[s] # None
        /\ mu' = [op |-> "remove", session |-> s, by |-> None]
        /\ UNCHANGED <<sessions, stale>>
  /\ UNCHANGED <<bound, inits, used, doomed, handlers, transports, send>>

(* Those without a stream at once, the others one by one under the lock.   *)
CleanupSessions ==
  LET streaming == {s \in stale : bound[s] # None} IN
  /\ mu = Unlocked /\ stale # {}
  /\ Forget(stale \ streaming)
  /\ \/ streaming = {} /\ UNCHANGED <<mu, doomed>>
     \/ \E s \in streaming :
          /\ mu' = [op |-> "remove", session |-> s, by |-> None]
          /\ doomed' = streaming \ {s}
  /\ UNCHANGED <<bound, inits, used, handlers, transports, send>>

-----------------------------------------------------------------------------
(* A GET that opens an event stream                                        *)

Goto(h, place) == get' = [get EXCEPT ![h] = place]

HandleGet(h, s) ==
  /\ mu = Unlocked /\ get[h] = "idle" /\ s \in sessions
  /\ of' = [of EXCEPT ![h] = s] /\ Goto(h, "opening")
  /\ UNCHANGED <<manager, done, transports, send>>

SendComment(h) ==
  /\ get[h] = "opening"
  /\ Goto(h, "binding") \/ Goto(h, "returned")
  /\ UNCHANGED <<manager, of, done, transports, send>>

(* The caller keeps mu until the stream it closes is free.                 *)
SetTransport(h) ==
  LET s == of[h] IN
  /\ mu = Unlocked /\ get[h] = "binding"
  /\ \/ /\ s \notin sessions
        /\ closed' = closed \cup {h} /\ done' = done \cup {h} /\ Goto(h, "returned")
        /\ UNCHANGED <<bound, stale, mu>>
     \/ /\ s \in sessions /\ bound[s] = None
        /\ bound' = [bound EXCEPT ![s] = h] /\ stale' = stale \ {s} /\ Goto(h, "open")
        /\ UNCHANGED <<mu, closed, done>>
     \/ /\ s \in sessions /\ bound[s] # None
        /\ mu' = [op |-> "bind", session |-> s, by |-> h]
        /\ UNCHANGED <<bound, stale, get, closed, done>>
  /\ UNCHANGED <<sessions, inits, used, doomed, of, writer, send>>

(* The request's context ends, whatever the handler is at.                 *)
ClientLeaves(h) ==
  /\ get[h] \in {"opening", "binding", "open"} /\ h \notin done
  /\ done' = done \cup {h}
  /\ UNCHANGED <<manager, get, of, transports, send>>

StreamDone(h) ==
  /\ get[h] = "open" /\ h \in done /\ Goto(h, "leaving")
  /\ UNCHANGED <<manager, of, done, transports, send>>

\* Mutant: whatever is bound is cleared.
Matches_Any(s, h) == s \in sessions /\ bound[s] # None

\* Mutant: the session is looked up and its transport is not.
Matches_Unchecked(s, h) == s \in sessions

(* Which calls of ClearTransportIfMatch find their transport bound.        *)
Matches(s, h) == s \in sessions /\ bound[s] # None /\ bound[s] = h

ClearOnReturn(h) ==
  /\ mu = Unlocked /\ get[h] = "leaving"
  /\ \/ /\ Matches(of[h], h)
        /\ mu' = [op |-> "clear", session |-> of[h], by |-> h]
        /\ UNCHANGED get
     \/ ~Matches(of[h], h) /\ Goto(h, "returned") /\ UNCHANGED mu
  /\ UNCHANGED <<sessions, bound, stale, inits, used, doomed, of, done, transports, send>>

-----------------------------------------------------------------------------
(* A notification to a session                                             *)

Sending(k, place) == send' = [send EXCEPT ![k].pc = place]

GetTransport(k, s) ==
  /\ mu = Unlocked /\ send[k].pc = "idle" /\ s \in sessions /\ bound[s] # None
  /\ send' = [send EXCEPT ![k] = [pc |-> "holding", session |-> s, stream |-> bound[s]]]
  /\ UNCHANGED <<manager, handlers, transports>>

SendSSE(k) ==
  LET h == send[k].stream IN
  /\ send[k].pc = "holding" /\ writer[h] = None
  /\ \/ h \in closed /\ Sending(k, "failed") /\ UNCHANGED writer
     \/ /\ h \notin closed /\ Sending(k, "writing")
        /\ writer' = [writer EXCEPT ![h] = k]
  /\ UNCHANGED <<manager, handlers, closed>>

\* Mutant: the sender goes on to clear the transport with its lock held.
WriteEnds_Locked(k) ==
  /\ send[k].pc = "writing"
  /\ \/ Sending(k, "returned") /\ writer' = [writer EXCEPT ![send[k].stream] = None]
     \/ Sending(k, "failed") /\ UNCHANGED writer
  /\ UNCHANGED <<manager, handlers, closed>>

(* Written, or failed: a deadline of two seconds bounds the write.         *)
WriteEnds(k) ==
  /\ send[k].pc = "writing"
  /\ writer' = [writer EXCEPT ![send[k].stream] = None]
  /\ Sending(k, "returned") \/ Sending(k, "failed")
  /\ UNCHANGED <<manager, handlers, closed>>

ClearOnFailure(k) ==
  LET s == send[k].session  h == send[k].stream IN
  /\ mu = Unlocked /\ send[k].pc = "failed"
  /\ \/ /\ Matches(s, h)
        /\ mu' = [op |-> "clear", session |-> s, by |-> k]
        /\ UNCHANGED send
     \/ ~Matches(s, h) /\ Sending(k, "returned") /\ UNCHANGED mu
  /\ UNCHANGED <<sessions, bound, stale, inits, used, doomed, handlers, transports>>

-----------------------------------------------------------------------------
(* Closing the bound stream of mu.session, once nobody writes to it        *)

Close(h) ==
  /\ writer[h] = None
  /\ closed' = closed \cup {h} /\ done' = done \cup {h}

\* Mutant: the replaced stream is left as it is.
FinishSetTransport_KeepOpen ==
  /\ mu.op = "bind"
  /\ bound' = [bound EXCEPT ![mu.session] = mu.by] /\ stale' = stale \ {mu.session}
  /\ Goto(mu.by, "open") /\ mu' = Unlocked
  /\ UNCHANGED <<sessions, inits, used, doomed, of, done, closed, writer, send>>

FinishSetTransport ==
  /\ mu.op = "bind" /\ Close(bound[mu.session])
  /\ bound' = [bound EXCEPT ![mu.session] = mu.by] /\ stale' = stale \ {mu.session}
  /\ Goto(mu.by, "open") /\ mu' = Unlocked
  /\ UNCHANGED <<sessions, inits, used, doomed, of, writer, send>>

FinishClear ==
  /\ mu.op = "clear" /\ Close(bound[mu.session])
  /\ bound' = [bound EXCEPT ![mu.session] = None] /\ stale' = stale \ {mu.session}
  /\ \/ mu.by \in Streams /\ Goto(mu.by, "returned") /\ UNCHANGED send
     \/ mu.by \in Senders /\ Sending(mu.by, "returned") /\ UNCHANGED get
  /\ mu' = Unlocked
  /\ UNCHANGED <<sessions, inits, used, doomed, of, writer>>

NextRemoval ==
  \/ doomed = {} /\ mu' = Unlocked /\ UNCHANGED doomed
  \/ \E s \in doomed : mu' = [mu EXCEPT !.session = s] /\ doomed' = doomed \ {s}

\* Mutant: the session goes and its stream stays open.
FinishRemove_KeepOpen ==
  /\ mu.op = "remove" /\ Forget({mu.session}) /\ NextRemoval
  /\ bound' = [bound EXCEPT ![mu.session] = None]
  /\ UNCHANGED <<inits, used, get, of, done, closed, writer, send>>

FinishRemove ==
  /\ mu.op = "remove" /\ Close(bound[mu.session])
  /\ Forget({mu.session}) /\ NextRemoval
  /\ bound' = [bound EXCEPT ![mu.session] = None]
  /\ UNCHANGED <<inits, used, get, of, writer, send>>

-----------------------------------------------------------------------------

Manage(s) == InitializeNew(s) \/ InitializeAgain(s) \/ InitializeRefused(s)
             \/ CreateSession(s) \/ TouchSession(s) \/ GoStale(s) \/ RemoveSession(s)
Finish == FinishSetTransport \/ FinishClear \/ FinishRemove

StreamsNext ==
  \/ \E s \in Sessions : Manage(s)
  \/ CleanupSessions
  \/ \E h \in Streams, s \in Sessions : HandleGet(h, s)
  \/ \E h \in Streams : SendComment(h) \/ SetTransport(h) \/ ClientLeaves(h)
                        \/ StreamDone(h) \/ ClearOnReturn(h)
  \/ \E k \in Senders, s \in Sessions : GetTransport(k, s)
  \/ \E k \in Senders : SendSSE(k) \/ WriteEnds(k) \/ ClearOnFailure(k)
  \/ Finish

StreamsSpec == StreamsInit /\ [][StreamsNext]_vars

(* Goroutines that can run do, writes end, and both locks are handed to    *)
(* their waiters in the end (Go's mutexes hand over to starving waiters).  *)
StreamsFairness ==
  /\ WF_vars(Finish)
  /\ \A h \in Streams : WF_vars(StreamDone(h)) /\ SF_vars(ClearOnReturn(h))
  /\ \A k \in Senders : /\ SF_vars(SendSSE(k)) /\ WF_vars(WriteEnds(k))
                        /\ SF_vars(ClearOnFailure(k))

FairStreamsSpec == StreamsSpec /\ StreamsFairness

-----------------------------------------------------------------------------

(* A ResponseWriter must not be used after its handler returned.  Nothing  *)
(* in a send asks whether the handler still runs: it is safe only because  *)
(* every way a handler ends, its own ClearTransportIfMatch finding nothing *)
(* included, has closed the stream before, under the stream's lock.        *)
NoWriteAfterReturn ==
  \A h \in Streams : get[h] = "returned" =>
    /\ writer[h] = None
    /\ \A s \in Sessions : bound[s] # h
    /\ \A k \in Senders : send[k].stream = h /\ send[k].pc = "holding" => h \in closed

(* A session never loses its stream but to a newer one, with the session,  *)
(* or because that very stream's client left or a write to it failed: what *)
(* an older handler or a late failed send clears is never the new stream.  *)
LostForCause ==
  \A s \in Sessions : bound[s] # None /\ bound'[s] # bound[s] =>
    \/ bound'[s] # None
    \/ s \notin sessions'
    \/ bound[s] \in done
    \/ \E k \in Senders : send[k].stream = bound[s] /\ send[k].pc = "failed"
StreamLostForCause == [][LostForCause]_vars

(* Nobody waits on a stream that is no longer its session's: a handler     *)
(* whose stream was replaced, removed with its session or left by its      *)
(* client returns, however the two kinds of lock are contended.            *)
AbandonedHandlerReturns ==
  \A h \in Streams :
    (get[h] = "open" /\ (h \in done \/ bound[of[h]] # h)) ~> (get[h] = "returned")

(* A notification returns, although a failed one takes the session         *)
(* manager's lock that another may hold while it waits for the stream.     *)
EverySendReturns ==
  \A k \in Senders : (send[k].pc # "idle") ~> (send[k].pc = "returned")
-----------------------------------------------------------------------------
(* Why the two safety properties hold: the inductive invariant proved in   *)
(* SessionStreamsProofs.                                                   *)

(* No sender has ever got at the stream.                                   *)
Untouched(h) == writer[h] = None /\ \A k \in Senders : send[k].stream # h

BoundIsServed == \A s \in Sessions : bound[s] # None =>
  s \in sessions /\ of[bound[s]] = s /\ get[bound[s]] \in {"open", "leaving"}
HandlerInv(h) ==
  /\ get[h] # "idle" => of[h] \in Sessions
  /\ get[h] \in {"idle", "opening", "binding"} => Untouched(h)
  /\ get[h] \in {"open", "leaving"} => bound[of[h]] = h \/ h \in closed
  /\ get[h] = "leaving" => h \in done
  /\ get[h] = "returned" => h \in closed \/ Untouched(h)
  /\ h \in closed => writer[h] = None
LockInv ==
  /\ mu.op = "bind" => mu.by \in Streams /\ get[mu.by] = "binding" /\ of[mu.by] = mu.session
  /\ mu.op = "clear" /\ mu.by \in Streams =>
       get[mu.by] = "leaving" /\ bound[mu.session] = mu.by
  /\ mu.op = "clear" /\ mu.by \in Senders =>
       send[mu.by].pc = "failed" /\ send[mu.by].stream = bound[mu.session]
  /\ doomed # {} => mu.op = "remove" /\ mu.session \notin doomed
  /\ \A s \in doomed : bound[s] # None

StreamsInv ==
  /\ StreamsTypeOK /\ BoundIsServed /\ LockInv
  /\ \A h \in Streams : HandlerInv(h)
=============================================================================
