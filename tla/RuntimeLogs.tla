----------------------------- MODULE RuntimeLogs -----------------------------
(***************************************************************************)
(* The way of a diagnostics entry from the runtime companion to the log    *)
(* store: the companion's buffer (runtime_companion.gd), the one request   *)
(* its HTTP client has in flight and the queue behind it                   *)
(* (runtime_mcp_server.gd, runtime_mcp_interface.gd), the handler of       *)
(* log.push, runtimebridge/runtime_log_store.go, and one call of           *)
(* godot.runtime.log.clear.  Connections are lost with a request in any    *)
(* stage, the server may drop the companion's MCP session (404), the game  *)
(* may be stopped or removed, and a handler whose client has gone runs on. *)
(*                                                                         *)
(* One game, one companion.  Entries are numbered as they are captured;    *)
(* initialize, initialized and tools/list are one exchange; messages other *)
(* than register, log.push and command.ack are left out.  The handshake,   *)
(* which a refused registration clears (runtime_companion.gd:221-234), is  *)
(* no variable: the timer's tick that connects or registers loads it first *)
(* (lines 142-160), and a tick that finds none does nothing.               *)
(***************************************************************************)
EXTENDS Integers, Sequences

CONSTANTS MaxEntries,    \* entries followed; later ones are not
          MaxSessions,   \* bound of the MCP sessions of the companion
          BufferCap,     \* entries the companion keeps (500)
          StoreCap       \* entries the server keeps (2000)

ASSUME RuntimeLogsAssumption ==
  /\ MaxEntries \in Nat /\ MaxSessions \in Nat
  /\ BufferCap \in Nat \ {0} /\ StoreCap \in Nat \ {0}

VARIABLES
  captured,     \* entries captured so far
  pending,      \* pending_log_entries
  batch,        \* pending_log_flush_batch
  inFlight,     \* log_push_in_flight
  registered,   \* is_registered
  link,         \* is_connecting, is_connected
  session,      \* the client's MCP session, 0 if none
  sessions,     \* MCP sessions created
  out,          \* the POST in flight, and how far the server is with it
  queue,        \* pending_messages
  gone,         \* the server has dropped the client's MCP session
  known,        \* the registry holds the running game
  attached,     \* its runtime transport session, 0 if none
  store,        \* bySess of the game
  dropping,     \* a stop or a cleanup has yet to drop the entries
  orphans,      \* handlers whose client has gone, with their MCP sessions
  clear,        \* a call of godot.runtime.log.clear
  command,      \* its command on the event stream: the MCP session, or 0
  cut,          \* history: entries captured when the companion cleared
  adrift        \* history: entries in a push whose connection was lost

companion == <<captured, pending, batch, inFlight, registered>>
client == <<link, session, sessions, out, queue>>
server == <<gone, known, attached, store, dropping, orphans>>
caller == <<clear, command, cut, adrift>>
vars == <<companion, client, server, caller>>

Entries == 1..MaxEntries
Session == 0..MaxSessions
Batches == UNION {[1..n -> Entries] : n \in 0..BufferCap}
None == [kind |-> "none", entries |-> <<>>, stage |-> "sent"]
Message(kind, entries) == [kind |-> kind, entries |-> entries, stage |-> "sent"]
Messages == [kind : {"none", "register", "push", "ack"}, entries : Batches,
             stage : {"sent", "checked", "ok", "refused"}]
Elements(s) == {s[i] : i \in DOMAIN s}

LogsTypeOK ==
  /\ captured \in 0..MaxEntries
  /\ pending \in Batches /\ batch \in Batches
  /\ inFlight \in BOOLEAN /\ registered \in BOOLEAN
  /\ link \in {"down", "connecting", "up"}
  /\ session \in Session /\ sessions \in Session /\ (session # 0 <=> link = "up")
  /\ out \in Messages /\ queue \in Seq(Messages)
  /\ gone \in BOOLEAN /\ known \in BOOLEAN /\ dropping \in BOOLEAN /\ attached \in Session
  /\ Elements(store) \subseteq Entries /\ Len(store) <= StoreCap
  /\ orphans \subseteq [post : Messages, session : Session]
  /\ clear \in {"idle", "waiting", "acked", "done", "failed"}
  /\ command \in Session /\ cut \in 0..MaxEntries /\ adrift \subseteq Entries

LogsInit ==
  /\ captured = 0 /\ pending = <<>> /\ batch = <<>> /\ inFlight = FALSE /\ registered = FALSE
  /\ link = "down" /\ session = 0 /\ sessions = 0 /\ out = None /\ queue = <<>>
  /\ gone = FALSE /\ known = TRUE /\ attached = 0 /\ store = <<>> /\ dropping = FALSE /\ orphans = {}
  /\ clear = "idle" /\ command = 0 /\ cut = 0 /\ adrift = {}

-----------------------------------------------------------------------------
(* The companion's buffer                                                  *)

Newest(s, n) == IF Len(s) <= n THEN s ELSE SubSeq(s, Len(s) - n + 1, Len(s))

\* Mutant: the failed batch goes behind what was captured since.
Restored_Behind(failed) == Newest(pending \o failed, BufferCap)

Restored(failed) == Newest(failed \o pending, BufferCap)

(* n entries are captured behind those of buffer.                          *)
Log(buffer, n) ==
  LET more == IF captured + n <= MaxEntries THEN n ELSE MaxEntries - captured
  IN  /\ captured' = captured + more
      /\ pending' = Newest(buffer \o [i \in 1..more |-> captured + i], BufferCap)

(* send_message: behind the request in flight, if there is one.            *)
Post(m) ==
  IF out = None THEN out' = m /\ UNCHANGED queue
                ELSE queue' = Append(queue, m) /\ UNCHANGED out

Capture == captured < MaxEntries /\ Log(pending, 1) /\
           UNCHANGED <<batch, inFlight, registered, client, server, caller>>

Flush ==
  /\ registered /\ ~inFlight /\ pending # <<>>
  /\ pending' = <<>> /\ batch' = pending /\ inFlight' = TRUE
  /\ Post(Message("push", pending))
  /\ UNCHANGED <<captured, registered, link, session, sessions, server, caller>>

\* Mutant: the companion acknowledges and keeps its buffer.
HandleClear_KeepBuffer ==
  /\ command # 0 /\ command = session
  /\ batch' = <<>> /\ inFlight' = FALSE
  /\ command' = 0 /\ cut' = captured
  /\ Post(Message("ack", <<>>))
  /\ UNCHANGED <<captured, pending, registered, link, session, sessions, server, clear, adrift>>

(* The command of log.clear arrives and is acknowledged.                   *)
HandleClear ==
  /\ command # 0 /\ command = session
  /\ pending' = <<>> /\ batch' = <<>> /\ inFlight' = FALSE
  /\ command' = 0 /\ cut' = captured
  /\ Post(Message("ack", <<>>))
  /\ UNCHANGED <<captured, registered, link, session, sessions, server, clear, adrift>>

-----------------------------------------------------------------------------
(* Connecting                                                              *)

Bootstrap ==
  /\ link = "down"
  /\ link' = "connecting"
  /\ UNCHANGED <<companion, session, sessions, out, queue, server, caller>>

Connected ==
  /\ link = "connecting" /\ sessions < MaxSessions
  /\ link' = "up" /\ sessions' = sessions + 1 /\ session' = sessions + 1 /\ gone' = FALSE
  /\ Log(pending, 1)
  /\ UNCHANGED <<batch, inFlight, registered, out, queue, known, attached, store, dropping, orphans,
                 caller>>

ConnectFails ==
  /\ link = "connecting"
  /\ link' = "down"
  /\ Log(pending, 1)
  /\ UNCHANGED <<batch, inFlight, registered, session, sessions, out, queue, server, caller>>

Register ==
  /\ link = "up" /\ ~registered
  /\ "register" \notin {m.kind : m \in Elements(Append(queue, out))}
  /\ Post(Message("register", <<>>))
  /\ UNCHANGED <<companion, link, session, sessions, server, caller>>

(* _mark_disconnected, and the queue dropped: nobody is told of the        *)
(* requests that will not be answered.                                     *)
Disconnected(to, errors) ==
  /\ link' = to /\ session' = 0 /\ out' = None /\ queue' = <<>>
  /\ registered' = FALSE
  /\ Log(pending, 1 + errors + (IF queue # <<>> THEN 1 ELSE 0))
  /\ adrift' = adrift \cup UNION {Elements(m.entries) : m \in Elements(Append(queue, out))}
  /\ UNCHANGED <<batch, inFlight, sessions, clear, command, cut>>

(* A POST fails, whatever the server has done with it: the one followed    *)
(* here, or one of another message.                                        *)
PostFails ==
  /\ link = "up" /\ sessions < MaxSessions
  /\ Disconnected("down", 1)
  /\ orphans' = IF out # None /\ (out.stage = "checked" \/ (out.stage = "sent" /\ ~gone))
                THEN orphans \cup {[post |-> out, session |-> session]} ELSE orphans
  /\ UNCHANGED <<gone, known, attached, store, dropping>>

(* A POST meets a session the server has dropped, or, when none is in      *)
(* flight, the event stream does as it reconnects; with one in flight the  *)
(* stream leaves the reconnect to its answer (runtime_mcp_server.gd:76-79).*)
(* The handlers answer the messages followed here with 200, 202 or 404;    *)
(* other statuses, for malformed requests and internal errors, which keep  *)
(* the queue (lines 214-216), are left out.                                *)
PostNotFound ==
  /\ link = "up" /\ out.stage = "sent" /\ gone
  /\ Disconnected("connecting", 0)
  /\ UNCHANGED server

-----------------------------------------------------------------------------
(* The server                                                              *)

Serve(kind, stage) == out.kind = kind /\ out.stage = stage
Answer(stage) == out' = [out EXCEPT !.stage = stage]
Matches(s) == known /\ attached = s

ServeRegister ==
  /\ Serve("register", "sent") /\ ~gone
  /\ IF known THEN attached' = session /\ Answer("ok") ELSE Answer("refused") /\ UNCHANGED attached
  /\ UNCHANGED <<companion, link, session, sessions, queue, gone, known, store, dropping, orphans,
                 caller>>

PushCheck ==
  /\ Serve("push", "sent") /\ ~gone
  /\ Answer(IF Matches(session) THEN "checked" ELSE "refused")
  /\ UNCHANGED <<companion, link, session, sessions, queue, server, caller>>

\* Mutant: the store grows beyond its capacity.
Appended_Untrimmed(entries) == store \o entries

Appended(entries) == Newest(store \o entries, StoreCap)

PushStore ==
  /\ Serve("push", "checked")
  /\ store' = Appended(out.entries)
  /\ Answer("ok")
  /\ UNCHANGED <<companion, link, session, sessions, queue, gone, known, attached, dropping, orphans,
                 caller>>

(* A handler runs on without its client: that of a push, ...               *)
OrphanCheck(r) ==
  /\ r.post.kind = "push" /\ r.post.stage = "sent"
  /\ orphans' = (orphans \ {r}) \cup
       (IF Matches(r.session) THEN {[r EXCEPT !.post.stage = "checked"]} ELSE {})
  /\ UNCHANGED <<companion, client, gone, known, attached, store, dropping, caller>>

OrphanStore(r) ==
  /\ r.post.stage = "checked"
  /\ orphans' = orphans \ {r}
  /\ store' = Appended(r.post.entries)
  /\ UNCHANGED <<companion, client, gone, known, attached, dropping, caller>>

ServeAck ==
  /\ Serve("ack", "sent") /\ ~gone
  /\ IF clear = "waiting" THEN clear' = "acked" /\ Answer("ok")
                          ELSE Answer("refused") /\ UNCHANGED clear
  /\ UNCHANGED <<companion, link, session, sessions, queue, server, command, cut, adrift>>

(* ... of a registration, which binds the game to a session its companion  *)
(* has left, also when it has registered anew in the meantime, ...         *)
OrphanRegister(r) ==
  /\ r.post.kind = "register"
  /\ orphans' = orphans \ {r}
  /\ attached' = IF known THEN r.session ELSE attached
  /\ UNCHANGED <<companion, client, gone, known, store, dropping, caller>>

(* ... and of an acknowledgement.                                          *)
OrphanAck(r) ==
  /\ r.post.kind = "ack"
  /\ orphans' = orphans \ {r}
  /\ clear' = IF clear = "waiting" THEN "acked" ELSE clear
  /\ UNCHANGED <<companion, client, gone, known, attached, store, dropping, command, cut, adrift>>

(* The companion's MCP session expires.                                    *)
DropSession ==
  /\ link = "up" /\ ~gone /\ sessions < MaxSessions
  /\ gone' = TRUE
  /\ attached' = IF attached = session THEN 0 ELSE attached
  /\ UNCHANGED <<companion, client, known, store, dropping, orphans, caller>>

(* godot.project.stop: the record stays, a process that lives on may       *)
(* register again.                                                         *)
StopGame ==
  /\ attached # 0
  /\ attached' = 0 /\ dropping' = TRUE
  /\ UNCHANGED <<companion, client, gone, known, store, orphans, caller>>

(* The cleanup of a failed run removes the record.                         *)
RemoveGame ==
  /\ known
  /\ known' = FALSE /\ attached' = 0 /\ dropping' = TRUE
  /\ UNCHANGED <<companion, client, gone, store, orphans, caller>>

(* Both drop the log entries last, in a lock section of their own.         *)
DropLogs ==
  /\ dropping
  /\ store' = <<>> /\ dropping' = FALSE
  /\ UNCHANGED <<companion, client, gone, known, attached, orphans, caller>>

-----------------------------------------------------------------------------
(* Answers: the next message of the queue is sent at once                  *)

SendNext ==
  /\ out' = IF queue = <<>> THEN None ELSE Head(queue)
  /\ queue' = IF queue = <<>> THEN <<>> ELSE Tail(queue)
  /\ UNCHANGED <<link, session, sessions, server, caller>>

RegisterAnswered ==
  /\ out.kind = "register" /\ out.stage \in {"ok", "refused"}
  /\ registered' = (out.stage = "ok")
  /\ Log(pending, 1)
  /\ SendNext
  /\ UNCHANGED <<batch, inFlight>>

PushAccepted ==
  /\ Serve("push", "ok")
  /\ inFlight' = FALSE /\ batch' = <<>>
  /\ SendNext
  /\ UNCHANGED <<captured, pending, registered>>

PushRefused ==
  /\ Serve("push", "refused")
  /\ inFlight' = FALSE /\ batch' = <<>>
  /\ Log(Restored(batch), 1)
  /\ SendNext
  /\ UNCHANGED registered

AckAnswered ==
  /\ out.kind = "ack" /\ out.stage \in {"ok", "refused"}
  /\ Log(pending, IF out.stage = "refused" THEN 1 ELSE 0)
  /\ SendNext
  /\ UNCHANGED <<batch, inFlight, registered>>

-----------------------------------------------------------------------------
(* godot.runtime.log.clear                                                 *)

ClearStart ==
  /\ clear = "idle"
  /\ IF known /\ attached # 0 THEN clear' = "waiting" /\ command' = attached
                              ELSE clear' = "failed" /\ UNCHANGED command
  /\ UNCHANGED <<companion, client, server, cut, adrift>>

ClearTimeout ==
  /\ clear = "waiting"
  /\ clear' = "failed"
  /\ UNCHANGED <<companion, client, server, command, cut, adrift>>

ClearStore ==
  /\ clear = "acked"
  /\ clear' = "done" /\ store' = <<>>
  /\ UNCHANGED <<companion, client, gone, known, attached, dropping, orphans, command, cut, adrift>>

-----------------------------------------------------------------------------
ServerStep == ServeRegister \/ PushCheck \/ PushStore \/ ServeAck
ClientStep == RegisterAnswered \/ PushAccepted \/ PushRefused \/ AckAnswered \/ PostNotFound

LogsNext ==
  \/ Capture \/ Flush \/ HandleClear
  \/ Bootstrap \/ Connected \/ ConnectFails \/ Register \/ PostFails
  \/ ServerStep \/ DropSession \/ StopGame \/ RemoveGame \/ DropLogs
  \/ \E r \in orphans : OrphanCheck(r) \/ OrphanStore(r) \/ OrphanRegister(r) \/ OrphanAck(r)
  \/ ClientStep
  \/ ClearStart \/ ClearTimeout \/ ClearStore

(* Timers tick, requests are served and answered, and a client that keeps  *)
(* trying is connected in the end.                                         *)
LogsSpec ==
  /\ LogsInit /\ [][LogsNext]_vars
  /\ WF_vars(Flush) /\ WF_vars(Bootstrap) /\ SF_vars(Connected) /\ WF_vars(Register)
  /\ WF_vars(ServerStep) /\ WF_vars(ClientStep)

-----------------------------------------------------------------------------
(* Properties                                                              *)

(* However pushes fail, are restored, cleared and raced by a lost          *)
(* connection, no entry is stored twice, and entries are stored in the     *)
(* order they were captured but for those of a push that was cut off.      *)
StoredInOrder ==
  \A i, j \in DOMAIN store : i < j =>
    /\ store[i] # store[j]
    /\ store[i] > store[j] => {store[i], store[j]} \cap adrift # {}

(* What was captured before the companion cleared does not come back once  *)
(* log.clear has succeeded: the acknowledgement waits behind every push    *)
(* in the client's queue.  Only a push cut off by a lost connection may.   *)
ClearIsComplete ==
  clear = "done" => \A e \in Elements(store) : e > cut \/ e \in adrift

(* docs/RUNTIME_LOG_BACKLOG.md: a reliable diagnostics stream for the      *)
(* active session.  What is buffered for a game the server knows is sent   *)
(* in the end (or makes way for newer entries, or is cleared).             *)
DiagnosticsAreReliable ==
  \A e \in Entries : (known /\ e \in Elements(pending)) ~> (~known \/ e \notin Elements(pending))
=============================================================================
