-------------------------- MODULE CommandContract --------------------------
(***************************************************************************)
(* What the command broker promises its callers, with no table, channel,   *)
(* timer or metric: a command is issued once to one MCP session, at most   *)
(* one acknowledgement of it is ever taken, always from that session and   *)
(* only while the command is open, and the caller gets exactly one         *)
(* outcome.  An outcome "acked" carries the acknowledgement that was taken.*)
(* The contract does not promise the converse: a command may end in        *)
(* "timeout" or "unreachable" although an acknowledgement was taken.       *)
(***************************************************************************)
CONSTANTS Commands,   \* calls of DispatchAndWait, one fresh command id each
          Sessions,   \* MCP sessions
          Acks,       \* calls of the acknowledgement tool
          None        \* no session, no acknowledgement

VARIABLES target,     \* target[c]: the session c was issued to, None before
          taken,      \* taken[c]: the acknowledgement taken for c, or None
          sender,     \* sender[a]: the session that made the call a, None before
          outcome     \* outcome[c]: what the caller of c was told

contractVars == <<target, taken, sender, outcome>>

Outcomes == {"acked", "timeout", "unreachable"}

ContractInit ==
  /\ target = [c \in Commands |-> None]
  /\ taken = [c \in Commands |-> None]
  /\ sender = [a \in Acks |-> None]
  /\ outcome = [c \in Commands |-> "open"]

Issue(c, s) ==
  /\ target[c] = None
  /\ target' = [target EXCEPT ![c] = s]
  /\ UNCHANGED <<taken, sender, outcome>>

(* An acknowledgement is taken: the first for its command, from the        *)
(* session the command went to, before the command has its outcome.        *)
Take(a, s, c) ==
  /\ sender[a] = None
  /\ target[c] = s
  /\ taken[c] = None
  /\ outcome[c] = "open"
  /\ sender' = [sender EXCEPT ![a] = s]
  /\ taken' = [taken EXCEPT ![c] = a]
  /\ UNCHANGED <<target, outcome>>

Refuse(a, s) ==
  /\ sender[a] = None
  /\ sender' = [sender EXCEPT ![a] = s]
  /\ UNCHANGED <<target, taken, outcome>>

Conclude(c, o) ==
  /\ target[c] # None
  /\ outcome[c] = "open"
  /\ o = "acked" => taken[c] # None
  /\ outcome' = [outcome EXCEPT ![c] = o]
  /\ UNCHANGED <<target, taken, sender>>

ContractNext ==
  \/ \E c \in Commands, s \in Sessions : Issue(c, s)
  \/ \E a \in Acks, s \in Sessions, c \in Commands : Take(a, s, c)
  \/ \E a \in Acks, s \in Sessions : Refuse(a, s)
  \/ \E c \in Commands, o \in Outcomes : Conclude(c, o)

ContractSpec == ContractInit /\ [][ContractNext]_contractVars
=============================================================================
