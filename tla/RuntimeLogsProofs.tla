-------------------------- MODULE RuntimeLogsProofs --------------------------
(***************************************************************************)
(* The order of the log store and the completeness of log.clear, for any   *)
(* number of entries and MCP sessions and any capacities.                  *)
(*                                                                         *)
(* A push may be answered, refused, cut off or run on without its client;  *)
(* what keeps the store in order is which copies of an entry may still be  *)
(* stored.  A refused batch goes back to the buffer while a later push     *)
(* with the same entries waits in the queue: that is harmless only because *)
(* what made the server refuse the first makes it refuse the second.       *)
(***************************************************************************)
EXTENDS RuntimeLogs, SequenceTheorems, TLAPS

USE RuntimeLogsAssumption

Increasing(s) == \A i, j \in DOMAIN s : i < j => s[i] < s[j]
Below(S, T) == \A x \in S, y \in T : x < y
Apart(S, T) == \A x \in S : x \notin T

(* x may stand before y in the store; lost are the entries cut off.        *)
Precedes(x, y, lost) == x # y /\ (x > y => x \in lost \/ y \in lost)
Before(S, T, lost) == \A x \in S, y \in T : Precedes(x, y, lost)
Orderly(s, lost) == \A i, j \in DOMAIN s : i < j => Precedes(s[i], s[j], lost)

-----------------------------------------------------------------------------
(* The invariant                                                           *)

(* The requests of the client in their order, the first one in flight.     *)
Line == IF out = None THEN <<>> ELSE <<out>> \o queue
InLine(kind) == \E i \in DOMAIN Line : Line[i].kind = kind

TypeInv ==
  /\ LogsTypeOK
  /\ store \in Seq(Entries)
  /\ Elements(pending) \subseteq 1..captured /\ Elements(batch) \subseteq 1..captured
  /\ Elements(store) \subseteq 1..captured /\ adrift \subseteq 1..captured
  /\ \A i \in DOMAIN Line : Elements(Line[i].entries) \subseteq 1..captured
  /\ cut <= captured
  /\ attached <= sessions /\ command <= sessions /\ session \in {0, sessions}

(* No push stands beside a registration, which could make the server       *)
(* accept it.                                                              *)
LineInv ==
  /\ link # "up" => out = None
  /\ out = None => queue = <<>>
  /\ registered => link = "up"
  /\ \A i \in DOMAIN Line :
       /\ Line[i].kind # "none"
       /\ i # 1 => Line[i].stage = "sent"
       /\ Line[i].stage = "checked" => Line[i].kind = "push"
       /\ Line[i].kind = "push" /\ Line[i].stage = "refused" => ~Matches(session)
       /\ Line[i].kind = "register" => ~registered
       /\ ~registered \/ Line[i].kind # "push" => Line[i].entries = <<>>
  /\ \A i, j \in DOMAIN Line : i # j => Line[i].kind # "register" \/ Line[j].kind # "register"

Sorted ==
  /\ Increasing(pending) /\ Increasing(batch) /\ Below(Elements(batch), Elements(pending))
  /\ \A i \in DOMAIN Line : Increasing(Line[i].entries)

(* What may still be stored, and what may still go back to the buffer.     *)
LineMayStore(i) ==
  Line[i].stage = "checked" \/ (Line[i].stage = "sent" /\ Matches(session))
OrphanMayStore(r) == r.post.stage = "checked" \/ Matches(r.session)
MayRestore == InLine("push") /\ ~Serve("push", "ok")

StoreInv ==
  /\ Orderly(store, adrift)
  /\ Before(Elements(store), Elements(pending), adrift)
  /\ MayRestore => Before(Elements(store), Elements(batch), adrift)
  /\ \A i \in DOMAIN Line : LineMayStore(i) =>
       /\ Before(Elements(store), Elements(Line[i].entries), adrift)
       /\ Below(Elements(Line[i].entries), Elements(pending))
  /\ \A i, j \in DOMAIN Line : i < j /\ LineMayStore(i) /\ LineMayStore(j) =>
       Below(Elements(Line[i].entries), Elements(Line[j].entries))

(* A handler whose client has gone, if it may still store its entries, is  *)
(* the only one that may.                                                  *)
OnlyCopy(mine) ==
  /\ Apart(mine, Elements(store)) /\ Apart(mine, Elements(pending))
  /\ MayRestore => Apart(mine, Elements(batch))
  /\ \A i \in DOMAIN Line : LineMayStore(i) => Apart(mine, Elements(Line[i].entries))

OrphansInv ==
  /\ \A r \in orphans :
       /\ Elements(r.post.entries) \subseteq adrift
       /\ Increasing(r.post.entries)
       /\ r.session # 0 /\ r.session <= sessions /\ (link = "up" => r.session # session)
       /\ OrphanMayStore(r) => OnlyCopy(Elements(r.post.entries))
  /\ \A o, r \in orphans : o # r /\ OrphanMayStore(o) /\ OrphanMayStore(r) =>
       Apart(Elements(r.post.entries), Elements(o.post.entries))

(* Entries the companion captured after it cleared.                        *)
Later(S) == \A e \in S : e > cut

ClearInv ==
  /\ Later(Elements(pending)) /\ Later(Elements(batch))
  /\ command # 0 => clear \in {"waiting", "failed"} /\ ~InLine("ack")
  /\ clear = "idle" => ~InLine("ack")
  /\ clear \in {"acked", "done"} => \A i \in DOMAIN Line : Later(Elements(Line[i].entries))
  /\ \A i, j \in DOMAIN Line : i < j /\ Line[i].kind = "ack" => Later(Elements(Line[j].entries))
  /\ ClearIsComplete

LogsInv == TypeInv /\ LineInv /\ Sorted /\ StoreInv /\ OrphansInv /\ ClearInv

(* Each handler whose client has gone belongs to a session of its own, and *)
(* when it acknowledges the command of log.clear, what the companion sends *)
(* since was captured after it cleared.                                    *)
SessionsApart == \A o, r \in orphans : o # r => o.session # r.session
AckBehind ==
  \A r \in orphans : r.post.kind = "ack" =>
    command = 0 /\ clear # "idle" /\ \A i \in DOMAIN Line : Later(Elements(Line[i].entries))

LogsIndInv == LogsInv /\ SessionsApart /\ AckBehind

-----------------------------------------------------------------------------
(* Sequences of entries                                                    *)

LEMMA BatchIsSeq ==
  ASSUME NEW s
  PROVE  s \in Batches <=> s \in Seq(Entries) /\ Len(s) <= BufferCap
<1>1. ASSUME s \in Batches PROVE s \in Seq(Entries) /\ Len(s) <= BufferCap
  <2>1. PICK n \in 0..BufferCap : s \in [1..n -> Entries]
    BY <1>1 DEF Batches
  <2> QED BY <2>1
<1>2. ASSUME s \in Seq(Entries), Len(s) <= BufferCap PROVE s \in Batches
  <2>1. s \in [1..Len(s) -> Entries] /\ Len(s) \in 0..BufferCap
    BY <1>2, LenProperties
  <2> QED BY <2>1 DEF Batches
<1> QED BY <1>1, <1>2

(* The newest n of a sequence are its end.                                 *)
LEMMA NewestEnd ==
  ASSUME NEW S, NEW s \in Seq(S), NEW n \in Nat
  PROVE  /\ Newest(s, n) \in Seq(S) /\ Len(Newest(s, n)) <= n
         /\ \E k \in 0..Len(s) :
              /\ Len(Newest(s, n)) = Len(s) - k
              /\ \A i \in 1..(Len(s) - k) : Newest(s, n)[i] = s[i + k]
<1>1. Len(s) \in Nat /\ \A i \in 1..Len(s) : s[i] \in S
  BY LenProperties, ElementOfSeq
<1>2. CASE Len(s) <= n
  BY <1>1, <1>2 DEF Newest
<1>3. CASE Len(s) > n
  <2> DEFINE k == Len(s) - n
  <2>1. Newest(s, n) = SubSeq(s, k + 1, Len(s))
    BY <1>1, <1>3 DEF Newest
  <2>2. k \in 0..Len(s) /\ k + 1 \in Int /\ \A i \in (k + 1)..Len(s) : s[i] \in S
    BY <1>1, <1>3
  <2>3. /\ SubSeq(s, k + 1, Len(s)) \in Seq(S)
        /\ Len(SubSeq(s, k + 1, Len(s))) = IF k + 1 <= Len(s) THEN Len(s) - (k + 1) + 1 ELSE 0
        /\ \A i \in 1..(Len(s) - (k + 1) + 1) : SubSeq(s, k + 1, Len(s))[i] = s[(k + 1) + i - 1]
    BY <1>1, <2>2, SubSeqProperties
  <2>4. Len(Newest(s, n)) = Len(s) - k /\ Len(s) - k = n
    BY <1>1, <1>3, <2>1, <2>3
  <2>5. ASSUME NEW i \in 1..(Len(s) - k) PROVE Newest(s, n)[i] = s[i + k]
    <3>1. i \in 1..(Len(s) - (k + 1) + 1) /\ (k + 1) + i - 1 = i + k
      BY <1>1, <2>2
    <3> QED BY <2>1, <2>3, <3>1
  <2>6. Newest(s, n) \in Seq(S) /\ Len(Newest(s, n)) <= n
    BY <2>1, <2>3, <2>4
  <2> HIDE DEF k
  <2> QED BY <2>2, <2>4, <2>5, <2>6
<1> QED BY <1>1, <1>2, <1>3

LEMMA ElementsOfConcat ==
  ASSUME NEW S, NEW s \in Seq(S), NEW t \in Seq(S)
  PROVE  Elements(s \o t) = Elements(s) \cup Elements(t)
<1>1. /\ Len(s) \in Nat /\ Len(t) \in Nat
      /\ DOMAIN s = 1..Len(s) /\ DOMAIN t = 1..Len(t) /\ DOMAIN (s \o t) = 1..(Len(s) + Len(t))
      /\ \A i \in 1..(Len(s) + Len(t)) : (s \o t)[i] = IF i <= Len(s) THEN s[i] ELSE t[i - Len(s)]
  BY LenProperties, ConcatProperties
<1>2. ASSUME NEW x \in Elements(s \o t) PROVE x \in Elements(s) \cup Elements(t)
  BY <1>1 DEF Elements
<1>3. ASSUME NEW x \in Elements(s) PROVE x \in Elements(s \o t)
  BY <1>1 DEF Elements
<1>4. ASSUME NEW x \in Elements(t) PROVE x \in Elements(s \o t)
  <2>1. PICK j \in 1..Len(t) : x = t[j]
    BY <1>1 DEF Elements
  <2>2. j + Len(s) \in 1..(Len(s) + Len(t)) /\ (s \o t)[j + Len(s)] = t[j]
    BY <1>1, <2>1
  <2> QED BY <1>1, <2>1, <2>2 DEF Elements
<1> QED BY <1>2, <1>3, <1>4

LEMMA ElementsOfNewest ==
  ASSUME NEW S, NEW s \in Seq(S), NEW n \in Nat
  PROVE  Elements(Newest(s, n)) \subseteq Elements(s)
<1>1. PICK k \in 0..Len(s) : /\ Len(Newest(s, n)) = Len(s) - k
                             /\ \A i \in 1..(Len(s) - k) : Newest(s, n)[i] = s[i + k]
  BY NewestEnd
<1>2. Len(s) \in Nat /\ DOMAIN s = 1..Len(s) /\ DOMAIN Newest(s, n) = 1..(Len(s) - k)
  BY <1>1, NewestEnd, LenProperties
<1>3. ASSUME NEW i \in 1..(Len(s) - k) PROVE Newest(s, n)[i] \in Elements(s)
  <2>1. i + k \in 1..Len(s)
    BY <1>2
  <2> QED BY <1>1, <1>2, <2>1 DEF Elements
<1> QED BY <1>2, <1>3 DEF Elements

(* The end of an increasing, or of an orderly sequence is one.             *)
LEMMA NewestKeepsOrder ==
  ASSUME NEW s \in Seq(Nat), NEW n \in Nat, NEW lost
  PROVE  /\ Increasing(s) => Increasing(Newest(s, n))
         /\ Orderly(s, lost) => Orderly(Newest(s, n), lost)
<1>1. PICK k \in 0..Len(s) : /\ Len(Newest(s, n)) = Len(s) - k
                             /\ \A i \in 1..(Len(s) - k) : Newest(s, n)[i] = s[i + k]
  BY NewestEnd
<1>2. Len(s) \in Nat /\ DOMAIN s = 1..Len(s) /\ DOMAIN Newest(s, n) = 1..(Len(s) - k)
  BY <1>1, NewestEnd, LenProperties
<1>3. \A i, j \in 1..(Len(s) - k) : i < j => i + k \in 1..Len(s) /\ j + k \in 1..Len(s) /\ i + k < j + k
  BY <1>2
<1> QED BY <1>1, <1>2, <1>3 DEF Increasing, Orderly

LEMMA ConcatKeepsOrder ==
  ASSUME NEW s \in Seq(Nat), NEW t \in Seq(Nat), NEW lost
  PROVE  /\ Increasing(s) /\ Increasing(t) /\ Below(Elements(s), Elements(t)) => Increasing(s \o t)
         /\ Orderly(s, lost) /\ Increasing(t) /\ Before(Elements(s), Elements(t), lost) => Orderly(s \o t, lost)
<1>1. /\ Len(s) \in Nat /\ Len(t) \in Nat
      /\ DOMAIN s = 1..Len(s) /\ DOMAIN t = 1..Len(t) /\ DOMAIN (s \o t) = 1..(Len(s) + Len(t))
      /\ \A i \in 1..(Len(s) + Len(t)) : (s \o t)[i] = IF i <= Len(s) THEN s[i] ELSE t[i - Len(s)]
      /\ \A i \in 1..Len(t) : t[i] \in Nat
  BY LenProperties, ConcatProperties, ElementOfSeq
<1>2. ASSUME NEW i \in DOMAIN (s \o t), NEW j \in DOMAIN (s \o t), i < j
      PROVE  \/ i \in DOMAIN s /\ j \in DOMAIN s /\ (s \o t)[i] = s[i] /\ (s \o t)[j] = s[j]
             \/ (s \o t)[i] \in Elements(s) /\ (s \o t)[j] \in Elements(t)
             \/ /\ i - Len(s) \in DOMAIN t /\ j - Len(s) \in DOMAIN t /\ i - Len(s) < j - Len(s)
                /\ (s \o t)[i] = t[i - Len(s)] /\ (s \o t)[j] = t[j - Len(s)]
  BY <1>1, <1>2 DEF Elements
<1>3. ASSUME Increasing(s), Increasing(t), Below(Elements(s), Elements(t)) PROVE Increasing(s \o t)
  BY <1>2, <1>3 DEF Increasing, Below
<1>4. ASSUME Orderly(s, lost), Increasing(t), Before(Elements(s), Elements(t), lost) PROVE Orderly(s \o t, lost)
  <2>1. \A i, j \in DOMAIN t : i < j => Precedes(t[i], t[j], lost)
    BY <1>1, <1>4 DEF Increasing, Precedes
  <2> QED BY <1>2, <1>4, <2>1 DEF Orderly, Before
<1> QED BY <1>3, <1>4

LEMMA BelowIsBefore ==
  ASSUME NEW S \in SUBSET Int, NEW T \in SUBSET Int, NEW lost, Below(S, T)
  PROVE  Before(S, T, lost)
BY DEF Below, Before, Precedes

LEMMA EntriesAreNaturals ==
  ASSUME NEW s \in Seq(Entries) PROVE s \in Seq(Nat) /\ Elements(s) \subseteq Entries
<1>1. Entries \subseteq Nat
  BY DEF Entries
<1>2. s \in Seq(Nat)
  BY <1>1, SeqMonotonic
<1>3. DOMAIN s = 1..Len(s) /\ \A i \in 1..Len(s) : s[i] \in Entries
  BY LenProperties, ElementOfSeq
<1> QED BY <1>2, <1>3 DEF Elements

-----------------------------------------------------------------------------
(* What the helpers do                                                     *)

(* Log: the buffer keeps its order, and what is new is newer than all      *)
(* captured so far.                                                        *)
LEMMA LogEffect ==
  ASSUME captured \in 0..MaxEntries, NEW n \in Nat, NEW buffer \in Seq(Entries),
         Elements(buffer) \subseteq 1..captured, Increasing(buffer), Log(buffer, n)
  PROVE  /\ captured' \in Nat /\ captured <= captured' /\ captured' <= MaxEntries
         /\ pending' \in Batches /\ Increasing(pending')
         /\ \A e \in Elements(pending') : e \in Elements(buffer) \/ (captured < e /\ e <= captured')
<1> DEFINE more == IF captured + n <= MaxEntries THEN n ELSE MaxEntries - captured
           new == [i \in 1..more |-> captured + i]
<1>1. more \in Nat /\ captured + more <= MaxEntries
  OBVIOUS
<1>2. captured' = captured + more /\ pending' = Newest(buffer \o new, BufferCap)
  BY DEF Log
<1> HIDE DEF more
<1>3. new \in [1..more -> Entries] /\ \A i \in 1..more : new[i] = captured + i
  BY <1>1 DEF Entries
<1> HIDE DEF new
<1>4. new \in Seq(Entries) /\ DOMAIN new = 1..more
  BY <1>1, <1>3
<1>5. Increasing(new) /\ \A e \in Elements(new) : e \in Nat /\ captured < e /\ e <= captured + more
  BY <1>1, <1>3, <1>4 DEF Increasing, Elements
<1>6. buffer \in Seq(Nat) /\ new \in Seq(Nat) /\ buffer \o new \in Seq(Entries)
  BY <1>4, EntriesAreNaturals, ConcatProperties
<1>7. Below(Elements(buffer), Elements(new))
  BY <1>1, <1>5 DEF Below
<1>8. Increasing(buffer \o new) /\ buffer \o new \in Seq(Nat)
  BY <1>5, <1>6, <1>7, ConcatKeepsOrder, EntriesAreNaturals
<1>9. Increasing(pending') /\ pending' \in Batches
  BY <1>2, <1>6, <1>8, NewestKeepsOrder, NewestEnd, BatchIsSeq
<1>10. Elements(pending') \subseteq Elements(buffer) \cup Elements(new)
  <2>1. Elements(pending') \subseteq Elements(buffer \o new)
    BY <1>2, <1>6, ElementsOfNewest
  <2> QED BY <1>4, <2>1, ElementsOfConcat
<1> QED BY <1>1, <1>2, <1>5, <1>9, <1>10

LEMMA NoneEmpty == <<>> \in Batches /\ None \in Messages /\ Elements(<<>>) = {} /\ Increasing(<<>>)
<1>1. <<>> \in Seq(Entries) /\ Len(<<>>) = 0
  BY EmptySeq
<1>2. Len(<<>>) <= BufferCap
  BY <1>1
<1>3. <<>> \in Batches
  BY <1>1, <1>2, BatchIsSeq
<1>4. None \in Messages
  BY <1>3 DEF Messages, None
<1> QED BY <1>3, <1>4 DEF Elements, Increasing

LEMMA LineFacts ==
  ASSUME out \in Messages, queue \in Seq(Messages)
  PROVE  /\ Line \in Seq(Messages) /\ DOMAIN Line = 1..Len(Line) /\ Len(Line) \in Nat
         /\ \A i \in DOMAIN Line : Line[i] \in Messages /\ Line[i].entries \in Seq(Entries)
         /\ out = None => Line = <<>> /\ Len(Line) = 0
         /\ out # None => /\ 1 \in DOMAIN Line /\ Line[1] = out /\ Len(Line) = Len(queue) + 1
                          /\ \A i \in 1..Len(queue) : Line[i + 1] = queue[i]
<1>1. /\ <<out>> \in Seq(Messages) /\ Len(<<out>>) = 1 /\ <<out>>[1] = out
      /\ Len(queue) \in Nat
  BY LenProperties
<1>2. /\ <<out>> \o queue \in Seq(Messages) /\ Len(<<out>> \o queue) = 1 + Len(queue)
      /\ \A i \in 1..(1 + Len(queue)) :
           (<<out>> \o queue)[i] = IF i <= 1 THEN <<out>>[i] ELSE queue[i - 1]
  BY <1>1, ConcatProperties
<1>3. Line \in Seq(Messages)
  BY <1>2 DEF Line
<1>4. DOMAIN Line = 1..Len(Line) /\ Len(Line) \in Nat /\ \A i \in DOMAIN Line : Line[i] \in Messages
  BY <1>3, LenProperties, ElementOfSeq
<1>5. \A i \in DOMAIN Line : Line[i].entries \in Seq(Entries)
  <2>1. \A m \in Messages : m.entries \in Batches
    BY DEF Messages
  <2> QED BY <1>4, <2>1, BatchIsSeq
<1>6. ASSUME out # None
      PROVE  /\ 1 \in DOMAIN Line /\ Line[1] = out /\ Len(Line) = Len(queue) + 1
             /\ \A i \in 1..Len(queue) : Line[i + 1] = queue[i]
  <2>1. Line = <<out>> \o queue
    BY <1>6 DEF Line
  <2>2. ASSUME NEW i \in 1..Len(queue) PROVE Line[i + 1] = queue[i]
    <3>1. i + 1 \in 1..(1 + Len(queue)) /\ ~(i + 1 <= 1) /\ i + 1 - 1 = i
      BY <1>1
    <3> QED BY <1>2, <2>1, <3>1
  <2> QED BY <1>1, <1>2, <1>4, <2>1, <2>2
<1>7. out = None => Line = <<>> /\ Len(Line) = 0
  BY EmptySeq DEF Line
<1> QED BY <1>3, <1>4, <1>5, <1>6, <1>7

(* What a step does to the line: a request more at its end, ...            *)
LineGrows(m) ==
  /\ DOMAIN Line = 1..Len(Line) /\ DOMAIN Line' = 1..(Len(Line) + 1)
  /\ Line'[Len(Line) + 1] = m
  /\ \A i \in DOMAIN Line : Line'[i] = Line[i]

(* ... one less at its front, ...                                          *)
LineMoves ==
  \A i \in DOMAIN Line' : i + 1 \in DOMAIN Line /\ i \in Nat \ {0} /\ Line'[i] = Line[i + 1]

(* ... the one in flight a stage further.                                  *)
LineAnswered(stage) ==
  /\ DOMAIN Line' = DOMAIN Line /\ 1 \in DOMAIN Line /\ Line'[1].stage = stage
  /\ \A i \in DOMAIN Line : Line'[i].kind = Line[i].kind
  /\ \A i \in DOMAIN Line : Line'[i].entries = Line[i].entries
  /\ \A i \in DOMAIN Line : i # 1 => Line'[i].stage = Line[i].stage

LEMMA PostEffect ==
  ASSUME out \in Messages, queue \in Seq(Messages), out = None => queue = <<>>,
         NEW m \in Messages, m # None, Post(m)
  PROVE  /\ out' \in Messages /\ queue' \in Seq(Messages) /\ out' # None
         /\ LineGrows(m) /\ Len(Line) \in Nat /\ (out' = out \/ (Line = <<>> /\ out' = m))
<1>1. CASE out = None
  <2>1. out' = m /\ queue' = <<>> /\ Line = <<>> /\ Len(Line) = 0 /\ DOMAIN Line = 1..Len(Line)
    BY <1>1, LineFacts DEF Post
  <2>2. Line' = <<m>> \o <<>>
    BY <2>1 DEF Line
  <2>3. Line' = <<m>>
    BY <2>2
  <2> QED BY <1>1, <2>1, <2>3 DEF LineGrows
<1>2. CASE out # None
  <2>1. queue' = Append(queue, m) /\ out' = out
    BY <1>2 DEF Post
  <2>2. /\ queue' \in Seq(Messages) /\ Len(queue') = Len(queue) + 1 /\ Len(queue) \in Nat
        /\ \A i \in 1..Len(queue) : queue'[i] = queue[i]
        /\ queue'[Len(queue) + 1] = m
    BY <2>1, AppendProperties, LenProperties
  <2>3. /\ DOMAIN Line = 1..(Len(queue) + 1) /\ Line[1] = out /\ Len(Line) = Len(queue) + 1
        /\ \A i \in 1..Len(queue) : Line[i + 1] = queue[i]
    BY <1>2, LineFacts
  <2>4. Line' = <<out'>> \o queue'
    BY <1>2, <2>1 DEF Line
  <2>5. /\ <<out'>> \in Seq(Messages) /\ Len(<<out'>>) = 1 /\ <<out'>>[1] = out'
    BY <2>1
  <2>6. /\ Len(Line') = 1 + Len(queue') /\ DOMAIN Line' = 1..Len(Line')
        /\ \A i \in 1..(1 + Len(queue')) : Line'[i] = IF i <= 1 THEN <<out'>>[i] ELSE queue'[i - 1]
    BY <2>2, <2>4, <2>5, ConcatProperties, LenProperties
  <2>7. \A i \in 1..(Len(queue) + 1) : Line'[i] = Line[i]
    <3>1. SUFFICES ASSUME NEW i \in 1..(Len(queue) + 1) PROVE Line'[i] = Line[i]
      OBVIOUS
    <3>2. CASE i = 1
      BY <2>1, <2>2, <2>3, <2>5, <2>6, <3>2
    <3>3. CASE i # 1
      <4>1. i - 1 \in 1..Len(queue) /\ (i - 1) + 1 = i /\ ~(i <= 1) /\ i \in 1..(1 + Len(queue'))
        BY <2>2, <3>3
      <4>2. Line'[i] = queue[i - 1]
        BY <2>2, <2>6, <4>1
      <4>3. Line[(i - 1) + 1] = queue[i - 1]
        BY <2>3, <4>1
      <4> QED BY <4>1, <4>2, <4>3
    <3> QED BY <3>2, <3>3
  <2>8. Line'[Len(Line) + 1] = m
    BY <2>2, <2>3, <2>6
  <2> QED BY <1>2, <2>1, <2>2, <2>3, <2>6, <2>7, <2>8 DEF LineGrows
<1> QED BY <1>1, <1>2

LEMMA SendNextEffect ==
  ASSUME out \in Messages, queue \in Seq(Messages), out # None, SendNext,
         \A i \in DOMAIN queue : queue[i] # None
  PROVE  /\ out' \in Messages /\ queue' \in Seq(Messages) /\ (out' = None => queue' = <<>>)
         /\ LineMoves
<1>0. /\ Line[1] = out /\ Len(Line) = Len(queue) + 1 /\ DOMAIN Line = 1..Len(Line)
      /\ \A i \in 1..Len(queue) : Line[i + 1] = queue[i]
      /\ Len(queue) \in Nat /\ DOMAIN queue = 1..Len(queue)
  BY LineFacts, LenProperties
<1>1. CASE queue = <<>>
  <2>1. out' = None /\ queue' = <<>>
    BY <1>1 DEF SendNext
  <2>2. Line' = <<>>
    BY <2>1 DEF Line
  <2>3. out' \in Messages /\ queue' \in Seq(Messages)
    BY <2>1, NoneEmpty, EmptySeq
  <2> QED BY <2>1, <2>2, <2>3 DEF LineMoves
<1>2. CASE queue # <<>>
  <2>1. out' = Head(queue) /\ queue' = Tail(queue)
    BY <1>2 DEF SendNext
  <2>2. /\ out' \in Messages /\ queue' \in Seq(Messages) /\ Len(queue') = Len(queue) - 1
        /\ \A i \in 1..Len(queue') : queue'[i] = queue[i + 1]
    BY <1>2, <2>1, HeadTailProperties
  <2>3. Len(queue) \in Nat \ {0} /\ out' = queue[1]
    BY <1>2, <2>1, LenProperties, EmptySeq
  <2>4. out' # None
    BY <1>0, <2>3
  <2>5. Line' = <<out'>> \o queue'
    BY <2>4 DEF Line
  <2>6. /\ <<out'>> \in Seq(Messages) /\ Len(<<out'>>) = 1 /\ <<out'>>[1] = out'
    BY <2>2
  <2>7. /\ Len(Line') = 1 + Len(queue') /\ DOMAIN Line' = 1..Len(Line')
        /\ \A i \in 1..(1 + Len(queue')) : Line'[i] = IF i <= 1 THEN <<out'>>[i] ELSE queue'[i - 1]
    BY <2>2, <2>5, <2>6, ConcatProperties, LenProperties
  <2>8. ASSUME NEW i \in DOMAIN Line'
        PROVE i + 1 \in DOMAIN Line /\ i \in Nat \ {0} /\ Line'[i] = Line[i + 1]
    <3>1. i \in 1..Len(queue)
      BY <2>2, <2>3, <2>7
    <3>2. Line'[i] = queue[i]
      <4>1. CASE i = 1
        BY <2>2, <2>3, <2>6, <2>7, <4>1
      <4>2. CASE i # 1
        <5>1. i - 1 \in 1..Len(queue') /\ (i - 1) + 1 = i /\ ~(i <= 1) /\ i \in 1..(1 + Len(queue'))
          BY <2>2, <3>1, <4>2
        <5>2. Line'[i] = queue'[i - 1]
          BY <2>7, <5>1
        <5>3. queue'[i - 1] = queue[(i - 1) + 1]
          BY <2>2, <5>1
        <5> QED BY <5>1, <5>2, <5>3
      <4> QED BY <4>1, <4>2
    <3> QED BY <1>0, <3>1, <3>2
  <2> QED BY <2>2, <2>4, <2>8 DEF LineMoves
<1> QED BY <1>1, <1>2

LEMMA AnswerEffect ==
  ASSUME out \in Messages, queue \in Seq(Messages), out # None, out.kind # "none",
         NEW stage \in {"sent", "checked", "ok", "refused"}, Answer(stage), UNCHANGED queue
  PROVE  /\ out' \in Messages /\ out' # None /\ queue' \in Seq(Messages)
         /\ out'.kind = out.kind /\ out'.entries = out.entries /\ out'.stage = stage
         /\ LineAnswered(stage) /\ Line[1] = out
<1>1. /\ out' \in Messages /\ out'.kind = out.kind /\ out'.entries = out.entries /\ out'.stage = stage
  BY DEF Answer, Messages
<1>2. out' # None
  BY <1>1 DEF None
<1>3. Line' = <<out'>> \o queue /\ Line = <<out>> \o queue
  BY <1>2 DEF Line
<1>4. /\ 1 \in DOMAIN Line /\ Line[1] = out /\ DOMAIN Line = 1..(Len(queue) + 1) /\ Len(queue) \in Nat
      /\ \A i \in 1..Len(queue) : Line[i + 1] = queue[i]
  BY LineFacts, LenProperties
<1>5. /\ <<out'>> \in Seq(Messages) /\ Len(<<out'>>) = 1 /\ <<out'>>[1] = out'
  BY <1>1
<1>6. /\ DOMAIN Line' = 1..(1 + Len(queue))
      /\ \A i \in 1..(1 + Len(queue)) : Line'[i] = IF i <= 1 THEN <<out'>>[i] ELSE queue[i - 1]
  BY <1>3, <1>5, ConcatProperties, LenProperties
<1>7. Line'[1] = out'
  BY <1>4, <1>5, <1>6
<1>8. ASSUME NEW i \in DOMAIN Line, i # 1 PROVE Line'[i] = Line[i]
  <2>1. i - 1 \in 1..Len(queue) /\ (i - 1) + 1 = i /\ ~(i <= 1) /\ i \in 1..(1 + Len(queue))
    BY <1>4, <1>8
  <2>2. Line'[i] = queue[i - 1]
    BY <1>6, <2>1
  <2>3. Line[(i - 1) + 1] = queue[i - 1]
    BY <1>4, <2>1
  <2> QED BY <2>1, <2>2, <2>3
<1>9. \A i \in DOMAIN Line : Line'[i].kind = Line[i].kind /\ Line'[i].entries = Line[i].entries
  BY <1>1, <1>4, <1>7, <1>8
<1>10. DOMAIN Line' = DOMAIN Line
  BY <1>4, <1>6
<1> QED BY <1>1, <1>2, <1>4, <1>7, <1>8, <1>9, <1>10 DEF LineAnswered

(* The store takes a sequence of entries behind its own.                   *)
LEMMA AppendedEffect ==
  ASSUME store \in Seq(Entries), NEW s \in Seq(Entries), NEW lost,
         Orderly(store, lost), Increasing(s), Before(Elements(store), Elements(s), lost)
  PROVE  /\ Appended(s) \in Seq(Entries) /\ Len(Appended(s)) <= StoreCap
         /\ Orderly(Appended(s), lost)
         /\ Elements(Appended(s)) \subseteq Elements(store) \cup Elements(s)
<1>1. /\ store \o s \in Seq(Entries) /\ store \in Seq(Nat) /\ s \in Seq(Nat)
      /\ store \o s \in Seq(Nat)
  BY ConcatProperties, EntriesAreNaturals
<1>2. Orderly(store \o s, lost)
  BY <1>1, ConcatKeepsOrder
<1>3. Orderly(Appended(s), lost)
  BY <1>1, <1>2, NewestKeepsOrder DEF Appended
<1>4. Appended(s) \in Seq(Entries) /\ Len(Appended(s)) <= StoreCap
  BY <1>1, NewestEnd DEF Appended
<1>5. Elements(Appended(s)) \subseteq Elements(store \o s)
  BY <1>1, ElementsOfNewest DEF Appended
<1> QED BY <1>3, <1>4, <1>5, ElementsOfConcat

-----------------------------------------------------------------------------
(* The steps                                                               *)

Logged(from) ==
  /\ captured' \in Nat /\ captured <= captured' /\ captured' <= MaxEntries
  /\ pending' \in Batches /\ Increasing(pending')
  /\ \A e \in Elements(pending') : e \in from \/ (captured < e /\ e <= captured')

LEMMA StateFacts ==
  ASSUME LogsInv
  PROVE  /\ pending \in Seq(Entries) /\ batch \in Seq(Entries)
         /\ pending \in Batches /\ batch \in Batches /\ captured \in Nat
         /\ out \in Messages /\ queue \in Seq(Messages) /\ (out = None => queue = <<>>)
         /\ DOMAIN Line = 1..Len(Line) /\ Len(Line) \in Nat
         /\ \A i \in DOMAIN Line : Line[i] \in Messages /\ Line[i].entries \in Seq(Entries)
         /\ out = None => Line = <<>> /\ Len(Line) = 0
         /\ out # None => 1 \in DOMAIN Line /\ Line[1] = out /\ out.kind # "none"
         /\ \A i \in DOMAIN queue : queue[i] # None
         /\ DOMAIN Line # {} => link = "up" /\ session # 0
<1>1. /\ pending \in Batches /\ batch \in Batches /\ captured \in Nat
      /\ out \in Messages /\ queue \in Seq(Messages) /\ (out = None => queue = <<>>)
  BY DEF LogsInv, TypeInv, LogsTypeOK, LineInv
<1>2. /\ DOMAIN Line = 1..Len(Line) /\ Len(Line) \in Nat
      /\ \A i \in DOMAIN Line : Line[i] \in Messages /\ Line[i].entries \in Seq(Entries)
      /\ out = None => Line = <<>> /\ Len(Line) = 0
      /\ out # None => /\ 1 \in DOMAIN Line /\ Line[1] = out /\ Len(Line) = Len(queue) + 1
                       /\ \A i \in 1..Len(queue) : Line[i + 1] = queue[i]
  BY <1>1, LineFacts
<1>3. \A i \in DOMAIN Line : Line[i].kind # "none"
  BY DEF LogsInv, LineInv
<1>4. out # None => out.kind # "none"
  BY <1>2, <1>3
<1>5. ASSUME NEW i \in DOMAIN queue PROVE queue[i] # None
  <2>1. i \in 1..Len(queue) /\ out # None /\ Len(queue) \in Nat
    BY <1>1, LenProperties, EmptySeq
  <2>2. i + 1 \in DOMAIN Line /\ Line[i + 1] = queue[i]
    BY <1>2, <2>1
  <2> QED BY <1>3, <2>2 DEF None
<1>6. DOMAIN Line # {} => link = "up" /\ session # 0
  <2>1. out = None => DOMAIN Line = {}
    BY <1>2
  <2> QED BY <2>1 DEF LogsInv, LineInv, TypeInv, LogsTypeOK
<1> QED BY <1>1, <1>2, <1>4, <1>5, <1>6, BatchIsSeq


(* What Log puts behind the buffer is newer than everything else.          *)
LEMMA LoggedIsNew ==
  ASSUME TypeInv, NEW from \in SUBSET (1..captured), Logged(from)
  PROVE  /\ captured' \in 0..MaxEntries /\ captured <= captured' /\ pending' \in Batches
         /\ Increasing(pending') /\ Elements(pending') \in SUBSET (1..captured')
         /\ \A S \in SUBSET (1..captured) :
              /\ S \subseteq 1..captured'
              /\ Before(S, from, adrift) => Before(S, Elements(pending'), adrift)
              /\ Below(S, from) => Below(S, Elements(pending'))
              /\ Apart(S, from) => Apart(S, Elements(pending'))
         /\ Later(from) => Later(Elements(pending'))
<1>1. captured \in Nat /\ cut <= captured /\ cut \in Nat
  BY DEF TypeInv, LogsTypeOK
<1>2. /\ captured' \in Nat /\ captured <= captured' /\ captured' <= MaxEntries
      /\ pending' \in Batches /\ Increasing(pending')
      /\ \A e \in Elements(pending') : e \in from \/ (captured < e /\ e <= captured')
  BY DEF Logged
<1>3. Elements(pending') \subseteq Entries
  BY <1>2, BatchIsSeq, EntriesAreNaturals
<1>4. Elements(pending') \in SUBSET (1..captured')
  BY <1>1, <1>2, <1>3 DEF Entries
<1>5. ASSUME NEW S \in SUBSET (1..captured)
      PROVE  /\ S \subseteq 1..captured'
             /\ Before(S, from, adrift) => Before(S, Elements(pending'), adrift)
             /\ Below(S, from) => Below(S, Elements(pending'))
             /\ Apart(S, from) => Apart(S, Elements(pending'))
  <2>1. \A x \in S : x \in Int /\ x <= captured /\ \A e \in Elements(pending') : e \in Int
    BY <1>1, <1>4
  <2>2. ASSUME Before(S, from, adrift) PROVE Before(S, Elements(pending'), adrift)
    BY <1>1, <1>2, <2>1, <2>2 DEF Before, Precedes
  <2>3. ASSUME Below(S, from) PROVE Below(S, Elements(pending'))
    BY <1>1, <1>2, <2>1, <2>3 DEF Below
  <2>4. ASSUME Apart(S, from) PROVE Apart(S, Elements(pending'))
    BY <1>1, <1>2, <2>1, <2>4 DEF Apart
  <2>5. S \subseteq 1..captured'
    BY <1>1, <1>2
  <2> QED BY <2>2, <2>3, <2>4, <2>5
<1>6. ASSUME Later(from) PROVE Later(Elements(pending'))
  BY <1>1, <1>2, <1>4, <1>6 DEF Later
<1> QED BY <1>1, <1>2, <1>4, <1>5, <1>6

LEMMA LogPending ==
  ASSUME LogsInv, NEW n \in Nat, Log(pending, n)
  PROVE  Elements(pending) \in SUBSET (1..captured) /\ Logged(Elements(pending))
<1>1. pending \in Seq(Entries) /\ captured \in 0..MaxEntries /\ Elements(pending) \subseteq 1..captured /\ Increasing(pending)
  BY StateFacts DEF LogsInv, TypeInv, LogsTypeOK, Sorted
<1> QED BY <1>1, LogEffect DEF Logged


(* The next request is sent.  from is what the buffer held, or holds with  *)
(* the batch put back, before the line was logged.                         *)
LEMMA NextSent ==
  ASSUME LogsInv, out # None, SendNext, inFlight' \in BOOLEAN, registered' \in BOOLEAN,
         out.kind # "register" => registered' = registered,
         NEW from \in SUBSET (1..captured), Logged(from), Later(from),
         Before(Elements(store), from, adrift),
         \A i \in DOMAIN Line : i # 1 /\ LineMayStore(i) => Below(Elements(Line[i].entries), from),
         \A r \in orphans : OrphanMayStore(r) => Apart(Elements(r.post.entries), from),
         batch' = <<>> \/ (out.kind # "push" /\ batch' = batch /\ Below(Elements(batch), from))
  PROVE  LogsInv'
<1> USE DEF LogsInv
<1>1. UNCHANGED <<link, session, sessions, gone, known, attached, store, dropping, orphans, clear,
                  command, cut, adrift>>
  BY DEF SendNext, server, caller
<1>2. /\ out' \in Messages /\ queue' \in Seq(Messages) /\ (out' = None => queue' = <<>>)
      /\ LineMoves
  BY StateFacts, SendNextEffect
<1>3. /\ \A i \in DOMAIN Line' : i + 1 \in DOMAIN Line /\ Line'[i] = Line[i + 1] /\ i + 1 # 1 /\ i \in Nat
      /\ Line[1] = out /\ 1 \in DOMAIN Line /\ link = "up" /\ session # 0
  BY <1>2, StateFacts DEF LineMoves
<1>4. /\ Elements(batch) \in SUBSET (1..captured) /\ Elements(store) \in SUBSET (1..captured)
      /\ adrift \in SUBSET (1..captured) /\ cut <= captured /\ captured \in Nat /\ cut \in Nat
      /\ \A i \in DOMAIN Line : Elements(Line[i].entries) \in SUBSET (1..captured)
  BY DEF TypeInv, LogsTypeOK
<1>5. /\ captured' \in 0..MaxEntries /\ captured <= captured' /\ pending' \in Batches
      /\ Increasing(pending') /\ Elements(pending') \in SUBSET (1..captured')
      /\ \A S \in SUBSET (1..captured) :
           /\ S \subseteq 1..captured'
           /\ Before(S, from, adrift) => Before(S, Elements(pending'), adrift)
           /\ Below(S, from) => Below(S, Elements(pending'))
           /\ Apart(S, from) => Apart(S, Elements(pending'))
      /\ Later(Elements(pending'))
  BY LoggedIsNew
<1>6. /\ \A i \in DOMAIN Line' : Line'[i].stage = "sent" /\ (LineMayStore(i)' => LineMayStore(i + 1))
      /\ \A kind : InLine(kind)' => InLine(kind)
  BY <1>1, <1>3 DEF LineInv, LineMayStore, Matches, InLine
<1>7. /\ batch' \in Batches /\ Elements(batch') \in SUBSET Elements(batch) /\ Increasing(batch')
      /\ Below(Elements(batch'), Elements(pending')) /\ (MayRestore' => MayRestore \/ Elements(batch') = {})
  <2>1. CASE batch' = <<>>
    BY <2>1, NoneEmpty DEF Below
  <2>2. CASE out.kind # "push" /\ batch' = batch /\ Below(Elements(batch), from)
    BY <1>4, <1>5, <1>6, <2>2, StateFacts DEF MayRestore, Serve, Sorted
  <2> QED BY <2>1, <2>2
<1>8. TypeInv'
  <2>1. LogsTypeOK'
    BY <1>1, <1>2, <1>5, <1>7 DEF TypeInv, LogsTypeOK
  <2>2. cut' <= captured'
    BY <1>1, <1>4, <1>5
  <2>3. Elements(batch') \subseteq 1..captured'
    BY <1>4, <1>5, <1>7
  <2> QED BY <1>1, <1>3, <1>4, <1>5, <2>1, <2>2, <2>3 DEF TypeInv
<1>9. LineInv'
  BY <1>1, <1>2, <1>3, <1>6 DEF LineInv, Matches
<1>10. Sorted'
  BY <1>3, <1>5, <1>7 DEF Sorted
<1>11. StoreInv'
  <2>1. Orderly(store, adrift)' /\ Before(Elements(store), Elements(pending), adrift)'
    BY <1>1, <1>4, <1>5 DEF StoreInv
  <2>2. (MayRestore => Before(Elements(store), Elements(batch), adrift))'
    BY <1>1, <1>7 DEF StoreInv, Before
  <2>3. ASSUME NEW i \in DOMAIN Line', LineMayStore(i)'
        PROVE  /\ Before(Elements(store), Elements(Line[i].entries), adrift)'
               /\ Below(Elements(Line[i].entries), Elements(pending))'
    BY <1>1, <1>3, <1>4, <1>5, <1>6, <2>3 DEF StoreInv
  <2>4. ASSUME NEW i \in DOMAIN Line', NEW j \in DOMAIN Line', i < j, LineMayStore(i)', LineMayStore(j)'
        PROVE  Below(Elements(Line[i].entries), Elements(Line[j].entries))'
    <3>1. i + 1 < j + 1
      BY <1>3, <2>4
    <3> QED BY <1>3, <1>6, <2>4, <3>1 DEF StoreInv
  <2> QED BY <2>1, <2>2, <2>3, <2>4 DEF StoreInv
<1>12. OrphansInv'
  <2>1. ASSUME NEW mine \in SUBSET adrift, OnlyCopy(mine), Apart(mine, from) PROVE OnlyCopy(mine)'
    BY <1>1, <1>3, <1>4, <1>5, <1>6, <1>7, <2>1 DEF OnlyCopy, Apart
  <2> QED BY <1>1, <1>4, <2>1 DEF OrphansInv, OrphanMayStore, Matches
<1>13. ClearInv'
  <2>1. (Later(Elements(pending)) /\ Later(Elements(batch)))'
    BY <1>1, <1>5, <1>7 DEF ClearInv, Later
  <2>2. ASSUME NEW i \in DOMAIN Line', NEW j \in DOMAIN Line', i < j, Line'[i].kind = "ack"
        PROVE  Later(Elements(Line[j].entries))'
    <3>1. i + 1 < j + 1
      BY <1>3, <2>2
    <3> QED BY <1>1, <1>3, <2>2, <3>1 DEF ClearInv, Later
  <2> QED BY <1>1, <1>3, <1>6, <2>1, <2>2 DEF ClearInv, ClearIsComplete, Later
<1> QED BY <1>8, <1>9, <1>10, <1>11, <1>12, <1>13

LEMMA NextSentAsIs ==
  ASSUME LogsInv
  PROVE  /\ Elements(pending) \in SUBSET (1..captured) /\ Later(Elements(pending))
         /\ Before(Elements(store), Elements(pending), adrift)
         /\ \A i \in DOMAIN Line : LineMayStore(i) => Below(Elements(Line[i].entries), Elements(pending))
         /\ \A r \in orphans : OrphanMayStore(r) => Apart(Elements(r.post.entries), Elements(pending))
         /\ Below(Elements(batch), Elements(pending))
BY DEF LogsInv, TypeInv, Sorted, StoreInv, OrphansInv, OnlyCopy, ClearInv

LEMMA AckAnsweredStep ==
  ASSUME LogsInv, AckAnswered PROVE LogsInv'
<1>1. /\ out.kind = "ack" /\ out # None /\ SendNext /\ UNCHANGED <<batch, inFlight, registered>>
      /\ Log(pending, IF out.stage = "refused" THEN 1 ELSE 0)
  BY DEF AckAnswered, None
<1>2. inFlight' \in BOOLEAN /\ registered' \in BOOLEAN
  BY <1>1 DEF LogsInv, TypeInv, LogsTypeOK
<1>3. Logged(Elements(pending))
  BY <1>1, LogPending
<1> QED BY <1>1, <1>2, <1>3, NextSentAsIs, NextSent

LEMMA RegisterAnsweredStep ==
  ASSUME LogsInv, RegisterAnswered PROVE LogsInv'
<1>1. /\ out.kind = "register" /\ out # None /\ SendNext /\ UNCHANGED <<batch, inFlight>>
      /\ Log(pending, 1) /\ registered' = (out.stage = "ok")
  BY DEF RegisterAnswered, None
<1>2. inFlight' \in BOOLEAN /\ registered' \in BOOLEAN
  BY <1>1 DEF LogsInv, TypeInv, LogsTypeOK
<1>3. Logged(Elements(pending))
  BY <1>1, LogPending
<1> QED BY <1>1, <1>2, <1>3, NextSentAsIs, NextSent

LEMMA PushAcceptedStep ==
  ASSUME LogsInv, PushAccepted PROVE LogsInv'
<1>1. /\ out.kind = "push" /\ out # None /\ SendNext /\ UNCHANGED <<captured, pending, registered>>
      /\ inFlight' = FALSE /\ batch' = <<>>
  BY DEF PushAccepted, Serve, None
<1>2. inFlight' \in BOOLEAN /\ registered' \in BOOLEAN
  BY <1>1 DEF LogsInv, TypeInv, LogsTypeOK
<1>3. Logged(Elements(pending))
  BY <1>1 DEF Logged, LogsInv, TypeInv, LogsTypeOK, Sorted
<1> QED BY <1>1, <1>2, <1>3, NextSentAsIs, NextSent

(* What made the server refuse this push makes it refuse those behind it.  *)
LEMMA PushRefusedStep ==
  ASSUME LogsInv, PushRefused PROVE LogsInv'
<1> DEFINE from == Elements(batch) \cup Elements(pending)
<1>1. /\ out.kind = "push" /\ out.stage = "refused" /\ out # None /\ SendNext /\ UNCHANGED registered
      /\ Log(Restored(batch), 1) /\ inFlight' = FALSE /\ batch' = <<>>
  BY DEF PushRefused, Serve, None
<1>2. inFlight' \in BOOLEAN /\ registered' \in BOOLEAN
  BY <1>1 DEF LogsInv, TypeInv, LogsTypeOK
<1>3. 1 \in DOMAIN Line /\ Line[1] = out
  BY <1>1, StateFacts
<1>4. ~Matches(session) /\ \A i \in DOMAIN Line : i # 1 => ~LineMayStore(i)
  BY <1>1, <1>3 DEF LogsInv, LineInv, LineMayStore
<1>5. MayRestore
  BY <1>1, <1>3 DEF MayRestore, InLine, Serve
<1>6. Restored(batch) \in Seq(Entries) /\ Elements(Restored(batch)) \subseteq from /\ Increasing(Restored(batch))
  <2>1. batch \in Seq(Entries) /\ pending \in Seq(Entries) /\ batch \in Seq(Nat) /\ pending \in Seq(Nat)
    BY StateFacts, EntriesAreNaturals
  <2>2. batch \o pending \in Seq(Entries) /\ batch \o pending \in Seq(Nat)
    BY <2>1, ConcatProperties
  <2>3. Increasing(batch \o pending)
    BY <2>1, ConcatKeepsOrder DEF LogsInv, Sorted
  <2>4. Elements(Restored(batch)) \subseteq Elements(batch \o pending)
    BY <2>2, ElementsOfNewest DEF Restored
  <2>5. Elements(batch \o pending) = from
    BY <2>1, ElementsOfConcat
  <2>6. Increasing(Restored(batch))
    BY <2>2, <2>3, NewestKeepsOrder DEF Restored
  <2>7. Restored(batch) \in Seq(Entries)
    BY <2>2, NewestEnd DEF Restored
  <2> QED BY <2>4, <2>5, <2>6, <2>7
<1>7. from \in SUBSET (1..captured) /\ captured \in 0..MaxEntries
  BY DEF LogsInv, TypeInv, LogsTypeOK
<1>8. Logged(from)
  <2>1. Elements(Restored(batch)) \subseteq 1..captured
    BY <1>6, <1>7
  <2>2. /\ captured' \in Nat /\ captured <= captured' /\ captured' <= MaxEntries
        /\ pending' \in Batches /\ Increasing(pending')
        /\ \A e \in Elements(pending') : e \in Elements(Restored(batch)) \/ (captured < e /\ e <= captured')
    BY <1>1, <1>6, <1>7, <2>1, LogEffect
  <2> QED BY <1>6, <2>2 DEF Logged
<1>9. Later(from) /\ Before(Elements(store), from, adrift)
  BY <1>5 DEF LogsInv, ClearInv, StoreInv, Later, Before
<1>10. \A r \in orphans : OrphanMayStore(r) => Apart(Elements(r.post.entries), from)
  BY <1>5 DEF LogsInv, OrphansInv, OnlyCopy, Apart
<1> HIDE DEF from
<1> QED BY <1>1, <1>2, <1>4, <1>7, <1>8, <1>9, <1>10, NextSent


(* One request more waits.                                                 *)
LEMMA Posted ==
  ASSUME LogsInv, NEW m \in Messages, Post(m), m.stage = "sent", m.kind # "none", link = "up",
         m.kind = "push" \/ m.entries = <<>>, m.kind = "push" => registered,
         m.kind = "register" => ~registered /\ ~InLine("register"),
         Elements(m.entries) \subseteq Elements(pending), Increasing(m.entries),
         UNCHANGED <<captured, registered, link, session, sessions, server, clear, adrift>>,
         inFlight' \in BOOLEAN, command' \in {0, command}, cut' \in {cut, captured},
         pending' \in {pending, <<>>}, Below(Elements(m.entries), Elements(pending')),
         \/ batch' = <<>>
         \/ batch' = batch /\ m.kind # "push"
         \/ batch' = pending /\ pending' = <<>>
  PROVE  /\ TypeInv' /\ LineInv' /\ Sorted' /\ StoreInv' /\ OrphansInv'
         /\ \A i \in DOMAIN Line' : \/ i \in DOMAIN Line /\ Line'[i] = Line[i] /\ i < Len(Line) + 1
                                    \/ i = Len(Line) + 1 /\ Line'[i] = m
<1> USE DEF LogsInv
<1>0. UNCHANGED <<gone, known, attached, store, dropping, orphans>>
  BY DEF server
<1>1. m # None /\ out \in Messages /\ queue \in Seq(Messages) /\ (out = None => queue = <<>>)
  BY StateFacts DEF None
<1>2. /\ out' \in Messages /\ queue' \in Seq(Messages) /\ out' # None
      /\ LineGrows(m) /\ Len(Line) \in Nat /\ (out' = out \/ (Line = <<>> /\ out' = m))
  BY <1>1, PostEffect
<1> DEFINE last == Len(Line) + 1
<1>3. /\ last \in Nat /\ last \in DOMAIN Line' /\ Line'[last] = m /\ last \notin DOMAIN Line
      /\ \A i \in DOMAIN Line : i \in DOMAIN Line' /\ Line'[i] = Line[i] /\ i < last /\ i \in Nat
      /\ \A i \in DOMAIN Line' : i \in DOMAIN Line \/ i = last
      /\ out # None => 1 # last /\ out' = out
  BY <1>2, StateFacts DEF LineGrows
<1> HIDE DEF last
<1>4. /\ Elements(batch) \in SUBSET (1..captured) /\ Elements(store) \in SUBSET (1..captured)
      /\ Elements(pending) \in SUBSET (1..captured)
      /\ adrift \in SUBSET (1..captured) /\ cut <= captured /\ captured \in 0..MaxEntries /\ cut \in 0..MaxEntries
      /\ command' \in Session /\ command' <= sessions
      /\ \A i \in DOMAIN Line : Elements(Line[i].entries) \in SUBSET (1..captured)
  BY DEF TypeInv, LogsTypeOK, Session
<1>5. cut' \in 0..MaxEntries /\ cut' <= captured
  BY <1>4
<1>6. /\ pending' \in Batches /\ Elements(pending') \in SUBSET Elements(pending) /\ Increasing(pending')
      /\ batch' \in Batches /\ Increasing(batch') /\ Elements(batch') \in SUBSET (1..captured)
      /\ Below(Elements(batch'), Elements(pending'))
  <2>1. /\ pending' \in Batches /\ Elements(pending') \in SUBSET Elements(pending) /\ Increasing(pending')
    BY NoneEmpty, StateFacts DEF Sorted
  <2>2. CASE batch' = <<>>
    BY <2>1, <2>2, NoneEmpty DEF Below
  <2>3. CASE batch' = batch
    BY <1>4, <2>1, <2>3, StateFacts DEF Sorted, Below
  <2>4. CASE batch' = pending /\ pending' = <<>>
    BY <1>4, <2>1, <2>4, StateFacts, NoneEmpty DEF Sorted, Below
  <2> QED BY <2>1, <2>2, <2>3, <2>4
<1>7. \A i \in DOMAIN Line : /\ LineMayStore(i)' <=> LineMayStore(i)
                             /\ LineMayStore(i) => Below(Elements(Line[i].entries), Elements(m.entries))
  BY <1>0, <1>3 DEF LineMayStore, Matches, StoreInv, Below
<1>8. Before(Elements(store), Elements(m.entries), adrift)
  BY DEF StoreInv, Before
<1>9. MayRestore' => (MayRestore /\ batch' = batch) \/ batch' = pending \/ Elements(batch') = {}
  BY <1>2, <1>3, NoneEmpty, StateFacts DEF MayRestore, InLine, Serve, None
<1>10. TypeInv'
  <2>1. LogsTypeOK'
    BY <1>0, <1>2, <1>4, <1>5, <1>6 DEF TypeInv, LogsTypeOK
  <2>2. \A i \in DOMAIN Line' : Elements(Line'[i].entries) \subseteq 1..captured'
    BY <1>3, <1>4
  <2> QED BY <1>0, <1>4, <1>5, <1>6, <2>1, <2>2 DEF TypeInv
<1>11. LineInv'
  <2>1. \A i \in DOMAIN Line' :
       /\ Line'[i].kind # "none"
       /\ i # 1 => Line'[i].stage = "sent"
       /\ Line'[i].stage = "checked" => Line'[i].kind = "push"
       /\ Line'[i].kind = "push" /\ Line'[i].stage = "refused" => ~Matches(session)'
       /\ Line'[i].kind = "register" => ~registered'
       /\ ~registered' \/ Line'[i].kind # "push" => Line'[i].entries = <<>>
    BY <1>0, <1>3 DEF LineInv, Matches
  <2>2. \A i, j \in DOMAIN Line' : i # j => Line'[i].kind # "register" \/ Line'[j].kind # "register"
    BY <1>3 DEF LineInv, InLine
  <2> QED BY <1>0, <1>2, <2>1, <2>2 DEF LineInv
<1>12. Sorted'
  BY <1>3, <1>6 DEF Sorted
<1>13. StoreInv'
  <2>1. Orderly(store, adrift)' /\ Before(Elements(store), Elements(pending), adrift)'
    BY <1>0, <1>6 DEF StoreInv, Before
  <2>2. (MayRestore => Before(Elements(store), Elements(batch), adrift))'
    BY <1>0, <1>9 DEF StoreInv, Before
  <2>3. ASSUME NEW i \in DOMAIN Line', LineMayStore(i)'
        PROVE  /\ Before(Elements(store), Elements(Line[i].entries), adrift)'
               /\ Below(Elements(Line[i].entries), Elements(pending))'
    <3>1. CASE i = last
      BY <1>0, <1>3, <1>8, <3>1
    <3>2. CASE i \in DOMAIN Line
      BY <1>0, <1>3, <1>6, <1>7, <2>3, <3>2 DEF StoreInv, Below
    <3> QED BY <1>3, <3>1, <3>2
  <2>4. ASSUME NEW i \in DOMAIN Line', NEW j \in DOMAIN Line', i < j, LineMayStore(i)', LineMayStore(j)'
        PROVE  Below(Elements(Line[i].entries), Elements(Line[j].entries))'
    <3>1. i \in DOMAIN Line
      BY <1>3, <2>4
    <3>2. CASE j = last
      BY <1>3, <1>7, <2>4, <3>1, <3>2
    <3>3. CASE j \in DOMAIN Line
      BY <1>3, <1>7, <2>4, <3>1, <3>3 DEF StoreInv
    <3> QED BY <1>3, <3>2, <3>3
  <2> QED BY <2>1, <2>2, <2>3, <2>4 DEF StoreInv
<1>14. OrphansInv'
  <2>1. ASSUME NEW mine \in SUBSET adrift, OnlyCopy(mine) PROVE OnlyCopy(mine)'
    <3>1. \A i \in DOMAIN Line' : LineMayStore(i)' => Apart(mine, Elements(Line'[i].entries))
      BY <1>3, <1>7, <2>1 DEF OnlyCopy, Apart
    <3>2. MayRestore' => Apart(mine, Elements(batch'))
      BY <1>9, <2>1 DEF OnlyCopy, Apart
    <3> QED BY <1>0, <1>6, <2>1, <3>1, <3>2 DEF OnlyCopy, Apart
  <2> QED BY <1>0, <1>4, <2>1 DEF OrphansInv, OrphanMayStore, Matches
<1> QED BY <1>3, <1>10, <1>11, <1>12, <1>13, <1>14 DEF last


LEMMA FlushStep ==
  ASSUME LogsInv, Flush PROVE LogsInv'
<1> DEFINE m == Message("push", pending)
<1>1. /\ registered /\ Post(m) /\ pending' = <<>> /\ batch' = pending /\ inFlight' = TRUE
      /\ UNCHANGED <<captured, registered, link, session, sessions, server, clear, command, cut,
                     adrift>>
  BY DEF Flush, caller
<1>2. /\ m.kind = "push" /\ m.stage = "sent" /\ m.entries = pending
      /\ pending \in Batches /\ Increasing(pending) /\ link = "up"
  BY <1>1 DEF Message, LogsInv, TypeInv, LogsTypeOK, Sorted, LineInv
<1>3. m \in Messages
  BY <1>2 DEF Message, Messages
<1> HIDE DEF m
<1>4. Below(Elements(m.entries), Elements(pending')) /\ inFlight' \in BOOLEAN
  BY <1>1, NoneEmpty DEF Below
<1>5. /\ TypeInv' /\ LineInv' /\ Sorted' /\ StoreInv' /\ OrphansInv'
      /\ \A i \in DOMAIN Line' : \/ i \in DOMAIN Line /\ Line'[i] = Line[i] /\ i < Len(Line) + 1
                                 \/ i = Len(Line) + 1 /\ Line'[i] = m
  BY <1>1, <1>2, <1>3, <1>4, Posted
<1>6. ClearInv'
  <2>1. /\ Later(Elements(pending)) /\ Elements(pending') = {} /\ m.kind # "ack"
        /\ \A i \in DOMAIN Line : i \in Nat /\ i < Len(Line) + 1
        /\ Len(Line) + 1 \in Nat
    BY <1>1, <1>2, NoneEmpty, StateFacts DEF LogsInv, ClearInv
  <2> QED BY <1>1, <1>2, <1>5, <2>1 DEF LogsInv, ClearInv, ClearIsComplete, Later, InLine, server
<1> QED BY <1>5, <1>6 DEF LogsInv

LEMMA AckIsMessage ==
  ASSUME NEW kind \in {"register", "ack"}
  PROVE  /\ Message(kind, <<>>) \in Messages /\ Message(kind, <<>>).kind = kind
         /\ Message(kind, <<>>).stage = "sent" /\ Message(kind, <<>>).entries = <<>>
         /\ Elements(Message(kind, <<>>).entries) = {} /\ Increasing(Message(kind, <<>>).entries)
BY NoneEmpty DEF Message, Messages

LEMMA HandleClearStep ==
  ASSUME LogsInv, HandleClear PROVE LogsInv'
<1>1. /\ command # 0 /\ command = session /\ Post(Message("ack", <<>>))
      /\ pending' = <<>> /\ batch' = <<>> /\ inFlight' = FALSE /\ command' = 0 /\ cut' = captured
      /\ UNCHANGED <<captured, registered, link, session, sessions, server, clear, adrift>>
  BY DEF HandleClear
<1>2. PICK m \in Messages : /\ m = Message("ack", <<>>)
                            /\ m.kind = "ack" /\ m.stage = "sent" /\ m.entries = <<>>
                            /\ Elements(m.entries) = {} /\ Increasing(m.entries)
  BY AckIsMessage
<1>3. inFlight' \in BOOLEAN /\ link = "up" /\ Elements(<<>>) = {}
  BY <1>1, NoneEmpty DEF LogsInv, TypeInv, LogsTypeOK
<1>4. Below(Elements(m.entries), Elements(pending')) /\ Elements(m.entries) \subseteq Elements(pending)
  BY <1>2 DEF Below
<1>5. /\ TypeInv' /\ LineInv' /\ Sorted' /\ StoreInv' /\ OrphansInv'
      /\ \A i \in DOMAIN Line' : \/ i \in DOMAIN Line /\ Line'[i] = Line[i] /\ i < Len(Line) + 1
                                 \/ i = Len(Line) + 1 /\ Line'[i] = m
  BY <1>1, <1>2, <1>3, <1>4, Posted
<1>6. ClearInv'
  <2>1. clear \in {"waiting", "failed"} /\ \A i \in DOMAIN Line : Line[i].kind # "ack"
    BY <1>1 DEF LogsInv, ClearInv, InLine
  <2>2. ASSUME NEW i \in DOMAIN Line', NEW j \in DOMAIN Line', i < j, Line'[i].kind = "ack" PROVE FALSE
    <3>1. i = Len(Line) + 1 /\ j <= Len(Line) + 1 /\ Len(Line) + 1 \in Nat /\ j \in Nat
      BY <1>2, <1>5, <2>1, <2>2, StateFacts
    <3> QED BY <2>2, <3>1
  <2> QED BY <1>1, <1>2, <1>3, <2>1, <2>2 DEF ClearInv, ClearIsComplete, Later
<1> QED BY <1>5, <1>6 DEF LogsInv

(* The messages that are lost with the connection.                         *)
LEMMA LineElements ==
  ASSUME LogsInv
  PROVE  /\ \A i \in DOMAIN Line : Line[i] \in Elements(Append(queue, out))
         /\ \A m \in Elements(Append(queue, out)) : m = None \/ \E i \in DOMAIN Line : Line[i] = m
<1>1. out \in Messages /\ queue \in Seq(Messages) /\ (out = None => queue = <<>>)
  BY StateFacts
<1>2. /\ DOMAIN Append(queue, out) = 1..(Len(queue) + 1) /\ Len(queue) \in Nat
      /\ \A i \in 1..Len(queue) : Append(queue, out)[i] = queue[i]
      /\ Append(queue, out)[Len(queue) + 1] = out
  <2>1. /\ Append(queue, out) \in Seq(Messages) /\ Len(Append(queue, out)) = Len(queue) + 1
        /\ \A i \in 1..Len(queue) : Append(queue, out)[i] = queue[i]
        /\ Append(queue, out)[Len(queue) + 1] = out
    BY <1>1, AppendProperties
  <2> QED BY <1>1, <2>1, LenProperties
<1>3. CASE out = None
  <2>1. Len(queue) = 0 /\ Len(Line) = 0 /\ DOMAIN Line = 1..0
    BY <1>1, <1>3, EmptySeq, LineFacts
  <2> QED BY <1>2, <1>3, <2>1 DEF Elements
<1>4. CASE out # None
  <2>1. /\ DOMAIN Line = 1..(Len(queue) + 1) /\ Line[1] = out
        /\ \A i \in 1..Len(queue) : Line[i + 1] = queue[i]
    BY <1>1, <1>4, LineFacts
  <2>2. ASSUME NEW i \in DOMAIN Line PROVE Line[i] \in Elements(Append(queue, out))
    <3>1. CASE i = 1
      <4>1. Len(queue) + 1 \in 1..(Len(queue) + 1)
        BY <1>2
      <4> QED BY <1>2, <2>1, <3>1, <4>1 DEF Elements
    <3>2. CASE i # 1
      <4>1. i - 1 \in 1..Len(queue) /\ (i - 1) + 1 = i /\ i - 1 \in 1..(Len(queue) + 1)
        BY <1>2, <2>1, <3>2
      <4>2. Append(queue, out)[i - 1] = Line[(i - 1) + 1]
        BY <1>2, <2>1, <4>1
      <4> QED BY <1>2, <4>1, <4>2 DEF Elements
    <3> QED BY <3>1, <3>2
  <2>3. ASSUME NEW k \in 1..(Len(queue) + 1) PROVE \E i \in DOMAIN Line : Line[i] = Append(queue, out)[k]
    <3>1. CASE k = Len(queue) + 1
      BY <1>2, <2>1, <3>1, LineFacts
    <3>2. CASE k # Len(queue) + 1
      <4>1. k \in 1..Len(queue) /\ k + 1 \in 1..(Len(queue) + 1)
        BY <1>2, <3>2
      <4> QED BY <1>2, <2>1, <4>1
    <3> QED BY <3>1, <3>2
  <2> QED BY <1>2, <2>2, <2>3 DEF Elements
<1> QED BY <1>3, <1>4

LEMMA RegisterStep ==
  ASSUME LogsInv, Register PROVE LogsInv'
<1>1. /\ link = "up" /\ ~registered /\ Post(Message("register", <<>>))
      /\ "register" \notin {m.kind : m \in Elements(Append(queue, out))}
      /\ UNCHANGED <<captured, pending, batch, inFlight, registered, link, session, sessions,
                     server, clear, command, cut, adrift>>
  BY DEF Register, companion, caller
<1>2. PICK m \in Messages : /\ m = Message("register", <<>>)
                            /\ m.kind = "register" /\ m.stage = "sent" /\ m.entries = <<>>
                            /\ Elements(m.entries) = {} /\ Increasing(m.entries)
  BY AckIsMessage
<1>3. inFlight' \in BOOLEAN
  BY <1>1 DEF LogsInv, TypeInv, LogsTypeOK
<1>4. Below(Elements(m.entries), Elements(pending')) /\ Elements(m.entries) \subseteq Elements(pending)
  BY <1>2 DEF Below
<1>5. ~InLine("register")
  BY <1>1, LineElements DEF InLine
<1>6. /\ TypeInv' /\ LineInv' /\ Sorted' /\ StoreInv' /\ OrphansInv'
      /\ \A i \in DOMAIN Line' : \/ i \in DOMAIN Line /\ Line'[i] = Line[i] /\ i < Len(Line) + 1
                                 \/ i = Len(Line) + 1 /\ Line'[i] = m
  BY <1>1, <1>2, <1>3, <1>4, <1>5, Posted
<1>7. ClearInv'
  BY <1>1, <1>2, <1>6 DEF LogsInv, ClearInv, ClearIsComplete, Later, InLine, server
<1> QED BY <1>6, <1>7 DEF LogsInv


(* The connection is lost: nothing is in line any more, and a handler may  *)
(* run on with what was in flight.                                         *)
LEMMA Cut ==
  ASSUME LogsInv, link = "up", NEW to \in {"down", "connecting"}, NEW errors \in Nat,
         Disconnected(to, errors), UNCHANGED <<gone, known, attached, store, dropping>>,
         \/ orphans' = orphans
         \/ /\ orphans' = orphans \cup {[post |-> out, session |-> session]}
            /\ out # None /\ out.stage \in {"sent", "checked"}
  PROVE  LogsInv'
<1> USE DEF LogsInv
<1>1. /\ link' = to /\ session' = 0 /\ out' = None /\ queue' = <<>> /\ registered' = FALSE
      /\ UNCHANGED <<batch, inFlight, sessions, clear, command, cut>>
      /\ adrift' = adrift \cup UNION {Elements(m.entries) : m \in Elements(Append(queue, out))}
      /\ Log(pending, 1 + errors + (IF queue # <<>> THEN 1 ELSE 0))
  BY DEF Disconnected
<1>2. DOMAIN Line' = {}
  BY <1>1 DEF Line
<1>3. /\ Elements(batch) \in SUBSET (1..captured) /\ Elements(store) \in SUBSET (1..captured)
      /\ Elements(pending) \in SUBSET (1..captured)
      /\ adrift \in SUBSET (1..captured) /\ cut <= captured /\ captured \in 0..MaxEntries /\ cut \in Nat
      /\ \A i \in DOMAIN Line : Elements(Line[i].entries) \in SUBSET (1..captured)
      /\ session \in Session /\ session # 0 /\ session <= sessions /\ sessions \in Nat
  BY DEF TypeInv, LogsTypeOK, Session
<1>4. /\ captured' \in 0..MaxEntries /\ captured <= captured' /\ pending' \in Batches
      /\ Increasing(pending') /\ Elements(pending') \in SUBSET (1..captured')
      /\ \A S \in SUBSET (1..captured) :
           /\ S \subseteq 1..captured'
           /\ Before(S, Elements(pending), adrift) => Before(S, Elements(pending'), adrift)
           /\ Below(S, Elements(pending)) => Below(S, Elements(pending'))
           /\ Apart(S, Elements(pending)) => Apart(S, Elements(pending'))
      /\ Later(Elements(pending)) => Later(Elements(pending'))
  <2>1. 1 + errors + (IF queue # <<>> THEN 1 ELSE 0) \in Nat
    OBVIOUS
  <2> QED BY <1>1, <2>1, LogPending, LoggedIsNew
<1>5. /\ adrift \subseteq adrift' /\ adrift' \in SUBSET (1..captured)
      /\ \A i \in DOMAIN Line : Elements(Line[i].entries) \subseteq adrift'
  <2>1. \A m \in Elements(Append(queue, out)) : Elements(m.entries) \subseteq 1..captured
    <3>1. None.entries = <<>>
      BY DEF None
    <3> QED BY <1>3, <3>1, LineElements, NoneEmpty
  <2>2. ASSUME NEW e \in adrift' PROVE e \in 1..captured
    <3>1. e \in adrift \/ \E m \in Elements(Append(queue, out)) : e \in Elements(m.entries)
      BY <1>1
    <3> QED BY <1>3, <2>1, <3>1
  <2>3. ASSUME NEW i \in DOMAIN Line, NEW e \in Elements(Line[i].entries) PROVE e \in adrift'
    <3>1. Line[i] \in Elements(Append(queue, out))
      BY LineElements
    <3> QED BY <1>1, <3>1
  <2>4. adrift \subseteq adrift'
    BY <1>1
  <2> QED BY <2>2, <2>3, <2>4
<1>6. TypeInv'
  <2>1. (orphans \subseteq [post : Messages, session : Session])'
    BY <1>3, StateFacts DEF TypeInv, LogsTypeOK
  <2>2. out' \in Messages /\ queue' \in Seq(Messages) /\ registered' \in BOOLEAN /\ session' \in Session
    <3>1. queue' \in Seq(Messages) /\ out' \in Messages
      BY <1>1, NoneEmpty, EmptySeq
    <3>2. registered' \in BOOLEAN
      BY <1>1
    <3> QED BY <1>1, <3>1, <3>2 DEF Session
  <2>3. adrift' \subseteq Entries
    BY <1>3, <1>5 DEF Entries
  <2>4. LogsTypeOK'
    BY <1>1, <1>4, <2>1, <2>2, <2>3 DEF TypeInv, LogsTypeOK
  <2>5. cut' <= captured' /\ adrift' \subseteq 1..captured'
    BY <1>1, <1>3, <1>4, <1>5
  <2> QED BY <1>1, <1>2, <1>3, <1>4, <2>4, <2>5 DEF TypeInv
<1>7. LineInv'
  BY <1>1, <1>2 DEF LineInv
<1>8. Sorted'
  BY <1>1, <1>2, <1>3, <1>4 DEF Sorted
<1>9. ~MayRestore'
  BY <1>2 DEF MayRestore, InLine
<1>10. StoreInv'
  <2>1. Before(Elements(store), Elements(pending'), adrift)
    BY <1>3, <1>4 DEF StoreInv
  <2>2. Orderly(store, adrift') /\ Before(Elements(store), Elements(pending'), adrift')
    BY <1>5, <2>1 DEF StoreInv, Orderly, Before, Precedes
  <2> QED BY <1>2, <1>9, <2>2 DEF StoreInv
<1>11. OrphansInv'
  <2>1. ASSUME NEW r \in orphans
        PROVE  /\ Elements(r.post.entries) \subseteq adrift'
               /\ Increasing(r.post.entries)
               /\ r.session # 0 /\ r.session <= sessions'
               /\ OrphanMayStore(r)' => OrphanMayStore(r)
               /\ OrphanMayStore(r) => OnlyCopy(Elements(r.post.entries))'
    BY <1>1, <1>2, <1>3, <1>4, <1>5, <1>9 DEF OrphansInv, OnlyCopy, OrphanMayStore, Matches
  <2>2. \A o, r \in orphans : o # r /\ OrphanMayStore(o)' /\ OrphanMayStore(r)' =>
           Apart(Elements(r.post.entries), Elements(o.post.entries))
    BY <2>1 DEF OrphansInv
  <2>3. CASE orphans' = orphans
    BY <1>1, <2>1, <2>2, <2>3 DEF OrphansInv
  <2>4. ASSUME NEW new, new = [post |-> out, session |-> session], orphans' = orphans \cup {new},
               out # None, out.stage \in {"sent", "checked"}
        PROVE OrphansInv'
    <3>1. 1 \in DOMAIN Line /\ Line[1] = out
      BY <2>4, StateFacts DEF None
    <3>2. /\ Elements(new.post.entries) \subseteq adrift' /\ Increasing(new.post.entries)
          /\ new.session # 0 /\ new.session <= sessions'
      BY <1>1, <1>3, <1>5, <2>4, <3>1 DEF Sorted
    <3>3. OrphanMayStore(new)' => LineMayStore(1)
      BY <2>4, <3>1 DEF OrphanMayStore, LineMayStore, Matches
    <3>4. ASSUME LineMayStore(1) PROVE OnlyCopy(Elements(new.post.entries))'
      <4>1. /\ Before(Elements(store), Elements(out.entries), adrift)
            /\ Below(Elements(out.entries), Elements(pending))
            /\ Elements(out.entries) \in SUBSET (1..captured)
        BY <1>3, <3>1, <3>4 DEF StoreInv
      <4>2. Below(Elements(out.entries), Elements(pending'))
        BY <1>4, <4>1
      <4>3. Apart(Elements(out.entries), Elements(store)) /\ Apart(Elements(out.entries), Elements(pending'))
        BY <1>4, <4>1, <4>2 DEF Before, Precedes, Below, Apart
      <4> QED BY <1>2, <1>9, <2>4, <4>3 DEF OnlyCopy
    <3>5. ASSUME NEW r \in orphans, OrphanMayStore(r), LineMayStore(1)
          PROVE  /\ Apart(Elements(r.post.entries), Elements(new.post.entries))
                 /\ Apart(Elements(new.post.entries), Elements(r.post.entries))
      BY <2>4, <3>1, <3>5 DEF OrphansInv, OnlyCopy, Apart
    <3>6. \A r \in orphans' : /\ Elements(r.post.entries) \subseteq adrift' /\ Increasing(r.post.entries)
                              /\ r.session # 0 /\ r.session <= sessions'
                              /\ OrphanMayStore(r)' => OnlyCopy(Elements(r.post.entries))'
      BY <2>1, <2>4, <3>2, <3>3, <3>4
    <3>7. \A o, r \in orphans' : o # r /\ OrphanMayStore(o)' /\ OrphanMayStore(r)' =>
             Apart(Elements(r.post.entries), Elements(o.post.entries))
      BY <2>1, <2>2, <2>4, <3>3, <3>5
    <3> QED BY <1>1, <3>6, <3>7 DEF OrphansInv
  <2> QED BY <2>3, <2>4
<1>12. ClearInv'
  BY <1>1, <1>2, <1>4, <1>5 DEF ClearInv, ClearIsComplete, Later, InLine
<1> QED BY <1>6, <1>7, <1>8, <1>10, <1>11, <1>12

LEMMA PostFailsStep ==
  ASSUME LogsInv, PostFails PROVE LogsInv'
<1>1. /\ link = "up" /\ Disconnected("down", 1) /\ UNCHANGED <<gone, known, attached, store,
                                                               dropping>>
      /\ orphans' = IF out # None /\ (out.stage = "checked" \/ (out.stage = "sent" /\ ~gone))
                    THEN orphans \cup {[post |-> out, session |-> session]} ELSE orphans
  BY DEF PostFails
<1> QED BY <1>1, Cut

LEMMA PostNotFoundStep ==
  ASSUME LogsInv, PostNotFound PROVE LogsInv'
<1>1. /\ link = "up" /\ Disconnected("connecting", 0)
      /\ UNCHANGED <<gone, known, attached, store, dropping>> /\ orphans' = orphans
  BY DEF PostNotFound, server
<1> QED BY <1>1, Cut


LEMMA OrphanCheckStep ==
  ASSUME LogsInv, NEW r \in orphans, OrphanCheck(r) PROVE LogsInv'
<1> USE DEF LogsInv
<1> DEFINE new == [r EXCEPT !.post.stage = "checked"]
<1>1. /\ UNCHANGED <<captured, pending, batch, inFlight, registered, link, session, sessions, out,
                     queue>>
      /\ UNCHANGED <<gone, known, attached, store, dropping, clear, command, cut, adrift>>
      /\ orphans' = (orphans \ {r}) \cup (IF Matches(r.session) THEN {new} ELSE {})
  BY DEF OrphanCheck, companion, client, caller
<1>2. r \in [post : Messages, session : Session]
  BY DEF TypeInv, LogsTypeOK
<1>3. /\ new \in [post : Messages, session : Session]
      /\ new.session = r.session /\ new.post.entries = r.post.entries
  BY <1>2 DEF Messages
<1> HIDE DEF new
<1>4. Line' = Line
  BY <1>1 DEF Line
<1>5. TypeInv'
  <2>1. LogsTypeOK'
    BY <1>1, <1>3 DEF TypeInv, LogsTypeOK
  <2> QED BY <1>1, <1>4, <2>1 DEF TypeInv
<1>6. LineInv' /\ Sorted' /\ StoreInv' /\ ClearInv'
  <2>1. LineInv' /\ Sorted'
    BY <1>1, <1>4 DEF LineInv, Sorted, Matches
  <2>2. StoreInv'
    BY <1>1, <1>4 DEF StoreInv, MayRestore, InLine, Serve, LineMayStore, Matches
  <2>3. ClearInv'
    BY <1>1, <1>4 DEF ClearInv, InLine, ClearIsComplete, Later
  <2> QED BY <2>1, <2>2, <2>3
<1>7. OrphansInv'
  <2>1. ASSUME NEW mine, OnlyCopy(mine) PROVE OnlyCopy(mine)'
    BY <1>1, <1>4, <2>1 DEF OnlyCopy, MayRestore, InLine, Serve, LineMayStore, Matches
  <2>2. \A o \in orphans' : \E p \in orphans : /\ o = p \/ (o = new /\ p = r)
                                               /\ o.post.entries = p.post.entries /\ o.session = p.session
                                               /\ OrphanMayStore(o)' => OrphanMayStore(p)
    BY <1>1, <1>3 DEF OrphanMayStore, Matches
  <2>3. \A o \in orphans' : /\ Elements(o.post.entries) \subseteq adrift'
                            /\ Increasing(o.post.entries)
                            /\ o.session # 0 /\ o.session <= sessions' /\ (link' = "up" => o.session # session')
                            /\ OrphanMayStore(o)' => OnlyCopy(Elements(o.post.entries))'
    BY <1>1, <2>1, <2>2 DEF OrphansInv
  <2>4. \A o, p \in orphans' : o # p /\ OrphanMayStore(o)' /\ OrphanMayStore(p)' =>
           Apart(Elements(p.post.entries), Elements(o.post.entries))
    <3>1. \A o \in orphans : OrphanMayStore(o)' <=> OrphanMayStore(o)
      BY <1>1 DEF OrphanMayStore, Matches
    <3>2. CASE Matches(r.session)
      <4>1. OrphanMayStore(r) /\ \A o \in orphans' : o = new \/ (o \in orphans /\ o # r)
        BY <1>1, <3>2 DEF OrphanMayStore
      <4> QED BY <1>3, <3>1, <4>1 DEF OrphansInv
    <3>3. CASE ~Matches(r.session)
      BY <1>1, <3>1, <3>3 DEF OrphansInv
    <3> QED BY <3>2, <3>3
  <2> QED BY <2>3, <2>4 DEF OrphansInv
<1> QED BY <1>5, <1>6, <1>7

LEMMA OrphanStoreStep ==
  ASSUME LogsInv, NEW r \in orphans, OrphanStore(r) PROVE LogsInv'
<1> USE DEF LogsInv
<1> DEFINE mine == Elements(r.post.entries)
<1>1. /\ UNCHANGED <<captured, pending, batch, inFlight, registered, link, session, sessions, out,
                     queue>>
      /\ UNCHANGED <<gone, known, attached, dropping, clear, command, cut, adrift>>
      /\ orphans' = orphans \ {r} /\ store' = Appended(r.post.entries) /\ r.post.stage = "checked"
  BY DEF OrphanStore, companion, client, caller
<1>2. Line' = Line
  BY <1>1 DEF Line
<1>3. /\ r.post.entries \in Seq(Entries) /\ store \in Seq(Entries) /\ Orderly(store, adrift)
      /\ Increasing(r.post.entries) /\ mine \subseteq adrift /\ OnlyCopy(mine) /\ OrphanMayStore(r)
  <2>1. r.post.entries \in Batches
    BY DEF TypeInv, LogsTypeOK, Messages
  <2> QED BY <1>1, <2>1, BatchIsSeq DEF TypeInv, StoreInv, OrphansInv, OrphanMayStore
<1>4. \A S : Apart(mine, S) => Before(mine, S, adrift) /\ Before(S, mine, adrift)
  BY <1>3 DEF Apart, Before, Precedes
<1>5. /\ store' \in Seq(Entries) /\ Len(store') <= StoreCap /\ Orderly(store', adrift)
      /\ Elements(store') \subseteq Elements(store) \cup mine
  BY <1>1, <1>3, <1>4, AppendedEffect DEF OnlyCopy
<1> HIDE DEF mine
<1>6. \A S : Before(Elements(store), S, adrift) /\ Apart(mine, S) => Before(Elements(store'), S, adrift)
  BY <1>4, <1>5 DEF Before
<1>7. TypeInv'
  <2>1. LogsTypeOK'
    BY <1>1, <1>5, EntriesAreNaturals DEF TypeInv, LogsTypeOK
  <2> QED BY <1>1, <1>2, <1>3, <1>5, <2>1 DEF TypeInv
<1>8. LineInv' /\ Sorted'
  BY <1>1, <1>2 DEF LineInv, Sorted, Matches
<1>9. MayRestore' = MayRestore /\ \A i \in DOMAIN Line : LineMayStore(i)' = LineMayStore(i)
  BY <1>1, <1>2 DEF MayRestore, InLine, Serve, LineMayStore, Matches
<1>10. StoreInv'
  BY <1>1, <1>2, <1>3, <1>5, <1>6, <1>9 DEF StoreInv, OnlyCopy
<1>11. OrphansInv'
  <2>1. ASSUME NEW o \in orphans', OrphanMayStore(o)' PROVE OnlyCopy(Elements(o.post.entries))'
    <3>1. o \in orphans /\ o # r /\ OrphanMayStore(o)
      BY <1>1, <2>1 DEF OrphanMayStore, Matches
    <3>2. OnlyCopy(Elements(o.post.entries)) /\ Apart(Elements(o.post.entries), mine)
      BY <1>3, <3>1 DEF OrphansInv, mine
    <3> QED BY <1>1, <1>2, <1>5, <1>9, <3>2 DEF OnlyCopy, Apart
  <2> QED BY <1>1, <2>1 DEF OrphansInv, OrphanMayStore, Matches
<1>12. ClearInv'
  BY <1>1, <1>2, <1>3, <1>5 DEF ClearInv, InLine, ClearIsComplete, Later
<1> QED BY <1>7, <1>8, <1>10, <1>11, <1>12

(* The game is bound to a session nothing waits to be sent over.           *)
LEMMA OrphanRegisterStep ==
  ASSUME LogsInv, SessionsApart, NEW r \in orphans, OrphanRegister(r) PROVE LogsInv'
<1> USE DEF LogsInv
<1>1. /\ UNCHANGED <<captured, pending, batch, inFlight, registered, link, session, sessions, out,
                     queue>>
      /\ UNCHANGED <<gone, known, store, dropping, clear, command, cut, adrift>>
      /\ orphans' = orphans \ {r} /\ attached' = IF known THEN r.session ELSE attached
  BY DEF OrphanRegister, companion, client, caller
<1>2. Line' = Line
  BY <1>1 DEF Line
<1>3. r.session \in Session /\ r.session <= sessions /\ (link = "up" => r.session # session)
  BY DEF TypeInv, LogsTypeOK, OrphansInv
<1>4. TypeInv'
  <2>1. LogsTypeOK'
    BY <1>1, <1>3 DEF TypeInv, LogsTypeOK
  <2> QED BY <1>1, <1>2, <1>3, <2>1 DEF TypeInv
<1>5. \A i \in DOMAIN Line : Matches(session)' => Matches(session)
  BY <1>1, <1>3, StateFacts DEF Matches
<1>6. LineInv' /\ Sorted'
  BY <1>1, <1>2, <1>5 DEF LineInv, Sorted
<1>7. MayRestore' = MayRestore /\ \A i \in DOMAIN Line : LineMayStore(i)' => LineMayStore(i)
  BY <1>1, <1>2, <1>5 DEF MayRestore, InLine, Serve, LineMayStore
<1>8. StoreInv'
  BY <1>1, <1>2, <1>7 DEF StoreInv
<1>9. OrphansInv'
  <2>1. ASSUME NEW o \in orphans', OrphanMayStore(o)' PROVE OrphanMayStore(o)
    BY <1>1, <2>1 DEF SessionsApart, OrphanMayStore, Matches
  <2>2. ASSUME NEW mine, OnlyCopy(mine) PROVE OnlyCopy(mine)'
    BY <1>1, <1>2, <1>7, <2>2 DEF OnlyCopy
  <2> QED BY <1>1, <2>1, <2>2 DEF OrphansInv
<1>10. ClearInv'
  BY <1>1, <1>2 DEF ClearInv, InLine, ClearIsComplete, Later
<1> QED BY <1>4, <1>6, <1>8, <1>9, <1>10

LEMMA OrphanAckStep ==
  ASSUME LogsInv, AckBehind, NEW r \in orphans, OrphanAck(r) PROVE LogsInv'
<1> USE DEF LogsInv
<1>1. /\ UNCHANGED <<captured, pending, batch, inFlight, registered, link, session, sessions, out,
                     queue>>
      /\ UNCHANGED <<gone, known, attached, store, dropping, command, cut, adrift>>
      /\ orphans' = orphans \ {r} /\ clear' = IF clear = "waiting" THEN "acked" ELSE clear
      /\ r.post.kind = "ack"
  BY DEF OrphanAck, companion, client
<1>2. Line' = Line
  BY <1>1 DEF Line
<1>3. command = 0 /\ clear # "idle" /\ \A i \in DOMAIN Line : Later(Elements(Line[i].entries))
  BY <1>1 DEF AckBehind
<1>4. TypeInv'
  <2>1. LogsTypeOK'
    BY <1>1 DEF TypeInv, LogsTypeOK
  <2> QED BY <1>1, <1>2, <2>1 DEF TypeInv
<1>5. LineInv' /\ Sorted'
  BY <1>1, <1>2 DEF LineInv, Sorted, Matches
<1>6. MayRestore' = MayRestore /\ \A i \in DOMAIN Line : LineMayStore(i)' = LineMayStore(i)
  BY <1>1, <1>2 DEF MayRestore, InLine, Serve, LineMayStore, Matches
<1>7. StoreInv'
  BY <1>1, <1>2, <1>6 DEF StoreInv
<1>8. OrphansInv'
  BY <1>1, <1>2, <1>6 DEF OrphansInv, OnlyCopy, OrphanMayStore, Matches
<1>9. ClearInv'
  BY <1>1, <1>2, <1>3 DEF ClearInv, InLine, ClearIsComplete, Later
<1> QED BY <1>4, <1>5, <1>7, <1>8, <1>9

LEMMA CaptureStep ==
  ASSUME LogsInv, Capture PROVE LogsInv'
<1> USE DEF LogsInv
<1>1. UNCHANGED <<batch, inFlight, registered, link, session, sessions, queue, out, gone, known,
                  attached, store, dropping, orphans, clear, command, cut, adrift>> /\ TRUE
  BY DEF Capture, companion, client, server, caller
<1>2. Log(pending, 1)
  BY DEF Capture
<1>3. /\ captured' \in 0..MaxEntries /\ captured <= captured' /\ pending' \in Batches
      /\ Increasing(pending') /\ Elements(pending') \in SUBSET (1..captured')
      /\ \A S \in SUBSET (1..captured) :
           /\ S \subseteq 1..captured'
           /\ Before(S, Elements(pending), adrift) => Before(S, Elements(pending'), adrift)
           /\ Below(S, Elements(pending)) => Below(S, Elements(pending'))
           /\ Apart(S, Elements(pending)) => Apart(S, Elements(pending'))
      /\ Later(Elements(pending)) => Later(Elements(pending'))
  BY <1>2, LogPending, LoggedIsNew
<1>4. Line' = Line
  BY <1>1 DEF Line
<1>5. /\ Elements(batch) \in SUBSET (1..captured) /\ Elements(store) \in SUBSET (1..captured)
      /\ adrift \in SUBSET (1..captured) /\ cut <= captured /\ captured \in Nat /\ cut \in Nat /\ captured' \in Nat
      /\ \A i \in DOMAIN Line : Elements(Line[i].entries) \in SUBSET (1..captured)
      /\ attached \in Nat /\ sessions \in Nat /\ session \in Nat /\ attached <= sessions /\ command <= sessions /\ command \in Nat
  BY <1>3 DEF TypeInv, LogsTypeOK, Session
<1>6. TypeInv'
  <2>1. LogsTypeOK'
    BY <1>1, <1>3, <1>5 DEF TypeInv, LogsTypeOK, Session
  <2>2. cut' <= captured'
    BY <1>1, <1>3, <1>5
  <2>3. (attached <= sessions /\ command <= sessions /\ session \in {0, sessions})'
    BY <1>1, <1>5 DEF TypeInv
  <2> QED BY <1>1, <1>3, <1>4, <1>5, <2>1, <2>2, <2>3 DEF TypeInv
<1>7. LineInv'
  BY <1>1, <1>4 DEF LineInv, Matches
<1>8. Sorted'
  BY <1>1, <1>3, <1>4, <1>5 DEF Sorted
<1>9. StoreInv'
  BY <1>1, <1>3, <1>4, <1>5 DEF StoreInv, MayRestore, InLine, Serve, LineMayStore, Matches
<1>10. OrphansInv'
  <2>1. ASSUME NEW mine \in SUBSET adrift, OnlyCopy(mine) PROVE OnlyCopy(mine)'
    BY <1>1, <1>3, <1>4, <1>5, <2>1 DEF OnlyCopy, LineMayStore, MayRestore, InLine, Serve, Matches
  <2> QED BY <1>1, <1>5, <2>1 DEF OrphansInv, OrphanMayStore, Matches
<1>11. ClearInv'
  BY <1>1, <1>3, <1>4, <1>5 DEF ClearInv, Later, InLine, ClearIsComplete
<1> QED BY <1>6, <1>7, <1>8, <1>9, <1>10, <1>11

LEMMA BootstrapStep ==
  ASSUME LogsInv, Bootstrap PROVE LogsInv'
<1> USE DEF LogsInv
<1>1. Line' = Line
  BY DEF Bootstrap, Line, companion, client, server, caller
<1>2. TypeInv'
  <2>1. LogsTypeOK'
    BY <1>1, NoneEmpty DEF TypeInv, LogsTypeOK, Session, Bootstrap, companion, client, server,
         caller
  <2> QED BY <1>1, <2>1, NoneEmpty DEF TypeInv, LogsTypeOK, Session, Bootstrap, companion,
               client, server, caller
<1>3. LineInv'
  BY <1>1, NoneEmpty DEF TypeInv, LogsTypeOK, Session, LineInv, Matches, Bootstrap, companion,
       client, server, caller
<1>4. Sorted'
  BY <1>1, NoneEmpty DEF TypeInv, Sorted, Below, Bootstrap, companion, client, server, caller
<1>5. StoreInv'
  BY <1>1, NoneEmpty DEF TypeInv, LogsTypeOK, LineInv, StoreInv, LineMayStore, MayRestore, InLine,
       Serve, Matches, Session, Orderly, Before, Below, Bootstrap, companion, client, server,
       caller
<1>6. OrphansInv'
  BY <1>1, NoneEmpty DEF TypeInv, LogsTypeOK, LineInv, OrphansInv, OnlyCopy, OrphanMayStore,
       LineMayStore, MayRestore, InLine, Apart, Serve, Matches, Session, Bootstrap, companion,
       client, server, caller
<1>7. ClearInv'
  BY <1>1, NoneEmpty DEF TypeInv, LogsTypeOK, LineInv, ClearInv, ClearIsComplete, Later, InLine,
       Serve, Session, Bootstrap, companion, client, server, caller
<1> QED BY <1>2, <1>3, <1>4, <1>5, <1>6, <1>7

LEMMA ConnectFailsStep ==
  ASSUME LogsInv, ConnectFails PROVE LogsInv'
<1> USE DEF LogsInv
<1>1. UNCHANGED <<batch, inFlight, registered, session, sessions, queue, out, gone, known, attached,
                  store, dropping, orphans, clear, command, cut, adrift>> /\ link = "connecting" /\
                  link' = "down"
  BY DEF ConnectFails, companion, client, server, caller
<1>2. Log(pending, 1)
  BY DEF ConnectFails
<1>3. /\ captured' \in 0..MaxEntries /\ captured <= captured' /\ pending' \in Batches
      /\ Increasing(pending') /\ Elements(pending') \in SUBSET (1..captured')
      /\ \A S \in SUBSET (1..captured) :
           /\ S \subseteq 1..captured'
           /\ Before(S, Elements(pending), adrift) => Before(S, Elements(pending'), adrift)
           /\ Below(S, Elements(pending)) => Below(S, Elements(pending'))
           /\ Apart(S, Elements(pending)) => Apart(S, Elements(pending'))
      /\ Later(Elements(pending)) => Later(Elements(pending'))
  BY <1>2, LogPending, LoggedIsNew
<1>4. Line' = Line
  BY <1>1 DEF Line
<1>5. /\ Elements(batch) \in SUBSET (1..captured) /\ Elements(store) \in SUBSET (1..captured)
      /\ adrift \in SUBSET (1..captured) /\ cut <= captured /\ captured \in Nat /\ cut \in Nat /\ captured' \in Nat
      /\ \A i \in DOMAIN Line : Elements(Line[i].entries) \in SUBSET (1..captured)
      /\ attached \in Nat /\ sessions \in Nat /\ session \in Nat /\ attached <= sessions /\ command <= sessions /\ command \in Nat
  BY <1>3 DEF TypeInv, LogsTypeOK, Session
<1>6. TypeInv'
  <2>1. LogsTypeOK'
    BY <1>1, <1>3, <1>5 DEF TypeInv, LogsTypeOK, Session
  <2>2. cut' <= captured'
    BY <1>1, <1>3, <1>5
  <2>3. (attached <= sessions /\ command <= sessions /\ session \in {0, sessions})'
    BY <1>1, <1>5 DEF TypeInv
  <2> QED BY <1>1, <1>3, <1>4, <1>5, <2>1, <2>2, <2>3 DEF TypeInv
<1>7. LineInv'
  BY <1>1, <1>4 DEF LineInv, Matches
<1>8. Sorted'
  BY <1>1, <1>3, <1>4, <1>5 DEF Sorted
<1>9. StoreInv'
  BY <1>1, <1>3, <1>4, <1>5 DEF StoreInv, MayRestore, InLine, Serve, LineMayStore, Matches
<1>10. OrphansInv'
  <2>1. ASSUME NEW mine \in SUBSET adrift, OnlyCopy(mine) PROVE OnlyCopy(mine)'
    BY <1>1, <1>3, <1>4, <1>5, <2>1 DEF OnlyCopy, LineMayStore, MayRestore, InLine, Serve, Matches
  <2> QED BY <1>1, <1>5, <2>1 DEF OrphansInv, OrphanMayStore, Matches
<1>11. ClearInv'
  BY <1>1, <1>3, <1>4, <1>5 DEF ClearInv, Later, InLine, ClearIsComplete
<1> QED BY <1>6, <1>7, <1>8, <1>9, <1>10, <1>11

LEMMA ConnectedStep ==
  ASSUME LogsInv, Connected PROVE LogsInv'
<1> USE DEF LogsInv
<1>1. UNCHANGED <<batch, inFlight, registered, queue, out, known, attached, store, dropping,
                  orphans, clear, command, cut, adrift>> /\ link = "connecting" /\ link' = "up" /\
                  sessions < MaxSessions /\ sessions' = sessions + 1 /\ session' = sessions + 1 /\
                  gone' = FALSE
  BY DEF Connected, companion, client, server, caller
<1>2. Log(pending, 1)
  BY DEF Connected
<1>3. /\ captured' \in 0..MaxEntries /\ captured <= captured' /\ pending' \in Batches
      /\ Increasing(pending') /\ Elements(pending') \in SUBSET (1..captured')
      /\ \A S \in SUBSET (1..captured) :
           /\ S \subseteq 1..captured'
           /\ Before(S, Elements(pending), adrift) => Before(S, Elements(pending'), adrift)
           /\ Below(S, Elements(pending)) => Below(S, Elements(pending'))
           /\ Apart(S, Elements(pending)) => Apart(S, Elements(pending'))
      /\ Later(Elements(pending)) => Later(Elements(pending'))
  BY <1>2, LogPending, LoggedIsNew
<1>4. Line' = Line
  BY <1>1 DEF Line
<1>5. /\ Elements(batch) \in SUBSET (1..captured) /\ Elements(store) \in SUBSET (1..captured)
      /\ adrift \in SUBSET (1..captured) /\ cut <= captured /\ captured \in Nat /\ cut \in Nat /\ captured' \in Nat
      /\ \A i \in DOMAIN Line : Elements(Line[i].entries) \in SUBSET (1..captured)
      /\ attached \in Nat /\ sessions \in Nat /\ session \in Nat /\ attached <= sessions /\ command <= sessions /\ command \in Nat
  BY <1>3 DEF TypeInv, LogsTypeOK, Session
<1>6. DOMAIN Line = {}
  BY <1>1, StateFacts
<1>9. gone' = FALSE /\ sessions' = sessions + 1 /\ session' = sessions + 1 /\ sessions \in Nat /\ sessions < MaxSessions
  BY <1>1, <1>5
<1>7. /\ sessions' \in Session /\ session' \in Session /\ gone' \in BOOLEAN /\ session' # 0
      /\ session' = sessions' /\ sessions <= sessions'
      /\ \A r \in orphans : r.session \in Session /\ r.session <= sessions =>
           r.session <= sessions' /\ r.session # session'
  <2>1. gone' \in BOOLEAN
    BY <1>9
  <2> QED BY <1>9, <2>1 DEF Session
<1>8. \A r \in orphans : r.session \in Session
  BY DEF TypeInv, LogsTypeOK
<1>10. TypeInv'
  <2>1. LogsTypeOK'
    BY <1>1, <1>3, <1>5, <1>7 DEF TypeInv, LogsTypeOK
  <2>2. cut' <= captured'
    BY <1>1, <1>3, <1>5
  <2>3. (attached <= sessions /\ command <= sessions /\ session \in {0, sessions})'
    BY <1>1, <1>5 DEF TypeInv
  <2> QED BY <1>1, <1>3, <1>4, <1>5, <2>1, <2>2, <2>3 DEF TypeInv
<1>11. LineInv'
  BY <1>1, <1>4, <1>6 DEF LineInv, Matches
<1>12. Sorted'
  BY <1>1, <1>3, <1>4, <1>5 DEF Sorted
<1>13. StoreInv'
  BY <1>1, <1>3, <1>4, <1>5, <1>6 DEF StoreInv, MayRestore, InLine
<1>14. OrphansInv'
  <2>1. ASSUME NEW mine \in SUBSET adrift, OnlyCopy(mine) PROVE OnlyCopy(mine)'
    BY <1>1, <1>3, <1>4, <1>5, <1>6, <2>1 DEF OnlyCopy, MayRestore, InLine
  <2> QED BY <1>1, <1>5, <1>7, <1>8, <2>1 DEF OrphansInv, OrphanMayStore, Matches
<1>15. ClearInv'
  BY <1>1, <1>3, <1>4, <1>5 DEF ClearInv, Later, InLine, ClearIsComplete
<1> QED BY <1>10, <1>11, <1>12, <1>13, <1>14, <1>15

LEMMA ServeRegisterStep ==
  ASSUME LogsInv, ServeRegister PROVE LogsInv'
<1> USE DEF LogsInv
<1>1. out.kind = "register" /\ out.stage = "sent" /\ out # None /\ UNCHANGED <<captured, pending,
                                                                               batch, inFlight,
                                                                               registered, link,
                                                                               session, sessions,
                                                                               queue, gone, known,
                                                                               store, dropping,
                                                                               orphans, clear,
                                                                               command, cut,
                                                                               adrift>>
  BY DEF ServeRegister, Serve, None, companion, client, server, caller
<1>2. PICK answer \in {"ok", "refused"} : Answer(answer) /\ (IF known THEN attached' = session ELSE attached' = attached)
  BY DEF ServeRegister, Answer
<1>3. /\ out' \in Messages /\ out' # None /\ queue' \in Seq(Messages)
      /\ out'.kind = out.kind /\ out'.entries = out.entries /\ out'.stage = answer
      /\ LineAnswered(answer) /\ Line[1] = out
  BY <1>1, <1>2, AnswerEffect, StateFacts
<1>4. /\ session # 0 /\ Line[1].kind = "register" /\ Line[1].stage = "sent" /\ Line'[1].stage = answer
      /\ DOMAIN Line' = DOMAIN Line /\ 1 \in DOMAIN Line
      /\ \A i \in DOMAIN Line : Line'[i].kind = Line[i].kind
      /\ \A i \in DOMAIN Line : Line'[i].entries = Line[i].entries
      /\ \A i \in DOMAIN Line : i # 1 => Line'[i].stage = Line[i].stage
  BY <1>1, <1>3, StateFacts DEF LineAnswered
<1>5. \A i \in DOMAIN Line : Elements(Line[i].entries) = {}
  BY <1>4, NoneEmpty DEF LineInv
<1>6. TypeInv'
  <2>1. LogsTypeOK'
    BY <1>1, <1>2, <1>3 DEF TypeInv, LogsTypeOK
  <2> QED BY <1>1, <1>2, <1>4, <2>1 DEF TypeInv
<1>7. LineInv'
  BY <1>1, <1>2, <1>3, <1>4 DEF LineInv, Matches
<1>8. Sorted'
  BY <1>1, <1>4 DEF Sorted
<1>9. StoreInv'
  BY <1>1, <1>4, <1>5 DEF StoreInv, MayRestore, InLine, Serve, Before, Below
<1>10. OrphansInv'
  <2>1. ASSUME NEW r \in orphans, OrphanMayStore(r)' PROVE OrphanMayStore(r)
    BY <1>1, <1>2, <1>4, <2>1 DEF OrphansInv, LineInv, OrphanMayStore, Matches
  <2>2. MayRestore' => MayRestore
    BY <1>1, <1>3, <1>4 DEF MayRestore, InLine, Serve
  <2>3. ASSUME NEW mine, OnlyCopy(mine) PROVE OnlyCopy(mine)'
    BY <1>1, <1>4, <1>5, <2>2, <2>3 DEF OnlyCopy, Apart
  <2> QED BY <1>1, <2>1, <2>3 DEF OrphansInv
<1>11. ClearInv'
  BY <1>1, <1>2, <1>4 DEF ClearInv, InLine, ClearIsComplete, Later
<1> QED BY <1>6, <1>7, <1>8, <1>9, <1>10, <1>11

LEMMA PushCheckStep ==
  ASSUME LogsInv, PushCheck PROVE LogsInv'
<1> USE DEF LogsInv
<1>1. out.kind = "push" /\ out.stage = "sent" /\ out # None /\ UNCHANGED <<captured, pending, batch,
                                                                           inFlight, registered,
                                                                           link, session, sessions,
                                                                           queue, gone, known,
                                                                           attached, store,
                                                                           dropping, orphans, clear,
                                                                           command, cut, adrift>>
  BY DEF PushCheck, Serve, None, companion, client, server, caller
<1>2. PICK answer \in {"checked", "refused"} : Answer(answer) /\ answer = (IF Matches(session) THEN "checked" ELSE "refused")
  BY DEF PushCheck, Answer
<1>3. /\ out' \in Messages /\ out' # None /\ queue' \in Seq(Messages)
      /\ out'.kind = out.kind /\ out'.entries = out.entries /\ out'.stage = answer
      /\ LineAnswered(answer) /\ Line[1] = out
  BY <1>1, <1>2, AnswerEffect, StateFacts
<1>4. /\ session # 0 /\ Line[1].kind = "push" /\ Line[1].stage = "sent" /\ Line'[1].stage = answer
      /\ DOMAIN Line' = DOMAIN Line /\ 1 \in DOMAIN Line
      /\ \A i \in DOMAIN Line : Line'[i].kind = Line[i].kind
      /\ \A i \in DOMAIN Line : Line'[i].entries = Line[i].entries
      /\ \A i \in DOMAIN Line : i # 1 => Line'[i].stage = Line[i].stage
  BY <1>1, <1>3, StateFacts DEF LineAnswered
<1>5. TypeInv'
  <2>1. LogsTypeOK'
    BY <1>1, <1>2, <1>3 DEF TypeInv, LogsTypeOK
  <2> QED BY <1>1, <1>2, <1>4, <2>1 DEF TypeInv
<1>6. LineInv'
  BY <1>1, <1>2, <1>3, <1>4 DEF LineInv, Matches
<1>7. Sorted'
  BY <1>1, <1>4 DEF Sorted
<1>8. StoreInv'
  BY <1>1, <1>2, <1>3, <1>4 DEF StoreInv, LineMayStore, MayRestore, InLine, Serve, Matches
<1>9. OrphansInv'
  BY <1>1, <1>2, <1>3, <1>4 DEF OrphansInv, OnlyCopy, OrphanMayStore, LineMayStore, MayRestore,
       InLine, Serve, Matches
<1>10. ClearInv'
  BY <1>1, <1>2, <1>4 DEF ClearInv, InLine, ClearIsComplete, Later
<1> QED BY <1>5, <1>6, <1>7, <1>8, <1>9, <1>10

LEMMA PushStoreStep ==
  ASSUME LogsInv, PushStore PROVE LogsInv'
<1> USE DEF LogsInv
<1>1. out.kind = "push" /\ out.stage = "checked" /\ out # None /\ UNCHANGED <<captured, pending,
                                                                              batch, inFlight,
                                                                              registered, link,
                                                                              session, sessions,
                                                                              queue, gone, known,
                                                                              attached, dropping,
                                                                              orphans, clear,
                                                                              command, cut, adrift>>
  BY DEF PushStore, Serve, None, companion, client, server, caller
<1>2. PICK answer \in {"ok"} : Answer(answer) /\ store' = Appended(out.entries)
  BY DEF PushStore, Answer
<1>3. /\ out' \in Messages /\ out' # None /\ queue' \in Seq(Messages)
      /\ out'.kind = out.kind /\ out'.entries = out.entries /\ out'.stage = answer
      /\ LineAnswered(answer) /\ Line[1] = out
  BY <1>1, <1>2, AnswerEffect, StateFacts
<1>4. /\ session # 0 /\ Line[1].kind = "push" /\ Line[1].stage = "checked" /\ Line'[1].stage = answer
      /\ DOMAIN Line' = DOMAIN Line /\ 1 \in DOMAIN Line
      /\ \A i \in DOMAIN Line : Line'[i].kind = Line[i].kind
      /\ \A i \in DOMAIN Line : Line'[i].entries = Line[i].entries
      /\ \A i \in DOMAIN Line : i # 1 => Line'[i].stage = Line[i].stage
  BY <1>1, <1>3, StateFacts DEF LineAnswered
<1>5. out.entries \in Seq(Entries) /\ LineMayStore(1) /\ out.entries = Line[1].entries
  BY <1>1, <1>3, <1>4, StateFacts DEF LineMayStore
<1>6. /\ store \in Seq(Entries) /\ Orderly(store, adrift) /\ Increasing(Line[1].entries)
      /\ Before(Elements(store), Elements(Line[1].entries), adrift)
      /\ Below(Elements(Line[1].entries), Elements(pending))
      /\ \A j \in DOMAIN Line : 1 # j /\ LineMayStore(j) => Below(Elements(Line[1].entries), Elements(Line[j].entries))
  <2>1. \A j \in DOMAIN Line : 1 # j => 1 < j
    BY StateFacts
  <2> QED BY <1>4, <1>5, <2>1 DEF TypeInv, StoreInv, Sorted
<1>7. /\ store' \in Seq(Entries) /\ Len(store') <= StoreCap /\ Orderly(store', adrift)
      /\ Elements(store') \subseteq Elements(store) \cup Elements(Line[1].entries)
  BY <1>2, <1>5, <1>6, AppendedEffect
<1>8. Elements(store') \subseteq Entries
  BY <1>7, EntriesAreNaturals
<1>9. TypeInv'
  <2>1. LogsTypeOK'
    BY <1>1, <1>2, <1>3, <1>7, <1>8 DEF TypeInv, LogsTypeOK
  <2> QED BY <1>1, <1>2, <1>4, <1>7, <2>1 DEF TypeInv
<1>10. LineInv'
  BY <1>1, <1>2, <1>3, <1>4 DEF LineInv, Matches
<1>11. Sorted'
  BY <1>1, <1>4 DEF Sorted
<1>12. StoreInv'
  <2>1. ~MayRestore' /\ ~LineMayStore(1)' /\ \A i \in DOMAIN Line : LineMayStore(i)' => i # 1 /\ LineMayStore(i)
    BY <1>1, <1>2, <1>3, <1>4 DEF MayRestore, LineMayStore, Serve, Matches
  <2>2. ASSUME NEW T \in SUBSET Int, Before(Elements(store), T, adrift), Below(Elements(Line[1].entries), T)
        PROVE  Before(Elements(store'), T, adrift)
    <3>1. Elements(Line[1].entries) \in SUBSET Int
      BY <1>4 DEF TypeInv
    <3>2. Before(Elements(Line[1].entries), T, adrift)
      BY <2>2, <3>1, BelowIsBefore
    <3> QED BY <1>7, <2>2, <3>2 DEF Before
  <2>3. /\ Elements(pending) \in SUBSET Int
        /\ \A i \in DOMAIN Line : Elements(Line[i].entries) \in SUBSET Int
    BY DEF TypeInv
  <2>4. Before(Elements(store'), Elements(pending), adrift)
    BY <1>6, <2>2, <2>3 DEF StoreInv
  <2>5. ASSUME NEW i \in DOMAIN Line, LineMayStore(i)'
        PROVE  /\ Before(Elements(store'), Elements(Line[i].entries), adrift)
               /\ Below(Elements(Line[i].entries), Elements(pending))
    BY <1>6, <2>1, <2>2, <2>3, <2>5 DEF StoreInv
  <2>6. \A i, j \in DOMAIN Line : i < j /\ LineMayStore(i)' /\ LineMayStore(j)' =>
             Below(Elements(Line[i].entries), Elements(Line[j].entries))
    BY <2>1 DEF StoreInv
  <2> QED BY <1>1, <1>4, <1>7, <2>1, <2>4, <2>5, <2>6 DEF StoreInv
<1>13. OrphansInv'
  <2>1. ~MayRestore' /\ \A i \in DOMAIN Line : LineMayStore(i)' => LineMayStore(i)
    BY <1>1, <1>2, <1>3, <1>4 DEF MayRestore, LineMayStore, Serve, Matches
  <2>2. ASSUME NEW mine, OnlyCopy(mine) PROVE OnlyCopy(mine)'
    BY <1>1, <1>4, <1>5, <1>7, <2>1, <2>2 DEF OnlyCopy, Apart
  <2> QED BY <1>1, <2>2 DEF OrphansInv, OrphanMayStore, Matches
<1>14. ClearInv'
  BY <1>1, <1>2, <1>4, <1>7 DEF ClearInv, InLine, ClearIsComplete, Later
<1> QED BY <1>9, <1>10, <1>11, <1>12, <1>13, <1>14

LEMMA ServeAckStep ==
  ASSUME LogsInv, ServeAck PROVE LogsInv'
<1> USE DEF LogsInv
<1>1. out.kind = "ack" /\ out.stage = "sent" /\ out # None /\ UNCHANGED <<captured, pending, batch,
                                                                          inFlight, registered,
                                                                          link, session, sessions,
                                                                          queue, gone, known,
                                                                          attached, store, dropping,
                                                                          orphans, command, cut,
                                                                          adrift>>
  BY DEF ServeAck, Serve, None, companion, client, server, caller
<1>2. PICK answer \in {"ok", "refused"} : Answer(answer) /\ (IF clear = "waiting" THEN clear' = "acked" ELSE clear' = clear)
  BY DEF ServeAck, Answer
<1>3. /\ out' \in Messages /\ out' # None /\ queue' \in Seq(Messages)
      /\ out'.kind = out.kind /\ out'.entries = out.entries /\ out'.stage = answer
      /\ LineAnswered(answer) /\ Line[1] = out
  BY <1>1, <1>2, AnswerEffect, StateFacts
<1>4. /\ session # 0 /\ Line[1].kind = "ack" /\ Line[1].stage = "sent" /\ Line'[1].stage = answer
      /\ DOMAIN Line' = DOMAIN Line /\ 1 \in DOMAIN Line
      /\ \A i \in DOMAIN Line : Line'[i].kind = Line[i].kind
      /\ \A i \in DOMAIN Line : Line'[i].entries = Line[i].entries
      /\ \A i \in DOMAIN Line : i # 1 => Line'[i].stage = Line[i].stage
  BY <1>1, <1>3, StateFacts DEF LineAnswered
<1>5. /\ \A i \in DOMAIN Line : i # 1 => 1 < i
      /\ Line[1].entries = <<>>
  BY <1>4, StateFacts DEF LineInv
<1>6. \A i \in DOMAIN Line : Later(Elements(Line[i].entries))
  BY <1>4, <1>5, NoneEmpty DEF ClearInv, Later
<1>7. TypeInv'
  <2>1. LogsTypeOK'
    BY <1>1, <1>2, <1>3 DEF TypeInv, LogsTypeOK
  <2> QED BY <1>1, <1>2, <1>4, <2>1 DEF TypeInv
<1>8. LineInv'
  BY <1>1, <1>2, <1>3, <1>4 DEF LineInv, Matches
<1>9. Sorted'
  BY <1>1, <1>4 DEF Sorted
<1>10. StoreInv'
  BY <1>1, <1>2, <1>3, <1>4 DEF StoreInv, LineMayStore, MayRestore, InLine, Serve, Matches
<1>11. OrphansInv'
  BY <1>1, <1>2, <1>3, <1>4 DEF OrphansInv, OnlyCopy, OrphanMayStore, LineMayStore, MayRestore,
       InLine, Serve, Matches
<1>12. ClearInv'
  BY <1>1, <1>2, <1>4, <1>6 DEF ClearInv, InLine, ClearIsComplete, Later
<1> QED BY <1>7, <1>8, <1>9, <1>10, <1>11, <1>12

LEMMA DropSessionStep ==
  ASSUME LogsInv, DropSession PROVE LogsInv'
<1> USE DEF LogsInv
<1>1. Line' = Line
  BY DEF DropSession, Line, companion, client, server, caller
<1>2. TypeInv'
  <2>1. LogsTypeOK'
    BY <1>1, NoneEmpty DEF TypeInv, LogsTypeOK, Session, DropSession, companion, client, server,
         caller
  <2> QED BY <1>1, <2>1, NoneEmpty DEF TypeInv, LogsTypeOK, Session, DropSession,
               companion, client, server, caller
<1>3. LineInv'
  BY <1>1, NoneEmpty DEF TypeInv, LogsTypeOK, Session, LineInv, Matches, DropSession, companion,
       client, server, caller
<1>4. Sorted'
  BY <1>1, NoneEmpty DEF TypeInv, Sorted, Below, DropSession, companion, client, server, caller
<1>5. StoreInv'
  BY <1>1, NoneEmpty DEF TypeInv, LogsTypeOK, LineInv, StoreInv, LineMayStore, MayRestore, InLine,
       Serve, Matches, Session, Orderly, Before, Below, DropSession, companion, client, server,
       caller
<1>6. OrphansInv'
  BY <1>1, NoneEmpty DEF TypeInv, LogsTypeOK, LineInv, OrphansInv, OnlyCopy, OrphanMayStore,
       LineMayStore, MayRestore, InLine, Apart, Serve, Matches, Session, DropSession, companion,
       client, server, caller
<1>7. ClearInv'
  BY <1>1, NoneEmpty DEF TypeInv, LogsTypeOK, LineInv, ClearInv, ClearIsComplete, Later, InLine,
       Serve, Session, DropSession, companion, client, server, caller
<1> QED BY <1>2, <1>3, <1>4, <1>5, <1>6, <1>7

LEMMA StopGameStep ==
  ASSUME LogsInv, StopGame PROVE LogsInv'
<1> USE DEF LogsInv
<1>1. Line' = Line
  BY DEF StopGame, Line, companion, client, server, caller
<1>2. \A i \in DOMAIN Line : link = "up" /\ session # 0
  BY StateFacts
<1>3. TypeInv'
  <2>1. LogsTypeOK'
    BY <1>1, <1>2, NoneEmpty DEF TypeInv, LogsTypeOK, Session, StopGame, companion, client,
         server, caller
  <2> QED BY <1>1, <1>2, <2>1, NoneEmpty DEF TypeInv, LogsTypeOK, Session, StopGame,
               companion, client, server, caller
<1>4. LineInv'
  BY <1>1, <1>2, NoneEmpty DEF TypeInv, LogsTypeOK, Session, LineInv, Matches, StopGame,
       companion, client, server, caller
<1>5. Sorted'
  BY <1>1, <1>2, NoneEmpty DEF TypeInv, Sorted, Below, StopGame, companion, client, server, caller
<1>6. StoreInv'
  BY <1>1, <1>2, NoneEmpty DEF TypeInv, LogsTypeOK, LineInv, StoreInv, LineMayStore, MayRestore,
       InLine, Serve, Matches, Session, Orderly, Before, Below, StopGame, companion, client,
       server, caller
<1>7. OrphansInv'
  BY <1>1, <1>2, NoneEmpty DEF TypeInv, LogsTypeOK, LineInv, OrphansInv, OnlyCopy, OrphanMayStore,
       LineMayStore, MayRestore, InLine, Apart, Serve, Matches, Session, StopGame, companion,
       client, server, caller
<1>8. ClearInv'
  BY <1>1, <1>2, NoneEmpty DEF TypeInv, LogsTypeOK, LineInv, ClearInv, ClearIsComplete, Later,
       InLine, Serve, Session, StopGame, companion, client, server, caller
<1> QED BY <1>3, <1>4, <1>5, <1>6, <1>7, <1>8

LEMMA RemoveGameStep ==
  ASSUME LogsInv, RemoveGame PROVE LogsInv'
<1> USE DEF LogsInv
<1>1. Line' = Line
  BY DEF RemoveGame, Line, companion, client, server, caller
<1>2. \A i \in DOMAIN Line : link = "up" /\ session # 0
  BY StateFacts
<1>3. known' = FALSE /\ attached' = 0 /\ 0 \in Session
  BY DEF RemoveGame, Session
<1>4. known' \in BOOLEAN
  BY <1>3
<1>5. TypeInv'
  <2>1. LogsTypeOK'
    BY <1>1, <1>3, <1>4 DEF TypeInv, LogsTypeOK, RemoveGame, companion, client, caller
  <2> QED BY <1>1, <2>1 DEF TypeInv, RemoveGame, companion, client, caller, LogsTypeOK, Session
<1>6. LineInv'
  BY <1>1, <1>2, <1>3, <1>4, NoneEmpty DEF TypeInv, LogsTypeOK, Session, LineInv, Matches,
       RemoveGame, companion, client, server, caller
<1>7. Sorted'
  BY <1>1, <1>2, <1>3, <1>4, NoneEmpty DEF TypeInv, Sorted, Below, RemoveGame, companion, client,
       server, caller
<1>8. StoreInv'
  BY <1>1, <1>2, <1>3, <1>4, NoneEmpty DEF TypeInv, LogsTypeOK, LineInv, StoreInv, LineMayStore,
       MayRestore, InLine, Serve, Matches, Session, Orderly, Before, Below, RemoveGame, companion,
       client, server, caller
<1>9. OrphansInv'
  BY <1>1, <1>2, <1>3, <1>4, NoneEmpty DEF TypeInv, LogsTypeOK, LineInv, OrphansInv, OnlyCopy,
       OrphanMayStore, LineMayStore, MayRestore, InLine, Apart, Serve, Matches, Session,
       RemoveGame, companion, client, server, caller
<1>10. ClearInv'
  BY <1>1, <1>2, <1>3, <1>4, NoneEmpty DEF TypeInv, LogsTypeOK, LineInv, ClearInv,
       ClearIsComplete, Later, InLine, Serve, Session, RemoveGame, companion, client, server,
       caller
<1> QED BY <1>5, <1>6, <1>7, <1>8, <1>9, <1>10

LEMMA DropLogsStep ==
  ASSUME LogsInv, DropLogs PROVE LogsInv'
<1> USE DEF LogsInv
<1>1. Line' = Line
  BY DEF DropLogs, Line, companion, client, server, caller
<1>2. <<>> \in Seq(Entries) /\ Len(<<>>) = 0
  BY EmptySeq
<1>3. Len(<<>>) <= StoreCap
  BY <1>2
<1>4. TypeInv'
  <2>1. LogsTypeOK'
    BY <1>1, <1>2, <1>3, NoneEmpty DEF TypeInv, LogsTypeOK, Session, DropLogs, companion,
         client, server, caller
  <2> QED BY <1>1, <1>2, <1>3, <2>1, NoneEmpty DEF TypeInv, LogsTypeOK, Session, DropLogs,
               companion, client, server, caller
<1>5. LineInv'
  BY <1>1, <1>2, <1>3, NoneEmpty DEF TypeInv, LogsTypeOK, Session, LineInv, Matches, DropLogs,
       companion, client, server, caller
<1>6. Sorted'
  BY <1>1, <1>2, <1>3, NoneEmpty DEF TypeInv, Sorted, Below, DropLogs, companion, client, server,
       caller
<1>7. StoreInv'
  BY <1>1, <1>2, <1>3, NoneEmpty DEF TypeInv, LogsTypeOK, LineInv, StoreInv, LineMayStore,
       MayRestore, InLine, Serve, Matches, Session, Orderly, Before, Below, DropLogs, companion,
       client, server, caller
<1>8. OrphansInv'
  BY <1>1, <1>2, <1>3, NoneEmpty DEF TypeInv, LogsTypeOK, LineInv, OrphansInv, OnlyCopy,
       OrphanMayStore, LineMayStore, MayRestore, InLine, Apart, Serve, Matches, Session, DropLogs,
       companion, client, server, caller
<1>9. ClearInv'
  BY <1>1, <1>2, <1>3, NoneEmpty DEF TypeInv, LogsTypeOK, LineInv, ClearInv, ClearIsComplete,
       Later, InLine, Serve, Session, DropLogs, companion, client, server, caller
<1> QED BY <1>4, <1>5, <1>6, <1>7, <1>8, <1>9

LEMMA ClearStartStep ==
  ASSUME LogsInv, ClearStart PROVE LogsInv'
<1> USE DEF LogsInv
<1>1. Line' = Line
  BY DEF ClearStart, Line, companion, client, server, caller
<1>2. TypeInv'
  <2>1. LogsTypeOK'
    BY <1>1, NoneEmpty DEF TypeInv, LogsTypeOK, Session, ClearStart, companion, client, server,
         caller
  <2> QED BY <1>1, <2>1, NoneEmpty DEF TypeInv, LogsTypeOK, Session, ClearStart,
               companion, client, server, caller
<1>3. LineInv'
  BY <1>1, NoneEmpty DEF TypeInv, LogsTypeOK, Session, LineInv, Matches, ClearStart, companion,
       client, server, caller
<1>4. Sorted'
  BY <1>1, NoneEmpty DEF TypeInv, Sorted, Below, ClearStart, companion, client, server, caller
<1>5. StoreInv'
  BY <1>1, NoneEmpty DEF TypeInv, LogsTypeOK, LineInv, StoreInv, LineMayStore, MayRestore, InLine,
       Serve, Matches, Session, Orderly, Before, Below, ClearStart, companion, client, server,
       caller
<1>6. OrphansInv'
  BY <1>1, NoneEmpty DEF TypeInv, LogsTypeOK, LineInv, OrphansInv, OnlyCopy, OrphanMayStore,
       LineMayStore, MayRestore, InLine, Apart, Serve, Matches, Session, ClearStart, companion,
       client, server, caller
<1>7. ClearInv'
  BY <1>1, NoneEmpty DEF TypeInv, LogsTypeOK, LineInv, ClearInv, ClearIsComplete, Later, InLine,
       Serve, Session, ClearStart, companion, client, server, caller
<1> QED BY <1>2, <1>3, <1>4, <1>5, <1>6, <1>7

LEMMA ClearTimeoutStep ==
  ASSUME LogsInv, ClearTimeout PROVE LogsInv'
<1> USE DEF LogsInv
<1>1. Line' = Line
  BY DEF ClearTimeout, Line, companion, client, server, caller
<1>2. TypeInv'
  <2>1. LogsTypeOK'
    BY <1>1, NoneEmpty DEF TypeInv, LogsTypeOK, Session, ClearTimeout, companion, client,
         server, caller
  <2> QED BY <1>1, <2>1, NoneEmpty DEF TypeInv, LogsTypeOK, Session, ClearTimeout,
               companion, client, server, caller
<1>3. LineInv'
  BY <1>1, NoneEmpty DEF TypeInv, LogsTypeOK, Session, LineInv, Matches, ClearTimeout, companion,
       client, server, caller
<1>4. Sorted'
  BY <1>1, NoneEmpty DEF TypeInv, Sorted, Below, ClearTimeout, companion, client, server, caller
<1>5. StoreInv'
  BY <1>1, NoneEmpty DEF TypeInv, LogsTypeOK, LineInv, StoreInv, LineMayStore, MayRestore, InLine,
       Serve, Matches, Session, Orderly, Before, Below, ClearTimeout, companion, client, server,
       caller
<1>6. OrphansInv'
  BY <1>1, NoneEmpty DEF TypeInv, LogsTypeOK, LineInv, OrphansInv, OnlyCopy, OrphanMayStore,
       LineMayStore, MayRestore, InLine, Apart, Serve, Matches, Session, ClearTimeout, companion,
       client, server, caller
<1>7. ClearInv'
  BY <1>1, NoneEmpty DEF TypeInv, LogsTypeOK, LineInv, ClearInv, ClearIsComplete, Later, InLine,
       Serve, Session, ClearTimeout, companion, client, server, caller
<1> QED BY <1>2, <1>3, <1>4, <1>5, <1>6, <1>7

LEMMA ClearStoreStep ==
  ASSUME LogsInv, ClearStore PROVE LogsInv'
<1> USE DEF LogsInv
<1>1. Line' = Line
  BY DEF ClearStore, Line, companion, client, server, caller
<1>2. <<>> \in Seq(Entries) /\ Len(<<>>) = 0
  BY EmptySeq
<1>3. Len(<<>>) <= StoreCap
  BY <1>2
<1>4. TypeInv'
  <2>1. LogsTypeOK'
    BY <1>1, <1>2, <1>3, NoneEmpty DEF TypeInv, LogsTypeOK, Session, ClearStore, companion,
         client, server, caller
  <2> QED BY <1>1, <1>2, <1>3, <2>1, NoneEmpty DEF TypeInv, LogsTypeOK, Session,
               ClearStore, companion, client, server, caller
<1>5. LineInv'
  BY <1>1, <1>2, <1>3, NoneEmpty DEF TypeInv, LogsTypeOK, Session, LineInv, Matches, ClearStore,
       companion, client, server, caller
<1>6. Sorted'
  BY <1>1, <1>2, <1>3, NoneEmpty DEF TypeInv, Sorted, Below, ClearStore, companion, client,
       server, caller
<1>7. StoreInv'
  BY <1>1, <1>2, <1>3, NoneEmpty DEF TypeInv, LogsTypeOK, LineInv, StoreInv, LineMayStore,
       MayRestore, InLine, Serve, Matches, Session, Orderly, Before, Below, ClearStore, companion,
       client, server, caller
<1>8. OrphansInv'
  BY <1>1, <1>2, <1>3, NoneEmpty DEF TypeInv, LogsTypeOK, LineInv, OrphansInv, OnlyCopy,
       OrphanMayStore, LineMayStore, MayRestore, InLine, Apart, Serve, Matches, Session,
       ClearStore, companion, client, server, caller
<1>9. ClearInv'
  BY <1>1, <1>2, <1>3, NoneEmpty DEF TypeInv, LogsTypeOK, LineInv, ClearInv, ClearIsComplete,
       Later, InLine, Serve, Session, ClearStore, companion, client, server, caller
<1> QED BY <1>4, <1>5, <1>6, <1>7, <1>8, <1>9

-----------------------------------------------------------------------------
(* The theorems                                                            *)

LEMMA LogsInvInit == LogsInit => LogsInv
<1> SUFFICES ASSUME LogsInit PROVE LogsInv
  OBVIOUS
<1>1. out = None /\ queue = <<>> /\ pending = <<>> /\ batch = <<>> /\ store = <<>>
  BY DEF LogsInit
<1>2. /\ <<>> \in Seq(Entries) /\ <<>> \in Seq(Messages) /\ Len(<<>>) <= StoreCap
      /\ DOMAIN Line = {}
  <2>1. Len(<<>>) = 0 /\ DOMAIN <<>> = {}
    OBVIOUS
  <2> QED BY <1>1, <2>1, EmptySeq DEF Line
<1>3. TypeInv
  <2>1. /\ inFlight \in BOOLEAN /\ registered \in BOOLEAN /\ gone \in BOOLEAN /\ known \in BOOLEAN
        /\ dropping \in BOOLEAN /\ captured = 0 /\ cut = 0 /\ link = "down" /\ clear = "idle"
        /\ session = 0 /\ sessions = 0 /\ attached = 0 /\ command = 0 /\ orphans = {} /\ adrift = {}
    BY DEF LogsInit
  <2>2. LogsTypeOK
    BY <1>1, <1>2, <2>1, NoneEmpty DEF LogsTypeOK, Session
  <2> QED BY <1>1, <1>2, <2>1, <2>2, NoneEmpty DEF TypeInv
<1>4. LineInv /\ Sorted /\ ~MayRestore
  BY <1>1, <1>2, NoneEmpty DEF LineInv, Sorted, Below, LogsInit, MayRestore, InLine
<1>5. StoreInv /\ OrphansInv /\ ClearInv
  BY <1>1, <1>2, <1>4, NoneEmpty
     DEF StoreInv, Orderly, Before, OrphansInv, ClearInv, ClearIsComplete, Later, InLine, LogsInit
<1> QED BY <1>3, <1>4, <1>5 DEF LogsInv

LEMMA LogsInvNext == LogsIndInv /\ [LogsNext]_vars => LogsInv'
<1> SUFFICES ASSUME LogsInv, SessionsApart, AckBehind, [LogsNext]_vars PROVE LogsInv'
  BY DEF LogsIndInv
<1>1. CASE UNCHANGED vars
  <2>1. Line' = Line
    BY <1>1 DEF vars, client, Line
  <2> QED BY <1>1, <2>1
        DEF LogsInv, TypeInv, LogsTypeOK, LineInv, Sorted, StoreInv, LineMayStore, MayRestore, InLine,
            Serve, Matches, OrphansInv, OnlyCopy, OrphanMayStore, ClearInv, ClearIsComplete, Later,
            vars, companion, client, server, caller
<1>2. CASE Capture \/ Flush \/ HandleClear
  BY <1>2, CaptureStep, FlushStep, HandleClearStep
<1>3. CASE Bootstrap \/ Connected \/ ConnectFails \/ Register \/ PostFails
  BY <1>3, BootstrapStep, ConnectedStep, ConnectFailsStep, RegisterStep, PostFailsStep
<1>4. CASE ServerStep
  BY <1>4, ServeRegisterStep, PushCheckStep, PushStoreStep, ServeAckStep DEF ServerStep
<1>5. CASE DropSession \/ StopGame \/ RemoveGame \/ DropLogs
  BY <1>5, DropSessionStep, StopGameStep, RemoveGameStep, DropLogsStep
<1>6. CASE \E r \in orphans :
             OrphanCheck(r) \/ OrphanStore(r) \/ OrphanRegister(r) \/ OrphanAck(r)
  BY <1>6, OrphanCheckStep, OrphanStoreStep, OrphanRegisterStep, OrphanAckStep
<1>7. CASE ClientStep
  BY <1>7, RegisterAnsweredStep, PushAcceptedStep, PushRefusedStep, AckAnsweredStep,
     PostNotFoundStep DEF ClientStep
<1>8. CASE ClearStart \/ ClearTimeout \/ ClearStore
  BY <1>8, ClearStartStep, ClearTimeoutStep, ClearStoreStep
<1> QED BY <1>1, <1>2, <1>3, <1>4, <1>5, <1>6, <1>7, <1>8 DEF LogsNext

(* A step adds no acknowledgement without its client, and sends nothing    *)
(* that was captured before the companion cleared.                         *)
LEMMA AckStaysBehind ==
  ASSUME AckBehind, cut' = cut, command' \in {0, command}, clear' = clear \/ clear' # "idle",
         \A r \in orphans' : r.post.kind = "ack" => \E o \in orphans : o.post.kind = "ack",
         \A i \in DOMAIN Line' : \/ Later(Elements(Line'[i].entries))
                                 \/ \E j \in DOMAIN Line : Line'[i].entries = Line[j].entries
  PROVE  AckBehind'
BY DEF AckBehind, Later

(* The messages of the companion move on and keep what they carry.         *)
LEMMA LineKeeps ==
  ASSUME LogsInv, LogsNext
  PROVE  \/ HandleClear
         \/ \A i \in DOMAIN Line' : \/ Later(Elements(Line'[i].entries))
                                    \/ \E j \in DOMAIN Line : Line'[i].entries = Line[j].entries
<1> DEFINE Kept ==
      \A i \in DOMAIN Line' : \/ Later(Elements(Line'[i].entries))
                              \/ \E j \in DOMAIN Line : Line'[i].entries = Line[j].entries
<1> SUFFICES ASSUME ~HandleClear PROVE Kept
  OBVIOUS
<1>1. ASSUME UNCHANGED <<out, queue>> PROVE Kept
  BY <1>1 DEF Line
<1>2. CASE Flush
  <2>1. /\ Post(Message("push", pending)) /\ Message("push", pending) \in Messages
        /\ Message("push", pending).entries = pending /\ Message("push", pending) # None
    BY <1>2, StateFacts DEF Flush, Message, Messages, None
  <2>2. LineGrows(Message("push", pending)) /\ Len(Line) \in Nat
    BY <2>1, StateFacts, PostEffect
  <2> QED BY <2>1, <2>2 DEF LineGrows, LogsInv, ClearInv
<1>3. CASE Register
  <2>1. /\ Post(Message("register", <<>>)) /\ Message("register", <<>>) \in Messages
        /\ Elements(Message("register", <<>>).entries) = {} /\ Message("register", <<>>) # None
    BY <1>3, AckIsMessage DEF Register, None
  <2>2. LineGrows(Message("register", <<>>)) /\ Len(Line) \in Nat
    BY <2>1, StateFacts, PostEffect
  <2> QED BY <2>1, <2>2 DEF LineGrows, Later
<1>4. CASE PostFails \/ PostNotFound
  <2>1. DOMAIN Line' = {}
    BY <1>4 DEF PostFails, PostNotFound, Disconnected, Line
  <2> QED BY <2>1
<1>5. CASE ServerStep
  <2>1. PICK stage \in {"checked", "ok", "refused"} :
          out # None /\ out.kind # "none" /\ Answer(stage) /\ UNCHANGED queue
    BY <1>5 DEF ServerStep, ServeRegister, PushCheck, PushStore, ServeAck, Serve, None, client
  <2>2. LineAnswered(stage)
    BY <2>1, StateFacts, AnswerEffect
  <2> QED BY <2>2 DEF LineAnswered
<1>6. CASE RegisterAnswered \/ PushAccepted \/ PushRefused \/ AckAnswered
  <2>1. out # None /\ SendNext
    BY <1>6 DEF RegisterAnswered, PushAccepted, PushRefused, AckAnswered, Serve, None
  <2>2. LineMoves
    BY <2>1, StateFacts, SendNextEffect
  <2> QED BY <2>2 DEF LineMoves
<1>7. CASE Capture \/ Bootstrap \/ Connected \/ ConnectFails
  BY <1>1, <1>7 DEF Capture, Bootstrap, Connected, ConnectFails, client
<1>8. CASE DropSession \/ StopGame \/ RemoveGame \/ DropLogs
  BY <1>1, <1>8 DEF DropSession, StopGame, RemoveGame, DropLogs, client
<1>9. ASSUME NEW r \in orphans, OrphanCheck(r) \/ OrphanStore(r) \/ OrphanRegister(r) \/ OrphanAck(r)
      PROVE  Kept
  BY <1>1, <1>9 DEF OrphanCheck, OrphanStore, OrphanRegister, OrphanAck, client
<1>10. CASE ClearStart \/ ClearTimeout \/ ClearStore
  BY <1>1, <1>10 DEF ClearStart, ClearTimeout, ClearStore, client
<1> HIDE DEF Kept
<1> QED
  BY <1>2, <1>3, <1>4, <1>5, <1>6, <1>7, <1>8, <1>9, <1>10 DEF LogsNext, ClientStep

(* Only a lost connection leaves a handler behind, and only one.           *)
LEMMA OrphansChange ==
  ASSUME LogsInv, LogsNext
  PROVE  \/ orphans' \subseteq orphans
         \/ \E r \in orphans : OrphanCheck(r)
         \/ PostFails
<1>1. ASSUME NEW r \in orphans, OrphanStore(r) \/ OrphanRegister(r) \/ OrphanAck(r)
      PROVE  orphans' \subseteq orphans
  BY <1>1 DEF OrphanStore, OrphanRegister, OrphanAck
<1>2. CASE Capture \/ Flush \/ HandleClear \/ Bootstrap \/ Connected \/ ConnectFails \/ Register
  BY <1>2 DEF Capture, Flush, HandleClear, Bootstrap, Connected, ConnectFails, Register, server
<1>3. CASE ServerStep
  BY <1>3 DEF ServerStep, ServeRegister, PushCheck, PushStore, ServeAck, server
<1>4. CASE DropSession \/ StopGame \/ RemoveGame \/ DropLogs
  BY <1>4 DEF DropSession, StopGame, RemoveGame, DropLogs
<1>5. CASE ClientStep
  BY <1>5 DEF ClientStep, RegisterAnswered, PushAccepted, PushRefused, AckAnswered, PostNotFound,
              SendNext, server
<1>6. CASE ClearStart \/ ClearTimeout \/ ClearStore
  BY <1>6 DEF ClearStart, ClearTimeout, ClearStore, server
<1> QED BY <1>1, <1>2, <1>3, <1>4, <1>5, <1>6 DEF LogsNext

LEMMA OrphansStayApart == LogsInv /\ SessionsApart /\ [LogsNext]_vars => SessionsApart'
<1> SUFFICES ASSUME LogsInv, SessionsApart, [LogsNext]_vars PROVE SessionsApart'
  OBVIOUS
<1>1. CASE orphans' \subseteq orphans
  BY <1>1 DEF SessionsApart
<1>2. ASSUME NEW r \in orphans, OrphanCheck(r) PROVE SessionsApart'
  <2>1. \A o \in orphans' : \/ o \in orphans /\ o # r
                            \/ o.session = r.session /\ o = [r EXCEPT !.post.stage = "checked"]
    <3>1. [r EXCEPT !.post.stage = "checked"].session = r.session
      BY DEF LogsInv, TypeInv, LogsTypeOK
    <3> QED BY <1>2, <3>1 DEF OrphanCheck
  <2> QED BY <2>1 DEF SessionsApart
<1>3. CASE PostFails
  <2>1. \A r \in orphans : r.session # session
    BY <1>3 DEF PostFails, LogsInv, OrphansInv
  <2>2. \A r \in orphans' : r \in orphans \/ r = [post |-> out, session |-> session]
    BY <1>3 DEF PostFails
  <2> QED BY <2>1, <2>2 DEF SessionsApart
<1>4. CASE UNCHANGED vars
  BY <1>1, <1>4 DEF vars, server
<1> QED BY <1>1, <1>2, <1>3, <1>4, OrphansChange

LEMMA AcksStayBehind == LogsInv /\ AckBehind /\ [LogsNext]_vars => AckBehind'
<1> SUFFICES ASSUME LogsInv, AckBehind, [LogsNext]_vars PROVE AckBehind'
  OBVIOUS
<1>1. CASE UNCHANGED vars
  <2>1. Line' = Line
    BY <1>1 DEF vars, client, Line
  <2> QED BY <1>1, <2>1 DEF AckBehind, Later, vars, server, caller
<1>2. CASE HandleClear
  <2>1. orphans' = orphans /\ command # 0
    BY <1>2 DEF HandleClear, server
  <2> QED BY <2>1 DEF AckBehind
<1>3. CASE ClearStart
  <2>1. orphans' = orphans /\ clear = "idle"
    BY <1>3 DEF ClearStart, server
  <2> QED BY <2>1 DEF AckBehind
<1>4. CASE PostFails
  <2>1. DOMAIN Line' = {} /\ UNCHANGED <<command, clear>>
    BY <1>4 DEF PostFails, Disconnected, Line
  <2>2. ASSUME NEW r \in orphans', r.post.kind = "ack" PROVE command = 0 /\ clear # "idle"
    <3>1. CASE r \in orphans
      BY <2>2, <3>1 DEF AckBehind
    <3>2. CASE r = [post |-> out, session |-> session]
      <4>1. out.kind = "ack" /\ out # None
        BY <2>2, <3>2 DEF None
      <4>2. InLine("ack")
        BY <4>1, StateFacts DEF InLine
      <4> QED BY <4>2 DEF LogsInv, ClearInv
    <3> QED BY <1>4, <3>1, <3>2 DEF PostFails
  <2> QED BY <2>1, <2>2 DEF AckBehind
<1>5. CASE LogsNext /\ ~HandleClear /\ ~ClearStart /\ ~PostFails
  <2>1. /\ cut' = cut /\ command' \in {0, command} /\ (clear' = clear \/ clear' # "idle")
    <3>1. CASE Capture \/ Flush \/ Bootstrap \/ Connected \/ ConnectFails \/ Register
      BY <3>1 DEF Capture, Flush, Bootstrap, Connected, ConnectFails, Register, caller
    <3>2. CASE ServerStep
      BY <3>2 DEF ServerStep, ServeRegister, PushCheck, PushStore, ServeAck, caller
    <3>3. CASE DropSession \/ StopGame \/ RemoveGame \/ DropLogs
      BY <3>3 DEF DropSession, StopGame, RemoveGame, DropLogs, caller
    <3>4. CASE ClientStep
      BY <3>4 DEF ClientStep, RegisterAnswered, PushAccepted, PushRefused, AckAnswered,
                  PostNotFound, Disconnected, SendNext, caller
    <3>5. ASSUME NEW r \in orphans,
                 OrphanCheck(r) \/ OrphanStore(r) \/ OrphanRegister(r) \/ OrphanAck(r)
          PROVE  cut' = cut /\ command' \in {0, command} /\ (clear' = clear \/ clear' # "idle")
      BY <3>5 DEF OrphanCheck, OrphanStore, OrphanRegister, OrphanAck, caller
    <3>6. CASE ClearTimeout \/ ClearStore
      BY <3>6 DEF ClearTimeout, ClearStore
    <3> QED BY <1>5, <3>1, <3>2, <3>3, <3>4, <3>5, <3>6 DEF LogsNext
  <2>2. \A r \in orphans' : r.post.kind = "ack" => \E o \in orphans : o.post.kind = "ack"
    <3>1. ASSUME NEW r \in orphans, OrphanCheck(r), NEW o \in orphans', o.post.kind = "ack"
          PROVE  \E p \in orphans : p.post.kind = "ack"
      <4>1. [r EXCEPT !.post.stage = "checked"].post.kind = r.post.kind
        BY DEF LogsInv, TypeInv, LogsTypeOK, Messages
      <4> QED BY <3>1, <4>1 DEF OrphanCheck
    <3> QED BY <1>5, <3>1, OrphansChange
  <2>3. \A i \in DOMAIN Line' : \/ Later(Elements(Line'[i].entries))
                                \/ \E j \in DOMAIN Line : Line'[i].entries = Line[j].entries
    BY <1>5, LineKeeps
  <2> QED BY <2>1, <2>2, <2>3, AckStaysBehind
<1> QED BY <1>1, <1>2, <1>3, <1>4, <1>5

(* Whatever is captured, pushed, refused, put back, cut off or cleared,    *)
(* the invariant holds: runtime_companion.gd, runtime_mcp_server.gd and    *)
(* runtime_log_store.go keep apart what has been stored and what may be.   *)
THEOREM LogsInvHolds == LogsSpec => []LogsIndInv
<1>1. LogsInit => LogsIndInv
  BY LogsInvInit DEF LogsInit, LogsIndInv, SessionsApart, AckBehind
<1>2. LogsIndInv /\ [LogsNext]_vars => LogsIndInv'
  BY LogsInvNext, OrphansStayApart, AcksStayBehind DEF LogsIndInv
<1> QED BY <1>1, <1>2, PTL DEF LogsSpec

(* The types, and the capacities of the buffer and of the store.           *)
THEOREM LogsTyped == LogsSpec => []LogsTypeOK
<1>1. LogsIndInv => LogsTypeOK
  BY DEF LogsIndInv, LogsInv, TypeInv
<1> QED BY <1>1, LogsInvHolds, PTL

(* No entry is stored twice, and only those cut off by a lost connection   *)
(* may be out of order.                                                    *)
THEOREM StoreIsInOrder == LogsSpec => []StoredInOrder
<1>1. LogsIndInv => StoredInOrder
  <2> SUFFICES ASSUME LogsInv PROVE StoredInOrder
    BY DEF LogsIndInv
  <2>1. Orderly(store, adrift)
    BY DEF LogsInv, StoreInv
  <2>2. ASSUME NEW x, NEW y, x \in adrift \/ y \in adrift PROVE {x, y} \cap adrift # {}
    BY <2>2
  <2> QED BY <2>1, <2>2 DEF Orderly, Precedes, StoredInOrder
<1> QED BY <1>1, LogsInvHolds, PTL

(* When godot.runtime.log.clear has succeeded, nothing captured before the *)
(* companion cleared comes back, but for what was cut off.                 *)
THEOREM ClearHolds == LogsSpec => []ClearIsComplete
<1>1. LogsIndInv => ClearIsComplete
  BY DEF LogsIndInv, LogsInv, ClearInv
<1> QED BY <1>1, LogsInvHolds, PTL
=============================================================================
