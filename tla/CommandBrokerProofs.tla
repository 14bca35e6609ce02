------------------------ MODULE CommandBrokerProofs ------------------------
(***************************************************************************)
(* The broker's invariant is inductive, for any number of commands,        *)
(* sessions and acknowledgement calls.                                     *)
(***************************************************************************)
EXTENDS CommandBroker, FiniteSetTheorems, TLAPS

(* Every variable keeps its type: Next and the initial state respect       *)
(* TypeOK, whatever the interleaving of dispatchers, timers and Ack calls. *)
THEOREM TypeCorrect == Spec => []TypeOK
<1>1. Init => TypeOK
  BY DEF Init, TypeOK, PCs, AckPCs, Counters
<1>2. TypeOK /\ [Next]_vars => TypeOK'
  <2> SUFFICES ASSUME TypeOK, [Next]_vars PROVE TypeOK'
    OBVIOUS
  <2> USE DEF TypeOK, PCs, AckPCs, Outcomes, Counters, Goto, Count, Remove, Return, Present,
              dispatchVars, ackVars
  <2>1. ASSUME NEW c \in Commands, NEW s \in Sessions, Register(c, s) PROVE TypeOK'
    BY <2>1 DEF Register
  <2>2. ASSUME NEW c \in Commands, Dispatcher(c) PROVE TypeOK'
    <3>1. CASE CountDispatch(c) BY <3>1 DEF CountDispatch
    <3>2. CASE Deliver(c) BY <3>2 DEF Deliver
    <3>3. CASE SendSucceeds(c) BY <3>3 DEF SendSucceeds
    <3>4. CASE SendFails(c) BY <3>4 DEF SendFails
    <3>5. CASE ReceiveAck(c) BY <3>5 DEF ReceiveAck
    <3>6. CASE ReceiveTimeout(c) BY <3>6 DEF ReceiveTimeout
    <3>7. CASE DropSend(c) BY <3>7 DEF DropSend
    <3>8. CASE DropTimeout(c) BY <3>8 DEF DropTimeout
    <3>9. CASE ReturnUnreachable(c) BY <3>9 DEF ReturnUnreachable
    <3>10. CASE ReturnTimeout(c) BY <3>10 DEF ReturnTimeout
    <3>11. CASE ReturnAcked(c) BY <3>11 DEF ReturnAcked
    <3> QED BY <2>2, <3>1, <3>2, <3>3, <3>4, <3>5, <3>6, <3>7, <3>8, <3>9, <3>10, <3>11
            DEF Dispatcher
  <2>3. ASSUME NEW c \in Commands, TimerFires(c) PROVE TypeOK'
    BY <2>3 DEF TimerFires
  <2>4. ASSUME NEW a \in Acks, NEW s \in Sessions, NEW c \in Commands,
               AckTake(a, s, c) \/ AckReject(a, s, c) PROVE TypeOK'
    BY <2>4 DEF AckTake, AckReject
  <2>5. ASSUME NEW a \in Acks, AckOffer(a) PROVE TypeOK'
    BY <2>5 DEF AckOffer
  <2>6. CASE UNCHANGED vars
    BY <2>6 DEF vars
  <2> QED BY <2>1, <2>2, <2>3, <2>4, <2>5, <2>6 DEF Next
<1> QED BY <1>1, <1>2, PTL DEF Spec

-----------------------------------------------------------------------------
(* A step that leaves the variables of c and the acknowledgements that     *)
(* name c alone keeps the invariant of c.                                  *)
LEMMA CommandFrame ==
  ASSUME NEW c \in Commands, CommandInv(c),
         pc'[c] = pc[c], target'[c] = target[c], pending'[c] = pending[c],
         c \in wire' <=> c \in wire, channel'[c] = channel[c], answer'[c] = answer[c],
         outcome'[c] = outcome[c], Taken(c)' = Taken(c),
         \A a \in Taken(c) : ackPc'[a] = ackPc[a] /\ ackFrom'[a] = ackFrom[a]
  PROVE  CommandInv(c)'
BY DEF CommandInv

LEMMA InitInv == Init => BrokerInv
<1> SUFFICES ASSUME Init PROVE BrokerInv
  OBVIOUS
<1>1. TypeOK
  BY DEF Init, TypeOK, PCs, AckPCs, Counters
<1>2. \A c \in Commands : CommandInv(c)
  BY DEF Init, CommandInv, Taken
<1> QED BY <1>1, <1>2 DEF Init, BrokerInv

(* A step of the dispatcher of d, or of its timer, keeps the invariant of  *)
(* every command: the acknowledgement calls are left alone.                *)
LEMMA DispatcherKeepsInv ==
  ASSUME BrokerInv, NEW d \in Commands,
         \/ \E s \in Sessions : Register(d, s)
         \/ Dispatcher(d)
         \/ TimerFires(d),
         NEW c \in Commands
  PROVE  CommandInv(c)'
<1> USE NoneAssumption DEF TypeOK, Goto, Remove, Return, dispatchVars, ackVars
<1>0. TypeOK /\ CommandInv(c) /\ UNCHANGED ackVars
  BY DEF BrokerInv, Register, Dispatcher, TimerFires, CountDispatch, Deliver, SendSucceeds,
         SendFails, ReceiveAck, ReceiveTimeout, DropSend, DropTimeout, ReturnUnreachable,
         ReturnTimeout, ReturnAcked
<1>1. Taken(c)' = Taken(c)
  BY <1>0 DEF Taken
<1>2. CASE c # d
  BY <1>0, <1>1, <1>2, CommandFrame
     DEF Register, Dispatcher, TimerFires, CountDispatch, Deliver, SendSucceeds,
         SendFails, ReceiveAck, ReceiveTimeout, DropSend, DropTimeout, ReturnUnreachable,
         ReturnTimeout, ReturnAcked
<1>3. CASE c = d
  <2> USE <1>0, <1>1, <1>3 DEF CommandInv, Open
  <2>1. ASSUME NEW s \in Sessions, Register(c, s) PROVE CommandInv(c)'
    <3>1. Taken(c) = {}
      BY <2>1 DEF Register, Taken, BrokerInv
    <3> QED BY <2>1, <3>1 DEF Register
  <2>2. CASE CountDispatch(c) BY <2>2 DEF CountDispatch
  <2>3. CASE Deliver(c) BY <2>3 DEF Deliver
  <2>4. CASE SendSucceeds(c) BY <2>4 DEF SendSucceeds
  <2>5. CASE SendFails(c) BY <2>5 DEF SendFails
  <2>6. CASE ReceiveAck(c) BY <2>6 DEF ReceiveAck, Taken
  <2>7. CASE ReceiveTimeout(c) BY <2>7 DEF ReceiveTimeout
  <2>8. CASE DropSend(c) BY <2>8 DEF DropSend
  <2>9. CASE DropTimeout(c) BY <2>9 DEF DropTimeout
  <2>10. CASE ReturnUnreachable(c) BY <2>10 DEF ReturnUnreachable
  <2>11. CASE ReturnTimeout(c) BY <2>11 DEF ReturnTimeout
  <2>12. CASE ReturnAcked(c) BY <2>12 DEF ReturnAcked
  <2>13. CASE TimerFires(c) BY <2>13 DEF TimerFires
  <2> QED BY <2>1, <2>2, <2>3, <2>4, <2>5, <2>6, <2>7, <2>8, <2>9, <2>10, <2>11, <2>12, <2>13
          DEF Dispatcher
<1> QED BY <1>2, <1>3

(* The table step of Ack moves one command from "has an entry" to "has its *)
(* taker"; a refusal moves none.                                           *)
LEMMA AckTakeKeepsInv ==
  ASSUME BrokerInv, NEW a \in Acks, NEW s \in Sessions, NEW d \in Commands,
         AckTake(a, s, d), NEW c \in Commands
  PROVE  CommandInv(c)'
<1> USE NoneAssumption DEF TypeOK, Remove, Present, dispatchVars
<1>0. TypeOK /\ CommandInv(c) /\ ackOf[a] = None
  BY DEF BrokerInv, AckTake
<1>1. CASE c # d
  <2>1. Taken(c)' = Taken(c) /\ a \notin Taken(c)
    BY <1>0, <1>1 DEF AckTake, Taken
  <2> QED BY <1>0, <1>1, <2>1, CommandFrame DEF AckTake, Taken
<1>2. CASE c = d
  <2>1. Taken(c) = {} /\ Taken(c)' = {a}
    BY <1>0, <1>2 DEF AckTake, Taken, CommandInv
  <2> QED BY <1>0, <1>2, <2>1 DEF AckTake, CommandInv, Open
<1> QED BY <1>1, <1>2

LEMMA AckRejectKeepsInv ==
  ASSUME BrokerInv, NEW a \in Acks, NEW s \in Sessions, NEW d \in Commands,
         AckReject(a, s, d), NEW c \in Commands
  PROVE  CommandInv(c)'
<1>0. TypeOK /\ CommandInv(c) /\ ackOf[a] = None
  BY DEF BrokerInv, AckReject, Present
<1>1. Taken(c)' = Taken(c) /\ a \notin Taken(c)
  BY <1>0, NoneAssumption DEF AckReject, Present, Taken, TypeOK
<1>2. \A b \in Taken(c) : ackPc'[b] = ackPc[b] /\ ackFrom'[b] = ackFrom[b]
  BY <1>0, <1>1 DEF AckReject, Present, Taken, TypeOK
<1> QED BY <1>0, <1>1, <1>2, CommandFrame DEF AckReject, dispatchVars

(* The offer finds the buffer of its command empty.                        *)
LEMMA AckOfferKeepsInv ==
  ASSUME BrokerInv, NEW a \in Acks, AckOffer(a), NEW c \in Commands
  PROVE  CommandInv(c)'
<1> USE NoneAssumption DEF TypeOK, dispatchVars
<1>0. TypeOK /\ CommandInv(c) /\ ackOf[a] \in Commands /\ CommandInv(ackOf[a])
  BY DEF BrokerInv, AckOffer
<1>1. a \in Taken(ackOf[a]) /\ channel[ackOf[a]] = None
  BY <1>0 DEF AckOffer, Taken, CommandInv
<1>2. CASE c # ackOf[a]
  <2>1. Taken(c)' = Taken(c) /\ a \notin Taken(c)
    BY <1>0, <1>2 DEF AckOffer, Taken
  <2> QED BY <1>0, <1>2, <2>1, CommandFrame DEF AckOffer, Taken
<1>3. CASE c = ackOf[a]
  <2>1. Taken(c)' = Taken(c)
    BY <1>0, <1>1, <1>3 DEF AckOffer, Taken
  <2>2. Taken(c) = {a} /\ ackPc[a] = "offering" /\ answer[c] = None
    BY <1>0, <1>1, <1>3 DEF AckOffer, CommandInv
  <2>3. /\ channel'[c] = a /\ ackPc'[a] = "accepted"
        /\ pc' = pc /\ target' = target /\ pending' = pending /\ wire' = wire
        /\ answer' = answer /\ outcome' = outcome /\ ackFrom' = ackFrom
    BY <1>0, <1>1, <1>3 DEF AckOffer
  <2>4. pending[c] = None /\ pc[c] # "idle"
    BY <1>0, <2>2 DEF CommandInv, BrokerInv
  <2> HIDE DEF TypeOK
  <2> QED BY <1>0, <2>1, <2>2, <2>3, <2>4 DEF CommandInv
<1> QED BY <1>2, <1>3

LEMMA InvInductive == Spec => []BrokerInv
<1>1. BrokerInv /\ TypeOK' /\ [Next]_vars => BrokerInv'
  <2> SUFFICES ASSUME BrokerInv, TypeOK', [Next]_vars PROVE BrokerInv'
    OBVIOUS
  <2>1. \A c \in Commands : CommandInv(c)'
    <3>1. ASSUME NEW c \in Commands, UNCHANGED vars PROVE CommandInv(c)'
      BY <3>1 DEF BrokerInv, CommandInv, Taken, vars
    <3> QED BY <3>1, DispatcherKeepsInv, AckTakeKeepsInv, AckRejectKeepsInv, AckOfferKeepsInv
            DEF Next
  <2>2. UNCHANGED ackVars
        \/ (\E a \in Acks, s \in Sessions, c \in Commands : AckTake(a, s, c) \/ AckReject(a, s, c))
        \/ (\E a \in Acks : AckOffer(a))
    BY DEF Next, vars, Register, Dispatcher, TimerFires, CountDispatch, Deliver, SendSucceeds,
           SendFails, ReceiveAck, ReceiveTimeout, DropSend, DropTimeout, ReturnUnreachable,
           ReturnTimeout, ReturnAcked, Return, ackVars, dispatchVars
  <2>3. \A a \in Acks : /\ (ackPc[a] = "idle" <=> ackOf[a] = None)'
                        /\ (ackPc[a] = "idle" <=> ackFrom[a] = None)'
    BY <2>2, NoneAssumption DEF BrokerInv, TypeOK, AckTake, AckReject, AckOffer, Present, ackVars
  <2> QED BY <2>1, <2>3 DEF BrokerInv
<1> QED BY InitInv, TypeCorrect, <1>1, PTL DEF Spec
-----------------------------------------------------------------------------
(* The pending table holds exactly the commands that can still be          *)
(* answered: it leaks no entry and loses no wakeup.                        *)
THEOREM TableIsExact == Spec => []TableExact
<1>1. BrokerInv => TableExact
  BY DEF BrokerInv, CommandInv, TableExact
<1> QED BY <1>1, InvInductive, PTL

(* At most one acknowledgement of a command is taken, it is from the       *)
(* session addressed, and its send never finds the buffer full.            *)
THEOREM AtMostOneTaker == Spec => []OneTaker
<1>1. BrokerInv => OneTaker
  BY DEF BrokerInv, CommandInv, OneTaker
<1> QED BY <1>1, InvInductive, PTL

(* An acknowledged outcome carries an acknowledgement of this command by   *)
(* the session it was sent to.                                             *)
THEOREM AnswersAreGenuine == Spec => []AnswerIsGenuine
<1>1. BrokerInv => AnswerIsGenuine
  BY DEF BrokerInv, CommandInv, AnswerIsGenuine, TypeOK, Taken
<1> QED BY <1>1, InvInductive, PTL

-----------------------------------------------------------------------------
(* The balance of the metrics.  However many commands there are, those     *)
(* under way are finitely many: each step starts or ends one at most.      *)
BalanceInv == TypeOK /\ IsFiniteSet(UnderWay) /\ MetricsBalance

LEMMA MovesKeepBalance ==
  ASSUME BalanceInv, UNCHANGED metrics, UnderWay' = UnderWay
  PROVE  IsFiniteSet(UnderWay)' /\ MetricsBalance'
BY DEF BalanceInv, MetricsBalance

LEMMA DispatchKeepsBalance ==
  ASSUME BalanceInv, NEW c \in Commands, CountDispatch(c)
  PROVE  IsFiniteSet(UnderWay)' /\ MetricsBalance'
<1>1. UnderWay' = UnderWay \cup {c} /\ c \notin UnderWay
  BY DEF BalanceInv, TypeOK, CountDispatch, Goto, UnderWay
<1>2. IsFiniteSet(UnderWay') /\ Cardinality(UnderWay') = Cardinality(UnderWay) + 1
  BY <1>1, FS_AddElement DEF BalanceInv
<1>3. Cardinality(UnderWay) \in Nat
  BY FS_CardinalityType DEF BalanceInv
<1>4. \A k \in Counters : metrics[k] \in Nat /\ metrics'[k] = IF k = "dispatch" THEN metrics[k] + 1 ELSE metrics[k]
  BY DEF BalanceInv, TypeOK, CountDispatch, Count
<1> QED BY <1>2, <1>3, <1>4 DEF BalanceInv, MetricsBalance, Counters

LEMMA ReturnKeepsBalance ==
  ASSUME BalanceInv, NEW c \in Commands, NEW from \in {"failSend", "failTimeout", "gotAck"},
         NEW k \in Counters \ {"dispatch"}, NEW o, Return(c, from, k, o)
  PROVE  IsFiniteSet(UnderWay)' /\ MetricsBalance'
<1>1. UnderWay' = UnderWay \ {c} /\ c \in UnderWay
  BY DEF BalanceInv, TypeOK, Return, Goto, UnderWay
<1>2. IsFiniteSet(UnderWay') /\ Cardinality(UnderWay') = Cardinality(UnderWay) - 1
  BY <1>1, FS_RemoveElement DEF BalanceInv
<1>3. Cardinality(UnderWay) \in Nat
  BY FS_CardinalityType DEF BalanceInv
<1>4. \A j \in Counters : metrics[j] \in Nat /\ metrics'[j] = IF j = k THEN metrics[j] + 1 ELSE metrics[j]
  BY DEF BalanceInv, TypeOK, Return, Count
<1> QED BY <1>2, <1>3, <1>4 DEF BalanceInv, MetricsBalance, Counters

(* What is counted adds up at any moment, whichever calls race and however *)
(* they end: no outcome is counted twice and none is forgotten.            *)
THEOREM MetricsBalanceHolds == Spec => []MetricsBalance
<1>1. Init => IsFiniteSet(UnderWay) /\ MetricsBalance
  <2> SUFFICES ASSUME Init PROVE IsFiniteSet(UnderWay) /\ MetricsBalance
    OBVIOUS
  <2>1. UnderWay = {}
    BY DEF Init, UnderWay
  <2> QED BY <2>1, FS_EmptySet DEF Init, MetricsBalance, Counters
<1>2. BalanceInv /\ [Next]_vars => IsFiniteSet(UnderWay)' /\ MetricsBalance'
  <2> SUFFICES ASSUME BalanceInv, [Next]_vars PROVE IsFiniteSet(UnderWay)' /\ MetricsBalance'
    OBVIOUS
  <2>1. TypeOK
    BY DEF BalanceInv
  <2>2. ASSUME NEW c \in Commands, NEW s \in Sessions, Register(c, s)
        PROVE  UNCHANGED metrics /\ UnderWay' = UnderWay
    BY <2>1, <2>2 DEF Register, Goto, TypeOK, UnderWay
  <2>3. ASSUME NEW c \in Commands, Dispatcher(c)
        PROVE  IsFiniteSet(UnderWay)' /\ MetricsBalance'
    <3>1. CASE CountDispatch(c)
      BY <3>1, DispatchKeepsBalance
    <3>2. CASE ReturnUnreachable(c) \/ ReturnTimeout(c) \/ ReturnAcked(c)
      BY <3>2, ReturnKeepsBalance DEF ReturnUnreachable, ReturnTimeout, ReturnAcked, Counters
    <3>3. CASE Deliver(c) \/ SendSucceeds(c) \/ SendFails(c) \/ ReceiveAck(c) \/ ReceiveTimeout(c)
               \/ DropSend(c) \/ DropTimeout(c)
      <4>1. UNCHANGED metrics /\ UnderWay' = UnderWay
        BY <2>1, <3>3 DEF Deliver, SendSucceeds, SendFails, ReceiveAck, ReceiveTimeout, DropSend,
                          DropTimeout, Goto, TypeOK, UnderWay, dispatchVars
      <4> QED BY <4>1, MovesKeepBalance
    <3> QED BY <2>3, <3>1, <3>2, <3>3 DEF Dispatcher
  <2>4. ASSUME NEW c \in Commands, TimerFires(c) PROVE UNCHANGED metrics /\ UnderWay' = UnderWay
    BY <2>4 DEF TimerFires, UnderWay
  <2>5. ASSUME NEW a \in Acks, NEW s \in Sessions, NEW c \in Commands,
               AckTake(a, s, c) \/ AckReject(a, s, c)
        PROVE  UNCHANGED metrics /\ UnderWay' = UnderWay
    BY <2>5 DEF AckTake, AckReject, AckOffer, dispatchVars, UnderWay
  <2>6. ASSUME UNCHANGED vars PROVE UNCHANGED metrics /\ UnderWay' = UnderWay
    BY <2>6 DEF vars, UnderWay
  <2>7. ASSUME NEW a \in Acks, AckOffer(a) PROVE UNCHANGED metrics /\ UnderWay' = UnderWay
    BY <2>7 DEF AckOffer, dispatchVars, UnderWay
  <2> QED BY <2>2, <2>3, <2>4, <2>5, <2>6, <2>7, MovesKeepBalance DEF Next
<1> QED BY <1>1, <1>2, TypeCorrect, PTL DEF Spec, BalanceInv

-----------------------------------------------------------------------------
(* The refinement.  TakenBy is the value the mapping gives to the variable *)
(* taken of the contract.                                                  *)
LEMMA OneOfSingleton == ASSUME NEW a PROVE OneOf({a}) = a /\ OneOf({}) = None
BY DEF OneOf

LEMMA TakenByUnchanged ==
  ASSUME \A c \in Commands : Taken(c)' = Taken(c)
  PROVE  TakenBy' = TakenBy
BY DEF TakenBy

(* A step of a dispatcher is Issue, Conclude or a stutter of the contract. *)
LEMMA DispatcherRefines ==
  ASSUME BrokerInv, NEW c \in Commands,
         \/ \E s \in Sessions : Register(c, s)
         \/ Dispatcher(c)
         \/ TimerFires(c)
  PROVE  Contract!ContractNext \/ UNCHANGED Contract!contractVars
<1> USE DEF dispatchVars, ackVars, Goto
<1>0. TypeOK /\ CommandInv(c)
  BY DEF BrokerInv
<1>1. UNCHANGED ackVars
  BY DEF Register, Dispatcher, TimerFires, CountDispatch, Deliver, SendSucceeds, SendFails,
         ReceiveAck, ReceiveTimeout, DropSend, DropTimeout, ReturnUnreachable, ReturnTimeout,
         ReturnAcked, Return
<1>2. TakenBy' = TakenBy
  BY <1>1, TakenByUnchanged DEF Taken
<1>3. ASSUME NEW s \in Sessions, Register(c, s) PROVE Contract!Issue(c, s)
  BY <1>0, <1>1, <1>2, <1>3 DEF Register, Contract!Issue, TakenBy, CommandInv
<1>4. ASSUME NEW o \in Outcomes, pc[c] # "returned", pc[c] # "idle", o = "acked" => pc[c] = "gotAck",
             outcome' = [outcome EXCEPT ![c] = o], UNCHANGED target
      PROVE  Contract!Conclude(c, o)
  <2>1. o = "acked" => TakenBy[c] # None
    BY <1>0, <1>4, NoneAssumption DEF CommandInv, TakenBy, Taken, OneOf
  <2> QED BY <1>0, <1>1, <1>2, <1>4, <2>1 DEF Contract!Conclude, TakenBy, CommandInv
<1>5. CASE ReturnUnreachable(c)
  BY <1>4, <1>5 DEF ReturnUnreachable, Return, Outcomes, Contract!ContractNext, Contract!Outcomes
<1>6. CASE ReturnTimeout(c)
  BY <1>4, <1>6 DEF ReturnTimeout, Return, Outcomes, Contract!ContractNext, Contract!Outcomes
<1>7. CASE ReturnAcked(c)
  BY <1>4, <1>7 DEF ReturnAcked, Return, Outcomes, Contract!ContractNext, Contract!Outcomes
<1>8. CASE UNCHANGED <<target, outcome>>
  BY <1>1, <1>2, <1>8 DEF Contract!contractVars, TakenBy
<1>9. \/ \E s \in Sessions : Register(c, s)
      \/ ReturnUnreachable(c) \/ ReturnTimeout(c) \/ ReturnAcked(c)
      \/ UNCHANGED <<target, outcome>>
  BY DEF Dispatcher, TimerFires, CountDispatch, Deliver, SendSucceeds, SendFails,
         ReceiveAck, ReceiveTimeout, DropSend, DropTimeout
<1> QED BY <1>3, <1>5, <1>6, <1>7, <1>8, <1>9 DEF Contract!ContractNext

(* The table step of Ack is Take or Refuse.                                *)
LEMMA AckRefines ==
  ASSUME BrokerInv, NEW a \in Acks, NEW s \in Sessions, NEW c \in Commands,
         AckTake(a, s, c) \/ AckReject(a, s, c)
  PROVE  Contract!ContractNext
<1> USE DEF Present, dispatchVars
<1>0. TypeOK /\ CommandInv(c) /\ ackOf[a] = None /\ ackFrom[a] = None
  BY DEF BrokerInv, AckTake, AckReject
<1>1. CASE AckTake(a, s, c)
  <2>1. Taken(c) = {} /\ Taken(c)' = {a}
    BY <1>0, <1>1, NoneAssumption DEF AckTake, Taken, CommandInv, TypeOK
  <2>2. \A d \in Commands \ {c} : Taken(d)' = Taken(d)
    BY <1>0, <1>1, NoneAssumption DEF AckTake, Taken, TypeOK
  <2>3. TakenBy' = [TakenBy EXCEPT ![c] = a] /\ TakenBy[c] = None
    <3>1. OneOf(Taken(c))' = a /\ OneOf(Taken(c)) = None
      BY <2>1, OneOfSingleton
    <3>2. \A d \in Commands \ {c} : OneOf(Taken(d))' = OneOf(Taken(d))
      BY <2>2
    <3> QED BY <3>1, <3>2 DEF TakenBy
  <2>4. target[c] = s /\ outcome[c] = "open"
    BY <1>0, <1>1, NoneAssumption DEF AckTake, CommandInv, Open
  <2>5. Contract!Take(a, s, c)
    BY <1>0, <1>1, <2>3, <2>4 DEF AckTake, Contract!Take, TakenBy
  <2> QED BY <2>5 DEF Contract!ContractNext
<1>2. CASE AckReject(a, s, c)
  <2>1. TakenBy' = TakenBy
    BY <1>0, <1>2, NoneAssumption, TakenByUnchanged DEF AckReject, Taken, TypeOK
  <2>2. Contract!Refuse(a, s)
    BY <1>0, <1>2, <2>1 DEF AckReject, Contract!Refuse, TakenBy
  <2> QED BY <2>2 DEF Contract!ContractNext
<1> QED BY <1>1, <1>2

LEMMA OfferStutters ==
  ASSUME BrokerInv, NEW a \in Acks, AckOffer(a)
  PROVE  UNCHANGED Contract!contractVars
<1>1. ackOf[a] \in Commands /\ a \in Taken(ackOf[a]) /\ CommandInv(ackOf[a]) /\ TypeOK
  BY NoneAssumption DEF BrokerInv, AckOffer, TypeOK, Taken
<1>2. channel[ackOf[a]] = None
  BY <1>1 DEF CommandInv, AckOffer
<1>3. \A c \in Commands : Taken(c)' = Taken(c)
  BY <1>1, <1>2 DEF AckOffer, Taken, TypeOK
<1>4. TakenBy' = TakenBy
  BY <1>3, TakenByUnchanged
<1> QED BY <1>4 DEF AckOffer, dispatchVars, Contract!contractVars, TakenBy

(* The broker implements the contract: at most one acknowledgement per     *)
(* command, from its addressee and before the outcome, and one outcome.    *)
THEOREM BrokerKeepsContract == Spec => ContractHolds
<1>1. Init => Contract!ContractInit
  BY DEF Init, Contract!ContractInit, Taken, TakenBy, OneOf
<1>2. BrokerInv /\ [Next]_vars => [Contract!ContractNext]_(Contract!contractVars)
  <2> SUFFICES ASSUME BrokerInv, [Next]_vars
               PROVE  Contract!ContractNext \/ UNCHANGED Contract!contractVars
    OBVIOUS
  <2>1. CASE UNCHANGED vars
    <3>1. TakenBy' = TakenBy
      BY <2>1, TakenByUnchanged DEF vars, Taken
    <3> QED BY <2>1, <3>1 DEF vars, Contract!contractVars, TakenBy
  <2> QED BY <2>1, DispatcherRefines, AckRefines, OfferStutters DEF Next
<1> QED BY <1>1, <1>2, InvInductive, PTL DEF Spec, ContractHolds, Contract!ContractSpec
=============================================================================
