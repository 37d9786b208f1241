---------------------------- MODULE LedgerProofs ----------------------------
(***************************************************************************)
(* Theorems about Ledger, for every set of messages, whatever their kinds, *)
(* and every bound on attempts and faults: entries come in pairs, their    *)
(* number is one more than the acknowledgements that got lost, only a      *)
(* restart of the broker loses a queued message, no delivery is stranded,  *)
(* and all of it together implements Bookkeeping.                          *)
(***************************************************************************)
EXTENDS Ledger, TLAPS

(* What is inserted in the open transaction at each step.                  *)
PendingBy(s) ==
  CASE s = "credit" -> {"debit"}
    [] s = "commit" -> {"debit", "credit"}
    [] OTHER        -> {}

(* handleMessage has a delivery exactly while it is busy, and is at        *)
(* MongoDB for a transfer only.                                            *)
HandlerInv ==
  /\ step = "idle" <=> current = None
  /\ step \in MongoStep => current \in Transfer
  /\ step # "idle" => attempt \in 1 .. MaxAttempts
  /\ pending = PendingBy(step)
  /\ consumer = "down" => current = None /\ ~channel

(* The broker holds what the client has, as long as the channel is open;   *)
(* when it is not it may hold it as ready, or have lost it, but it never   *)
(* takes a message for acknowledged that the handler still works on.       *)
DeliveryInv ==
  /\ buffer # {} => channel
  /\ \A m \in buffer : where[m] = "unacked" /\ m # current
  /\ current # None =>
       /\ channel => where[current] = "unacked"
       /\ where[current] \in {"unacked", "ready", "lost"}

(* The type invariant, its Boolean variables apart.                        *)
FlagsOK == /\ bound \in BOOLEAN /\ channel \in BOOLEAN
           /\ stopping \in BOOLEAN /\ mongo \in BOOLEAN

DataOK ==
  /\ where \in [Message -> Places]
  /\ entries \in [Message -> [debit : Nat, credit : Nat]]
  /\ pending \in SUBSET {"debit", "credit"}
  /\ consumer \in Phases
  /\ buffer \in SUBSET Message
  /\ current \in Message \cup {None}
  /\ step \in Steps
  /\ attempt \in 0 .. MaxAttempts
  /\ faults \in 0 .. MaxFaults
  /\ doubts \in [Message -> Nat]

LedgerInv ==
  TypeOK /\ HandlerInv /\ DeliveryInv /\ EntriesPaired /\ EntriesAccounted
-----------------------------------------------------------------------------
LEMMA TypeParts == TypeOK <=> FlagsOK /\ DataOK
<1> QED
  BY DEF TypeOK, FlagsOK, DataOK

LEMMA InitLedgerInv ==
  ASSUME Init
  PROVE  LedgerInv
<1> USE MessageAssumption, BoundAssumption DEF Init
<1>1. TypeOK
  <2>1. FlagsOK
    BY Zenon DEF FlagsOK
  <2>2. DataOK
    BY DEF DataOK, Places, Phases, Steps
  <2> QED
    BY <2>1, <2>2, TypeParts
<1>2. HandlerInv
  BY DEF HandlerInv, PendingBy, MongoStep
<1>3. DeliveryInv
  BY DEF DeliveryInv
<1>4. EntriesPaired /\ EntriesAccounted
  BY DEF EntriesPaired, EntriesAccounted, Due, Transfer
<1> QED
  BY <1>1, <1>2, <1>3, <1>4 DEF LedgerInv

(* The end of the process.                                                 *)
LEMMA ExitLedgerInv ==
  ASSUME LedgerInv, ExitProcess, faults' \in 0 .. MaxFaults
  PROVE  LedgerInv'
<1> USE MessageAssumption, BoundAssumption DEF LedgerInv, ExitProcess, HandlerEnds
<1>1. TypeOK'
  <2>1. FlagsOK'
    BY Zenon DEF TypeOK, FlagsOK
  <2>2. DataOK'
    BY DEF TypeOK, DataOK, Places, Phases, Steps, Doubt
  <2> QED
    BY <2>1, <2>2, Zenon DEF TypeOK, FlagsOK, DataOK
<1>2. HandlerInv'
  BY DEF HandlerInv, PendingBy, MongoStep
<1>3. DeliveryInv'
  BY DEF DeliveryInv
<1>4. EntriesPaired'
  BY DEF EntriesPaired
<1>5. EntriesAccounted'
  <2> SUFFICES ASSUME NEW m \in Transfer
               PROVE  entries'[m].debit = doubts'[m] + (IF Due(m)' THEN 1 ELSE 0)
    BY DEF EntriesAccounted
  <2>1. where'[m] = "acked" <=> where[m] = "acked"
    BY DEF Transfer
  <2>2. step' = "idle" /\ entries' = entries /\ (Due(m)' <=> where[m] = "acked")
    BY <2>1 DEF Due
  <2>3. CASE step = "ack" /\ current = m
    BY <2>2, <2>3 DEF EntriesAccounted, Due, Doubt, DeliveryInv, TypeOK, Transfer
  <2>4. CASE ~(step = "ack" /\ current = m)
    BY <2>2, <2>4 DEF EntriesAccounted, Due, Doubt, TypeOK, Transfer
  <2> QED
    BY <2>3, <2>4
<1> QED
  BY <1>1, <1>2, <1>3, <1>4, <1>5

(* Steps that leave the ledger, the handler and the acknowledged messages  *)
(* alone.                                                                  *)
LEMMA QuietLedger ==
  ASSUME LedgerInv, UNCHANGED <<ledgerVars, handlerVars>>,
         \A m \in Message : where'[m] = "acked" <=> where[m] = "acked"
  PROVE  EntriesPaired' /\ EntriesAccounted'
<1> QED
  BY DEF LedgerInv, ledgerVars, handlerVars, EntriesPaired, EntriesAccounted, Due, Transfer
-----------------------------------------------------------------------------
(* Start and stop of the process and its consumer.                         *)
LEMMA LifecycleLedgerInv ==
  ASSUME LedgerInv,
         StartProcess \/ BindQueue \/ Subscribe \/ StopConsumer \/ ConsumerEnds
  PROVE  LedgerInv'
<1> USE MessageAssumption, BoundAssumption
    DEF LedgerInv, StartProcess, BindQueue, Subscribe, StopConsumer, ConsumerEnds,
        Fault, brokerVars, handlerVars, ledgerVars
<1>1. TypeOK'
  <2>1. FlagsOK'
    BY Zenon DEF TypeOK, FlagsOK
  <2>2. consumer' \in Phases /\ faults' \in 0 .. MaxFaults
    BY DEF TypeOK, Phases
  <2>3. UNCHANGED <<where, buffer, ledgerVars, handlerVars>>
    OBVIOUS
  <2>4. DataOK'
    <3> HIDE DEF StartProcess, BindQueue, Subscribe, StopConsumer, ConsumerEnds
    <3> QED
      BY <2>2, <2>3 DEF TypeOK, DataOK
  <2> QED
    BY <2>1, <2>4, Zenon DEF TypeOK, FlagsOK, DataOK
<1>2. HandlerInv'
  BY DEF HandlerInv, PendingBy, MongoStep
<1>3. DeliveryInv'
  BY DEF DeliveryInv, HandlerInv
<1> QED
  BY <1>1, <1>2, <1>3, QuietLedger

(* Publishing and delivery.                                                *)
LEMMA QueueLedgerInv ==
  ASSUME LedgerInv, NEW m \in Message,
         CommitTransfer(m) \/ PublishEvent(m) \/ PublishForeign(m) \/ Deliver(m)
  PROVE  LedgerInv'
<1> USE MessageAssumption, BoundAssumption
    DEF LedgerInv, CommitTransfer, PublishEvent, PublishForeign, Deliver, Move,
        clientVars, handlerVars, ledgerVars
<1>1. TypeOK'
  BY DEF TypeOK, Places
<1>2. HandlerInv'
  BY DEF HandlerInv, PendingBy, MongoStep
<1>3. DeliveryInv'
  BY DEF DeliveryInv, TypeOK
<1>4. \A n \in Message : where'[n] = "acked" <=> where[n] = "acked"
  OBVIOUS
<1> QED
  BY <1>1, <1>2, <1>3, <1>4, QuietLedger

(* The connection breaks; the broker restarts.                             *)
LEMMA BrokerLedgerInv ==
  ASSUME LedgerInv, ConnectionLost \/ BrokerRestarts
  PROVE  LedgerInv'
<1> USE MessageAssumption, BoundAssumption
    DEF LedgerInv, ConnectionLost, BrokerRestarts, Move, At, Fault,
        handlerVars, ledgerVars
<1>1. TypeOK'
  <2>1. FlagsOK'
    BY Zenon DEF TypeOK, FlagsOK
  <2>2. /\ where' \in [Message -> Places] /\ faults' \in 0 .. MaxFaults /\ buffer' = {}
        /\ UNCHANGED <<entries, pending, consumer, current, step, attempt, doubts>>
    BY DEF TypeOK, Places
  <2>3. DataOK'
    <3> HIDE DEF ConnectionLost, BrokerRestarts
    <3> QED
      BY <2>2 DEF TypeOK, DataOK
  <2> QED
    BY <2>1, <2>3, Zenon DEF TypeOK, FlagsOK, DataOK
<1>2. HandlerInv'
  BY DEF HandlerInv, PendingBy, MongoStep
<1>3. DeliveryInv'
  BY DEF DeliveryInv, TypeOK
<1>4. \A n \in Message : where'[n] = "acked" <=> where[n] = "acked"
  OBVIOUS
<1> QED
  BY <1>1, <1>2, <1>3, <1>4, QuietLedger

LEMMA FirstStepByKind ==
  ASSUME NEW m \in Message
  PROVE  FirstStep(m) = CASE Kind[m] = "transfer" -> "session"
                          [] Kind[m] = "garbage"  -> "reject"
                          [] OTHER                -> "ack"
<1>1. Kind[m] \in Kinds
  BY MessageAssumption
<1>2. /\ Handlers["transaction.success"] = "ledger"
      /\ Handlers["transaction.failure"] = "process"
      /\ Handlers[""] = "none"
  BY DEF Handlers, Routes
<1>3. CASE Kind[m] \in {"transfer", "garbage"}
  <2>1. Handlers[Route(m)] = "ledger"
    BY <1>2, <1>3 DEF Route
  <2> QED
    BY <1>3, <2>1 DEF FirstStep
<1>4. CASE Kind[m] = "failure"
  <2>1. Handlers[Route(m)] = "process"
    BY <1>2, <1>4 DEF Route
  <2> QED
    BY <1>4, <2>1 DEF FirstStep
<1>5. CASE Kind[m] = "unrouted"
  <2>1. Handlers[Route(m)] = "none"
    BY <1>2, <1>5 DEF Route
  <2> QED
    BY <1>5, <2>1 DEF FirstStep
<1> QED
  BY <1>1, <1>3, <1>4, <1>5 DEF Kinds

LEMMA TakeLedgerInv ==
  ASSUME LedgerInv, NEW m \in Message, Take(m)
  PROVE  LedgerInv'
<1> USE MessageAssumption, BoundAssumption, FirstStepByKind
    DEF LedgerInv, Take, brokerVars, ledgerVars
<1>1. TypeOK'
  BY DEF TypeOK, Steps, MongoStep
<1>2. HandlerInv'
  BY DEF HandlerInv, PendingBy, MongoStep, Transfer, TypeOK
<1>3. DeliveryInv'
  BY DEF DeliveryInv, TypeOK
<1>4. EntriesPaired'
  BY DEF EntriesPaired
<1>5. EntriesAccounted'
  BY DEF EntriesAccounted, Due, Transfer, HandlerInv
<1> QED
  BY <1>1, <1>2, <1>3, <1>4, <1>5
-----------------------------------------------------------------------------
(* The steps of handleMessage.                                             *)

LEMMA RetryMoves ==
  ASSUME TypeOK, HandlerInv, step \in MongoStep,
         Retry \/ (step' = "reject" /\ UNCHANGED attempt)
  PROVE  step' \in {"session", "reject"} /\ attempt' \in 1 .. MaxAttempts
<1> QED
  BY BoundAssumption DEF TypeOK, HandlerInv, Retry, MongoStep

LEMMA AttemptLedgerInv ==
  ASSUME LedgerInv,
         StartSession \/ InsertDebit \/ InsertCredit \/ MongoRefuses \/ OperationFails
  PROVE  LedgerInv'
<1> USE MessageAssumption, BoundAssumption DEF LedgerInv
<1>1. /\ step \in MongoStep
      /\ UNCHANGED <<outside, entries, doubts>>
      /\ step' \in MongoStep \cup {"reject"} /\ attempt' \in 1 .. MaxAttempts
      /\ pending' = PendingBy(step')
      /\ faults' \in 0 .. MaxFaults
  <2>1. CASE StartSession \/ InsertDebit \/ InsertCredit \/ MongoRefuses
    BY <2>1 DEF StartSession, InsertDebit, InsertCredit, MongoRefuses, HandlerInv,
      PendingBy, MongoStep, TypeOK, ledgerVars
  <2>2. CASE OperationFails
    <3>1. step' \in {"session", "reject"} /\ attempt' \in 1 .. MaxAttempts
      BY <2>2, RetryMoves DEF OperationFails
    <3>2. faults' \in 0 .. MaxFaults
      BY <2>2 DEF OperationFails, Fault, TypeOK
    <3> QED
      BY <2>2, <3>1, <3>2 DEF OperationFails, PendingBy, MongoStep
  <2> QED
    BY <2>1, <2>2
<1> USE DEF outside, brokerVars, clientVars
<1>2. TypeOK'
  BY <1>1 DEF TypeOK, Steps, PendingBy
<1>3. HandlerInv'
  BY <1>1 DEF HandlerInv, MongoStep
<1>4. DeliveryInv'
  BY <1>1 DEF DeliveryInv
<1>5. EntriesPaired' /\ EntriesAccounted'
  BY <1>1 DEF EntriesPaired, EntriesAccounted, Due, Transfer, MongoStep
<1> QED
  BY <1>2, <1>3, <1>4, <1>5

(* A commit makes one entry of each type, whether or not its answer        *)
(* arrives.                                                                *)
LEMMA CommitLedgerInv ==
  ASSUME LedgerInv, CommitEntries \/ CommitUnacknowledged
  PROVE  LedgerInv'
<1> USE MessageAssumption, BoundAssumption DEF LedgerInv
<1>1. /\ step = "commit" /\ current \in Transfer /\ current \in Message
      /\ pending = {"debit", "credit"}
  BY DEF CommitEntries, CommitUnacknowledged, HandlerInv, PendingBy, MongoStep, Transfer
<1>2. /\ entries' = [entries EXCEPT ![current].debit = @ + 1, ![current].credit = @ + 1]
      /\ pending' = {}
  BY <1>1 DEF CommitEntries, CommitUnacknowledged, Persist
<1>3. /\ UNCHANGED outside /\ faults' \in 0 .. MaxFaults
      /\ \/ step' = "ack" /\ UNCHANGED <<attempt, doubts>>
         \/ /\ step' \in {"session", "reject"} /\ attempt' \in 1 .. MaxAttempts
            /\ Doubt(current)
  BY <1>1, RetryMoves DEF CommitEntries, CommitUnacknowledged, Fault, TypeOK, MongoStep
<1> USE DEF outside, brokerVars, clientVars
<1>4. TypeOK'
  BY <1>1, <1>2, <1>3 DEF TypeOK, Steps, MongoStep, Doubt
<1>5. HandlerInv'
  BY <1>1, <1>2, <1>3 DEF HandlerInv, PendingBy, MongoStep
<1>6. DeliveryInv'
  BY <1>3 DEF DeliveryInv
<1>7. EntriesPaired'
  BY <1>1, <1>2 DEF EntriesPaired, TypeOK
<1>8. EntriesAccounted'
  <2> SUFFICES ASSUME NEW m \in Transfer
               PROVE  entries'[m].debit = doubts'[m] + (IF Due(m)' THEN 1 ELSE 0)
    BY DEF EntriesAccounted
  <2>1. where' = where /\ current' = current /\ ~(where[current] = "acked")
    BY <1>1, <1>3 DEF DeliveryInv, HandlerInv
  <2>2. CASE m = current
    BY <1>1, <1>2, <1>3, <2>1, <2>2 DEF EntriesAccounted, Due, Doubt, TypeOK
  <2>3. CASE m # current
    BY <1>1, <1>2, <1>3, <2>1, <2>3 DEF EntriesAccounted, Due, Doubt, TypeOK, Transfer
  <2> QED
    BY <2>2, <2>3
<1> QED
  BY <1>4, <1>5, <1>6, <1>7, <1>8

LEMMA SettleLedgerInv ==
  ASSUME LedgerInv, AckDelivery \/ RejectDelivery
  PROVE  LedgerInv'
<1> USE MessageAssumption, BoundAssumption
    DEF LedgerInv, AckDelivery, RejectDelivery, HandlerEnds, Move, Doubt,
        clientVars, ledgerVars
<1>1. current # None /\ current \in Message
  BY DEF HandlerInv, TypeOK
<1>2. TypeOK'
  <2>1. FlagsOK'
    BY Zenon DEF TypeOK, FlagsOK
  <2>2. where' \in [Message -> Places] /\ doubts' \in [Message -> Nat]
    BY <1>1 DEF TypeOK, Places
  <2>3. HandlerEnds /\ UNCHANGED <<entries, pending, consumer, buffer, faults>>
    OBVIOUS
  <2>4. DataOK'
    <3> HIDE DEF AckDelivery, RejectDelivery
    <3> QED
      BY <2>2, <2>3 DEF TypeOK, DataOK, Steps
  <2> QED
    BY <2>1, <2>4, Zenon DEF TypeOK, FlagsOK, DataOK
<1>3. HandlerInv'
  BY DEF HandlerInv, PendingBy, MongoStep
<1>4. DeliveryInv'
  BY <1>1 DEF DeliveryInv, TypeOK
<1>5. EntriesPaired'
  BY DEF EntriesPaired
<1>6. EntriesAccounted'
  <2> SUFFICES ASSUME NEW m \in Transfer
               PROVE  entries'[m].debit = doubts'[m] + (IF Due(m)' THEN 1 ELSE 0)
    BY DEF EntriesAccounted
  <2>1. m \in Message /\ step' = "idle" /\ (where[m] = "acked" => m # current)
    BY <1>1 DEF Transfer, DeliveryInv
  <2>2. CASE m # current
    BY <1>1, <2>1, <2>2 DEF EntriesAccounted, Due, TypeOK
  <2>3. CASE m = current
    BY <1>1, <2>1, <2>3 DEF EntriesAccounted, Due, TypeOK
  <2> QED
    BY <2>2, <2>3
<1> QED
  BY <1>2, <1>3, <1>4, <1>5, <1>6
-----------------------------------------------------------------------------
LEMMA NextLedgerInv ==
  ASSUME LedgerInv, [Next]_vars
  PROVE  LedgerInv'
<1>1. CASE UNCHANGED vars
  BY <1>1 DEF vars, LedgerInv, TypeOK, HandlerInv, DeliveryInv, EntriesPaired,
    EntriesAccounted, Due
<1>2. CASE StartFails \/ ShutdownEnds \/ Crash
  <2>1. ExitProcess /\ faults' \in 0 .. MaxFaults
    BY <1>2, BoundAssumption DEF StartFails, ShutdownEnds, Crash, Fault, LedgerInv, TypeOK
  <2> QED
    BY <2>1, ExitLedgerInv
<1>3. CASE StartProcess \/ BindQueue \/ Subscribe \/ StopConsumer \/ ConsumerEnds
  BY <1>3, LifecycleLedgerInv
<1>4. ASSUME NEW m \in Message,
             \/ CommitTransfer(m) \/ PublishEvent(m) \/ PublishForeign(m)
             \/ Deliver(m) \/ Take(m)
      PROVE  LedgerInv'
  BY <1>4, QueueLedgerInv, TakeLedgerInv
<1>5. CASE Handle \/ OperationFails \/ CommitUnacknowledged
  BY <1>5, AttemptLedgerInv, CommitLedgerInv, SettleLedgerInv DEF Handle
<1>6. CASE ConnectionLost \/ BrokerRestarts
  BY <1>6, BrokerLedgerInv
<1> QED
  BY <1>1, <1>2, <1>3, <1>4, <1>5, <1>6 DEF Next

(* What handleMessage, the open MongoDB transaction and the broker know of *)
(* a delivery agrees at every step.                                        *)
THEOREM LedgerInvariant == Spec => []LedgerInv
<1> QED
  BY InitLedgerInv, NextLedgerInv, PTL DEF Spec

(* Every variable keeps its type, the counters their bounds: handleMessage *)
(* makes no more attempts than RetryMongoOperation allows.                 *)
THEOREM TypesHold == Spec => []TypeOK
<1>1. LedgerInv => TypeOK
  BY DEF LedgerInv
<1> QED
  BY <1>1, LedgerInvariant, PTL

(* Whatever fails between the two inserts and however often they are       *)
(* repeated, a transfer has as many debits as credits.                     *)
THEOREM EntriesComeInPairs == Spec => []EntriesPaired
<1>1. LedgerInv => EntriesPaired
  BY DEF LedgerInv
<1> QED
  BY <1>1, LedgerInvariant, PTL

(* Acknowledged means entered, and the pairs of a transfer beyond the      *)
(* first are exactly the acknowledgements that were lost.                  *)
THEOREM EntriesCounted == Spec => []EntriesAccounted
<1>1. LedgerInv => EntriesAccounted
  BY DEF LedgerInv
<1> QED
  BY <1>1, LedgerInvariant, PTL
-----------------------------------------------------------------------------
(* Every step but a restart of the broker leaves a queued message queued,  *)
(* or acknowledges it.                                                     *)
LEMMA StepKeepsQueued ==
  ASSUME LedgerInv, [Next]_vars, NEW m \in Message,
         where[m] \in {"ready", "unacked"}, where'[m] = "lost"
  PROVE  BrokerRestarts
<1>1. CASE UNCHANGED where
  BY <1>1
<1>2. CASE StartFails \/ ShutdownEnds \/ Crash
  BY <1>2 DEF StartFails, ShutdownEnds, Crash, ExitProcess
<1>3. CASE StartProcess \/ BindQueue \/ Subscribe \/ StopConsumer \/ ConsumerEnds
  BY <1>1, <1>3 DEF StartProcess, BindQueue, Subscribe, StopConsumer, ConsumerEnds,
    brokerVars
<1>4. ASSUME NEW n \in Message,
             \/ CommitTransfer(n) \/ PublishEvent(n) \/ PublishForeign(n)
             \/ Deliver(n) \/ Take(n)
      PROVE  BrokerRestarts
  BY <1>4 DEF CommitTransfer, PublishEvent, PublishForeign, Deliver, Take, Move, brokerVars
<1>5. CASE Handle \/ OperationFails \/ CommitUnacknowledged
  <2>1. CASE AckDelivery \/ RejectDelivery
    BY <2>1 DEF AckDelivery, RejectDelivery, Move
  <2> QED
    BY <1>1, <1>5, <2>1 DEF Handle, StartSession, InsertDebit, InsertCredit,
      CommitEntries, MongoRefuses, OperationFails, CommitUnacknowledged, outside, brokerVars
<1>6. CASE ConnectionLost
  BY <1>6 DEF ConnectionLost, Move, At
<1> QED
  BY <1>1, <1>2, <1>3, <1>4, <1>5, <1>6 DEF Next, vars

(* No failure of MongoDB, end of the process or loss of the connection     *)
(* takes an unacknowledged message out of the queue.                       *)
THEOREM QueuedIsKept == Spec => OnlyRestartLoses
<1>1. LedgerInv /\ [Next]_vars =>
        [(\E m \in Message : where[m] \in {"ready", "unacked"} /\ where'[m] = "lost")
           => BrokerRestarts]_vars
  BY StepKeepsQueued
<1> QED
  BY <1>1, LedgerInvariant, PTL DEF Spec, OnlyRestartLoses
-----------------------------------------------------------------------------
(* The deliveries the client has, as the broker counts them.               *)
Held == IF channel THEN buffer \cup ({current} \ {None}) ELSE {}

(* Steps that the queue has no part in.                                    *)
LEMMA QuietHeld ==
  ASSUME LedgerInv, NothingStranded, channel' = channel, Held' = Held,
         \A m \in Message : where'[m] = "unacked" <=> where[m] = "unacked"
  PROVE  NothingStranded'
  BY DEF NothingStranded, Held, At

(* The channel is closed, and the broker takes everything back.            *)
LEMMA ClosedHeld ==
  ASSUME ~channel', \A m \in Message : where'[m] # "unacked"
  PROVE  NothingStranded'
  BY DEF NothingStranded, At

LEMMA NextNothingStranded ==
  ASSUME LedgerInv, NothingStranded, [Next]_vars
  PROVE  NothingStranded'
<1>1. CASE UNCHANGED vars
  BY <1>1 DEF vars, NothingStranded, At
<1>2. CASE StartFails \/ ShutdownEnds \/ Crash
  BY <1>2, ClosedHeld DEF StartFails, ShutdownEnds, Crash, ExitProcess
<1>3. CASE ConnectionLost \/ BrokerRestarts
  BY <1>3, ClosedHeld DEF ConnectionLost, BrokerRestarts, Move, At
<1>4. CASE StartProcess
  <2>1. where' = where /\ At("unacked") = {}
    BY <1>4 DEF StartProcess, NothingStranded, LedgerInv, HandlerInv
  <2>2. buffer' = {} /\ current' = None
    BY <1>4 DEF StartProcess, handlerVars, LedgerInv, HandlerInv, DeliveryInv
  <2> QED
    BY <2>1, <2>2 DEF NothingStranded, At
<1>5. CASE \/ BindQueue \/ Subscribe \/ StopConsumer \/ ConsumerEnds
           \/ OperationFails \/ CommitUnacknowledged
           \/ StartSession \/ InsertDebit \/ InsertCredit \/ CommitEntries \/ MongoRefuses
  <2>1. UNCHANGED <<where, channel, buffer, current>>
    BY <1>5 DEF BindQueue, Subscribe, StopConsumer, ConsumerEnds, OperationFails,
      CommitUnacknowledged, StartSession, InsertDebit, InsertCredit, CommitEntries,
      MongoRefuses, outside, brokerVars, clientVars, handlerVars
  <2> QED
    BY <2>1, QuietHeld DEF Held
<1>6. ASSUME NEW m \in Message,
             CommitTransfer(m) \/ PublishEvent(m) \/ PublishForeign(m)
      PROVE  NothingStranded'
  <2>1. UNCHANGED <<channel, buffer, current>>
    BY <1>6 DEF CommitTransfer, PublishEvent, PublishForeign, clientVars, handlerVars
  <2>2. \A n \in Message : where'[n] = "unacked" <=> where[n] = "unacked"
    BY <1>6 DEF CommitTransfer, PublishEvent, PublishForeign, Move
  <2> QED
    BY <2>1, <2>2, QuietHeld DEF Held
<1>7. ASSUME NEW m \in Message, Deliver(m)
      PROVE  NothingStranded'
  <2>1. /\ channel /\ channel' /\ current' = current /\ buffer' = buffer \cup {m}
        /\ \A n \in Message : where'[n] = IF n = m THEN "unacked" ELSE where[n]
    BY <1>7 DEF Deliver, Move, handlerVars
  <2>2. At("unacked")' = At("unacked") \cup {m}
    BY <2>1 DEF At
  <2> QED
    BY <2>1, <2>2 DEF NothingStranded
<1>8. ASSUME NEW m \in Message, Take(m)
      PROVE  NothingStranded'
  <2>1. /\ buffer' = buffer \ {m} /\ current = None /\ current' = m /\ m \in buffer
        /\ channel' = channel /\ where' = where
    BY <1>8 DEF Take, brokerVars
  <2>2. m # None
    BY MessageAssumption
  <2>3. Held' = Held
    BY <2>1, <2>2 DEF Held
  <2> QED
    BY <2>1, <2>3, QuietHeld
<1>9. CASE AckDelivery \/ RejectDelivery
  <2>1. /\ UNCHANGED <<channel, buffer>> /\ current' = None
        /\ current \in Message /\ current # None
    BY <1>9 DEF AckDelivery, RejectDelivery, HandlerEnds, clientVars, LedgerInv,
      HandlerInv, TypeOK
  <2>2. /\ channel => \A n \in Message :
             where'[n] = "unacked" <=> where[n] = "unacked" /\ n # current
        /\ ~channel => \A n \in Message : where'[n] = where[n]
    BY <1>9, <2>1 DEF AckDelivery, RejectDelivery, Move, LedgerInv, TypeOK
  <2>3. current \notin buffer
    BY DEF LedgerInv, DeliveryInv
  <2>4. CASE channel
    <3>1. At("unacked")' = At("unacked") \ {current}
      BY <2>2, <2>4 DEF At
    <3> QED
      BY <2>1, <2>3, <2>4, <3>1 DEF NothingStranded
  <2>5. CASE ~channel
    BY <2>1, <2>2, <2>5 DEF NothingStranded, At
  <2> QED
    BY <2>4, <2>5
<1> QED
  BY <1>1, <1>2, <1>3, <1>4, <1>5, <1>6, <1>7, <1>8, <1>9 DEF Next, Handle

(* Whatever breaks or ends between a delivery and its acknowledgement, the *)
(* broker has the message unacknowledged exactly as long as the client has *)
(* it: what is neither acknowledged nor lost is there to be entered.       *)
THEOREM DeliveriesAtHand == Spec => []NothingStranded
<1>1. Init => NothingStranded
  BY DEF Init, NothingStranded, At
<1>2. LedgerInv /\ NothingStranded /\ [Next]_vars => NothingStranded'
  BY NextNothingStranded
<1> QED
  BY <1>1, <1>2, LedgerInvariant, PTL DEF Spec
-----------------------------------------------------------------------------
(* The books, as the refinement maps them.                                 *)
Made    == {m \in Transfer : where[m] # "unsent"}
Settled == {m \in Transfer : where[m] = "acked"}

BooksKept == UNCHANGED <<Made, Settled, entries>>

(* A message that moves between the broker's places is the same transfer.  *)
LEMMA MovesKeepBooks ==
  ASSUME entries' = entries,
         \A m \in Transfer : /\ where'[m] = "unsent" <=> where[m] = "unsent"
                             /\ where'[m] = "acked" <=> where[m] = "acked"
  PROVE  BooksKept
  BY DEF BooksKept, Made, Settled

LEMMA ExitKeepsBooks ==
  ASSUME LedgerInv, StartFails \/ ShutdownEnds \/ Crash
  PROVE  BooksKept
<1>1. /\ entries' = entries
      /\ where' = [m \in Message |-> CASE where[m] = "committed" -> "lost"
                                       [] where[m] = "unacked"   -> "ready"
                                       [] OTHER -> where[m]]
  BY DEF StartFails, ShutdownEnds, Crash, ExitProcess
<1>2. Transfer \subseteq Message
  BY DEF Transfer
<1> QED
  BY <1>1, <1>2, MovesKeepBooks

LEMMA BrokerKeepsBooks ==
  ASSUME LedgerInv,
         \/ ConnectionLost \/ BrokerRestarts \/ RejectDelivery
         \/ \E m \in Message : PublishEvent(m) \/ PublishForeign(m) \/ Deliver(m)
  PROVE  BooksKept
<1>1. Transfer \subseteq Message
  BY DEF Transfer
<1>2. ASSUME NEW M, NEW place \in Places \ {"unsent", "acked"}, entries' = entries,
             Move(M, place),
             \A m \in M \cap Transfer : where[m] \notin {"unsent", "acked"}
      PROVE  BooksKept
  BY <1>1, <1>2, MovesKeepBooks DEF Places, Move
<1>3. CASE ConnectionLost \/ BrokerRestarts
  <2>1. \A m \in At("ready") \cup At("unacked") : where[m] \notin {"unsent", "acked"}
    BY DEF At
  <2>2. /\ entries' = entries
        /\ Move(At("unacked"), "ready") \/ Move(At("ready") \cup At("unacked"), "lost")
    BY <1>3 DEF ConnectionLost, BrokerRestarts, ledgerVars
  <2> QED
    BY <1>2, <2>1, <2>2 DEF Places
<1>4. CASE RejectDelivery
  <2>1. /\ entries' = entries
        /\ Move(IF channel THEN {current} ELSE {}, "ready")
    BY <1>4 DEF RejectDelivery, ledgerVars
  <2>2. channel => where[current] = "unacked"
    BY <1>4 DEF RejectDelivery, LedgerInv, DeliveryInv, HandlerInv
  <2>3. \A m \in (IF channel THEN {current} ELSE {}) \cap Transfer :
          where[m] \notin {"unsent", "acked"}
    BY <2>2
  <2> QED
    BY <1>2, <2>1, <2>3 DEF Places
<1>5. ASSUME NEW m \in Message, PublishEvent(m) \/ PublishForeign(m) \/ Deliver(m)
      PROVE  BooksKept
  <2>1. entries' = entries
    BY <1>5 DEF PublishEvent, PublishForeign, Deliver, ledgerVars
  <2>2. \E place \in {"ready", "lost", "unacked"} : Move({m}, place)
    BY <1>5 DEF PublishEvent, PublishForeign, Deliver
  <2>3. m \in Transfer => where[m] \notin {"unsent", "acked"}
    BY <1>5 DEF PublishEvent, PublishForeign, Deliver
  <2> QED
    BY <1>2, <2>1, <2>2, <2>3 DEF Places
<1> QED
  BY <1>3, <1>4, <1>5

(* A commit in MongoDB, acknowledged or not, enters one pair for a         *)
(* transfer that is not settled.                                           *)
LEMMA CommitEnters ==
  ASSUME LedgerInv, CommitEntries \/ CommitUnacknowledged
  PROVE  \E m \in Transfer : B!Enter(m)
<1>1. /\ current \in Transfer /\ current # None
      /\ pending = {"debit", "credit"} /\ where' = where
  BY MessageAssumption
     DEF CommitEntries, CommitUnacknowledged, LedgerInv, HandlerInv, PendingBy,
         MongoStep, Transfer, outside, brokerVars
<1>2. entries' = [entries EXCEPT ![current].debit = @ + 1, ![current].credit = @ + 1]
  BY <1>1 DEF CommitEntries, CommitUnacknowledged, Persist
<1>3. where[current] \notin {"unsent", "acked"}
  BY <1>1 DEF LedgerInv, DeliveryInv
<1>4. PICK m \in Transfer : m = current
  BY <1>1
<1>5. B!Enter(m)
  BY <1>1, <1>2, <1>3, <1>4 DEF B!Enter
<1> QED
  BY <1>5

(* An acknowledgement that reaches the broker settles a transfer that has  *)
(* its entries.                                                            *)
LEMMA AckSettles ==
  ASSUME LedgerInv, AckDelivery
  PROVE  BooksKept \/ \E m \in Transfer : B!Settle(m)
<1>1. /\ current # None /\ current \in Message /\ step = "ack"
      /\ entries' = entries /\ Transfer \subseteq Message
  BY DEF AckDelivery, LedgerInv, HandlerInv, TypeOK, Transfer
<1>2. CASE ~channel
  <2>1. where' = where
    BY <1>2 DEF AckDelivery
  <2> QED
    BY <1>1, <2>1, MovesKeepBooks
<1>3. CASE channel
  <2>1. /\ where[current] = "unacked"
        /\ where' = [m \in Message |-> IF m \in {current} THEN "acked" ELSE where[m]]
    BY <1>1, <1>3 DEF LedgerInv, DeliveryInv, AckDelivery, Move
  <2>2. CASE current \notin Transfer
    BY <1>1, <2>1, <2>2, MovesKeepBooks
  <2>3. CASE current \in Transfer
    <3>1. entries[current].debit = doubts[current] + 1 /\ doubts[current] \in Nat
      BY <1>1, <2>3 DEF LedgerInv, EntriesAccounted, Due, TypeOK
    <3>2. entries[current].debit > 0
      BY <3>1
    <3>3. Settled' = Settled \cup {current} /\ Made' = Made
      BY <1>1, <2>1, <2>3 DEF Settled, Made
    <3>4. current \in Made \ Settled
      BY <2>1, <2>3 DEF Made, Settled
    <3>5. PICK m \in Transfer : m = current
      BY <2>3
    <3>6. B!Settle(m)
      BY <1>1, <3>2, <3>3, <3>4, <3>5 DEF B!Settle, Made, Settled
    <3> QED
      BY <3>6
  <2> QED
    BY <2>2, <2>3
<1> QED
  BY <1>2, <1>3

LEMMA StepKeepsBooks ==
  ASSUME LedgerInv, [Next]_vars
  PROVE  B!Next \/ BooksKept
<1>1. ASSUME UNCHANGED <<where, entries>>
      PROVE  BooksKept
  BY <1>1, MovesKeepBooks
<1>2. CASE StartFails \/ ShutdownEnds \/ Crash
  BY <1>2, ExitKeepsBooks
<1>3. CASE StartProcess \/ BindQueue \/ Subscribe \/ StopConsumer \/ ConsumerEnds
  BY <1>1, <1>3 DEF StartProcess, BindQueue, Subscribe, StopConsumer, ConsumerEnds,
    brokerVars, ledgerVars
<1>4. ASSUME NEW m \in Message, CommitTransfer(m)
      PROVE  B!Next
  <2>1. m \in Transfer /\ m \notin Made /\ entries' = entries
    BY <1>4 DEF CommitTransfer, Made, ledgerVars
  <2>2. Made' = Made \cup {m} /\ Settled' = Settled
    BY <1>4 DEF CommitTransfer, Move, Made, Settled, Transfer
  <2>3. B!Make(m)
    BY <2>1, <2>2 DEF B!Make, Made, Settled
  <2> QED
    BY <2>1, <2>3 DEF B!Next
<1>5. ASSUME NEW m \in Message, PublishEvent(m) \/ PublishForeign(m) \/ Deliver(m)
      PROVE  BooksKept
  BY <1>5, BrokerKeepsBooks
<1>6. ASSUME NEW m \in Message, Take(m)
      PROVE  BooksKept
  BY <1>1, <1>6 DEF Take, brokerVars, ledgerVars
<1>7. CASE CommitEntries \/ CommitUnacknowledged
  BY <1>7, CommitEnters DEF B!Next
<1>8. CASE AckDelivery
  BY <1>8, AckSettles DEF B!Next
<1>9. CASE RejectDelivery \/ ConnectionLost \/ BrokerRestarts
  BY <1>9, BrokerKeepsBooks
<1>10. CASE StartSession \/ InsertDebit \/ InsertCredit \/ MongoRefuses \/ OperationFails
  BY <1>1, <1>10 DEF StartSession, InsertDebit, InsertCredit, MongoRefuses,
    OperationFails, outside, brokerVars, ledgerVars
<1>11. CASE UNCHANGED vars
  BY <1>1, <1>11 DEF vars
<1> QED
  BY <1>2, <1>3, <1>4, <1>5, <1>6, <1>7, <1>8, <1>9, <1>10, <1>11 DEF Next, Handle

(* The queue, the consumer and the collection keep books: entries are made *)
(* in whole pairs, for a transfer that is committed and not acknowledged,  *)
(* and only a transfer that has entries is acknowledged.                   *)
THEOREM BookkeepingImplemented == Spec => ImplementsBookkeeping
<1>1. Init => B!Init
  BY DEF Init, B!Init, Transfer
<1>2. LedgerInv /\ [Next]_vars =>
        [B!Next]_<<{m \in Transfer : where[m] # "unsent"},
                   {m \in Transfer : where[m] = "acked"}, entries>>
  BY StepKeepsBooks DEF BooksKept, Made, Settled
<1> QED
  BY <1>1, <1>2, LedgerInvariant, PTL DEF Spec, ImplementsBookkeeping, B!Spec
=============================================================================
