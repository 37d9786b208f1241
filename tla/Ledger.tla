------------------------------- MODULE Ledger -------------------------------
(***************************************************************************)
(* The way of a transfer's event from CreateTransaction over the RabbitMQ  *)
(* queue "dbank.transactions.consumer" and the consumer goroutine to the   *)
(* "ledgers" collection of MongoDB.                                        *)
(*                                                                         *)
(* The process opens one connection with one channel, publishes and        *)
(* consumes on it, and never opens another.  The queue is durable, its     *)
(* messages are not.  No prefetch limit is set, so that the broker pushes  *)
(* whatever is ready; it redelivers what was unacknowledged when the       *)
(* channel closed, or was rejected.  Redelivery reorders the messages,     *)
(* and nothing here depends on their order: the ready messages and those   *)
(* in the client's buffer are sets.                                        *)
(***************************************************************************)
EXTENDS Naturals

CONSTANTS
  Message,      \* messages that reach the exchange "transactions"
  Kind,         \* what each of them is
  MaxAttempts,  \* maxRetries of RetryMongoOperation
  MaxFaults,    \* bound on the faults and restarts of a behaviour
  None          \* no message

(* A transfer's event comes from CreateTransaction.  The queue is bound    *)
(* with "#", so that it also gets what others publish: with the failure    *)
(* route, with a route no handler is registered for, or with a body that   *)
(* is no event.                                                            *)
Kinds == {"transfer", "failure", "unrouted", "garbage"}

ASSUME MessageAssumption == Kind \in [Message -> Kinds] /\ None \notin Message
ASSUME BoundAssumption   == MaxAttempts \in Nat \ {0} /\ MaxFaults \in Nat

Transfer == {m \in Message : Kind[m] = "transfer"}

(* The routing keys, "" for any that nothing is registered for.            *)
Routes == {"transaction.success", "transaction.failure", ""}

(* Mutant: a handler is only registered for a route that has none.         *)
FirstRegistered ==
  [[r \in Routes |-> "none"] EXCEPT !["transaction.success"] = "process",
                                    !["transaction.failure"] = "process"]

(* NewServer registers three handlers for two routes.  The last one of a   *)
(* route is the only one: ProcessSuccessfulTransaction is never called.    *)
Handlers ==
  [[r \in Routes |-> "none"] EXCEPT !["transaction.success"] = "process",
                                    !["transaction.failure"] = "process",
                                    !["transaction.success"] = "ledger"]

Route(m) == CASE Kind[m] \in {"transfer", "garbage"} -> "transaction.success"
              [] Kind[m] = "failure"                 -> "transaction.failure"
              [] OTHER                               -> ""

VARIABLES
  where,     \* each message, as PostgreSQL (committed) and the broker know it
  entries,   \* committed documents of each message in "ledgers"
  pending,   \* entries inserted in the session's open transaction
  bound,     \* the queue is declared and bound
  channel,   \* the process's AMQP channel is open
  consumer,  \* the process and its consumer goroutine
  stopping,  \* Consumer.Stop was called
  buffer,    \* deliveries the consumer has not taken yet
  current,   \* the delivery handleMessage is at
  step,      \* what it does next
  attempt,   \* RetryMongoOperation's counter
  mongo,     \* the client is connected, to a deployment with transactions
  faults,    \* faults and restarts so far
  doubts     \* history: entries made whose acknowledgement then got lost

vars == <<where, entries, pending, bound, channel, consumer, stopping, buffer,
          current, step, attempt, mongo, faults, doubts>>

Places    == {"unsent", "committed", "ready", "unacked", "acked", "lost"}
Phases    == {"down", "off", "bound", "on", "ended"}
MongoStep == {"session", "debit", "credit", "commit"}
Steps     == MongoStep \cup {"idle", "ack", "reject"}

TypeOK ==
  /\ where    \in [Message -> Places]
  /\ entries  \in [Message -> [debit : Nat, credit : Nat]]
  /\ pending  \in SUBSET {"debit", "credit"}
  /\ bound    \in BOOLEAN
  /\ channel  \in BOOLEAN
  /\ consumer \in Phases
  /\ stopping \in BOOLEAN
  /\ buffer   \in SUBSET Message
  /\ current  \in Message \cup {None}
  /\ step     \in Steps
  /\ attempt  \in 0 .. MaxAttempts
  /\ mongo    \in BOOLEAN
  /\ faults   \in 0 .. MaxFaults
  /\ doubts   \in [Message -> Nat]

Init ==
  /\ where    = [m \in Message |-> "unsent"]
  /\ entries  = [m \in Message |-> [debit |-> 0, credit |-> 0]]
  /\ pending  = {}
  /\ bound    = FALSE
  /\ channel  = FALSE
  /\ consumer = "down"
  /\ stopping = FALSE
  /\ buffer   = {}
  /\ current  = None
  /\ step     = "idle"
  /\ attempt  = 0
  /\ mongo    \in BOOLEAN
  /\ faults   = 0
  /\ doubts   = [m \in Message |-> 0]
-----------------------------------------------------------------------------
Move(M, place) == where' = [m \in Message |-> IF m \in M THEN place ELSE where[m]]
At(place)      == {m \in Message : where[m] = place}

brokerVars  == <<where, bound, channel>>
clientVars  == <<consumer, stopping, buffer>>
handlerVars == <<current, step, attempt>>
ledgerVars  == <<entries, pending, doubts>>

Fault == faults < MaxFaults /\ faults' = faults + 1

(* The entries of m are made and the broker will not be told.              *)
Doubt(m) == doubts' = [doubts EXCEPT ![m] = @ + 1]

HandlerEnds == current' = None /\ step' = "idle" /\ attempt' = 0

(* The process ends.  Requests that had committed and not yet published    *)
(* end with it, MongoDB aborts the open transaction, and the broker takes  *)
(* the unacknowledged messages back.                                       *)
ExitProcess ==
  /\ where' = [m \in Message |-> CASE where[m] = "committed" -> "lost"
                                   [] where[m] = "unacked"   -> "ready"
                                   [] OTHER -> where[m]]
  /\ channel' = FALSE
  /\ consumer' = "down" /\ stopping' = FALSE /\ buffer' = {}
  /\ HandlerEnds
  /\ pending' = {}
  /\ \/ step = "ack" /\ current \in Transfer /\ Doubt(current)
     \/ ~(step = "ack" /\ current \in Transfer) /\ UNCHANGED doubts
  /\ UNCHANGED <<entries, bound, mongo>>
-----------------------------------------------------------------------------
(* NewServer: NewRabbitMQClient and EnsureExchange have succeeded.         *)
StartProcess ==
  /\ consumer = "down"
  /\ consumer' = "off" /\ channel' = TRUE
  /\ UNCHANGED <<where, bound, stopping, buffer, handlerVars, ledgerVars, mongo, faults>>

(* Consumer.Start runs in a goroutine of its own, beside the servers that  *)
(* already answer requests.  ConsumeEvents declares and binds the queue    *)
(* and then subscribes.                                                    *)
BindQueue ==
  /\ consumer = "off" /\ channel
  /\ consumer' = "bound" /\ bound' = TRUE
  /\ UNCHANGED <<where, channel, stopping, buffer, handlerVars, ledgerVars, mongo, faults>>

Subscribe ==
  /\ consumer = "bound" /\ channel
  /\ consumer' = "on"
  /\ UNCHANGED <<brokerVars, stopping, buffer, handlerVars, ledgerVars, mongo, faults>>

(* Its error makes Server.Start return, and the process ends.              *)
StartFails ==
  /\ consumer \in {"off", "bound"} /\ ~channel
  /\ ExitProcess /\ UNCHANGED faults

(* Shutdown, once both servers have stopped: the consumer's context is     *)
(* cancelled.                                                              *)
StopConsumer ==
  /\ consumer # "down" /\ ~stopping /\ At("committed") = {}
  /\ Fault
  /\ stopping' = TRUE
  /\ UNCHANGED <<brokerVars, consumer, buffer, handlerVars, ledgerVars, mongo>>

(* Nobody waits for the message under way: the client is closed and the    *)
(* process ends.                                                           *)
ShutdownEnds == stopping /\ ExitProcess /\ UNCHANGED faults

(* consumeMessages returns when its context is done or the deliveries are  *)
(* closed.  Nothing starts it again.                                       *)
ConsumerEnds ==
  /\ consumer = "on" /\ current = None
  /\ stopping \/ ~channel
  /\ consumer' = "ended"
  /\ UNCHANGED <<brokerVars, stopping, buffer, handlerVars, ledgerVars, mongo, faults>>
-----------------------------------------------------------------------------
(* CreateTransaction commits, then publishes.  The exchange drops what no  *)
(* queue is bound for ("mandatory" is false).  A failure to declare the    *)
(* exchange, to encode the event or to publish it is logged, and the       *)
(* transfer answered as a success.                                         *)
CommitTransfer(m) ==
  /\ m \in Transfer /\ where[m] = "unsent"
  /\ consumer # "down" /\ ~stopping
  /\ Move({m}, "committed")
  /\ UNCHANGED <<bound, channel, clientVars, handlerVars, ledgerVars, mongo, faults>>

PublishEvent(m) ==
  /\ where[m] = "committed"
  /\ \/ channel /\ bound /\ Move({m}, "ready")
     \/ Move({m}, "lost")
  /\ UNCHANGED <<bound, channel, clientVars, handlerVars, ledgerVars, mongo, faults>>

(* Another publisher of the exchange.                                      *)
PublishForeign(m) ==
  /\ m \notin Transfer /\ where[m] = "unsent"
  /\ Move({m}, IF bound THEN "ready" ELSE "lost")
  /\ UNCHANGED <<bound, channel, clientVars, handlerVars, ledgerVars, mongo, faults>>

(* Mutant: autoAck is set, a delivery is acknowledged as it is sent.       *)
DeliverAcked(m) ==
  /\ where[m] = "ready" /\ channel /\ consumer = "on"
  /\ Move({m}, "acked")
  /\ buffer' = buffer \cup {m}
  /\ UNCHANGED <<bound, channel, consumer, stopping, handlerVars, ledgerVars, mongo, faults>>

Deliver(m) ==
  /\ where[m] = "ready" /\ channel /\ consumer = "on"
  /\ Move({m}, "unacked")
  /\ buffer' = buffer \cup {m}
  /\ UNCHANGED <<bound, channel, consumer, stopping, handlerVars, ledgerVars, mongo, faults>>

(* The channel is gone, and with it the deliveries in the client's buffer. *)
(* handleMessage is not interrupted.                                       *)
ConnectionLost ==
  /\ channel /\ Fault
  /\ Move(At("unacked"), "ready")
  /\ channel' = FALSE /\ buffer' = {}
  /\ UNCHANGED <<bound, consumer, stopping, handlerVars, ledgerVars, mongo>>

(* The queue is durable, its messages are not published as persistent.     *)
BrokerRestarts ==
  /\ Fault
  /\ Move(At("ready") \cup At("unacked"), "lost")
  /\ channel' = FALSE /\ buffer' = {}
  /\ UNCHANGED <<bound, consumer, stopping, handlerVars, ledgerVars, mongo>>
-----------------------------------------------------------------------------
(* handleMessage: what a message comes to first.  Without a handler it is  *)
(* acknowledged; a body that does not parse is an error in every handler;  *)
(* ProcessFailedTransaction, like the other one, does nothing but log.     *)
FirstStep(m) ==
  LET handler == Handlers[Route(m)]
  IN CASE handler = "none"                            -> "ack"
       [] handler # "none" /\ Kind[m] = "garbage"     -> "reject"
       [] handler = "process" /\ Kind[m] # "garbage"  -> "ack"
       [] handler = "ledger" /\ Kind[m] # "garbage"   -> "session"

Take(m) ==
  /\ consumer = "on" /\ current = None /\ m \in buffer
  /\ buffer' = buffer \ {m}
  /\ current' = m /\ step' = FirstStep(m) /\ attempt' = 1
  /\ UNCHANGED <<brokerVars, consumer, stopping, ledgerVars, mongo, faults>>

outside == <<brokerVars, clientVars, current, mongo>>

StartSession ==
  /\ step = "session"
  /\ step' = "debit"
  /\ UNCHANGED <<outside, attempt, ledgerVars, faults>>

InsertDebit ==
  /\ step = "debit" /\ mongo
  /\ pending' = {"debit"} /\ step' = "credit"
  /\ UNCHANGED <<outside, attempt, entries, doubts, faults>>

(* Mutant: the insert is given ctx, not the session's context.             *)
InsertCreditAtOnce ==
  /\ step = "credit" /\ mongo
  /\ entries' = [entries EXCEPT ![current].credit = @ + 1] /\ step' = "commit"
  /\ UNCHANGED <<outside, attempt, pending, doubts, faults>>

InsertCredit ==
  /\ step = "credit" /\ mongo
  /\ pending' = pending \cup {"credit"} /\ step' = "commit"
  /\ UNCHANGED <<outside, attempt, entries, doubts, faults>>

(* No unique index tells the entries of a second attempt from the first's. *)
Persist ==
  /\ entries' = [entries EXCEPT
       ![current].debit  = @ + (IF "debit"  \in pending THEN 1 ELSE 0),
       ![current].credit = @ + (IF "credit" \in pending THEN 1 ELSE 0)]
  /\ pending' = {}

CommitEntries ==
  /\ step = "commit"
  /\ Persist /\ step' = "ack"
  /\ UNCHANGED <<outside, attempt, doubts, faults>>

(* Mutant: attempt <= maxRetries + 1.                                      *)
RetryOnceMore ==
  \/ attempt <= MaxAttempts /\ step' = "session" /\ attempt' = attempt + 1
  \/ attempt > MaxAttempts  /\ step' = "reject"  /\ UNCHANGED attempt

(* RetryMongoOperation, after an error it retries.                         *)
Retry ==
  \/ attempt < MaxAttempts /\ step' = "session" /\ attempt' = attempt + 1
  \/ attempt = MaxAttempts /\ step' = "reject"  /\ UNCHANGED attempt

(* A network error or timeout is retried, any other error is not; the      *)
(* transaction is aborted.                                                 *)
OperationFails ==
  /\ step \in MongoStep /\ Fault
  /\ pending' = {}
  /\ Retry \/ (step' = "reject" /\ UNCHANGED attempt)
  /\ UNCHANGED <<outside, entries, doubts>>

(* The commit takes effect and its answer is lost on the network.          *)
CommitUnacknowledged ==
  /\ step = "commit" /\ Fault
  /\ Persist /\ Doubt(current) /\ Retry
  /\ UNCHANGED outside

(* A client that was disconnected, or a standalone server, refuses the     *)
(* first operation of a transaction, with an error that is not retried.    *)
MongoRefuses ==
  /\ step = "debit" /\ ~mongo
  /\ step' = "reject"
  /\ UNCHANGED <<outside, attempt, ledgerVars, faults>>

(* An Ack or Reject on a closed channel fails, which is logged.            *)
AckDelivery ==
  /\ step = "ack"
  /\ \/ channel /\ Move({current}, "acked") /\ UNCHANGED doubts
     \/ ~channel /\ current \in Transfer /\ Doubt(current) /\ UNCHANGED where
     \/ ~channel /\ current \notin Transfer /\ UNCHANGED <<where, doubts>>
  /\ HandlerEnds
  /\ UNCHANGED <<bound, channel, clientVars, entries, pending, mongo, faults>>

(* Mutants: Reject(false); the error path returns without a Reject.        *)
RejectDrops ==
  /\ step = "reject"
  /\ Move(IF channel THEN {current} ELSE {}, "lost")
  /\ HandlerEnds
  /\ UNCHANGED <<bound, channel, clientVars, ledgerVars, mongo, faults>>

RejectForgotten ==
  /\ step = "reject"
  /\ HandlerEnds
  /\ UNCHANGED <<brokerVars, clientVars, ledgerVars, mongo, faults>>

RejectDelivery ==
  /\ step = "reject"
  /\ Move(IF channel THEN {current} ELSE {}, "ready")
  /\ HandlerEnds
  /\ UNCHANGED <<bound, channel, clientVars, ledgerVars, mongo, faults>>

Crash == consumer # "down" /\ Fault /\ ExitProcess
-----------------------------------------------------------------------------
Handle ==
  \/ StartSession \/ InsertDebit \/ InsertCredit \/ CommitEntries
  \/ MongoRefuses \/ AckDelivery \/ RejectDelivery

Next ==
  \/ StartProcess \/ BindQueue \/ Subscribe \/ StartFails
  \/ StopConsumer \/ ShutdownEnds \/ ConsumerEnds
  \/ \E m \in Message :
       \/ CommitTransfer(m) \/ PublishEvent(m) \/ PublishForeign(m)
       \/ Deliver(m) \/ Take(m)
  \/ Handle
  \/ OperationFails \/ CommitUnacknowledged
  \/ ConnectionLost \/ BrokerRestarts \/ Crash

Spec == Init /\ [][Next]_vars

(* The goroutines run, and queue and buffer are first in, first out: a     *)
(* message that is at hand again and again is taken.                       *)
Fairness ==
  /\ WF_vars(BindQueue) /\ WF_vars(Subscribe)
  /\ WF_vars(Handle)
  /\ \A m \in Message :
       WF_vars(PublishEvent(m)) /\ SF_vars(Deliver(m)) /\ SF_vars(Take(m))

FairSpec == Spec /\ Fairness
-----------------------------------------------------------------------------
(* A debit and a credit are inserted one after the other, with a failure   *)
(* possible in between and the whole repeated: committed entries come in   *)
(* pairs all the same.                                                     *)
EntriesPaired == \A m \in Message : entries[m].debit = entries[m].credit

(* A transfer has one pair of entries if its event is acknowledged, or     *)
(* about to be, and one more for every time its entries were committed and *)
(* the acknowledgement, MongoDB's or the broker's, got lost.  So nothing   *)
(* is acknowledged without entries, and only a lost acknowledgement        *)
(* doubles them.                                                           *)
Due(m) == where[m] = "acked" \/ (current = m /\ step = "ack")

EntriesAccounted ==
  \A m \in Transfer : entries[m].debit = doubts[m] + (IF Due(m) THEN 1 ELSE 0)

(* The broker waits for acknowledgements of exactly the deliveries that    *)
(* the client has on an open channel, in its buffer or with handleMessage. *)
(* So none is stranded, neither redelivered nor ever settled.              *)
NothingStranded ==
  At("unacked") = IF channel THEN buffer \cup ({current} \ {None}) ELSE {}

(* Once the queue has a message, only a restart of the broker takes it     *)
(* away unacknowledged: no failure of MongoDB, loss of the connection or   *)
(* end of the process does.                                                *)
OnlyRestartLoses == [][
  (\E m \in Message : where[m] \in {"ready", "unacked"} /\ where'[m] = "lost")
    => BrokerRestarts]_vars

(* All of it together keeps books: whatever fails and however often a      *)
(* delivery or an attempt is repeated, entries are made in whole pairs and *)
(* for transfers only, after the transfer's own commit, and neither before *)
(* they are due nor after the acknowledgement.                             *)
B == INSTANCE Bookkeeping WITH
       made    <- {m \in Transfer : where[m] # "unsent"},
       settled <- {m \in Transfer : where[m] = "acked"}

ImplementsBookkeeping == B!Spec

(* While one message is rejected and comes back for ever, every transfer   *)
(* the queue has is still entered, if process, channel and MongoDB stay    *)
(* with it from some time on.                                              *)
Running == consumer = "on" /\ channel /\ ~stopping /\ mongo

EventuallyEntered ==
  <>[]Running =>
    \A m \in Transfer :
      where[m] = "ready" ~> (entries[m].debit > 0 \/ where[m] = "lost")
=============================================================================
