----------------------------- MODULE Transfers ------------------------------
(***************************************************************************)
(* TransactionService.CreateTransaction over Store.CreateTransaction.      *)
(* Each handler serves one request, so a handler also names its transfer:  *)
(* the row it inserted into dbank_transactions and the event it published. *)
(*                                                                         *)
(* Both balances are read on the pool before the transaction begins and    *)
(* the new balances are written as absolute values.  GetAccount looks an   *)
(* id up in dbank_users, the two UPDATEs in dbank_accounts: AccountId says *)
(* which account id each user's account row has.  Table says what the      *)
(* INSERT finds of dbank_transactions.  The database a server starts on    *)
(* has one of several layouts of the two.                                  *)
(*                                                                         *)
(* The account service works on the same rows meanwhile: one of its        *)
(* commits is a single step here, as it is in Registry.                    *)
(*                                                                         *)
(* An amount has more digits than a balance: it counts halves of the last  *)
(* digit of DECIMAL(20,6), the coarsest grain at which rounding shows.     *)
(***************************************************************************)
EXTENDS Database, Functions

CONSTANTS
  Owner,      \* rows of dbank_users, by pk
  Opening,    \* rows of dbank_accounts, by user_pk
  Layouts,    \* the account rows' ids and the columns of dbank_transactions
  Amounts,    \* amounts a request may carry, once parsed
  NewBalances,\* balances an UpdateAccount may set, debts too
  MaxEdits,   \* bound on the commits of the account service
  None,       \* an empty id
  Malformed   \* an amount that does not parse, or no currency

Id == User \cup UNION {Range(l.accountId) : l \in Layouts}

ASSUME RowsAssumption ==
  /\ Owner \in [User -> UserRow] /\ Opening \in [User -> AccountRow]
  /\ None \notin Id /\ Malformed \notin Handler
  /\ NewBalances \subseteq BalanceColumn /\ MaxEdits \in Nat

(* The rows are the account service's work: usernames are unique, and a    *)
(* user is deleted with its account (Accounts!UsernamesUnique, RowsPaired).*)
ASSUME OwnerAssumption == \A u, v \in User :
  /\ Owner[u].username = Owner[v].username => u = v
  /\ Owner[u].deleted = Opening[u].deleted

ASSUME AmountAssumption == Amounts \subseteq Int /\ Malformed \notin Amounts

(* Ids are generated, so none is both one user's and another one's row's.  *)
(* Of the table: the columns that exist, those that are NOT NULL without a *)
(* default, and whether the id that RETURNING gives back fits the int, and *)
(* the times the strings, that they are scanned to.                        *)
ASSUME LayoutAssumption == \A l \in Layouts :
  /\ DOMAIN l.accountId = User
  /\ \A u, v \in User : l.accountId[u] \in {v, l.accountId[v]} => u = v
  /\ l.table.columns \subseteq STRING /\ l.table.required \subseteq l.table.columns
  /\ l.table.intId \in BOOLEAN /\ l.table.textTimes \in BOOLEAN

VARIABLES
  layout,    \* the layout of this database
  records,   \* transfers with a committed row in dbank_transactions
  events,    \* transfers whose event the broker accepted
  pc,        \* the next step of each handler
  req,       \* its request
  data,      \* store.TransactionRequest: the new balances, in halves
  reply,     \* gRPC status of the answer
  edits,     \* commits of the account service so far
  stale      \* history: handlers whose balances changed after their reads

vars == <<dbVars, layout, records, events, pc, req, data, reply, edits, stale>>

AccountId == layout.accountId
Table     == layout.table

InTx   == {"debit", "credit", "insertRecord", "commit"}
Labels == InTx \cup {"idle", "readFrom", "readTo", "begin", "publish", "done", "lost"}

Request == [from : Id \cup {None}, to : Id \cup {None},
            amount : Amounts \cup {Malformed}]
Lookup  == Handler \cup {Malformed}
Codes   == {"OK", "InvalidArgument", "Internal"}

ASSUME NoneAssumption ==
  None \notin Codes \cup Request /\ Request \cap Lookup = {}

TypeOK ==
  /\ DatabaseTypeOK
  /\ layout  \in Layouts
  /\ records \in SUBSET Handler
  /\ events  \in SUBSET Handler
  /\ pc      \in [Handler -> Labels]
  /\ req     \in [Handler -> Request \cup Lookup \cup {None}]
  /\ data    \in [Handler -> [from : Int, to : Int]]
  /\ reply   \in [Handler -> Codes \cup {None}]
  /\ edits   \in 0 .. MaxEdits
  /\ stale   \in SUBSET Handler

Init ==
  /\ users    = Owner
  /\ accounts = Opening
  /\ open = {}
  /\ userWrites    = [h \in Handler |-> NoWrites]
  /\ accountWrites = [h \in Handler |-> NoWrites]
  /\ layout \in Layouts
  /\ records = {}
  /\ events  = {}
  /\ pc    = [h \in Handler |-> "idle"]
  /\ req   = [h \in Handler |-> None]
  /\ data  = [h \in Handler |-> [from |-> 0, to |-> 0]]
  /\ reply = [h \in Handler |-> None]
  /\ edits = 0
  /\ stale = {}
-----------------------------------------------------------------------------
Goto(h, label) ==
  /\ pc' = [pc EXCEPT ![h] = label]
  /\ UNCHANGED <<layout, edits>>

Answer(h, code) ==
  /\ Goto(h, "done")
  /\ reply' = [reply EXCEPT ![h] = code]

outputs == <<records, events, stale>>

Refuse(h, code) ==
  Answer(h, code) /\ UNCHANGED <<dbVars, outputs, req, data>>

Proceed(h, label) ==
  Goto(h, label) /\ UNCHANGED <<outputs, req, data, reply>>

Abandon(h) ==
  Rollback(h) /\ Answer(h, "Internal") /\ UNCHANGED <<outputs, req, data>>
-----------------------------------------------------------------------------
Valid(r) ==
  None \notin {r.from, r.to} /\ r.amount # Malformed /\ r.amount > 0

Submit(h) == \E r \in Request :
  /\ pc[h] = "idle"
  /\ \/ /\ Valid(r) /\ Goto(h, "readFrom")
        /\ req' = [req EXCEPT ![h] = r] /\ UNCHANGED reply
     \/ ~Valid(r) /\ Answer(h, "InvalidArgument") /\ UNCHANGED req
  /\ UNCHANGED <<dbVars, outputs, data>>

(* Store.GetAccount, by the user's id.                                     *)
Found(id) == id \in User /\ Live(id)

ReadFrom(h) ==
  /\ pc[h] = "readFrom" /\ ConnectionFree
  /\ \/ /\ Found(req[h].from)
        /\ data' = [data EXCEPT ![h].from =
                      2 * Float64(accounts[req[h].from].balance)]
        /\ Goto(h, "readTo")
        /\ UNCHANGED <<dbVars, outputs, req, reply>>
     \/ ~Found(req[h].from) /\ Refuse(h, "Internal")

(* Mutant: the credit starts from the sender's balance.                    *)
ReadToConfused(h) ==
  /\ pc[h] = "readTo" /\ ConnectionFree
  /\ Found(req[h].to)
  /\ data[h].from >= req[h].amount /\ req[h].from # req[h].to
  /\ data' = [data EXCEPT ![h].from = @ - req[h].amount,
                          ![h].to = data[h].from + req[h].amount]
  /\ Goto(h, "begin")
  /\ UNCHANGED <<dbVars, outputs, req, reply>>

(* The second read, then the check of the funds and of the two ids.        *)
ReadTo(h) ==
  LET r == req[h]
      funded == data[h].from >= r.amount
  IN /\ pc[h] = "readTo" /\ ConnectionFree
     /\ \/ ~Found(r.to) /\ Refuse(h, "Internal")
        \/ /\ Found(r.to) /\ (~funded \/ r.from = r.to)
           /\ Refuse(h, "InvalidArgument")
        \/ /\ Found(r.to) /\ funded /\ r.from # r.to
           /\ data' = [data EXCEPT ![h].from = @ - r.amount,
                 ![h].to = 2 * Float64(accounts[r.to].balance) + r.amount]
           /\ Goto(h, "begin")
           /\ UNCHANGED <<dbVars, outputs, req, reply>>

(* Any failure of a read, or of the Begin, answers Internal.               *)
QueryFails(h) == pc[h] \in {"readFrom", "readTo", "begin"} /\ Refuse(h, "Internal")

BeginTx(h) == pc[h] = "begin" /\ Begin(h) /\ Proceed(h, "debit")
-----------------------------------------------------------------------------
(* Assigning to DECIMAL(20,6) rounds half away from zero.                  *)
Column(x) == IF x >= 0 THEN (x + 1) \div 2 ELSE -((1 - x) \div 2)

(* The account rows an UPDATE ... WHERE id = ? matches: one or none.       *)
Matched(id) == {u \in User : AccountId[u] = id}

(* Mutant: a numeric field overflow goes unnoticed.                        *)
SetBalanceUnchecked(h, id, x, next) ==
  /\ \A u \in Matched(id) : AccountLockers(h, u) = {}
  /\ accountWrites' = [accountWrites EXCEPT ![h] =
       [u \in User |-> IF u \in Matched(id)
                      THEN [AccountSeen(h, u) EXCEPT !.balance = Column(x)]
                      ELSE accountWrites[h][u]]]
  /\ UNCHANGED <<users, accounts, open, userWrites>>
  /\ Proceed(h, next)

(* An UPDATE that matches nothing succeeds.                                *)
SetBalance(h, id, x, next) ==
  \/ Matched(id) = {} /\ UNCHANGED dbVars /\ Proceed(h, next)
  \/ \E u \in Matched(id) :
       \/ /\ Column(x) \in BalanceColumn
          /\ WriteAccount(h, u, [AccountSeen(h, u) EXCEPT !.balance = Column(x)])
          /\ Proceed(h, next)
       \/ /\ Column(x) \notin BalanceColumn /\ AccountLockers(h, u) = {}
          /\ Abandon(h)

(* Mutant: SET balance = balance - amount, with no second check.           *)
DebitRelative(h) ==
  /\ pc[h] = "debit"
  /\ \E u \in Matched(req[h].from) :
       SetBalance(h, req[h].from,
                  2 * AccountSeen(h, u).balance - req[h].amount, "credit")

Debit(h) ==
  /\ pc[h] = "debit"
  /\ SetBalance(h, req[h].from, data[h].from, "credit")

(* Mutant: the error of the second UPDATE is dropped, and it did nothing.  *)
CreditSkipped(h) ==
  /\ pc[h] = "credit"
  /\ UNCHANGED dbVars /\ Proceed(h, "insertRecord")

Credit(h) ==
  /\ pc[h] = "credit"
  /\ SetBalance(h, req[h].to, data[h].to, "insertRecord")

InsertColumns == {"from_account_id", "to_account_id", "transaction_type",
                  "amount", "currency", "description", "status"}

InsertFits ==
  /\ InsertColumns \subseteq Table.columns
  /\ Table.required \subseteq InsertColumns
  /\ Table.intId

(* Mutant: the INSERT runs on the pool, not in the transaction.            *)
InsertRecordOnPool(h) ==
  /\ pc[h] = "insertRecord" /\ ConnectionFree
  /\ InsertFits /\ UNCHANGED dbVars /\ Proceed(h, "commit")

(* The row is visible to others when its transaction commits.              *)
InsertRecord(h) ==
  /\ pc[h] = "insertRecord"
  /\ \/ InsertFits /\ UNCHANGED dbVars /\ Proceed(h, "commit")
     \/ ~InsertFits /\ Abandon(h)

(* The balances a handler goes by.                                         *)
HasRead(h) ==
  CASE pc[h] = "readTo" -> {req[h].from}
    [] pc[h] \in InTx \cup {"begin"} -> {req[h].from, req[h].to}
    [] OTHER -> {}

Outdated(rows) == {h \in Handler : HasRead(h) \cap rows # {}}

(* Mutant: the event is published inside the transaction.                  *)
PublishThenCommit(h) ==
  /\ pc[h] = "commit"
  /\ events' = events \cup {h}
  /\ \/ Commit(h) /\ records' = records \cup {h}
     \/ Rollback(h) /\ UNCHANGED records
  /\ Answer(h, "OK")
  /\ UNCHANGED <<req, data, stale>>

Record(h) ==
  /\ pc[h] = "commit"
  /\ Commit(h)
  /\ records' = records \cup {h}
  /\ stale' = stale \cup
       (Outdated({u \in User : accountWrites[h][u] # NoRow}) \ {h})
  /\ UNCHANGED <<events, req, data>>

CommitTx(h) == Record(h) /\ Goto(h, "publish") /\ UNCHANGED reply

(* The connection breaks after COMMIT was sent: the transfer is durable,   *)
(* is not published and is answered as failed.                             *)
CommitUnacknowledged(h) == Record(h) /\ Answer(h, "Internal")

StatementFails(h) == pc[h] \in InTx /\ Abandon(h)
-----------------------------------------------------------------------------
(* The event goes out after the commit; when it cannot, the transfer is    *)
(* still answered as a success.                                            *)
Publish(h) ==
  /\ pc[h] = "publish"
  /\ events' = events \cup {h}
  /\ Answer(h, "OK")
  /\ UNCHANGED <<dbVars, records, stale, req, data>>

PublishFails(h) == pc[h] = "publish" /\ Refuse(h, "OK")
-----------------------------------------------------------------------------
(* TransactionService.GetTransaction over Store.GetTransaction, one query  *)
(* by the row's id.  The id that CreateTransaction answers with is the two *)
(* account ids in one: no row has it.  A row that is not there is Internal *)
(* like any error, for the service only looks for a nil without an error.  *)

SelectColumns == (InsertColumns \cup {"id", "created_at", "updated_at", "deleted_at"})

SelectFits == SelectColumns \subseteq Table.columns /\ Table.textTimes

GetTransaction(h) ==
  /\ pc[h] = "idle"
  /\ \/ Refuse(h, "InvalidArgument")
     \/ \E id \in Lookup :
          /\ req' = [req EXCEPT ![h] = id]
          /\ \/ id \in records /\ SelectFits /\ ConnectionFree /\ Answer(h, "OK")
             \/ Answer(h, "Internal")
          /\ UNCHANGED <<dbVars, outputs, data>>
-----------------------------------------------------------------------------
(* An UpdateAccount or a DeleteAccount commits.  Its statements wait for   *)
(* the row's lock, but do not look whether another one has deleted the     *)
(* account since its request found it.  The balance is what the request    *)
(* says, be it a debt.                                                     *)
Edit(u) ==
  /\ edits < MaxEdits /\ edits' = edits + 1 /\ ConnectionFree
  /\ ~Owner[u].deleted /\ \A h \in Handler : accountWrites[h][u] = NoRow
  /\ \/ \E b \in NewBalances :
          /\ accounts' = [accounts EXCEPT ![u].balance = b]
          /\ UNCHANGED users
     \/ /\ accounts' = [accounts EXCEPT ![u].deleted = TRUE]
        /\ users' = [users EXCEPT ![u].deleted = TRUE]
  /\ stale' = stale \cup Outdated({u})
  /\ UNCHANGED <<open, userWrites, accountWrites, layout, records, events, pc,
                 req, data, reply>>
-----------------------------------------------------------------------------
Blockers(h) ==
  CASE pc[h] = "debit"  -> UNION {AccountLockers(h, u) : u \in Matched(req[h].from)}
    [] pc[h] = "credit" -> UNION {AccountLockers(h, u) : u \in Matched(req[h].to)}
    [] OTHER -> {}

WaitRing(S) ==
  /\ S # {}
  /\ \A g \in S : Blockers(g) \cap S # {}
  /\ \A g \in S : \E f \in S : g \in Blockers(f)

(* PostgreSQL breaks a ring by failing one of the statements in it.        *)
DeadlockVictim(h) ==
  /\ \E S \in SUBSET Handler : h \in S /\ WaitRing(S)
  /\ Abandon(h)

Crash ==
  /\ LoseConnections
  /\ pc' = [h \in Handler |-> IF pc[h] \in {"idle", "done"} THEN pc[h] ELSE "lost"]
  /\ UNCHANGED <<layout, outputs, req, data, reply, edits>>
-----------------------------------------------------------------------------
Work(h) ==
  \/ ReadFrom(h) \/ ReadTo(h) \/ BeginTx(h)
  \/ Debit(h) \/ Credit(h) \/ InsertRecord(h) \/ CommitTx(h)
  \/ Publish(h)

Fault(h) ==
  \/ QueryFails(h) \/ StatementFails(h) \/ CommitUnacknowledged(h)
  \/ PublishFails(h)

Next ==
  \/ \E h \in Handler :
       Submit(h) \/ GetTransaction(h) \/ Work(h) \/ Fault(h) \/ DeadlockVictim(h)
  \/ \E u \in User : Edit(u)
  \/ Crash

Spec == Init /\ [][Next]_vars

(* First come, first served in the locks' queues and the pool's.           *)
Fairness ==
  /\ \A h \in Handler : SF_vars(Work(h))
  /\ WF_vars(\E h \in Handler : DeadlockVictim(h))

FairSpec == Spec /\ Fairness

(* Without faults, and with transfers only.                                *)
CalmSpec == Init /\ [][\E h \in Handler : Submit(h) \/ Work(h)]_vars
-----------------------------------------------------------------------------
Sum(row) == LET S[V \in SUBSET User] ==
                  IF V = {} THEN 0
                  ELSE LET u == CHOOSE v \in V : TRUE
                       IN row[u].balance + S[V \ {u}]
            IN S[User]

(* "deduct amount from sender's account, add amount to receiver's          *)
(* account": a transfer moves money and makes or loses none.               *)
MoneyConserved == Sum(accounts) = Sum(Opening)

(* The funds are checked on a read that may be stale when the debit runs;  *)
(* still no transfer, whatever overlaps with it, overdraws the account it  *)
(* takes from.  A debt it leaves is one that was there before: or, for its *)
(* payee, one that was there when the transfer read it, since overwritten. *)
NeverOverdraws == [][
  \A h \in records' \ records, u \in User : accounts'[u].balance < 0 =>
    /\ AccountId[u] # req[h].from
    /\ \/ accounts[u].balance < 0
       \/ AccountId[u] = req[h].to /\ h \in stale]_vars

(* An event is only published of a transfer that committed, and success is *)
(* only answered of one, to whoever made or asks for it, whatever fails in *)
(* between.                                                                *)
EventsBacked ==
  /\ events \subseteq records
  /\ \A h \in Handler :
       reply[h] = "OK" => (IF req[h] \in Handler THEN req[h] ELSE h) \in records

(* Rows change at the account service's commits, and else only by the      *)
(* commit of one transfer that the table has a record of.  It installs     *)
(* both of its balances or neither, where an id has a row, and leaves a    *)
(* deletion that it has overlooked alone.                                  *)
BothLegs == [][
  accounts' # accounts /\ edits' = edits =>
    \E h \in records' \ records :
      accounts' = [u \in User |-> [accounts[u] EXCEPT !.balance =
        IF AccountId[u] = req[h].from THEN Column(data[h].from)
        ELSE IF AccountId[u] = req[h].to THEN Column(data[h].to) ELSE @]]]_vars

(* A transfer whose balances nobody changed since it read them moves its   *)
(* amount, but for half of a last digit: the debit drops it, the credit    *)
(* rounds it up where the receiver is not left overdrawn.  A leg whose id  *)
(* has no row is left out; every other account keeps its balance.          *)
FreshTransfersExact == [][
  \A h \in (records' \ records) \ stale :
    LET r == req[h]
        up(u) == IF 2 * accounts[u].balance + r.amount >= 0 THEN 1 ELSE 0
    IN (\A u \in {r.from, r.to} : Float64(accounts[u].balance) = accounts[u].balance) =>
         accounts' = [u \in User |-> [accounts[u] EXCEPT !.balance =
           IF AccountId[u] = r.from    THEN @ - (r.amount \div 2)
           ELSE IF AccountId[u] = r.to THEN @ + ((r.amount + up(u)) \div 2)
           ELSE @]]]_vars

(* The accounts the rows make up, which are whole or none, and the ones    *)
(* that the UPDATEs of a transfer find.                                    *)
CommittedAccounts ==
  [u \in User |->
     IF users[u].deleted # accounts[u].deleted THEN NoRow
     ELSE [username |-> users[u].username, password |-> users[u].password,
           balance  |-> accounts[u].balance, deleted |-> users[u].deleted]]

RowOf(id) ==
  IF Matched(id) = {} THEN NoRow ELSE CHOOSE u \in User : AccountId[u] = id

Asked ==
  [h \in Handler |->
     IF req[h] \in Request
     THEN [from |-> RowOf(req[h].from), to |-> RowOf(req[h].to)] ELSE NoRow]

(* Two of data's halves make one unit of the column.                       *)
Terms ==
  [h \in Handler |->
     [payer |-> Column(data[h].from), payee |-> Column(data[h].to)]]

B == INSTANCE Bank WITH
       registry <- CommittedAccounts, asked <- Asked, terms <- Terms,
       Transfer <- Handler

ASSUME NoAccountAssumption ==
  NoRow \notin User \cup B!R!Account \cup [from : B!Party, to : B!Party]

(* All of it together is a bank: whatever overlaps, fails and crashes, a   *)
(* transfer takes effect at one commit, on both accounts of its request    *)
(* that there are rows of, once or never, and is announced afterwards if   *)
(* at all; the account service's commits, between any two of its steps,    *)
(* are operations of Registry on the same accounts.                        *)
ImplementsBank == B!Spec

(* What a handler with a request waits for: the transactions in its way    *)
(* and, outside RunInTx, a connection of the pool.                         *)
Ready(h) ==
  /\ pc[h] \notin {"idle", "done", "lost"} /\ Blockers(h) = {}
  /\ pc[h] \in {"readFrom", "readTo", "begin"} => ConnectionFree

(* While a transfer is under way, some handler has nothing to wait for, or *)
(* a ring of them wait for each other's row locks alone, which PostgreSQL  *)
(* breaks: nobody holds on to a lock or to a connection that others need.  *)
NeverStuck ==
  (\E h \in Handler : pc[h] \notin {"idle", "done", "lost"}) =>
    \/ \E h \in Handler : Ready(h)
    \/ \E S \in SUBSET Handler : WaitRing(S)

(* And there is nothing else to wait for: a handler with none of it in its *)
(* way can take its next step, whatever ids it was given and whatever      *)
(* layout the database has.                                                *)
ReadyGoesOn == \A h \in Handler : Ready(h) => ENABLED Work(h)

(* Every request is answered unless the process dies under it.             *)
EveryTransferAnswered ==
  \A h \in Handler : pc[h] # "idle" ~> pc[h] \in {"done", "lost"}
-----------------------------------------------------------------------------
(* "CreateTransaction creates a new transaction": with no fault, a         *)
(* transfer that passed the checks is recorded.                            *)
ChecksPassedMeansRecorded == [][
  \A h \in Handler : pc[h] = "insertRecord" => pc'[h] \in {"insertRecord", "commit"}
  ]_vars
=============================================================================
