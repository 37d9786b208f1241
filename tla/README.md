# dbank in TLA+

dbank is a small bank: a gRPC service, with an HTTP gateway in front of it, that
creates, updates, deletes and lists accounts and transfers money between them.
Accounts and transactions live in PostgreSQL. A transfer publishes an event over
RabbitMQ; a consumer in the same process enters it as a double entry in MongoDB.

This directory holds TLA+ modules that model the program, TLC configurations
that check them on small instances, and theorems with proofs for TLAPS that hold
on instances of every size.

    tlc -workers 2 -config MCAccountsRows.cfg MCAccounts     # a run
    tlapm AccountsProofs.tla                                 # a proof module

## 1. Inventory

| Component | Source | State | Operations | Module |
|---|---|---|---|---|
| Account service and store | `app/service/accounts.go`, `app/store/store.go` | rows of `dbank_users`, `dbank_accounts` | CreateAccount, GetAccount, UpdateAccount, DeleteAccount | `Accounts`, `Registry` |
| Account listing | the same | none | ListAccounts | `Paging` |
| Transaction service and store | `app/service/transactions.go`, `app/store/store.go:424-569` | rows of `dbank_accounts`, `dbank_transactions` | CreateTransaction, GetTransaction | `Transfers`, `Bank` |
| Transactions over the pool | `pkg/dbx/tx.go`, `pkg/dbx/postgres.go` | pooled connections, open transactions | RunInTx, NewPostgres | `Database`, `Server` |
| Schema | `db/migrations/postgres/*.sql` | the tables and their constraints | one migration | `Database`, `Transfers` |
| Event broker client | `pkg/amqpx` | a connection, a channel, a declared exchange and queue | connect, PublishEvent, ConsumeEvents, Close | `Ledger`, `Server` |
| Consumer and ledger | `app/consumer` | handler per routing key; collection of entries | handle a delivery, Ack or Reject, three attempts of a MongoDB transaction | `Ledger`, `Bookkeeping` |
| Server lifecycle | `app/server.go`, `cmd/serve.go`, `conf/env.go`, `pkg/redisx` | three goroutines, an error channel, clients, signals | NewServer, Start, Shutdown | `Server` |
| Generated gRPC code | `gen/go` | none | routes a request to a service | `Server`, in part |
| Migration command, command line, logging, Swagger UI, helpers | `cmd`, `db`, `pkg/log`, `app/swagger`, `pkg/idx`, `pkg/utils` | - | - | none |

How they interact. Every request runs in its own goroutine. It calls the store,
which runs its statements on the pool or, for CreateAccount, UpdateAccount,
DeleteAccount and CreateTransaction, inside `RunInTx` on one pooled connection.
Handlers meet only in the database: row locks, unique indexes, the pool.
CreateTransaction publishes after its commit, on the channel from which the
consumer goroutine of the same process takes the deliveries one at a time; the
consumer writes to MongoDB. The server opens all of these before it serves and
stops them one after the other.

What is hard, and what makes each component correct:

- **Accounts.** Two tables are written together, `UpdateAccount` reads before its
  transaction and writes all fields in it, deletes only set `deleted_at`, and
  nothing locks a row before its first write. Correct: the tables stay in step,
  names stay unique, deleted means deleted for ever, what is answered with
  success is durable and stays so, every request is answered although
  transactions wait for each other - in short, the service is a table with atomic
  operations (`Registry`).
- **Transfers.** Balances are read on the pool, checked, and written later as
  absolute values, to rows found by another id than the one read. Correct: both
  legs or neither, no transfer overdraws, the exact effect when nobody interferes, an
  event and a success for recorded transfers only, an answer to every request.
- **Broker, consumer, ledger.** Delivery is at least once, publishing is not
  retried, a MongoDB commit whose answer is lost is repeated. Correct: entries
  come in pairs, are never acknowledged before they are made, are doubled only by
  a lost acknowledgement; a queued event survives everything but a restart of the
  broker; a message that cannot be processed does not stop the others.
- **Server.** Deferred disconnects, one unbuffered error channel for three
  goroutines, two listeners to the same signal, a shutdown context derived from a
  cancelled one. Correct: startup ends, a failure or a signal ends the process,
  and no client is closed under a request.
- **Listing.** Offset paging over a table that changes, with unsigned arithmetic. Correct: what is skipped or repeated is
  bounded by what was deleted or created meanwhile.

`PROJECT.json` lists, under "hazards", each of these at its line with the
properties that cover it, or the reason why none does: events that are lost by
design (section 3, Ledger), the signal that nobody keeps (Server), a page number
that wraps around (Paging), and `NaN` (section 2).

## 2. Plan

Done, in this order: `Database` and `Accounts`; `Transfers`; the proofs about
types, pairing and names; `Registry` with the refinement, checked and proved;
`Transfers` with several layouts, commits of the account service and
GetTransaction; `Ledger`; `Server`; `Paging`; the proofs about `Ledger`,
`Transfers`, `Server` and the rest of the properties of `Accounts`; `Bookkeeping`
with its refinement, the proofs about `Paging`, the exact effect of a transfer, and
that neither service comes to a standstill; `Bank` with its refinement, and the
proofs about deliveries and about what a shutdown waits for.

`Accounts` and `Transfers` are not composed state by state. `Accounts` is proved to
implement `Registry` and to commit whole requests only (RequestsWhole), so that any
number of its requests are, to somebody who sees committed rows, atomic updates and
deletes; `Transfers` has those as its action `Edit`, for any balance an update may set, a
negative one too. `Transfers` is proved to implement `Bank`, which knows the accounts
only as a `Registry` and lets the account service do what `Registry!Next` does between
any two steps of a transfer. The other way round, a transfer is for `Accounts` the
instant in which one of its legs is committed: `TransferLeg` puts any balance of the
constant `Settled` in a row that no request has locked.

What this split leaves out is the waiting of one service for the other. `Edit` holds no
lock and no connection between statements, and `TransferLeg` none at all, so the
deadlock and liveness properties (NeverStuck, ReadyGoesOn, EveryRequestAnswered,
EveryTransferAnswered) are of each service by itself. In the program they share one pool, and
rings of locks can pass through both: a transfer that holds account 1 and waits for
account 2, a delete that holds account 2 and waits for user 2, an update that holds
user 2 and waits for a name that another update holds, which waits for account 1.
PostgreSQL breaks such a ring like any other, but no run or theorem here shows it.

`Transfers` and `Ledger` meet in the event: `Transfers` shows that it goes
out after the commit (EventsBacked), and `Ledger` starts at that commit.

Left:

- `NaN` as a balance: `strconv.ParseFloat` accepts it and the column stores it.
  Every balance here is an integer, on which most proofs rest.
- The two services over one set of locks and one pool, as described above.
- `Server` around `Ledger` with more than one process on the same broker: the code
  names a fixed queue, so that several instances would share it.

## 3. The modules and the code

The modules stand on one another as follows.

    Database <- DatabaseProofs
             <- Accounts  <- MCAccounts
             |     |      <- AccountsProofs <- RegistryProofs <- RepliesProofs
             |     \-- INSTANCE Registry
             <- Transfers <- MCTransfers, TransfersProofs
                   \-- INSTANCE Bank --- INSTANCE Registry
    Registry <- Paging    <- MCPaging, PagingProofs
    Ledger   <- MCLedger, LedgerProofs
         \-- INSTANCE Bookkeeping
    Server   <- MCServer, ServerProofs

`AccountsProofs` and `TransfersProofs` also extend `DatabaseProofs`.

Operators that stand before a definition under the comment "Mutant" are the
definition as a plausible bug would have it; `PROJECT.json` says which property
each of them must break.

### Database

`users` and `accounts` are the committed rows. Both tables are indexed by the
user's pk: CreateAccount is the only INSERT into either, and it makes one row in
each. `userWrites[h]` and `accountWrites[h]` are the rows that the transaction of
handler `h` has written and not committed; a row with a pending write is locked.
`open` is the set of handlers inside `RunInTx`; each holds a connection, and
`ConnectionFree` compares their number with the pool's bound.

`pg.Pool.Begin` opens a READ COMMITTED transaction. One statement is one step
(one of them two, see `LockUser`). It reads the committed rows and its own writes (`UserSeen`, `AccountSeen`), waits
for other writers of its row (`UserLockers`, `AccountLockers`), and writes over
the newest committed version of that row. A unique key waits for uncommitted
holders and fails on committed ones (`NameLockers`, `NameTaken`).

Abstractions:

- `username` and `email` are both UNIQUE and updated in the same statement; one
  value stands for the pair. Two requests that agree in one column and differ in
  the other are not told apart from two that agree in both.
- Names, passwords' hashes and ids are model values. `full_name`, `currency`,
  types, times and generated account numbers are left out; a collision of account
  numbers is among the failures of a statement.
- A balance is an integer number of units of the column's last digit,
  `MaxBalance` the column's limit. `Float64` is the round trip a balance makes
  through a Go `float64`: exact up to `FloatExact`, even numbers only above it.
  The first inexact binade is enough to tell the two cases apart.

### Accounts and Registry

`pc[h]` is the next round trip of handler `h` (or the arrival, the answer);
`req`, `existing`, `data`, `details`, `reply` are the handler's variables: the request,
what UpdateAccount read first, the fields merged from the two, what it read back, the
answer.

| Action | Code |
|---|---|
| CreateAccount, UpdateOrDeleteAccount | the checks before the first access, accounts.go:34-87, 167-175 |
| ReadExisting, RejectBalance, ReadMissing, ReadFails, HashFails | Store.GetAccount on the pool, the merge, the parse, the hash, each with its way out |
| BeginTx, BeginFails, Abandon, CommitTx, CommitUnacknowledged, StatementFails | RunInTx |
| InsertUser, InsertAccount | Store.CreateAccount |
| SelectPk, LockUser, UpdateUser, UpdatePassword, UpdateAccountRow, SelectDetails | Store.UpdateAccount |
| SelectPk, DeleteAccountRow, DeleteUserRow | Store.DeleteAccount |
| DeadlockVictim | PostgreSQL's deadlock detector fails one statement of a ring |
| Crash | the process dies with all its requests |
| TransferLeg | the environment: a transfer commits a new balance (store.go:453-481) |

The UPDATE of the user is two steps, for PostgreSQL locks the row before it asks the
index for the name: `LockUser` waits for the row, `UpdateUser` holds it while it waits
for whoever has the name. So two renames can wait for each other crosswise.

A statement that can fail by itself (duplicate name, numeric overflow, deleted user) has that outcome as a disjunct; every other failure - a broken connection,
a cancelled context - is `StatementFails`. `CommitUnacknowledged` is the commit
that is durable and reported as failed. A commit that is still on its way to the
server when the client is answered is not distinguished from one that finished
first.

A balance that the request leaves empty still travels: it is read into a float64,
written back, and may come back changed in its last digit, as balances that transfers
leave (`Settled`) are decimals that need not be the image of a float64.
FreshUpdatesExact says that this is all that an update nobody overtook does to a field
it does not name. RequestsWhole
says which changes of the rows there are at all: the whole of one request, at its
commit, on its own account, or the balance of a transfer's leg.

`Registry` is what the service promises: accounts with unique names, created,
changed and deleted one at a time. Its `Update` may change any account in any way that
keeps the names unique: that the change is what one request asked for, and all of it, is
RequestsWhole's to say, and a transfer's leg is an `Update` as well.
`Accounts!CommittedAccounts` is the refinement mapping: the committed rows, with half an account - a user without its
account row, or deleted without it - mapped to a value that no account of
`Registry` has, so that any commit that leaves half an account is no step of it.
`Registry!Update` is also allowed on a deleted account and leaves it deleted: the
code's update may commit after a delete that its check did not see, and succeeds
on the deleted rows.

### Transfers and Bank

One request per handler, so a handler also names its transfer, its record and
its event. `data[h]` holds the two balances read and then the two to be written.
Amounts may have more decimals than the column, so amounts and `data` count half
units and `Column` rounds them as PostgreSQL does.

| Action | Code |
|---|---|
| Submit | the checks of the request, transactions.go |
| ReadFrom, ReadTo, QueryFails | the two GetAccount calls, the check of the funds and of the ids, the new balances |
| BeginTx, Debit, Credit, InsertRecord, CommitTx, CommitUnacknowledged, StatementFails | Store.CreateTransaction inside RunInTx |
| Publish, PublishFails | the event after the commit; its failure is logged and the transfer a success |
| GetTransaction | the lookup by id, with Internal for a row that is not there |
| Edit | an UpdateAccount or DeleteAccount commits (a step of `Registry`), on a deleted account too: its request may have found the account before. The new balance may be a debt: accounts.go:222 takes "-5" and the column stores it |
| DeadlockVictim, Crash | as in `Accounts` |

GetAccount looks an id up in `dbank_users.id`, the UPDATEs look the same id up in
`dbank_accounts.id`, and an UPDATE that matches no row is a success. What a database
holds in these columns is its `layout`, chosen at the start:

- `FittingLayout` - equal ids in both tables, and a `dbank_transactions` with the
  columns that the INSERT names; rows loaded by other means and a table made by hand.
- `MixedLayout` - one of the rows has the generated id that CreateAccount gives it,
  so that one leg of a transfer has no row.
- `MigratedLayout` - the table of the migration, into which no INSERT of the
  program fits.
- `ProgramLayout` - generated ids throughout and the migration's table: what the
  program alone makes. Run `transfer_schema` shows that no transfer is recorded.

The passing run takes the first three, so that the code after the INSERT is
exercised. `stale` is a history variable: the handlers whose balances were changed
by somebody else after they read them. FreshTransfersExact says of the others what
exactly they do to each account: the sender loses the amount and the receiver gains
it, but for half of a last digit, and no other account changes. An odd half is
dropped at the debit. At the credit it is rounded up, unless the receiver is left
overdrawn: the column rounds half away from zero, so such a receiver is credited half
a digit less. A leg
whose id has no row is left out. Of the transfers in `stale` run
`transfer_lost_update` shows that they make or lose money.

A balance can be negative: the account service stores what a request says. So the claim
is of the transfers, not of the balances. NeverOverdraws says that a transfer never
leaves the account it takes from in debt, stale reads and edits notwithstanding, and
that a debt it leaves elsewhere was there before or, with its payee only, when the
transfer read it. (It may write such an old debt back over an edit that cleared it.)

The rows at the start are what the account service makes: usernames are unique and
a user is deleted with its account (`OwnerAssumption`; `NamesUnique` and `PairingHolds`
prove it of `Accounts`).

`Bank` is what the transaction service promises: a transfer is asked for with an
account to take from and one to give to, reckons the balances it will leave them,
and, if it leaves its payer no debt, moves the money on both accounts at once, when
it is recorded, once or never; it is announced afterwards, once or never. The mapping
takes a row pair for an account of `Registry` if the two rows agree on the deletion,
a request for the rows its UPDATEs will find (`Asked`), and the balances it carries,
rounded as the column does, for its terms. `Bank` leaves open with which balances a
transfer reckons, as the code reads them before its transaction: that is FreshTransfersExact
for those nobody interferes with, and the finding `transfer_lost_update` for the others.

`Ready(h)`, here and in `Accounts`, lists what a handler can wait for: the
transactions that hold its lock and, outside RunInTx, a connection. NeverStuck says
that waiting never closes into a standstill except as a ring of locks, which
PostgreSQL breaks; ReadyGoesOn that the list is complete.

### Ledger

One process with one AMQP connection and one channel, a queue, the consumer
goroutine, and the collection "ledgers". `where[m]` is what PostgreSQL and the
broker know of a message, `current`, `step` and `attempt` are handleMessage and
RetryMongoOperation, `pending` the entries of the open MongoDB transaction,
`entries` the committed ones.

| Action | Code |
|---|---|
| StartProcess, StartFails, Crash, StopConsumer, ShutdownEnds | the process around the consumer; Close waits for nothing |
| BindQueue, Subscribe, ConsumerEnds | Consumer.Start, ConsumeEvents, consumeMessages |
| CommitTransfer, PublishEvent, PublishForeign | the publisher of this process and others |
| Deliver, Take, AckDelivery, RejectDelivery | the delivery, the dispatch by routing key (`FirstStep`, `Handlers`), Ack and Reject with requeue |
| StartSession, InsertDebit, InsertCredit, CommitEntries, OperationFails, CommitUnacknowledged, MongoRefuses | the ledger handler and its retries |
| ConnectionLost, BrokerRestarts | what can happen to the channel and to the messages |

PublishEvent may fail with the channel open, too: it declares the exchange again and
encodes the event first (amqp.go:75-84). An event that is not published, or published
before the queue is bound, is lost for good; that is the code's design, the model has it
and no property forbids it. EntriesAccounted says of such a transfer that it has no entries,
OnlyRestartLoses starts when the queue has the message, and EventuallyEntered speaks
of messages of the queue.

Messages of the kinds "failure", "unrouted" and "garbage" come from other
publishers of the exchange: the queue is bound with "#", and this program publishes
successes only. Messages are not persistent and no prefetch limit is set. `mongo` is
whether the handler's client can run a transaction at all: it cannot when it is
disconnected, which is the case with this server (run `server_ledger_client`), or
when MongoDB is a standalone server as in the repository's compose file. Both values
are explored. The handler works on a context of its own, so stopping the consumer
does not interrupt it. The id of a transfer's event is made of the two account ids
and is not unique, so it cannot tell a second pair of entries from the first;
the history variable `doubts` counts the pairs whose acknowledgement got lost.

`Bookkeeping` is what the ledger promises: transfers are made, then have pairs of
entries made for them at once, and are settled when they have at least one. The
mapping takes a transfer for made once it left the publisher and for settled once its
delivery is acknowledged. `Bookkeeping` allows a second pair before the settlement and
a transfer that is never settled, as the code does both.

### Server

`phase` is where the main goroutine is: the steps of NewServer, Start, the three
stages of Shutdown, the moment after it gave up, and five ends. `open` are the clients, `goroutine` the three that
Start spawns, `active` the requests under way with the server they came to.

| Action | Code |
|---|---|
| ReadConfig ... EnsureLedgerIndexes, ReturnFromNewServer, StartNil | NewServer call by call, with its retry loops and its deferred disconnects, and `serve` going on with a nil server after an error |
| Start, NotifySignals, TakeFailure, TakeSignal | Server.Start |
| Run, RunTooLate, Fails | Serve, ListenAndServe, Consumer.Start |
| Signal, CancelContext | signal.NotifyContext and the channel of signal.Notify |
| AcceptGrpc, AcceptHttp, Answer | requests; the gateway calls the services itself |
| HttpStops, HttpGivesUp, GrpcStops, CloseClients | Server.Shutdown |
| ExitLate | `serve` returns after an error of Shutdown; until then requests go on |

HTTP's Shutdown gives up when the context is done before the last connection is idle:
with a request under way, or with a new connection that has not sent one, which is not
modelled as a request. It may also fail, with no request left, in closing its listener.

A signal that comes after the last use of the context in NewServer and before
signal.Notify reaches nobody: SignalEnds asks nothing of it; the model has
it, and no property covers this hazard.

### Paging

`Paging` extends `Registry`: the accounts change by its atomic steps. `Orders` is
every order that "ORDER BY created_at DESC" allows (times may be equal, and each
query may choose anew), `Offset` the unsigned arithmetic of `(page - 1) * page_size`,
`Readable` what PostgreSQL takes as a bigint. A client walks the pages (`BeginWalk`,
`NextPage`, `QueryFails`) while accounts come and go; `ListAccounts` is any single
request. `created_at` is the time of the creating transaction's start, so a new
account may enter anywhere in the order.

`Half` is 2^63 in the code, so that page, size and offset are numbers below
2 * Half; fewer accounts than `Half` are assumed to exist.

The two bounds hold for distinct times. With equal times PostgreSQL may show one
account twice and another never without any change of the table. A page number so
large that the product wraps around to a small offset shows rows of another page;
only page 0 is always refused. These two are in the model and under no property.

## 4. The runs

Times are with two workers.

| Run | Instance | States | Shows |
|---|---|---|---|
| account_rows | 2 handlers, 2 new users beside the migration's `alice`, 3 names | 0.7 M, 2 min | TypeOK, RowsPaired, UsernamesUnique, NoLeakedTx, OkMeansDurable, DeletedForever, ImplementsRegistry |
| account_updates | 2 handlers, 1 user, 2 names, 2 passwords, balances -4..4, exact to 2, transfers that leave 3 | 1.8 M, 1 min | RequestsWhole, FreshUpdatesExact, PasswordsKept, RepliesWithCommitted |
| account_liveness | 2 handlers, 2 users, 1 name, 2 connections | 0.14 M | NeverStuck, ReadyGoesOn, EveryRequestAnswered |
| transfers | 2 handlers, 2 live accounts and a deleted one, 3 layouts, balances -4..4, 1 edit, to a debt too | 0.29 M, 1 min | TypeOK, EventsBacked, NeverStuck, ReadyGoesOn, NeverOverdraws, BothLegs, FreshTransfersExact, EveryTransferAnswered, ImplementsBank |
| ledger | a transfer and a message of each other kind, 3 faults, 3 attempts | 81 k, 3 min | TypeOK, EntriesPaired, EntriesAccounted, NothingStranded, OnlyRestartLoses, EventuallyEntered, ImplementsBookkeeping |
| server | 2 gRPC requests, 1 HTTP request, 3 and 2 attempts, 2 signals | 6 k | TypeOK, ClientsOutliveRequests, OnlyOverrunCuts, SignalEnds, FailureEnds, StartupEnds |
| paging | 3 accounts, pages of 1 or 2, times 1..3, 8 unsigned numbers (`Half` 4) | 52 k | TypeOK, SkipsOnlyByDeletion, RepeatsOnlyByCreation, PageZeroRefused |

Why the bounds are enough. Two handlers are what the interleavings need: every
property of accounts and transfers is violated, if at all, by a pair of
transactions (a reader and a writer, two writers, two holders of locks the other
wants); any number is covered by the proofs as far as safety goes. Two new users are
needed for a duplicate name and for locks taken in opposite orders; the third name
lets a rename free one that another request takes. `MaxBalance` 4 with `FloatExact` 2
contains exact balances (1), one above the column's limit (6), which an update is refused,
and with the 3 that transfers leave one that a float64 does not carry, so that an update
of other fields changes it. In
`transfers` the amount is one and a half of the last digit, so that it is rounded,
moves something on both sides, and is more than one of the accounts has; an edit to -4
takes the funds away after the check and leaves a debt that one credit does not clear,
and to an account edited to 3 the credit exceeds MaxBalance 4. One edit is enough to make a read stale or an account deleted under a
transfer. The pool has two connections for two handlers, so that nobody waits for one unless a
handler takes a second, which is what the mutants of these properties do; the theorem
`SomebodyGoesOn` covers fewer connections than handlers. Three faults in `ledger` are one for each attempt of the retry loop, or a
lost acknowledgement, a lost channel and a crash in one behaviour. Eight unsigned
numbers have a sign bit and wrap around at the sizes used. Handlers, and users not yet
created, are symmetric: no definition distinguishes them; symmetry is not used where a
run checks liveness. Deadlock is checked where the system cannot stop: handlers of accounts can
always take a new request, and so can the listing. A handler of `transfers` serves
one request, the messages of `ledger` come to an end and the process of `server` does,
hence CHECK_DEADLOCK FALSE there.

Five runs expect a violation; each checks what a comment of the code says:

| Run | Comment | What happens |
|---|---|---|
| account_lost_update | "Update fields that are provided" (accounts.go:187) | an update without a balance writes back the balance it read before, over a concurrent change |
| transfer_lost_update | "deduct ... from sender's", "add ... to receiver's account" (store.go:449-450) | two overlapping transfers both succeed, one of them overwritten; no fault involved (CalmSpec) |
| transfer_schema | "CreateTransaction creates a new transaction" (store.go:443) | the INSERT never fits the migration's table |
| server_ledger_client | "Register MongoDB ledger handler for successful transactions" (server.go:172) | the handler's client is disconnected before the first event is consumed |
| server_shutdown | "Shutdown gracefully shuts down both gRPC and HTTP servers" (server.go:244) | an HTTP request under way makes the shutdown give up at once, and the process ends with the requests of both |

Fairness.

- `Accounts`, `Transfers`: `SF(Work(h))` for each handler: a goroutine that can take
  its next step again and again takes it. Weak fairness would not do, as a lock or
  a connection may be taken and given back between; PostgreSQL's lock queues and the
  pool serve waiters in order of arrival. `WF` of DeadlockVictim: the detector runs
  after `deadlock_timeout`.
- `Ledger`: `WF` of the consumer's own steps and of the publication; `SF` of delivering
  and of taking a message, as the broker's queue and the client's buffer are first in,
  first out, also for a message that comes back. EventuallyEntered has as its premise
  that process, channel and MongoDB stay up from some time on; it is not vacuous, as
  the mutant shows.
- `Server`: `WF` of the main goroutine, of the context's cancellation and of the answer
  to a gRPC request, without which GracefulStop waits for ever. Nothing is assumed of
  HTTP requests, nor that a goroutine gets to run.

No failure, crash, signal or arrival is fair: nothing depends on something going wrong.

## 5. The proofs

Each theorem holds for every value of the constants that the named assumptions
allow: any sets of handlers, users, names, passwords, amounts and messages, every
pool size, column size and number of attempts. `DatabaseProofs` holds the lemmas that
both services need. Transfers are part of what the theorems about `Accounts` allow
(`TransferLeg`, with any balances of the column in `Settled`), and edits of any balance of
the column part of those about `Transfers`.

About `Accounts`, from the assumptions that `Database` and `Accounts` name (balances
and amounts are integers, requests in flight are finitely many and the pool has at
least one connection, `NoRow` and `None` are not data, the migration's users are live
and have different names):

- `AccountsProofs`: `TypesHold`. TypeOK is not inductive: that `InsertUser` writes a
  well-typed row depends on the password having been checked when the request
  arrived, and that an update writes over a row on the row being there since the
  read. `TypeInv` adds, for each handler, what is known at each of its steps
  (`Control`). A step of one handler keeps the others' `Control` because no step
  removes a committed row (`OthersControl`).
- The second part of `AccountsProofs`: `PairingHolds`, `DeletedStaysDeleted`. RowsPaired speaks of
  committed rows only and so cannot be inductive: a commit installs pending ones.
  `PairInv` adds that locks are exclusive, that a transaction has pending exactly
  the rows its statements have reached (`Pending`) with the flag it will install
  (`Flag`: deleted for a delete, the committed flag for an update), and that the
  user of a create belongs to nobody else (`Fresh`). The heart is `CommitPairInv`:
  the committing transaction's flag is the committed one because nobody else could
  commit to that user while it held the row. `QuietStep` deals once with all steps
  that commit nothing, `OnlyCommitWrites` says which those are.
- `RegistryProofs`: first `NamesUnique`. The uncommitted rows reserve their names
  against committed rows and against one another (`NamesReserved`). `IndexFree` gives
  that for a new name from the index; an unchanged name is free because it was unique
  before (`OwnNameFree`), which is why uniqueness and reservation are proved
  together. Then `RegistryImplemented`, the refinement. The initial rows map to the
  empty registry. A step that commits nothing maps to a stutter (`OnlyCommitWrites`),
  a commit to a create, update or delete of the committing request's account
  (`CommitIsOperation`): `PairInv` gives a whole account, `NamesInv` a free name, and
  `DeleteKeeps`, the part that is new, that a delete has pending what is committed
  but for the flag.
- `RepliesProofs`: `TxReturned`, `OkIsDurable`, `WholeRequests`, `FreshUpdates`,
  `RepliesCommitted`, `PasswordsStay`. `ReplyInv` adds to the above, for each handler,
  that it holds a connection exactly inside RunInTx, that an OK has its rows, that the
  details were read after the last write, that what it has pending is what its request
  asks for, field by field and as far as its statements have come (`WholePending`: the
  name, the password, the balance; every other field is the committed one), and that the
  merge is its request's over the first read (`MergedFrom`). RequestsWhole follows at the
  commit, where all statements have been reached (`CommitTakesEffect`), with nobody else
  in between because a row with a pending write is locked; FreshUpdatesExact from it and
  from the merge. A step of one handler keeps the others' part
  (`OthersKeep`) because it leaves their local state alone and cannot commit to a
  row they have locked (`LockedRowStays`). `SomebodyGoesOn` is NeverStuck: who is in
  anybody's way is inside RunInTx (`BlockersOpen`) and so has its connection. If
  nobody is inside, the pool is free and nothing is locked. Otherwise somebody inside
  is free to go on, or they all wait for one another, and the least set of them that
  is closed under waiting is a ring (`RingExists`, by the well-founded order of finite
  sets).

About the other modules:

- `TransfersProofs`: `TypesHold`, `NoOverdraft`, `EventsAreBacked`, `BothLegsOrNone`,
  `FreshAreExact`, `SomebodyGoesOn`, `BankImplemented`.
  `TransferInv` has four parts for each handler: what its checks have established
  (`Control`), that it has pending exactly the legs its statements have reached
  (`Pending`), that the balance it carries for its payer is no debt (`Funds`), and that
  it is recorded before it is announced or answered (`Backed`). `FreshInv` adds that
  what a handler carries is what the committed balances give, unless it is in `stale`.
  NeverOverdraws follows, for the payer, from `Funds` alone, as the column's rounding makes
  no debt of what is none, whatever has become of the account since it was read; for
  the payee from `FreshInv` (`RecordLeavesDebt`), as a credit that leaves a debt was
  reckoned from one. Nothing is assumed of the opening balances, nor of those that the
  account service sets. With the two legs of
  `BothLegsOrNone` and the arithmetic of the column (`ColumnOfLegs`) `FreshInv` gives
  FreshTransfersExact. The attempt to prove it for every opening balance showed the
  case of a receiver that stays overdrawn, which the small instance did not have.
  `SomebodyGoesOn` adds `TxHeld` and is argued as for the accounts.
  `BankImplemented` is the refinement. Its `BankInv` adds that the two
  committed rows of a user agree on the deletion and keep the username they had, so
  that every user is an account of `Registry`, and that a handler which has not
  begun has no request. Submit maps to Ask; ReadFrom and
  ReadTo to Reckon; the commit to Move, on the accounts that `RowOf` names because ids
  are unique and on none where there is no row; Publish to Announce; Edit to a step
  of `Registry`; everything else, faults and locks included, to a stutter. An attempt
  with an Edit of live accounts only showed that the model was narrower than the code,
  in which an update may commit after a delete; the model was corrected.
- `LedgerProofs`: `TypesHold`, `EntriesComeInPairs`, `EntriesCounted`, `QueuedIsKept`,
  `DeliveriesAtHand`, `BookkeepingImplemented`. `LedgerInv`
  adds to the properties where the handler is (`HandlerInv`: what is pending at each
  step, that it is at MongoDB for a transfer only) and what the broker still holds of
  what the client has (`DeliveryInv`): a message in hand is never acknowledged
  already, without which one Ack could count for two pairs of entries. NothingStranded
  is the converse, and inductive with `LedgerInv`: what the broker waits for, the client
  has. It is the safety part of EventuallyEntered, for the consumer's own steps are
  all that is between a message at hand and its Ack or Reject. The refinement
  follows step by step: CommitTransfer maps to Make, the commit of a pair to Enter,
  the Ack of a delivery to Settle, and every other step leaves the books alone.
- `ServerProofs`: `ClientsStayOpen`, `RequestsAreWaitedFor`, `TypesHold`. `ServerInv` says which clients are open
  at each phase and that each stage of the shutdown has left no request at the
  servers before it (`Drained`). OnlyOverrunCuts is inductive with it: the only way to the
  end of an orderly shutdown is CloseClients, when both servers are drained, and a
  process that has ended changes nothing; and HTTP's shutdown gives up an HTTP request
  only under a cancelled context, which stays cancelled, and takes no new one. It is what holds of the comment that
  run `server_shutdown` refutes.

- `PagingProofs`: `TypesHold`, `SkipsBounded`, `RepeatsBounded`, `PageZeroShowsNothing`.
  With distinct times there is one order, in which each account has a `Rank`: how many
  are before it. `PagingInv` counts, at any point of a walk, what can no longer be
  shown or has been left behind although it was there from the start (`Missed`), and
  what was shown and lies ahead again (`Again`). The first are at most as many as the
  deletions (`SkipInv`), the second, with those already shown twice, as the creations
  (`RepeatInv`), for one deletion or creation moves the border by one account.
  Counting is done with cardinalities of finite sets, step by step over what one
  operation adds or removes, not by induction over the table. That page 0 shows
  nothing is arithmetic modulo 2 * Half, with fewer accounts than `Half`.

Only model-checked: the liveness properties EveryRequestAnswered,
EveryTransferAnswered, EventuallyEntered, SignalEnds, FailureEnds and StartupEnds, and
ReadyGoesOn, which speaks of ENABLED: both are beyond the proof system. Every other
property of a passing run is a theorem. NeverStuck and ReadyGoesOn are the safety part
of the liveness of the two services: together they say that no reachable state is a
standstill.

## 6. Not modelled

- `NaN` balances (section 2).
- The ledger's queries and reports (mongo_ledger.go:152-251): they read only, and
  nothing calls them. The encoding of amounts in BSON.
- The answer of GetAccount changes nothing and is one read, which UpdateAccount and
  DeleteAccount also begin with (`ReadExisting`, `ReadMissing`, `ReadFails`).
- The scan helpers of `dbx`, `idx` and `utils`, which nothing calls.
- Tables the migration creates and the program never uses.
- The migration and version commands, logging, Swagger UI: they have no behaviour
  over time. Of the configuration only that it may panic; of the generated gRPC code
  only which server a request comes to and which service it calls.
- More than one process: two servers on one database are two sets of handlers, which
  `Accounts` and `Transfers` do not tell from one (but for the pool and `Crash`, which
  are per process); two consumers of one queue are not modelled.
