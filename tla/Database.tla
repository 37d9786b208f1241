------------------------------ MODULE Database ------------------------------
(***************************************************************************)
(* The PostgreSQL database behind app/store as dbank's handlers see it:    *)
(* the committed rows of dbank_users and dbank_accounts, the connection    *)
(* pool, and the transactions that dbx.RunInTx opens, fills and closes.    *)
(*                                                                         *)
(* pg.Pool.Begin gives a transaction of PostgreSQL's default level, READ   *)
(* COMMITTED: a statement sees the rows committed when it starts and the   *)
(* writes of its own transaction; a row that a transaction has written     *)
(* stays locked against other writers until that transaction ends, and an  *)
(* UPDATE that had to wait applies to the newest committed row.  A         *)
(* statement is one step here.  A transaction holds the lock of exactly    *)
(* the rows it has a pending write for.                                    *)
(*                                                                         *)
(* CreateAccount inserts one user row and one account row that points at   *)
(* it, and nothing else inserts into either table, so both tables are      *)
(* indexed by the user's pk; the generated users.id stands for the same    *)
(* user.                                                                   *)
(***************************************************************************)
EXTENDS Integers, FiniteSets

CONSTANTS
  Handler,    \* request goroutines of the gRPC and HTTP servers
  User,       \* primary keys of dbank_users
  Username,   \* values of the UNIQUE columns username and email
  Password,   \* bcrypt hashes
  MaxConns,   \* dbx.MaxPoolSize
  MaxBalance, \* largest magnitude of a DECIMAL(20,6), in units of its last digit
  FloatExact, \* largest magnitude that survives the round trip through float64
  NoRow       \* no such row; as a pending write: row not written

BalanceColumn == -MaxBalance .. MaxBalance

UserRow    == [username : Username, password : Password, deleted : BOOLEAN]
AccountRow == [balance : BalanceColumn, deleted : BOOLEAN]

ASSUME HandlerAssumption == IsFiniteSet(Handler)
ASSUME PoolAssumption  == MaxConns \in Nat \ {0}
ASSUME BalanceAssumption == MaxBalance \in Nat /\ FloatExact \in 0 .. MaxBalance
ASSUME NoRowAssumption == NoRow \notin UserRow /\ NoRow \notin AccountRow

VARIABLES
  users,         \* committed rows of dbank_users
  accounts,      \* committed rows of dbank_accounts, by user_pk
  open,          \* handlers inside RunInTx: each holds one pooled connection
  userWrites,    \* uncommitted user rows of each open transaction
  accountWrites  \* uncommitted account rows of each open transaction

dbVars == <<users, accounts, open, userWrites, accountWrites>>

DatabaseTypeOK ==
  /\ users         \in [User -> UserRow \cup {NoRow}]
  /\ accounts      \in [User -> AccountRow \cup {NoRow}]
  /\ open          \in SUBSET Handler
  /\ userWrites    \in [Handler -> [User -> UserRow \cup {NoRow}]]
  /\ accountWrites \in [Handler -> [User -> AccountRow \cup {NoRow}]]

NoWrites == [u \in User |-> NoRow]
-----------------------------------------------------------------------------
(* What a statement of handler h reads: its own writes over the committed  *)
(* rows.                                                                   *)

UserSeen(h, u) ==
  IF userWrites[h][u] = NoRow THEN users[u] ELSE userWrites[h][u]

AccountSeen(h, u) ==
  IF accountWrites[h][u] = NoRow THEN accounts[u] ELSE accountWrites[h][u]

(* The rows Store.GetAccount finds: a user and its account, neither of     *)
(* them soft-deleted.  It runs on the pool, outside any transaction.       *)
Live(u) ==
  /\ users[u] # NoRow    /\ ~users[u].deleted
  /\ accounts[u] # NoRow /\ ~accounts[u].deleted

(* A balance leaves and reaches the service as a float64.  Every multiple  *)
(* of the column's last digit has its own float64 up to some magnitude;    *)
(* above it neighbours share one (every second value of the first such     *)
(* binade, the only one the models reach).                                 *)
Float64(b) == IF b \in -FloatExact .. FloatExact THEN b ELSE 2 * (b \div 2)

ConnectionFree == Cardinality(open) < MaxConns
-----------------------------------------------------------------------------
(* The transactions another handler's statement has to wait for.           *)

UserLockers(h, u)    == {g \in Handler \ {h} : userWrites[g][u] # NoRow}
AccountLockers(h, u) == {g \in Handler \ {h} : accountWrites[g][u] # NoRow}

(* A unique index makes h wait for a transaction that is writing, or is    *)
(* replacing, a row with the same key ...                                  *)
NameLockers(h, u, name) ==
  {g \in Handler \ {h} : \E v \in User \ {u} :
      /\ userWrites[g][v] # NoRow
      /\ \/ userWrites[g][v].username = name
         \/ users[v] # NoRow /\ users[v].username = name}

(* Mutant: the index covers live rows only.                                *)
LiveNameTaken(u, name) ==
  \E v \in User \ {u} :
    users[v] # NoRow /\ ~users[v].deleted /\ users[v].username = name

(* ... and rejects a key that a committed row has.  The constraint takes   *)
(* no notice of deleted_at.                                                *)
NameTaken(u, name) ==
  \E v \in User \ {u} : users[v] # NoRow /\ users[v].username = name
-----------------------------------------------------------------------------
(* dbx.RunInTx: begin, then the statements of fn, then commit; every other *)
(* way out is the deferred rollback.                                       *)

Begin(h) ==
  /\ ConnectionFree
  /\ open' = open \cup {h}
  /\ UNCHANGED <<users, accounts, userWrites, accountWrites>>

WriteUser(h, u, row) ==
  /\ UserLockers(h, u) = {}
  /\ userWrites' = [userWrites EXCEPT ![h] = [@ EXCEPT ![u] = row]]
  /\ UNCHANGED <<users, accounts, open, accountWrites>>

WriteAccount(h, u, row) ==
  /\ AccountLockers(h, u) = {}
  /\ accountWrites' = [accountWrites EXCEPT ![h] = [@ EXCEPT ![u] = row]]
  /\ UNCHANGED <<users, accounts, open, userWrites>>

EndTx(h) ==
  /\ open' = open \ {h}
  /\ userWrites'    = [userWrites EXCEPT ![h] = NoWrites]
  /\ accountWrites' = [accountWrites EXCEPT ![h] = NoWrites]

Commit(h) ==
  /\ users'    = [u \in User |-> UserSeen(h, u)]
  /\ accounts' = [u \in User |-> AccountSeen(h, u)]
  /\ EndTx(h)

(* Mutants: the deferred call commits; there is no deferred call.          *)
RollbackCommits(h) == Commit(h)
RollbackForgotten(h) == UNCHANGED dbVars

Rollback(h) ==
  /\ EndTx(h)
  /\ UNCHANGED <<users, accounts>>

(* The process dies: PostgreSQL rolls back what its connections had open.  *)
LoseConnections ==
  /\ open' = {}
  /\ userWrites'    = [h \in Handler |-> NoWrites]
  /\ accountWrites' = [h \in Handler |-> NoWrites]
  /\ UNCHANGED <<users, accounts>>
=============================================================================
