------------------------------ MODULE Accounts ------------------------------
(***************************************************************************)
(* AccountService.CreateAccount, UpdateAccount and DeleteAccount over the  *)
(* store and the database: one handler per request in flight, one action   *)
(* per round trip to PostgreSQL, any interleaving of the handlers.         *)
(*                                                                         *)
(* pc[h] names the next round trip of handler h.  GetAccount and           *)
(* ListAccounts change nothing; the read that UpdateAccount and            *)
(* DeleteAccount make through Store.GetAccount is ReadExisting.  The       *)
(* transfers of module Transfers write balances into the same table: here  *)
(* they are the environment, TransferLeg.                                  *)
(***************************************************************************)
EXTENDS Database

CONSTANTS
  Amounts,    \* balances a request may carry, once parsed
  Settled,    \* balances that transfers leave behind
  Seed,       \* users the first migration inserts, without an account
  SeedRow,    \* their rows
  None,       \* a field of the request left empty
  Malformed   \* a balance that strconv.ParseFloat rejects

ASSUME RequestAssumption ==
  /\ Amounts \subseteq Int /\ Settled \subseteq BalanceColumn
  /\ None \notin Username \cup Password \cup User \cup Amounts
  /\ Malformed \notin Amounts \cup {None} /\ None # "OK"

ASSUME SeedAssumption ==
  /\ Seed \subseteq User
  /\ SeedRow \in [Seed -> {r \in UserRow : ~r.deleted}]
  /\ \A s, t \in Seed : SeedRow[s].username = SeedRow[t].username => s = t

VARIABLES
  pc,       \* the next step of each handler
  req,      \* its request; a create carries the generated user id
  existing, \* store.AccountDetails: what UpdateAccount read first
  data,     \* store.UpdateAccountRequest: the merged fields to write
  details,  \* store.AccountDetails: what UpdateAccount read back
  reply     \* gRPC status of the answer

vars == <<dbVars, pc, req, existing, data, details, reply>>

(* The statements of the three transactions, in order.                     *)
CreateTx == {"insertUser", "insertAccount"}
UpdateTx == {"updateUser", "writeUser", "updatePassword", "updateAccount",
             "selectDetails"}
DeleteTx == {"deleteAccount", "deleteUser"}
InTx     == CreateTx \cup UpdateTx \cup DeleteTx \cup {"selectPk", "commit"}
Labels   == InTx \cup {"idle", "read", "begin", "reply"}

Field(S) == S \cup {None}
Balance  == Field(Amounts \cup {Malformed})

CreateRequest == [op : {"create"}, id : User, username : Field(Username),
                  password : Field(Password), balance : Balance]
UpdateRequest == [op : {"update"}, id : Field(User), username : Field(Username),
                  password : Field(Password), balance : Balance]
DeleteRequest == [op : {"delete"}, id : Field(User)]
Request       == CreateRequest \cup UpdateRequest \cup DeleteRequest

Fields  == [username : Username, balance : Int]
Details == [user : UserRow, account : AccountRow]
Codes   == {"OK", "InvalidArgument", "NotFound", "Internal"}

TypeOK ==
  /\ DatabaseTypeOK
  /\ pc       \in [Handler -> Labels]
  /\ req      \in [Handler -> Field(Request)]
  /\ existing \in [Handler -> Field(Fields)]
  /\ data     \in [Handler -> Field(Fields)]
  /\ details  \in [Handler -> Field(Details)]
  /\ reply    \in [Handler -> Field(Codes)]

Init ==
  /\ users    = [u \in User |-> IF u \in Seed THEN SeedRow[u] ELSE NoRow]
  /\ accounts = [u \in User |-> NoRow]
  /\ open = {}
  /\ userWrites    = [h \in Handler |-> NoWrites]
  /\ accountWrites = [h \in Handler |-> NoWrites]
  /\ pc       = [h \in Handler |-> "idle"]
  /\ req      = [h \in Handler |-> None]
  /\ existing = [h \in Handler |-> None]
  /\ data     = [h \in Handler |-> None]
  /\ details  = [h \in Handler |-> None]
  /\ reply    = [h \in Handler |-> None]
-----------------------------------------------------------------------------
Goto(h, label) == pc' = [pc EXCEPT ![h] = label]

Answer(h, code) ==
  /\ Goto(h, "reply")
  /\ reply' = [reply EXCEPT ![h] = code]

locals == <<req, existing, data, details, reply>>

(* The round trip leaves the transaction open and the handler goes on.     *)
Proceed(h, label) == Goto(h, label) /\ UNCHANGED locals

(* Mutant: the service takes the store's error for success.                *)
AbandonSaysOK(h) ==
  /\ Rollback(h)
  /\ Answer(h, "OK")
  /\ UNCHANGED <<req, existing, data, details>>

(* fn returned an error: RunInTx rolls back, and the service answers       *)
(* Internal whatever status the store chose.                               *)
Abandon(h) ==
  /\ Rollback(h)
  /\ Answer(h, "Internal")
  /\ UNCHANGED <<req, existing, data, details>>

Refuse(h, code) == Answer(h, code) /\ UNCHANGED <<dbVars, req, existing, data, details>>
-----------------------------------------------------------------------------
(* A request arrives; what is checked before any access to the database.   *)

FreshId(u) ==
  /\ users[u] = NoRow
  /\ \A g \in Handler : pc[g] \in {"begin"} \cup CreateTx \cup {"commit"}
                        => req[g].op # "create" \/ req[g].id # u

Complete(r) == None \notin {r.username, r.password}

CreateAccount(h) == \E r \in CreateRequest :
  /\ pc[h] = "idle" /\ FreshId(r.id)
  /\ req' = [req EXCEPT ![h] = r]
  /\ \/ /\ Complete(r) /\ r.balance \in Amounts
        /\ data' = [data EXCEPT ![h] =
                      [username |-> r.username, balance |-> Float64(r.balance)]]
        /\ Goto(h, "begin")
        /\ UNCHANGED reply
     \/ /\ ~Complete(r) \/ r.balance \notin Amounts
        /\ Answer(h, "InvalidArgument")
        /\ UNCHANGED data
     \/ Complete(r) /\ Answer(h, "Internal") /\ UNCHANGED data  \* HashPassword
  /\ UNCHANGED <<dbVars, existing, details>>

UpdateOrDeleteAccount(h) == \E r \in UpdateRequest \cup DeleteRequest :
  /\ pc[h] = "idle"
  /\ req' = [req EXCEPT ![h] = r]
  /\ \/ r.id # None /\ Goto(h, "read") /\ UNCHANGED reply
     \/ r.id = None /\ Answer(h, "InvalidArgument")
  /\ UNCHANGED <<dbVars, existing, data, details>>

-----------------------------------------------------------------------------
(* Store.GetAccount, and the merge of the request over what it returned.   *)

Over(field, value) == IF field = None THEN value ELSE field

Read(u) == [username |-> users[u].username, balance |-> Float64(accounts[u].balance)]

(* Mutant: a balance left empty is parsed like any other.                  *)
MergeZero(r, e) ==
  [username |-> Over(r.username, e.username),
   balance  |-> Float64(Over(r.balance, 0))]

Merge(r, e) ==
  [username |-> Over(r.username, e.username),
   balance  |-> IF r.balance = None THEN e.balance ELSE Float64(r.balance)]

ReadExisting(h) ==
  LET e == Read(req[h].id)
  IN /\ pc[h] = "read" /\ ConnectionFree /\ Live(req[h].id)
     /\ \/ /\ req[h].op = "update" /\ req[h].balance # Malformed
           /\ existing' = [existing EXCEPT ![h] = e]
           /\ data' = [data EXCEPT ![h] = Merge(req[h], e)]
        \/ req[h].op = "delete" /\ UNCHANGED <<existing, data>>
     /\ Goto(h, "begin")
     /\ UNCHANGED <<dbVars, req, details, reply>>

RejectBalance(h) ==
  /\ pc[h] = "read" /\ ConnectionFree /\ Live(req[h].id)
  /\ req[h].op = "update" /\ req[h].balance = Malformed
  /\ Refuse(h, "InvalidArgument")

ReadMissing(h) ==
  /\ pc[h] = "read" /\ ConnectionFree /\ ~Live(req[h].id)
  /\ Refuse(h, "NotFound")

(* Any failure of the query is reported as a missing account.              *)
ReadFails(h) == pc[h] = "read" /\ Refuse(h, "NotFound")

(* UpdateAccount hashes the new password after it has read the account.    *)
HashFails(h) ==
  /\ pc[h] = "read" /\ ConnectionFree /\ Live(req[h].id)
  /\ req[h].op = "update" /\ req[h].password # None
  /\ Refuse(h, "Internal")
-----------------------------------------------------------------------------
BeginTx(h) ==
  /\ pc[h] = "begin"
  /\ Begin(h)
  /\ Proceed(h, IF req[h].op = "create" THEN "insertUser" ELSE "selectPk")

BeginFails(h) == pc[h] = "begin" /\ Refuse(h, "Internal")

(* Store.CreateAccount                                                     *)

InsertUser(h) ==
  LET u == req[h].id
      row == [username |-> data[h].username, password |-> req[h].password,
              deleted |-> FALSE]
  IN /\ pc[h] = "insertUser"
     /\ NameLockers(h, u, row.username) = {}
     /\ \/ /\ ~NameTaken(u, row.username)
           /\ WriteUser(h, u, row) /\ Proceed(h, "insertAccount")
        \/ NameTaken(u, row.username) /\ Abandon(h)

InsertAccount(h) ==
  LET row == [balance |-> data[h].balance, deleted |-> FALSE]
  IN /\ pc[h] = "insertAccount"
     /\ \/ /\ row \in AccountRow
           /\ WriteAccount(h, req[h].id, row) /\ Proceed(h, "commit")
        \/ row \notin AccountRow /\ Abandon(h)

(* Store.UpdateAccount and Store.DeleteAccount both look the user up again *)
(* inside the transaction, without locking the row.                        *)

SelectPk(h) ==
  LET row == UserSeen(h, req[h].id)
  IN /\ pc[h] = "selectPk"
     /\ \/ /\ row # NoRow /\ ~row.deleted
           /\ Proceed(h, IF req[h].op = "update" THEN "updateUser"
                                                 ELSE "deleteAccount")
           /\ UNCHANGED dbVars
        \/ (row = NoRow \/ row.deleted) /\ Abandon(h)

(* The UPDATE of the user: it locks the row first, as the last commit left *)
(* it, and with the lock waits for whoever has the new name.               *)
LockUser(h) ==
  /\ pc[h] = "updateUser"
  /\ WriteUser(h, req[h].id, UserSeen(h, req[h].id))
  /\ Proceed(h, "writeUser")

(* Mutant: the password is written although the request has none.          *)
UpdateUserAndPassword(h) ==
  /\ pc[h] = "writeUser"
  /\ WriteUser(h, req[h].id,
       [UserSeen(h, req[h].id) EXCEPT !.username = data[h].username])
  /\ Proceed(h, "updatePassword")

(* Mutant: the whole row of the earlier read is saved, deleted_at included.*)
UpdateUserSavesRow(h) ==
  /\ pc[h] = "writeUser"
  /\ WriteUser(h, req[h].id,
       [UserSeen(h, req[h].id) EXCEPT !.username = data[h].username,
                                      !.deleted = FALSE])
  /\ Proceed(h, "updateAccount")

UpdateUser(h) ==
  LET u == req[h].id
      row == [UserSeen(h, u) EXCEPT !.username = data[h].username]
      renamed == row.username # UserSeen(h, u).username
  IN /\ pc[h] = "writeUser"
     /\ renamed => NameLockers(h, u, row.username) = {}
     /\ \/ /\ ~(renamed /\ NameTaken(u, row.username))
           /\ WriteUser(h, u, row)
           /\ Proceed(h, IF req[h].password = None THEN "updateAccount"
                                                   ELSE "updatePassword")
        \/ renamed /\ NameTaken(u, row.username) /\ Abandon(h)

UpdatePassword(h) ==
  LET u == req[h].id
  IN /\ pc[h] = "updatePassword"
     /\ WriteUser(h, u, [UserSeen(h, u) EXCEPT !.password = req[h].password])
     /\ Proceed(h, "updateAccount")

(* Mutant: the account is written on the pool, outside the transaction.    *)
UpdateAccountOnPool(h) ==
  LET row == [accounts[req[h].id] EXCEPT !.balance = data[h].balance]
  IN /\ pc[h] = "updateAccount" /\ row \in AccountRow
     /\ AccountLockers(h, req[h].id) = {}
     /\ accounts' = [accounts EXCEPT ![req[h].id] = row]
     /\ Proceed(h, "selectDetails")
     /\ UNCHANGED <<users, open, userWrites, accountWrites>>

UpdateAccountRow(h) ==
  LET u == req[h].id
      row == [AccountSeen(h, u) EXCEPT !.balance = data[h].balance]
  IN /\ pc[h] = "updateAccount"
     /\ AccountLockers(h, u) = {}
     /\ \/ /\ row \in AccountRow
           /\ WriteAccount(h, u, row) /\ Proceed(h, "selectDetails")
        \/ row \notin AccountRow /\ Abandon(h)

(* Mutants: the details are read on the pool instead of the transaction,   *)
(* seen here for what the query returns and for the connection it takes.   *)
SelectCommittedDetails(h) ==
  /\ pc[h] = "selectDetails"
  /\ details' = [details EXCEPT ![h] =
       [user |-> users[req[h].id], account |-> accounts[req[h].id]]]
  /\ Goto(h, "commit")
  /\ UNCHANGED <<dbVars, req, existing, data, reply>>

SelectDetailsOnPool(h) ==
  /\ ConnectionFree
  /\ SelectCommittedDetails(h)

(* The updated details are read back without looking at deleted_at.        *)
SelectDetails(h) ==
  /\ pc[h] = "selectDetails"
  /\ details' = [details EXCEPT ![h] =
       [user |-> UserSeen(h, req[h].id), account |-> AccountSeen(h, req[h].id)]]
  /\ Goto(h, "commit")
  /\ UNCHANGED <<dbVars, req, existing, data, reply>>

DeleteAccountRow(h) ==
  LET u == req[h].id
  IN /\ pc[h] = "deleteAccount"
     /\ WriteAccount(h, u, [AccountSeen(h, u) EXCEPT !.deleted = TRUE])
     /\ Proceed(h, "deleteUser")

DeleteUserRow(h) ==
  LET u == req[h].id
  IN /\ pc[h] = "deleteUser"
     /\ WriteUser(h, u, [UserSeen(h, u) EXCEPT !.deleted = TRUE])
     /\ Proceed(h, "commit")
-----------------------------------------------------------------------------
CommitTx(h) ==
  /\ pc[h] = "commit"
  /\ Commit(h)
  /\ Answer(h, "OK")
  /\ UNCHANGED <<req, existing, data, details>>

(* The connection breaks after COMMIT was sent: the transaction is durable *)
(* and the client is told that it failed.                                  *)
CommitUnacknowledged(h) ==
  /\ pc[h] = "commit"
  /\ Commit(h)
  /\ Answer(h, "Internal")
  /\ UNCHANGED <<req, existing, data, details>>

(* A round trip fails: broken connection, cancelled context, a collision   *)
(* of the eight-character account number.                                  *)
StatementFails(h) == pc[h] \in InTx /\ Abandon(h)

(* The transactions handler h waits for.                                   *)
Blockers(h) ==
  CASE pc[h] = "insertUser" -> NameLockers(h, req[h].id, data[h].username)
    [] pc[h] = "writeUser" ->
         IF data[h].username = UserSeen(h, req[h].id).username THEN {}
         ELSE NameLockers(h, req[h].id, data[h].username)
    [] pc[h] \in {"updateUser", "deleteUser"} -> UserLockers(h, req[h].id)
    [] pc[h] \in {"updateAccount", "deleteAccount"} ->
         AccountLockers(h, req[h].id)
    [] OTHER -> {}

(* A ring of handlers, each waiting for another of them.                   *)
WaitRing(S) ==
  /\ S # {}
  /\ \A g \in S : Blockers(g) \cap S # {}
  /\ \A g \in S : \E f \in S : g \in Blockers(f)

(* PostgreSQL breaks a ring by failing one of the statements in it.        *)
DeadlockVictim(h) ==
  /\ \E S \in SUBSET Handler : h \in S /\ WaitRing(S)
  /\ Abandon(h)

Return(h) ==
  /\ pc[h] = "reply"
  /\ Goto(h, "idle")
  /\ req'      = [req EXCEPT ![h] = None]
  /\ existing' = [existing EXCEPT ![h] = None]
  /\ data'     = [data EXCEPT ![h] = None]
  /\ details'  = [details EXCEPT ![h] = None]
  /\ reply'    = [reply EXCEPT ![h] = None]
  /\ UNCHANGED dbVars

(* The server process dies with every request it was serving.              *)
Crash ==
  /\ LoseConnections
  /\ pc'       = [h \in Handler |-> "idle"]
  /\ req'      = [h \in Handler |-> None]
  /\ existing' = [h \in Handler |-> None]
  /\ data'     = [h \in Handler |-> None]
  /\ details'  = [h \in Handler |-> None]
  /\ reply'    = [h \in Handler |-> None]
-----------------------------------------------------------------------------
(* A leg of a transfer: its commit installs a balance computed with        *)
(* decimals, no float64, in a row that no request has locked; it looks at  *)
(* the id only, so that the row may be deleted.                            *)
TransferLeg(u) ==
  /\ accounts[u] # NoRow
  /\ \A h \in Handler : accountWrites[h][u] = NoRow
  /\ \E b \in Settled : accounts' = [accounts EXCEPT ![u].balance = b]
  /\ UNCHANGED <<users, open, userWrites, accountWrites, pc, locals>>
-----------------------------------------------------------------------------
(* What a handler does by itself once it has a request.                    *)
Work(h) ==
  \/ ReadExisting(h) \/ RejectBalance(h) \/ ReadMissing(h)
  \/ BeginTx(h)
  \/ InsertUser(h) \/ InsertAccount(h)
  \/ SelectPk(h)
  \/ LockUser(h) \/ UpdateUser(h) \/ UpdatePassword(h) \/ UpdateAccountRow(h) \/ SelectDetails(h)
  \/ DeleteAccountRow(h) \/ DeleteUserRow(h)
  \/ CommitTx(h)
  \/ Return(h)

Fault(h) ==
  \/ HashFails(h) \/ ReadFails(h) \/ BeginFails(h) \/ StatementFails(h)
  \/ CommitUnacknowledged(h)

Next ==
  \/ \E h \in Handler :
       CreateAccount(h) \/ UpdateOrDeleteAccount(h) \/ Work(h) \/ Fault(h)
         \/ DeadlockVictim(h)
  \/ \E u \in User : TransferLeg(u)
  \/ Crash

Spec == Init /\ [][Next]_vars

(* A handler that can take its next step again and again takes it: the     *)
(* locks' wait queues and the pool's are first come, first served.         *)
(* PostgreSQL's deadlock detector runs after deadlock_timeout.             *)
Fairness ==
  /\ \A h \in Handler : SF_vars(Work(h))
  /\ WF_vars(\E h \in Handler : DeadlockVictim(h))

FairSpec == Spec /\ Fairness
-----------------------------------------------------------------------------
(* CreateAccount and DeleteAccount write two tables.  Whatever statement   *)
(* fails, whenever the process dies and whichever requests overlap, a user *)
(* the service created has its account row, and the two are deleted        *)
(* together.                                                               *)
RowsPaired ==
  \A u \in User \ Seed :
    /\ users[u] = NoRow <=> accounts[u] = NoRow
    /\ users[u] # NoRow => users[u].deleted = accounts[u].deleted

(* No two users share a username, the deleted ones included: concurrent    *)
(* creates and renames, in any order of their inserts and commits, never   *)
(* both take a name.                                                       *)
UsernamesUnique ==
  \A u, v \in User :
    users[u] # NoRow /\ users[v] # NoRow /\ users[u].username = users[v].username
      => u = v

(* RunInTx gives its connection and its locks back on every way out.       *)
NoLeakedTx ==
  \A h \in Handler :
    /\ h \in open <=> pc[h] \in InTx
    /\ h \notin open => userWrites[h] = NoWrites /\ accountWrites[h] = NoWrites

(* OK is only said of what is durable, and stays true while the handler    *)
(* sends it although other handlers go on: the created user exists, the    *)
(* deleted one is deleted.                                                 *)
OkMeansDurable ==
  \A h \in Handler : pc[h] = "reply" /\ reply[h] = "OK" =>
    /\ users[req[h].id] # NoRow /\ accounts[req[h].id] # NoRow
    /\ req[h].op = "delete" =>
         users[req[h].id].deleted /\ accounts[req[h].id].deleted

(* A deleted account stays deleted, and stays, through updates that were   *)
(* on their way when the delete committed.                                 *)
DeletedForever == [][
  \A u \in User :
    /\ users[u] # NoRow => users'[u] # NoRow
    /\ users[u] # NoRow /\ users[u].deleted => users'[u].deleted
    /\ accounts[u] # NoRow /\ accounts[u].deleted => accounts'[u].deleted]_vars

(* Unlike every other field the password is not merged from an earlier     *)
(* read: it changes only when an update that carries the new one commits,  *)
(* and no concurrent update of other fields brings an old password back.   *)
PasswordsKept == [][
  \A u \in User : users[u] # NoRow /\ users'[u].password # users[u].password =>
    \E h \in Handler :
      /\ pc[h] = "commit" /\ pc'[h] = "reply"
      /\ req[h].op = "update" /\ req[h].id = u
      /\ req[h].password # None /\ req[h].password = users'[u].password]_vars

(* The details UpdateAccount returns are the rows its transaction          *)
(* committed.                                                              *)
RepliesWithCommitted == [][
  \A h \in Handler :
    pc[h] = "commit" /\ reply'[h] = "OK" /\ req[h].op = "update" =>
      details[h] = [user |-> users'[req[h].id], account |-> accounts'[req[h].id]]
  ]_vars

(* The rows of u become what the request of h asked for, all of it: the    *)
(* new account, or the merged fields and the password if it has one, or    *)
(* nothing but the two marks.                                              *)
TakesEffect(h, u) ==
  \/ /\ req[h].op = "create" /\ users[u] = NoRow /\ accounts[u] = NoRow
     /\ users'[u] = [username |-> data[h].username, password |-> req[h].password,
                     deleted |-> FALSE]
     /\ accounts'[u] = [balance |-> data[h].balance, deleted |-> FALSE]
  \/ /\ req[h].op = "update"
     /\ users'[u] = [users[u] EXCEPT !.username = data[h].username,
                                     !.password = Over(req[h].password, @)]
     /\ accounts'[u] = [accounts[u] EXCEPT !.balance = data[h].balance]
  \/ /\ req[h].op = "delete"
     /\ users'[u] = [users[u] EXCEPT !.deleted = TRUE]
     /\ accounts'[u] = [accounts[u] EXCEPT !.deleted = TRUE]

(* No request takes effect by halves, in two commits, or on an account     *)
(* that is not its own: whatever other requests, transfers and faults come *)
(* between its statements, a change of committed rows that is not a        *)
(* transfer's is all of one request, at its commit.                        *)
RequestsWhole == [][
  \A u \in User : users'[u] # users[u] \/ accounts'[u] # accounts[u] =>
    \/ /\ pc' = pc /\ users'[u] = users[u]
       /\ accounts'[u] = [accounts[u] EXCEPT !.balance = accounts'[u].balance]
    \/ \E h \in Handler :
         /\ pc[h] = "commit" /\ pc'[h] = "reply"
         /\ req[h].id = u /\ TakesEffect(h, u)]_vars

(* An update that finds the account at its commit as it read it first      *)
(* changes the fields it names to what it says and no other.  A balance it *)
(* does not name goes through a float64 and back all the same: it is kept  *)
(* as far as Float64 keeps it, to the last digit up to FloatExact only.    *)
FreshUpdatesExact == [][
  \A h \in Handler :
    pc[h] = "commit" /\ reply'[h] = "OK" /\ req[h].op = "update" =>
      LET u == req[h].id
      IN existing[h] = Read(u) =>
           /\ users'[u] = [users[u] EXCEPT !.username = Over(req[h].username, @),
                                           !.password = Over(req[h].password, @)]
           /\ accounts'[u] = [accounts[u] EXCEPT
                                !.balance = Float64(Over(req[h].balance, @))]]_vars

(* What a handler with a request waits for: the transactions in its way    *)
(* and, outside RunInTx, a connection of the pool.                         *)
Ready(h) ==
  /\ pc[h] # "idle" /\ Blockers(h) = {}
  /\ pc[h] \in {"read", "begin"} => ConnectionFree

(* Locks and connections never run into a standstill that nobody resolves: *)
(* while a request is in flight, some handler has nothing to wait for, or  *)
(* else a ring of them wait for each other's locks alone, which PostgreSQL *)
(* breaks.                                                                 *)
NeverStuck ==
  (\E h \in Handler : pc[h] # "idle") =>
    \/ \E h \in Handler : Ready(h)
    \/ \E S \in SUBSET Handler : WaitRing(S)

(* And there is nothing else to wait for: a handler with none of it in its *)
(* way can take its next step.  No statement asks for a second connection, *)
(* and none for a lock that its transaction does not have or queue for.    *)
ReadyGoesOn == \A h \in Handler : Ready(h) => ENABLED Work(h)

(* Every request is answered: no handler waits for ever for a lock or for  *)
(* a pooled connection.                                                    *)
EveryRequestAnswered ==
  \A h \in Handler : pc[h] # "idle" ~> pc[h] = "idle"
-----------------------------------------------------------------------------
(* The accounts the committed rows of the two tables make up.  A user      *)
(* without its account, or deleted without it, is half of one.             *)
HalfAccount ==
  [username |-> None, password |-> None, balance |-> None, deleted |-> TRUE]

Paired(u) == /\ users[u] # NoRow /\ accounts[u] # NoRow
             /\ users[u].deleted = accounts[u].deleted

CommittedAccounts ==
  [u \in User |->
     IF u \in Seed \/ (users[u] = NoRow /\ accounts[u] = NoRow) THEN NoRow
     ELSE IF ~Paired(u) THEN HalfAccount
     ELSE [username |-> users[u].username, password |-> users[u].password,
           balance  |-> accounts[u].balance, deleted |-> users[u].deleted]]

R == INSTANCE Registry WITH
       registry <- CommittedAccounts,
       Reserved <- {SeedRow[s].username : s \in Seed}

ASSUME NoAccountAssumption == NoRow \notin R!Account

(* All of it together is a registry: whatever the interleaving, the faults *)
(* and the crashes, the committed rows are accounts that are created,      *)
(* changed and deleted one at a time, with names that are unique.  Which   *)
(* request a change belongs to, and that it is all of it, is               *)
(* RequestsWhole.                                                          *)
ImplementsRegistry == R!Spec
-----------------------------------------------------------------------------
(* What the comments in UpdateAccount promise, and the code does not keep. *)

(* "Update fields that are provided": a field the request leaves empty     *)
(* keeps the value it has when the update commits.                         *)
OmittedFieldsKept == [][
  \A h \in Handler :
    pc[h] = "commit" /\ reply'[h] = "OK" /\ req[h].op = "update" =>
      LET u == req[h].id
      IN /\ req[h].username = None => users'[u].username = users[u].username
         /\ req[h].balance = None => accounts'[u].balance = accounts[u].balance
  ]_vars
=============================================================================
