-------------------------- MODULE RegistryProofs --------------------------
(***************************************************************************)
(* For any number of handlers, users, names and pooled connections:        *)
(* usernames stay unique, for the uncommitted rows reserve their names     *)
(* against one another and against the committed ones; and the account     *)
(* service implements Registry: a commit creates, changes or deletes one   *)
(* account, and every other step leaves the committed accounts alone.      *)
(***************************************************************************)
EXTENDS AccountsProofs

(* An uncommitted row has a name that no other user has, committed or not. *)
NamesReserved ==
  \A h \in Handler, u \in User : userWrites[h][u] # NoRow =>
    \A v \in User \ {u} :
      /\ users[v] # NoRow => users[v].username # userWrites[h][u].username
      /\ \A g \in Handler : userWrites[g][v] # NoRow =>
           userWrites[g][v].username # userWrites[h][u].username

NamesInv == PairInv /\ NamesReserved /\ UsernamesUnique

(* Nobody but u, committed or not, has this name.                          *)
NameFree(u, name) ==
  \A v \in User \ {u} :
    /\ users[v] # NoRow => users[v].username # name
    /\ \A g \in Handler : userWrites[g][v] # NoRow => userWrites[g][v].username # name
-----------------------------------------------------------------------------
(* What the unique index lets through is free: no other transaction has it *)
(* pending, none has to be waited for, no committed row has it.            *)
LEMMA IndexFree ==
  ASSUME NamesInv, NEW h \in Handler, NEW name, req[h].id \in User,
         NameLockers(h, req[h].id, name) = {}, ~NameTaken(req[h].id, name)
  PROVE  NameFree(req[h].id, name)
<1>1. \A v \in User \ {req[h].id} : userWrites[h][v] = NoRow
  BY DEF NamesInv, PairInv, Pending
<1> QED
  BY <1>1 DEF NameFree, NameLockers, NameTaken

(* The name a user has already is free for it.                             *)
LEMMA OwnNameFree ==
  ASSUME NamesInv, NEW u \in User, users[u] # NoRow
  PROVE  NameFree(u, users[u].username)
  BY DEF NamesInv, NamesReserved, UsernamesUnique, NameFree

LEMMA WriteUserNames ==
  ASSUME NamesInv, NEW h \in Handler, NEW u \in User, NEW row,
         WriteUser(h, u, row), NameFree(u, row.username)
  PROVE  NamesReserved' /\ UsernamesUnique'
<1>1. /\ users' = users
      /\ userWrites'[h][u] = row
      /\ \A v \in User \ {u} : userWrites'[h][v] = userWrites[h][v]
      /\ \A g \in Handler \ {h} : userWrites'[g] = userWrites[g]
  BY WriteUserLocks DEF NamesInv, PairInv, TypeInv
<1>2. ASSUME NEW g \in Handler, NEW v \in User, userWrites'[g][v] # NoRow,
             NEW w \in User \ {v}
      PROVE  /\ users'[w] # NoRow => users'[w].username # userWrites'[g][v].username
             /\ \A f \in Handler : userWrites'[f][w] # NoRow =>
                  userWrites'[f][w].username # userWrites'[g][v].username
  <2>1. \A f \in Handler, x \in User :
          userWrites'[f][x] = IF f = h /\ x = u THEN row ELSE userWrites[f][x]
    BY <1>1
  <2>2. CASE g = h /\ v = u
    BY <1>1, <1>2, <2>1, <2>2 DEF NameFree
  <2>3. CASE ~(g = h /\ v = u)
    <3>1. userWrites'[g][v] = userWrites[g][v]
      BY <2>1, <2>3
    <3>2. ASSUME NEW f \in Handler, userWrites'[f][w] # NoRow
          PROVE  userWrites'[f][w].username # userWrites'[g][v].username
      <4>1. CASE f = h /\ w = u
        BY <1>2, <2>1, <3>1, <4>1 DEF NameFree
      <4>2. CASE ~(f = h /\ w = u)
        BY <1>2, <2>1, <3>1, <3>2, <4>2 DEF NamesInv, NamesReserved
      <4> QED
        BY <4>1, <4>2
    <3> QED
      BY <1>1, <1>2, <3>1, <3>2 DEF NamesInv, NamesReserved
  <2> QED
    BY <2>2, <2>3
<1>3. UsernamesUnique'
  BY <1>1 DEF NamesInv, UsernamesUnique
<1> QED
  BY <1>2, <1>3 DEF NamesReserved

(* A step after which nothing more is pending, and nothing is committed    *)
(* that was not.                                                           *)
LEMMA QuietNames ==
  ASSUME NamesInv, users' = users,
         \A g \in Handler, u \in User :
           userWrites'[g][u] # NoRow => userWrites'[g][u] = userWrites[g][u]
  PROVE  NamesReserved' /\ UsernamesUnique'
<1>1. NamesReserved'
  BY DEF NamesInv, NamesReserved
<1>2. UsernamesUnique'
  BY DEF NamesInv, UsernamesUnique
<1> QED
  BY <1>1, <1>2

LEMMA AbandonNames ==
  ASSUME NamesInv, NEW h \in Handler, Abandon(h)
  PROVE  NamesReserved' /\ UsernamesUnique'
<1>1. /\ users' = users
      /\ \A u \in User : userWrites'[h][u] = NoRow
      /\ \A g \in Handler \ {h} : userWrites'[g] = userWrites[g]
  BY EndTxLocks DEF Abandon, Rollback, NamesInv, PairInv, TypeInv
<1> QED
  BY <1>1, QuietNames
-----------------------------------------------------------------------------
LEMMA InsertUserNames ==
  ASSUME NamesInv, NEW h \in Handler, InsertUser(h)
  PROVE  NamesReserved' /\ UsernamesUnique'
<1> DEFINE row == [username |-> data[h].username, password |-> req[h].password,
                   deleted |-> FALSE]
<1>1. req[h].id \in User
  BY DEF InsertUser, NamesInv, PairInv, TypeInv, Control, Started, Labels, InTx, CreateTx
<1>2. CASE /\ NameLockers(h, req[h].id, row.username) = {}
           /\ ~NameTaken(req[h].id, row.username)
           /\ WriteUser(h, req[h].id, row)
  BY <1>1, <1>2, IndexFree, WriteUserNames
<1> QED
  BY <1>2, AbandonNames DEF InsertUser

LEMMA LockUserNames ==
  ASSUME NamesInv, NEW h \in Handler, LockUser(h)
  PROVE  NamesReserved' /\ UsernamesUnique'
<1> DEFINE u == req[h].id
<1>1. /\ pc[h] = "updateUser" /\ u \in User /\ users[u] # NoRow
  BY RowsFound DEF LockUser, UpdateTx, NamesInv, PairInv, TypeInv, Control, Started,
    Labels, InTx
<1>2. UserSeen(h, u) = users[u]
  BY <1>1 DEF UserSeen, NamesInv, PairInv, Pending, UserHeld
<1> QED
  BY <1>1, <1>2, OwnNameFree, WriteUserNames DEF LockUser

(* The name of a row that a transaction holds is free for its user.        *)
LEMMA HeldNameFree ==
  ASSUME NamesInv, NEW h \in Handler, req[h].id \in User, pc[h] \in UserHeld
  PROVE  /\ UserSeen(h, req[h].id) = userWrites[h][req[h].id]
         /\ NameFree(req[h].id, UserSeen(h, req[h].id).username)
<1>1. userWrites[h][req[h].id] # NoRow
  BY DEF NamesInv, PairInv, Pending
<1> QED
  BY <1>1 DEF UserSeen, NamesInv, NamesReserved, NameFree

LEMMA UpdateUserNames ==
  ASSUME NamesInv, NEW h \in Handler, UpdateUser(h)
  PROVE  NamesReserved' /\ UsernamesUnique'
<1> DEFINE u == req[h].id
           row == [UserSeen(h, u) EXCEPT !.username = data[h].username]
           renamed == row.username # UserSeen(h, u).username
<1>1. /\ pc[h] = "writeUser" /\ u \in User
  BY RowsFound DEF UpdateUser, UpdateTx, NamesInv, PairInv
<1>2. NameFree(u, UserSeen(h, u).username)
  BY <1>1, HeldNameFree DEF UserHeld
<1>3. CASE WriteUser(h, u, row) /\ renamed /\ ~NameTaken(u, row.username)
  BY <1>1, <1>3, IndexFree, WriteUserNames DEF UpdateUser
<1>4. CASE WriteUser(h, u, row) /\ ~renamed
  BY <1>1, <1>2, <1>4, WriteUserNames
<1> QED
  BY <1>3, <1>4, AbandonNames DEF UpdateUser

(* The password is written over the row that holds the name already.       *)
LEMMA UpdatePasswordNames ==
  ASSUME NamesInv, NEW h \in Handler, UpdatePassword(h)
  PROVE  NamesReserved' /\ UsernamesUnique'
<1> DEFINE u == req[h].id
           row == [UserSeen(h, u) EXCEPT !.password = req[h].password]
<1>1. pc[h] = "updatePassword" /\ u \in User /\ UserSeen(h, u) \in UserRow
  BY RowsFound DEF UpdatePassword, UpdateTx, NamesInv, PairInv
<1>2. row.username = UserSeen(h, u).username
  BY <1>1 DEF UserRow
<1> QED
  BY <1>1, <1>2, HeldNameFree, WriteUserNames DEF UpdatePassword, UserHeld

LEMMA DeleteUserRowNames ==
  ASSUME NamesInv, NEW h \in Handler, DeleteUserRow(h)
  PROVE  NamesReserved' /\ UsernamesUnique'
<1> DEFINE u == req[h].id
           row == [UserSeen(h, u) EXCEPT !.deleted = TRUE]
<1>1. /\ pc[h] = "deleteUser" /\ u \in User /\ UserSeen(h, u) \in UserRow
      /\ users[u] # NoRow
  BY RowsFound DEF DeleteUserRow, DeleteTx, NamesInv, PairInv, TypeInv, Control, Started,
    Labels, InTx
<1>2. UserSeen(h, u) = users[u]
  BY <1>1 DEF UserSeen, NamesInv, PairInv, Pending, UserHeld
<1>3. row.username = users[u].username
  BY <1>1, <1>2 DEF UserRow
<1> QED
  BY <1>1, <1>3, OwnNameFree, WriteUserNames DEF DeleteUserRow

(* A commit installs a name that was reserved.                             *)
LEMMA CommitNames ==
  ASSUME NamesInv, NEW h \in Handler, CommitTx(h) \/ CommitUnacknowledged(h)
  PROVE  NamesReserved' /\ UsernamesUnique'
<1> DEFINE id == req[h].id
<1>1. pc[h] = "commit" /\ Commit(h) /\ PairInv
  BY DEF CommitTx, CommitUnacknowledged, NamesInv
<1>2. /\ id \in User
      /\ \A u \in User \ {id} : users'[u] = users[u]
  BY <1>1, CommitEffect
<1>3. userWrites[h][id] # NoRow /\ users'[id] = userWrites[h][id]
  BY <1>1, <1>2 DEF PairInv, Pending, UserHeld, Commit, UserSeen
<1>4. /\ \A u \in User : userWrites'[h][u] = NoRow
      /\ \A g \in Handler \ {h} : userWrites'[g] = userWrites[g]
  BY <1>1, EndTxLocks DEF Commit, PairInv, TypeInv
<1>5. \A v \in User \ {id} :
        /\ users[v] # NoRow => users[v].username # users'[id].username
        /\ \A g \in Handler : userWrites[g][v] # NoRow =>
             userWrites[g][v].username # users'[id].username
  BY <1>2, <1>3 DEF NamesInv, NamesReserved
<1>6. UsernamesUnique'
  BY <1>2, <1>3, <1>5 DEF NamesInv, UsernamesUnique
<1>7. NamesReserved'
  <2> SUFFICES ASSUME NEW g \in Handler, NEW u \in User, userWrites'[g][u] # NoRow,
                      NEW v \in User \ {u}
               PROVE  /\ users'[v] # NoRow =>
                           users'[v].username # userWrites'[g][u].username
                      /\ \A f \in Handler : userWrites'[f][v] # NoRow =>
                           userWrites'[f][v].username # userWrites'[g][u].username
    BY DEF NamesReserved
  <2>1. userWrites'[g][u] = userWrites[g][u]
    BY <1>4
  <2>2. users'[v] # NoRow => users'[v].username # userWrites'[g][u].username
    BY <1>2, <1>5, <2>1 DEF NamesInv, NamesReserved
  <2>3. \A f \in Handler : userWrites'[f][v] # NoRow =>
          userWrites'[f][v].username # userWrites'[g][u].username
    BY <1>4, <2>1 DEF NamesInv, NamesReserved
  <2> QED
    BY <2>2, <2>3
<1> QED
  BY <1>6, <1>7
-----------------------------------------------------------------------------
LEMMA InitNamesInv ==
  ASSUME Init
  PROVE  NamesInv
<1>1. NamesReserved
  BY DEF Init, NoWrites, NamesReserved
<1>2. UsernamesUnique
  BY SeedAssumption DEF Init, UsernamesUnique
<1> QED
  BY <1>1, <1>2, InitPairInv DEF NamesInv

LEMMA NextNamesInv ==
  ASSUME NamesInv, [Next]_vars
  PROVE  NamesInv'
<1>1. PairInv'
  BY NextPairInv DEF NamesInv
<1> SUFFICES NamesReserved' /\ UsernamesUnique'
  BY <1>1 DEF NamesInv
<1>2. CASE UNCHANGED dbVars
  BY <1>2, QuietNames DEF dbVars
<1>3. CASE Crash \/ \E u \in User : TransferLeg(u)
  BY <1>3, QuietNames DEF Crash, LoseConnections, NoWrites, TransferLeg
<1>4. ASSUME NEW h \in Handler,
             CreateAccount(h) \/ UpdateOrDeleteAccount(h) \/ DeadlockVictim(h)
      PROVE  NamesReserved' /\ UsernamesUnique'
  BY <1>2, <1>4, AbandonNames DEF CreateAccount, UpdateOrDeleteAccount, DeadlockVictim
<1>5. ASSUME NEW h \in Handler, Work(h)
      PROVE  NamesReserved' /\ UsernamesUnique'
  <2>1. CASE ReadExisting(h) \/ RejectBalance(h) \/ ReadMissing(h) \/ Return(h)
             \/ SelectDetails(h)
    BY <1>2, <2>1 DEF ReadExisting, RejectBalance, ReadMissing, Refuse, Return,
      SelectDetails
  <2>2. CASE BeginTx(h)
    BY <2>2, QuietNames DEF BeginTx, Begin
  <2>3. CASE \/ InsertUser(h) \/ LockUser(h) \/ UpdateUser(h) \/ UpdatePassword(h)
             \/ DeleteUserRow(h)
    BY <2>3, InsertUserNames, LockUserNames, UpdateUserNames, UpdatePasswordNames, DeleteUserRowNames
  <2>4. CASE InsertAccount(h) \/ UpdateAccountRow(h) \/ DeleteAccountRow(h)
    BY <2>4, QuietNames, AbandonNames
    DEF InsertAccount, UpdateAccountRow, DeleteAccountRow, WriteAccount
  <2>5. CASE SelectPk(h)
    BY <1>2, <2>5, AbandonNames DEF SelectPk
  <2> QED
    BY <1>5, <2>1, <2>2, <2>3, <2>4, <2>5, CommitNames DEF Work
<1>6. ASSUME NEW h \in Handler, Fault(h)
      PROVE  NamesReserved' /\ UsernamesUnique'
  BY <1>2, <1>6, AbandonNames, CommitNames
  DEF Fault, HashFails, ReadFails, BeginFails, Refuse, StatementFails
<1> QED
  BY <1>2, <1>3, <1>4, <1>5, <1>6 DEF Next, vars, dbVars

(* However creates and renames overlap, no two users get one username: a   *)
(* name that a transaction under way has taken is refused to the others    *)
(* until it ends.                                                          *)
THEOREM NamesUnique == Spec => []UsernamesUnique
<1>1. NamesInv => UsernamesUnique
  BY DEF NamesInv
<1> QED
  BY <1>1, InitNamesInv, NextNamesInv, PTL DEF Spec
-----------------------------------------------------------------------------
(* The users of the migration stay as it inserted them.                    *)
SeedRows == \A s \in Seed : users[s] = SeedRow[s]

(* What a delete has pending differs from the committed rows in deleted_at *)
(* only: nobody else can commit to the rows it has locked.                 *)
DeleteKeeps ==
  \A h \in Handler, u \in User : req[h].op = "delete" =>
    /\ userWrites[h][u] # NoRow =>
         /\ userWrites[h][u].username = users[u].username
         /\ userWrites[h][u].password = users[u].password
    /\ accountWrites[h][u] # NoRow => accountWrites[h][u].balance = accounts[u].balance

RegistryInv == NamesInv /\ SeedRows /\ DeleteKeeps
-----------------------------------------------------------------------------
(* Nothing is committed and nothing more is pending.                       *)
LEMMA QuietDeletes ==
  ASSUME DeleteKeeps, users' = users, accounts' = accounts,
         \A g \in Handler, u \in User :
           /\ userWrites'[g][u] # NoRow =>
                userWrites'[g][u] = userWrites[g][u] /\ req'[g] = req[g]
           /\ accountWrites'[g][u] # NoRow =>
                accountWrites'[g][u] = accountWrites[g][u] /\ req'[g] = req[g]
  PROVE  DeleteKeeps'
  BY DEF DeleteKeeps

LEMMA AbandonDeletes ==
  ASSUME RegistryInv, NEW h \in Handler, Abandon(h)
  PROVE  DeleteKeeps'
<1>1. /\ users' = users /\ accounts' = accounts /\ req' = req
      /\ \A u \in User : userWrites'[h][u] = NoRow /\ accountWrites'[h][u] = NoRow
      /\ \A g \in Handler \ {h} : /\ userWrites'[g] = userWrites[g]
                                  /\ accountWrites'[g] = accountWrites[g]
  BY EndTxLocks DEF Abandon, Rollback, RegistryInv, NamesInv, PairInv, TypeInv
<1> QED
  BY <1>1, QuietDeletes DEF RegistryInv

(* A request comes or goes while its handler has nothing pending.          *)
LEMMA IdleDeletes ==
  ASSUME RegistryInv, NEW h \in Handler, UNCHANGED dbVars,
         pc[h] \notin UserHeld \cup AccountHeld,
         \A g \in Handler \ {h} : req'[g] = req[g]
  PROVE  DeleteKeeps'
<1>1. Pending(h)
  BY DEF RegistryInv, NamesInv, PairInv
<1>2. \A u \in User : userWrites[h][u] = NoRow /\ accountWrites[h][u] = NoRow
  BY <1>1 DEF Pending
<1> QED
  BY <1>2, QuietDeletes DEF RegistryInv, dbVars

LEMMA RequestDeletes ==
  ASSUME RegistryInv, NEW h \in Handler,
         CreateAccount(h) \/ UpdateOrDeleteAccount(h) \/ Return(h)
  PROVE  DeleteKeeps'
<1>1. /\ UNCHANGED dbVars /\ pc[h] \in {"idle", "reply"}
      /\ \A g \in Handler \ {h} : req'[g] = req[g]
  BY DEF CreateAccount, UpdateOrDeleteAccount, Return, RegistryInv, NamesInv, PairInv,
    TypeInv, TypeOK
<1> QED
  BY <1>1, IdleDeletes DEF UserHeld, AccountHeld

LEMMA WriteUserDeletes ==
  ASSUME RegistryInv, NEW h \in Handler, NEW u \in User, NEW row,
         WriteUser(h, u, row), req' = req,
         req[h].op = "delete" =>
           row.username = users[u].username /\ row.password = users[u].password
  PROVE  DeleteKeeps'
<1>1. /\ users' = users /\ accounts' = accounts /\ accountWrites' = accountWrites
      /\ userWrites'[h][u] = row
      /\ \A v \in User \ {u} : userWrites'[h][v] = userWrites[h][v]
      /\ \A g \in Handler \ {h} : userWrites'[g] = userWrites[g]
  <2>1. TypeOK /\ LocksExclusive
    BY DEF RegistryInv, NamesInv, PairInv, TypeInv
  <2> QED
    BY <2>1, WriteUserLocks
<1> SUFFICES ASSUME NEW g \in Handler, NEW v \in User, req'[g].op = "delete"
             PROVE  /\ userWrites'[g][v] # NoRow =>
                         /\ userWrites'[g][v].username = users'[v].username
                         /\ userWrites'[g][v].password = users'[v].password
                    /\ accountWrites'[g][v] # NoRow =>
                         accountWrites'[g][v].balance = accounts'[v].balance
  BY DEF DeleteKeeps
<1>2. CASE g = h /\ v = u
  BY <1>1, <1>2 DEF RegistryInv, DeleteKeeps
<1>3. CASE g # h \/ v # u
  <2>1. userWrites'[g][v] = userWrites[g][v] /\ accountWrites'[g][v] = accountWrites[g][v]
    BY <1>1, <1>3
  <2> QED
    BY <1>1, <2>1 DEF RegistryInv, DeleteKeeps
<1> QED
  BY <1>2, <1>3

LEMMA WriteAccountDeletes ==
  ASSUME RegistryInv, NEW h \in Handler, NEW u \in User, NEW row,
         WriteAccount(h, u, row), req' = req,
         req[h].op = "delete" => row.balance = accounts[u].balance
  PROVE  DeleteKeeps'
<1>1. /\ users' = users /\ accounts' = accounts /\ userWrites' = userWrites
      /\ accountWrites'[h][u] = row
      /\ \A v \in User \ {u} : accountWrites'[h][v] = accountWrites[h][v]
      /\ \A g \in Handler \ {h} : accountWrites'[g] = accountWrites[g]
  <2>1. TypeOK /\ LocksExclusive
    BY DEF RegistryInv, NamesInv, PairInv, TypeInv
  <2> QED
    BY <2>1, WriteAccountLocks
<1> SUFFICES ASSUME NEW g \in Handler, NEW v \in User, req'[g].op = "delete"
             PROVE  /\ userWrites'[g][v] # NoRow =>
                         /\ userWrites'[g][v].username = users'[v].username
                         /\ userWrites'[g][v].password = users'[v].password
                    /\ accountWrites'[g][v] # NoRow =>
                         accountWrites'[g][v].balance = accounts'[v].balance
  BY DEF DeleteKeeps
<1>2. CASE g = h /\ v = u
  BY <1>1, <1>2 DEF RegistryInv, DeleteKeeps
<1>3. CASE g # h \/ v # u
  <2>1. userWrites'[g][v] = userWrites[g][v] /\ accountWrites'[g][v] = accountWrites[g][v]
    BY <1>1, <1>3
  <2> QED
    BY <1>1, <2>1 DEF RegistryInv, DeleteKeeps
<1> QED
  BY <1>2, <1>3

(* The statements of a create and of an update.                            *)
LEMMA OtherWriteDeletes ==
  ASSUME RegistryInv, NEW h \in Handler,
         \/ InsertUser(h) \/ InsertAccount(h)
         \/ LockUser(h) \/ UpdateUser(h) \/ UpdatePassword(h) \/ UpdateAccountRow(h)
  PROVE  DeleteKeeps'
<1>1. pc[h] \in CreateTx \cup UpdateTx /\ req[h].id \in User /\ req[h].op # "delete"
  BY DEF InsertUser, InsertAccount, LockUser, UpdateUser, UpdatePassword, UpdateAccountRow,
    RegistryInv, NamesInv, PairInv, TypeInv, Control, CreateTx, UpdateTx, Started,
    Labels, InTx
<1>2. \/ Abandon(h)
      \/ req' = req /\ \E row : WriteUser(h, req[h].id, row)
      \/ req' = req /\ \E row : WriteAccount(h, req[h].id, row)
  BY DEF InsertUser, InsertAccount, LockUser, UpdateUser, UpdatePassword, UpdateAccountRow,
    Proceed, locals
<1> QED
  BY <1>1, <1>2, AbandonDeletes, WriteUserDeletes, WriteAccountDeletes

(* The statements of a delete write what they find, marked as deleted.     *)
LEMMA DeleteDeletes ==
  ASSUME RegistryInv, NEW h \in Handler, DeleteAccountRow(h) \/ DeleteUserRow(h)
  PROVE  DeleteKeeps'
<1> DEFINE u == req[h].id
<1>1. /\ pc[h] \in DeleteTx /\ u \in User
      /\ UserSeen(h, u) \in UserRow /\ AccountSeen(h, u) \in AccountRow
  BY RowsFound DEF DeleteAccountRow, DeleteUserRow, DeleteTx, RegistryInv, NamesInv,
    PairInv, TypeInv, Control
<1>2. Pending(h)
  BY DEF RegistryInv, NamesInv, PairInv
<1>3. CASE DeleteAccountRow(h)
  <2>1. AccountSeen(h, u) = accounts[u]
    BY <1>1, <1>2, <1>3 DEF DeleteAccountRow, AccountSeen, Pending, AccountHeld
  <2>2. [AccountSeen(h, u) EXCEPT !.deleted = TRUE].balance = accounts[u].balance
    BY <1>1, <2>1 DEF AccountRow
  <2> QED
    BY <1>1, <1>3, <2>2, WriteAccountDeletes DEF DeleteAccountRow, Proceed, locals
<1>4. CASE DeleteUserRow(h)
  <2>1. UserSeen(h, u) = users[u]
    BY <1>1, <1>2, <1>4 DEF DeleteUserRow, UserSeen, Pending, UserHeld
  <2> DEFINE row == [UserSeen(h, u) EXCEPT !.deleted = TRUE]
  <2>2. row.username = users[u].username /\ row.password = users[u].password
    BY <1>1, <2>1 DEF UserRow
  <2> QED
    BY <1>1, <1>4, <2>2, WriteUserDeletes DEF DeleteUserRow, Proceed, locals
<1> QED
  BY <1>3, <1>4

LEMMA CommitDeletes ==
  ASSUME RegistryInv, NEW h \in Handler, CommitTx(h) \/ CommitUnacknowledged(h)
  PROVE  DeleteKeeps' /\ SeedRows'
<1> DEFINE id == req[h].id
<1>1. pc[h] = "commit" /\ Commit(h) /\ req' = req
  BY DEF CommitTx, CommitUnacknowledged
<1>2. /\ \A u \in User : userWrites'[h][u] = NoRow /\ accountWrites'[h][u] = NoRow
      /\ \A g \in Handler \ {h} : /\ userWrites'[g] = userWrites[g]
                                  /\ accountWrites'[g] = accountWrites[g]
  BY <1>1, EndTxLocks DEF Commit, RegistryInv, NamesInv, PairInv, TypeInv
<1>3. /\ id \in User /\ id \notin Seed
      /\ \A u \in User \ {id} : users'[u] = users[u] /\ accounts'[u] = accounts[u]
  BY <1>1, CommitEffect, CommitUser DEF RegistryInv, NamesInv
<1>4. ASSUME NEW g \in Handler \ {h}
      PROVE  userWrites[g][id] = NoRow /\ accountWrites[g][id] = NoRow
  BY <1>1, <1>3 DEF RegistryInv, NamesInv, PairInv, LocksExclusive, Pending, UserHeld,
    AccountHeld
<1>5. DeleteKeeps'
  BY <1>1, <1>2, <1>3, <1>4 DEF RegistryInv, DeleteKeeps
<1>6. SeedRows'
  BY <1>3, SeedAssumption DEF RegistryInv, SeedRows
<1> QED
  BY <1>5, <1>6
(* A transfer changes no row that a delete has pending.                    *)
LEMMA LegDeletes ==
  ASSUME RegistryInv, NEW u \in User, TransferLeg(u)
  PROVE  DeleteKeeps'
<1>1. /\ UNCHANGED <<users, userWrites, accountWrites, req>>
      /\ \A h \in Handler : accountWrites[h][u] = NoRow
      /\ \A v \in User \ {u} : accounts'[v] = accounts[v]
  BY LegEffect DEF locals, RegistryInv, NamesInv, PairInv, TypeInv
<1> QED
  BY <1>1 DEF RegistryInv, DeleteKeeps
-----------------------------------------------------------------------------
LEMMA InitRegistryInv ==
  ASSUME Init
  PROVE  RegistryInv
<1>1. SeedRows
  BY SeedAssumption DEF Init, SeedRows
<1>2. DeleteKeeps
  BY DEF Init, NoWrites, DeleteKeeps
<1> QED
  BY <1>1, <1>2, InitNamesInv DEF RegistryInv

LEMMA NextDeleteKeeps ==
  ASSUME RegistryInv, [Next]_vars
  PROVE  DeleteKeeps'
<1>1. CASE UNCHANGED <<dbVars, req>>
  BY <1>1, QuietDeletes DEF RegistryInv, dbVars
<1>2. CASE Crash
  BY <1>2, QuietDeletes DEF Crash, LoseConnections, NoWrites, RegistryInv
<1>3. ASSUME NEW h \in Handler, CreateAccount(h) \/ UpdateOrDeleteAccount(h)
      PROVE  DeleteKeeps'
  BY <1>3, RequestDeletes
<1>4. ASSUME NEW h \in Handler, Abandon(h)
      PROVE  DeleteKeeps'
  BY <1>4, AbandonDeletes
<1>5. ASSUME NEW h \in Handler, Work(h)
      PROVE  DeleteKeeps'
  <2>1. CASE \/ ReadExisting(h) \/ RejectBalance(h) \/ ReadMissing(h)
             \/ SelectDetails(h)
    BY <1>1, <2>1 DEF ReadExisting, RejectBalance, ReadMissing, Refuse, SelectDetails
  <2>2. CASE BeginTx(h)
    BY <2>2, QuietDeletes DEF BeginTx, Begin, Proceed, locals, RegistryInv
  <2>3. CASE SelectPk(h)
    BY <1>1, <1>4, <2>3 DEF SelectPk, Proceed, locals
  <2> QED
    BY <1>5, <2>1, <2>2, <2>3, OtherWriteDeletes, DeleteDeletes, CommitDeletes,
      RequestDeletes DEF Work
<1>6. ASSUME NEW h \in Handler, Fault(h)
      PROVE  DeleteKeeps'
  BY <1>1, <1>4, <1>6, CommitDeletes
  DEF Fault, HashFails, ReadFails, BeginFails, Refuse, StatementFails
<1> QED
  BY <1>1, <1>2, <1>3, <1>4, <1>5, <1>6, LegDeletes DEF Next, vars, DeadlockVictim

LEMMA NextRegistryInv ==
  ASSUME RegistryInv, [Next]_vars
  PROVE  RegistryInv'
<1>1. NamesInv'
  BY NextNamesInv DEF RegistryInv
<1>2. SeedRows'
  BY OnlyCommitWrites, CommitDeletes DEF RegistryInv, SeedRows, TransferLeg
<1> QED
  BY <1>1, <1>2, NextDeleteKeeps DEF RegistryInv
-----------------------------------------------------------------------------
(* The account of a user that is in both tables.                           *)
AccountOf(u) ==
  [username |-> users[u].username, password |-> users[u].password,
   balance  |-> accounts[u].balance, deleted |-> users[u].deleted]

LEMMA AccountsSeen ==
  ASSUME RegistryInv, NEW u \in User
  PROVE  /\ u \in Seed \/ users[u] = NoRow => CommittedAccounts[u] = NoRow
         /\ u \notin Seed /\ users[u] # NoRow =>
              CommittedAccounts[u] = AccountOf(u) /\ AccountOf(u) \in R!Account
<1>1. CASE u \in Seed \/ users[u] = NoRow
  BY <1>1 DEF CommittedAccounts, RegistryInv, NamesInv, PairInv, RowsPaired
<1>2. CASE u \notin Seed /\ users[u] # NoRow
  <2>1. users[u] \in UserRow /\ accounts[u] \in AccountRow /\ Paired(u)
    BY <1>2 DEF RegistryInv, NamesInv, PairInv, RowsPaired, TypeInv, TypeOK,
      DatabaseTypeOK, Paired
  <2>2. AccountOf(u) \in R!Account
    BY <2>1 DEF AccountOf, R!Account, UserRow, AccountRow
  <2> QED
    BY <1>2, <2>1, <2>2 DEF CommittedAccounts, AccountOf
<1> QED
  BY <1>1, <1>2

(* The same after a step.                                                  *)
LEMMA AccountsSeenNext ==
  ASSUME RegistryInv', NEW u \in User, u \notin Seed, users'[u] # NoRow
  PROVE  LET a == [username |-> users'[u].username, password |-> users'[u].password,
                   balance  |-> accounts'[u].balance, deleted |-> users'[u].deleted]
         IN CommittedAccounts'[u] = a /\ a \in R!Account
<1>1. users'[u] \in UserRow /\ accounts'[u] \in AccountRow /\ Paired(u)'
  BY DEF RegistryInv, NamesInv, PairInv, RowsPaired, TypeInv, TypeOK, DatabaseTypeOK, Paired
<1>2. [username |-> users'[u].username, password |-> users'[u].password,
       balance  |-> accounts'[u].balance, deleted |-> users'[u].deleted] \in R!Account
  BY <1>1 DEF R!Account, UserRow, AccountRow
<1> QED
  BY <1>1, <1>2 DEF CommittedAccounts, Paired

(* A commit is one operation of the registry.                              *)
LEMMA CommitIsOperation ==
  ASSUME RegistryInv, RegistryInv', NEW h \in Handler,
         CommitTx(h) \/ CommitUnacknowledged(h)
  PROVE  R!Next
<1> DEFINE id == req[h].id
           a  == [username |-> users'[id].username, password |-> users'[id].password,
                  balance  |-> accounts'[id].balance, deleted |-> users'[id].deleted]
<1>1. pc[h] = "commit" /\ Commit(h)
  BY DEF CommitTx, CommitUnacknowledged
<1>2. /\ id \in User /\ id \notin Seed
      /\ \A u \in User \ {id} : users'[u] = users[u] /\ accounts'[u] = accounts[u]
      /\ users'[id] # NoRow
      /\ users'[id].deleted <=> Flag(h)
  BY <1>1, CommitEffect, CommitUser DEF RegistryInv, NamesInv
<1>3. CommittedAccounts'[id] = a /\ a \in R!Account
  BY <1>2, AccountsSeenNext
<1>4. CommittedAccounts' = [CommittedAccounts EXCEPT ![id] = a]
  <2>1. \A u \in User \ {id} : CommittedAccounts'[u] = CommittedAccounts[u]
    BY <1>2 DEF CommittedAccounts, Paired
  <2>2. /\ CommittedAccounts  = [u \in User |-> CommittedAccounts[u]]
        /\ CommittedAccounts' = [u \in User |-> CommittedAccounts'[u]]
    BY DEF CommittedAccounts
  <2> QED
    BY <1>2, <1>3, <2>1, <2>2
<1>5. R!NameFree(id, a.username)
  <2>1. a.username = users'[id].username
    OBVIOUS
  <2>2. ASSUME NEW s \in Seed
        PROVE  SeedRow[s].username # a.username
    BY <1>2, <2>1, SeedAssumption DEF RegistryInv, NamesInv, UsernamesUnique, SeedRows,
      PairInv, SeedsKept
  <2>3. ASSUME NEW v \in User \ {id}, CommittedAccounts[v] # NoRow
        PROVE  CommittedAccounts[v].username # a.username
    <3>1. users[v] # NoRow /\ CommittedAccounts[v] = AccountOf(v)
      BY <2>3, AccountsSeen
    <3>2. CommittedAccounts[v].username = users[v].username
      BY <3>1 DEF AccountOf
    <3> QED
      BY <1>2, <2>1, <3>1, <3>2 DEF RegistryInv, NamesInv, UsernamesUnique
  <2> QED
    BY <2>2, <2>3 DEF R!NameFree, R!Known
<1>6. users'[id] \in UserRow /\ a.deleted = users'[id].deleted
  BY <1>2 DEF RegistryInv, NamesInv, PairInv, TypeInv, TypeOK, DatabaseTypeOK
<1>7. req[h] \in Request
  BY <1>1 DEF RegistryInv, NamesInv, PairInv, TypeInv, Control
<1>8. CASE req[h].op = "create"
  <2>1. CommittedAccounts[id] = NoRow
    BY <1>1, <1>2, <1>8, CommitUser, AccountsSeen DEF RegistryInv, NamesInv
  <2>2. ~a.deleted
    BY <1>2, <1>6, <1>8 DEF Flag
  <2>3. R!Create(id)
    BY <1>3, <1>4, <1>5, <2>1, <2>2 DEF R!Create, R!Known, R!Put
  <2> QED
    BY <1>2, <2>3 DEF R!Next
<1>9. ASSUME req[h].op # "create"
      PROVE  /\ users[id] \in UserRow /\ users[id] # NoRow /\ accounts[id] # NoRow
             /\ CommittedAccounts[id] = AccountOf(id)
             /\ CommittedAccounts[id] # NoRow
  <2>1. users[id] # NoRow /\ accounts[id] # NoRow
    BY <1>1, <1>9, CommitUser DEF RegistryInv, NamesInv
  <2>2. users[id] \in UserRow
    BY <1>2, <2>1 DEF RegistryInv, NamesInv, PairInv, TypeInv, TypeOK, DatabaseTypeOK
  <2>3. CommittedAccounts[id] = AccountOf(id)
    BY <1>2, <2>1, AccountsSeen
  <2>4. AccountOf(id) # NoRow
    BY <1>2, <2>1, AccountsSeen, NoAccountAssumption
  <2> QED
    BY <2>1, <2>2, <2>3, <2>4
<1>10. CASE req[h].op = "update"
  <2>1. a.deleted = users[id].deleted
    BY <1>2, <1>6, <1>9, <1>10 DEF Flag, UserRow
  <2>2. CommittedAccounts[id].deleted = users[id].deleted
    BY <1>9, <1>10 DEF AccountOf
  <2>3. R!Update(id)
    BY <1>3, <1>4, <1>5, <1>9, <1>10, <2>1, <2>2 DEF R!Update, R!Known, R!Put
  <2> QED
    BY <1>2, <2>3 DEF R!Next
<1>11. CASE req[h].op = "delete"
  <2>1. /\ users'[id].username = users[id].username
        /\ users'[id].password = users[id].password
        /\ accounts'[id].balance = accounts[id].balance
    BY <1>1, <1>2, <1>11 DEF Commit, UserSeen, AccountSeen, RegistryInv, DeleteKeeps
  <2>2. a.deleted
    BY <1>2, <1>6, <1>11 DEF Flag
  <2>3. /\ CommittedAccounts[id].username = users[id].username
        /\ CommittedAccounts[id].password = users[id].password
        /\ CommittedAccounts[id].balance = accounts[id].balance
    BY <1>9, <1>11 DEF AccountOf
  <2>4. R!Delete(id)
    BY <1>3, <1>4, <1>9, <1>11, <2>1, <2>2, <2>3 DEF R!Delete, R!Known, R!Put
  <2> QED
    BY <1>2, <2>4 DEF R!Next
<1> QED
  BY <1>7, <1>8, <1>10, <1>11, RequestKinds

(* So is a leg of a transfer, if the user has an account of the service.   *)
LEMMA LegIsOperation ==
  ASSUME RegistryInv, RegistryInv', NEW u \in User, TransferLeg(u)
  PROVE  R!Next
<1> DEFINE a == [username |-> users'[u].username, password |-> users'[u].password,
                 balance  |-> accounts'[u].balance, deleted |-> users'[u].deleted]
<1>1. /\ users' = users /\ accounts[u] # NoRow
      /\ accounts'[u].deleted = accounts[u].deleted
      /\ \A v \in User \ {u} : accounts'[v] = accounts[v]
  BY LegEffect DEF RegistryInv, NamesInv, PairInv, TypeInv
<1>2. u \notin Seed /\ users[u] # NoRow
  BY <1>1 DEF RegistryInv, NamesInv, PairInv, SeedsKept, RowsPaired
<1>3. /\ CommittedAccounts'[u] = a /\ a \in R!Account
      /\ CommittedAccounts[u] = AccountOf(u) /\ AccountOf(u) # NoRow
  BY <1>1, <1>2, AccountsSeen, AccountsSeenNext, NoAccountAssumption
<1>4. CommittedAccounts' = [CommittedAccounts EXCEPT ![u] = a]
  <2>1. \A v \in User \ {u} : CommittedAccounts'[v] = CommittedAccounts[v]
    BY <1>1 DEF CommittedAccounts, Paired
  <2>2. /\ CommittedAccounts  = [v \in User |-> CommittedAccounts[v]]
        /\ CommittedAccounts' = [v \in User |-> CommittedAccounts'[v]]
    BY DEF CommittedAccounts
  <2> QED
    BY <1>3, <2>1, <2>2
<1>5. R!NameFree(u, a.username)
  <2>1. a.username = users[u].username
    BY <1>1
  <2>2. ASSUME NEW s \in Seed
        PROVE  SeedRow[s].username # a.username
    BY <1>2, <2>1, SeedAssumption DEF RegistryInv, NamesInv, UsernamesUnique, SeedRows,
      PairInv, SeedsKept
  <2>3. ASSUME NEW v \in User \ {u}, CommittedAccounts[v] # NoRow
        PROVE  CommittedAccounts[v].username # a.username
    <3>1. users[v] # NoRow /\ CommittedAccounts[v] = AccountOf(v)
      BY <2>3, AccountsSeen
    <3>2. CommittedAccounts[v].username = users[v].username
      BY <3>1 DEF AccountOf
    <3> QED
      BY <1>2, <2>1, <3>1, <3>2 DEF RegistryInv, NamesInv, UsernamesUnique
  <2> QED
    BY <2>2, <2>3 DEF R!NameFree, R!Known
<1>6. a.deleted = CommittedAccounts[u].deleted
  BY <1>1, <1>3 DEF AccountOf
<1> QED
  BY <1>3, <1>4, <1>5, <1>6 DEF R!Next, R!Update, R!Known, R!Put

(* However requests overlap, fail and crash, and transfers settle between  *)
(* them, the committed accounts are created, changed and deleted one at a  *)
(* time as those of Registry are.                                          *)
THEOREM RegistryImplemented == Spec => ImplementsRegistry
<1>1. Init => R!Init
  BY DEF Init, R!Init, CommittedAccounts
<1>2. RegistryInv /\ RegistryInv' /\ [Next]_vars => [R!Next]_CommittedAccounts
  <2> SUFFICES ASSUME RegistryInv, RegistryInv', [Next]_vars,
                      ~(users' = users /\ accounts' = accounts)
               PROVE  R!Next
    BY DEF CommittedAccounts, Paired
  <2> QED
    BY OnlyCommitWrites, CommitIsOperation, LegIsOperation
<1>3. RegistryInv /\ [Next]_vars => RegistryInv'
  BY NextRegistryInv
<1>4. Init => RegistryInv
  BY InitRegistryInv
<1> QED
  BY <1>1, <1>2, <1>3, <1>4, PTL DEF Spec, ImplementsRegistry, R!Spec
=============================================================================
