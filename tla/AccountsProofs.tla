--------------------------- MODULE AccountsProofs ---------------------------
(***************************************************************************)
(* Proofs about Accounts, for any number of handlers, users, names and     *)
(* pooled connections: the types and what each step may rely on, and from  *)
(* these, with what the transactions under way have pending and the        *)
(* exclusive row locks, that the rows of the two tables stay in pairs and  *)
(* the deleted ones deleted.                                               *)
(***************************************************************************)
EXTENDS Accounts, DatabaseProofs

Started == Labels \ {"idle", "reply"}

(* What a handler's request and merged data are worth at each of its       *)
(* steps: a statement only uses what an earlier step has checked.          *)
Control(h) ==
  /\ pc[h] # "idle" => req[h] \in Request
  /\ pc[h] \in Started => req[h].id \in User
  /\ pc[h] \in CreateTx => req[h].op = "create"
  /\ pc[h] \in UpdateTx => req[h].op = "update"
  /\ pc[h] \in DeleteTx => req[h].op = "delete"
  /\ pc[h] \in {"read", "selectPk"} => req[h].op # "create"
  /\ pc[h] \in Started /\ req[h].op = "create" => req[h].password \in Password
  /\ pc[h] = "updatePassword" => req[h].password \in Password
  /\ pc[h] \in Started \ {"read"} /\ req[h].op # "delete" => data[h] \in Fields
  /\ pc[h] \in Started \ {"read"} /\ req[h].op # "create" =>
       users[req[h].id] # NoRow /\ accounts[req[h].id] # NoRow

TypeInv == TypeOK /\ \A h \in Handler : Control(h)
-----------------------------------------------------------------------------

(* The kinds of request are told apart by their op.                        *)
LEMMA RequestKinds ==
  ASSUME NEW r \in Request
  PROVE  /\ r.op \in {"create", "update", "delete"}
         /\ r.op = "create" => r \in CreateRequest
         /\ r.op = "update" => r \in UpdateRequest
         /\ r.op = "delete" => r \in DeleteRequest
  BY DEF Request, CreateRequest, UpdateRequest, DeleteRequest

(* A row that is there is a row of its table.                              *)
LEMMA SeenRows ==
  ASSUME TypeOK, NEW h \in Handler, NEW u \in User
  PROVE  /\ UserSeen(h, u) \in UserRow \cup {NoRow}
         /\ AccountSeen(h, u) \in AccountRow \cup {NoRow}
         /\ users[u] # NoRow => UserSeen(h, u) \in UserRow
         /\ accounts[u] # NoRow => AccountSeen(h, u) \in AccountRow
  BY DEF TypeOK, DatabaseTypeOK, UserSeen, AccountSeen

LEMMA CommitTypes ==
  ASSUME TypeOK, NEW h \in Handler, Commit(h)
  PROVE  /\ DatabaseTypeOK'
         /\ \A u \in User : /\ users[u] # NoRow => users'[u] # NoRow
                            /\ accounts[u] # NoRow => accounts'[u] # NoRow
<1>1. users' \in [User -> UserRow \cup {NoRow}]
  BY SeenRows DEF Commit
<1>2. accounts' \in [User -> AccountRow \cup {NoRow}]
  BY SeenRows DEF Commit
<1>3. /\ open' \in SUBSET Handler
      /\ userWrites' \in [Handler -> [User -> UserRow \cup {NoRow}]]
      /\ accountWrites' \in [Handler -> [User -> AccountRow \cup {NoRow}]]
  BY DEF Commit, EndTx, TypeOK, DatabaseTypeOK, NoWrites
<1>4. \A u \in User : /\ users[u] # NoRow => users'[u] # NoRow
                      /\ accounts[u] # NoRow => accounts'[u] # NoRow
  BY SeenRows, NoRowAssumption DEF Commit, UserSeen, AccountSeen
<1> QED
  BY <1>1, <1>2, <1>3, <1>4 DEF DatabaseTypeOK

LEMMA RollbackTypes ==
  ASSUME TypeOK, NEW h \in Handler, Rollback(h)
  PROVE  DatabaseTypeOK' /\ users' = users /\ accounts' = accounts
  BY DEF Rollback, EndTx, TypeOK, DatabaseTypeOK, NoWrites

LEMMA WriteUserTypes ==
  ASSUME TypeOK, NEW h \in Handler, NEW u \in User, NEW row \in UserRow,
         WriteUser(h, u, row)
  PROVE  DatabaseTypeOK' /\ users' = users /\ accounts' = accounts
  BY DEF WriteUser, TypeOK, DatabaseTypeOK

LEMMA WriteAccountTypes ==
  ASSUME TypeOK, NEW h \in Handler, NEW u \in User, NEW row \in AccountRow,
         WriteAccount(h, u, row)
  PROVE  DatabaseTypeOK' /\ users' = users /\ accounts' = accounts
  BY DEF WriteAccount, TypeOK, DatabaseTypeOK

(* A step of handler h that drops no committed row leaves the Control of   *)
(* the other handlers as it was.                                           *)
LEMMA OthersControl ==
  ASSUME NEW h \in Handler, TypeInv,
         \A g \in Handler \ {h} :
           pc'[g] = pc[g] /\ req'[g] = req[g] /\ data'[g] = data[g],
         \A u \in User : /\ users[u] # NoRow => users'[u] # NoRow
                         /\ accounts[u] # NoRow => accounts'[u] # NoRow,
         Control(h)'
  PROVE  \A g \in Handler : Control(g)'
<1> SUFFICES ASSUME NEW g \in Handler \ {h} PROVE Control(g)'
  OBVIOUS
<1>1. Control(g)
  BY DEF TypeInv
<1>2. pc[g] \in Started => req[g].id \in User
  BY <1>1 DEF Control
<1>3. pc'[g] = pc[g] /\ req'[g] = req[g] /\ data'[g] = data[g]
  OBVIOUS
<1>4. pc[g] \in Started \ {"read"} /\ req[g].op # "create" =>
        users'[req[g].id] # NoRow /\ accounts'[req[g].id] # NoRow
  BY <1>1, <1>2 DEF Control
<1> QED
  BY <1>1, <1>3, <1>4 DEF Control, Started, Labels, InTx, CreateTx, UpdateTx,
    DeleteTx, Request, CreateRequest, UpdateRequest, DeleteRequest, Fields, Field
-----------------------------------------------------------------------------
(* The ways a step of h ends, each with the types it keeps.                *)

LEMMA ProceedTypes ==
  ASSUME TypeOK, NEW h \in Handler, NEW label \in Labels, Proceed(h, label),
         DatabaseTypeOK'
  PROVE  /\ TypeOK' /\ pc'[h] = label
         /\ req' = req /\ data' = data /\ details' = details /\ reply' = reply
         /\ existing' = existing
         /\ \A g \in Handler \ {h} : pc'[g] = pc[g]
  BY DEF Proceed, Goto, locals, TypeOK

LEMMA AnswerTypes ==
  ASSUME TypeOK, NEW h \in Handler, NEW code \in Codes, Answer(h, code),
         UNCHANGED <<req, existing, data, details>>, DatabaseTypeOK'
  PROVE  /\ TypeOK' /\ pc'[h] = "reply"
         /\ \A g \in Handler \ {h} : pc'[g] = pc[g]
  BY DEF Answer, Goto, TypeOK, Labels, Field

(* A step that only answers keeps TypeInv if it keeps the rows.            *)
LEMMA AnswerTypeInv ==
  ASSUME TypeInv, NEW h \in Handler, NEW code \in Codes, Answer(h, code),
         pc[h] # "idle", UNCHANGED <<req, existing, data, details>>, DatabaseTypeOK',
         \A u \in User : /\ users[u] # NoRow => users'[u] # NoRow
                         /\ accounts[u] # NoRow => accounts'[u] # NoRow
  PROVE  TypeInv'
<1>1. /\ TypeOK' /\ pc'[h] = "reply"
      /\ \A g \in Handler \ {h} : pc'[g] = pc[g]
  BY AnswerTypes DEF TypeInv
<1>2. Control(h)'
  BY <1>1 DEF TypeInv, Control, Started, Labels, InTx, CreateTx, UpdateTx, DeleteTx,
    Request, CreateRequest, UpdateRequest, DeleteRequest
<1>3. \A g \in Handler : Control(g)'
  BY <1>1, <1>2, OthersControl
<1> QED
  BY <1>1, <1>3 DEF TypeInv

LEMMA AbandonTypeInv ==
  ASSUME TypeInv, NEW h \in Handler, Abandon(h), pc[h] # "idle"
  PROVE  TypeInv'
<1>1. DatabaseTypeOK' /\ users' = users /\ accounts' = accounts
  BY RollbackTypes DEF Abandon, TypeInv
<1> QED
  BY <1>1, AnswerTypeInv DEF Abandon, Codes

LEMMA RefuseTypeInv ==
  ASSUME TypeInv, NEW h \in Handler, NEW code \in Codes, Refuse(h, code),
         pc[h] # "idle"
  PROVE  TypeInv'
<1>1. DatabaseTypeOK' /\ users' = users /\ accounts' = accounts
  BY DEF Refuse, dbVars, TypeInv, TypeOK, DatabaseTypeOK
<1> QED
  BY <1>1, AnswerTypeInv DEF Refuse

(* A step that goes on keeps TypeInv if it keeps the rows and h has what   *)
(* the next step needs.                                                    *)
LEMMA ProceedTypeInv ==
  ASSUME TypeInv, NEW h \in Handler, NEW label \in InTx, Proceed(h, label),
         pc[h] \in Started \ {"read"}, DatabaseTypeOK',
         users' = users, accounts' = accounts,
         label \in CreateTx => req[h].op = "create",
         label \in UpdateTx => req[h].op = "update",
         label \in DeleteTx => req[h].op = "delete",
         label = "selectPk" => req[h].op # "create",
         label = "updatePassword" => req[h].password \in Password
  PROVE  TypeInv'
<1>1. /\ TypeOK' /\ pc'[h] = label
      /\ req' = req /\ data' = data
      /\ \A g \in Handler \ {h} : pc'[g] = pc[g]
  BY ProceedTypes DEF TypeInv, Labels
<1>2. Control(h)'
  BY <1>1 DEF TypeInv, Control, Started, Labels, InTx, CreateTx, UpdateTx, DeleteTx,
    Request, CreateRequest, UpdateRequest, DeleteRequest, Fields, Field
<1>3. \A g \in Handler : Control(g)'
  BY <1>1, <1>2, OthersControl
<1> QED
  BY <1>1, <1>3 DEF TypeInv
-----------------------------------------------------------------------------
(* Every step keeps TypeInv: first the requests that arrive ...            *)

LEMMA CreateAccountTypeInv ==
  ASSUME TypeInv, NEW h \in Handler, CreateAccount(h)
  PROVE  TypeInv'
<1>1. PICK r \in CreateRequest : CreateAccount(h)!(r)
  BY DEF CreateAccount
<1>2. r \in Request /\ r.op = "create" /\ r.id \in User
  BY DEF Request, CreateRequest
<1>3. /\ users' = users /\ accounts' = accounts /\ DatabaseTypeOK'
      /\ details' = details /\ existing' = existing /\ req' = [req EXCEPT ![h] = r]
      /\ req' \in [Handler -> Field(Request)]
  BY <1>1, <1>2 DEF TypeInv, TypeOK, DatabaseTypeOK, dbVars, Field
<1>4. CASE /\ Complete(r) /\ r.balance \in Amounts
           /\ data' = [data EXCEPT ![h] =
                [username |-> r.username, balance |-> Float64(r.balance)]]
           /\ Goto(h, "begin") /\ UNCHANGED reply
  <2>1. Float64(r.balance) \in Int
    BY <1>4, Float64Int, RequestAssumption
  <2>2. r.username \in Username /\ r.password \in Password
    BY <1>4 DEF Complete, CreateRequest, Field
  <2>3. [username |-> r.username, balance |-> Float64(r.balance)] \in Fields
    BY <2>1, <2>2 DEF Fields
  <2>4. TypeOK' /\ pc'[h] = "begin" /\ req'[h] = r /\ data'[h] \in Fields
    BY <1>3, <1>4, <2>3 DEF TypeInv, TypeOK, Goto, Field, Labels
  <2>5. Control(h)'
    BY <1>2, <2>2, <2>4 DEF Control, Started, Labels, InTx, CreateTx, UpdateTx,
      DeleteTx, Request, CreateRequest, UpdateRequest, DeleteRequest
  <2>6. \A g \in Handler \ {h} :
          pc'[g] = pc[g] /\ req'[g] = req[g] /\ data'[g] = data[g]
    BY <1>3, <1>4 DEF TypeInv, TypeOK, Goto
  <2> QED
    BY <1>3, <2>4, <2>5, <2>6, OthersControl DEF TypeInv
<1>5. ASSUME NEW code \in Codes, Answer(h, code), UNCHANGED data
      PROVE  TypeInv'
  <2>1. TypeOK' /\ pc'[h] = "reply" /\ req'[h] = r
    BY <1>3, <1>5 DEF TypeInv, TypeOK, Answer, Goto, Field, Labels
  <2>2. Control(h)'
    BY <1>2, <2>1 DEF Control, Started, Labels, InTx, CreateTx, UpdateTx,
      DeleteTx, Request, CreateRequest, UpdateRequest, DeleteRequest
  <2>3. \A g \in Handler \ {h} :
          pc'[g] = pc[g] /\ req'[g] = req[g] /\ data'[g] = data[g]
    BY <1>3, <1>5 DEF TypeInv, TypeOK, Goto, Answer
  <2> QED
    BY <1>3, <2>1, <2>2, <2>3, OthersControl DEF TypeInv
<1> QED
  BY <1>1, <1>4, <1>5 DEF Codes

LEMMA UpdateOrDeleteTypeInv ==
  ASSUME TypeInv, NEW h \in Handler, UpdateOrDeleteAccount(h)
  PROVE  TypeInv'
<1>1. PICK r \in UpdateRequest \cup DeleteRequest : UpdateOrDeleteAccount(h)!(r)
  BY DEF UpdateOrDeleteAccount
<1>2. r \in Request /\ r.op # "create" /\ r.id \in User \cup {None}
  BY DEF Request, UpdateRequest, DeleteRequest, Field
<1>3. /\ users' = users /\ accounts' = accounts /\ DatabaseTypeOK'
      /\ details' = details /\ existing' = existing /\ data' = data
      /\ req' = [req EXCEPT ![h] = r]
  BY <1>1, <1>2 DEF TypeInv, TypeOK, DatabaseTypeOK, dbVars
<1>4. /\ TypeOK' /\ req'[h] = r
      /\ pc'[h] = "reply" \/ (pc'[h] = "read" /\ r.id # None)
      /\ \A g \in Handler \ {h} : pc'[g] = pc[g] /\ req'[g] = req[g]
  BY <1>1, <1>2, <1>3 DEF TypeInv, TypeOK, Answer, Goto, Field, Labels, Codes
<1>5. Control(h)'
  BY <1>2, <1>4 DEF Control, Started, Labels, InTx, CreateTx, UpdateTx,
    DeleteTx, Request, CreateRequest, UpdateRequest, DeleteRequest
<1> QED
  BY <1>3, <1>4, <1>5, OthersControl DEF TypeInv

(* ... the read and the merge ...                                          *)

LEMMA MergeType ==
  ASSUME TypeInv, NEW h \in Handler, pc[h] = "read", Live(req[h].id),
         req[h].op = "update", req[h].balance # Malformed
  PROVE  Read(req[h].id) \in Fields /\ Merge(req[h], Read(req[h].id)) \in Fields
<1> DEFINE e == Read(req[h].id)
<1>1. req[h] \in UpdateRequest /\ req[h].id \in User
  BY RequestKinds DEF TypeInv, Control, Started, Labels
<1>2. users[req[h].id] \in UserRow /\ accounts[req[h].id] \in AccountRow
  BY <1>1 DEF TypeInv, TypeOK, DatabaseTypeOK, Live
<1>3. /\ req[h].username \in Username \cup {None}
      /\ req[h].balance \in Int \cup {None}
  BY <1>1, RequestAssumption DEF UpdateRequest, Field, Balance
<1>4. accounts[req[h].id].balance \in Int
  BY <1>2, BalanceAssumption DEF AccountRow, BalanceColumn
<1>5. e.username \in Username /\ e.balance \in Int /\ e \in Fields
  BY <1>2, <1>4, Float64Int DEF Read, Fields, UserRow
<1>6. Over(req[h].username, e.username) \in Username
  BY <1>3, <1>5 DEF Over
<1>7. (IF req[h].balance = None THEN e.balance ELSE Float64(req[h].balance)) \in Int
  BY <1>3, <1>5, Float64Int
<1> HIDE DEF e
<1>8. Merge(req[h], e) \in Fields
  BY <1>6, <1>7 DEF Merge, Fields
<1> QED
  BY <1>5, <1>8 DEF e

LEMMA ReadExistingTypeInv ==
  ASSUME TypeInv, NEW h \in Handler, ReadExisting(h)
  PROVE  TypeInv'
<1> DEFINE e == Read(req[h].id)
           m == Merge(req[h], e)
<1>1. /\ users' = users /\ accounts' = accounts /\ DatabaseTypeOK'
      /\ details' = details /\ req' = req /\ reply' = reply
      /\ pc' = [pc EXCEPT ![h] = "begin"] /\ pc[h] = "read" /\ Live(req[h].id)
  BY DEF ReadExisting, Goto, TypeInv, TypeOK, DatabaseTypeOK, dbVars
<1>2. \/ /\ req[h].op = "update" /\ e \in Fields /\ m \in Fields
         /\ existing' = [existing EXCEPT ![h] = e] /\ data' = [data EXCEPT ![h] = m]
      \/ req[h].op = "delete" /\ existing' = existing /\ data' = data
  BY <1>1, MergeType DEF ReadExisting
<1> HIDE DEF e, m
<1>3. TypeOK' /\ pc'[h] = "begin"
  BY <1>1, <1>2 DEF TypeInv, TypeOK, Field, Labels
<1>4. \A g \in Handler \ {h} : pc'[g] = pc[g] /\ req'[g] = req[g] /\ data'[g] = data[g]
  BY <1>1, <1>2 DEF TypeInv, TypeOK
<1>5. req[h].op = "update" => data'[h] \in Fields
  BY <1>2 DEF TypeInv, TypeOK
<1>6. req[h].id \in User /\ req[h] \in Request /\ req[h].op \in {"update", "delete"}
  BY <1>1, <1>2 DEF TypeInv, Control, Started, Labels
<1>7. users'[req[h].id] # NoRow /\ accounts'[req[h].id] # NoRow
  BY <1>1 DEF Live
<1>8. Control(h)'
  BY <1>1, <1>3, <1>5, <1>6, <1>7 DEF Control, Started, Labels, InTx, CreateTx,
    UpdateTx, DeleteTx
<1> QED
  BY <1>1, <1>3, <1>4, <1>8, OthersControl DEF TypeInv
-----------------------------------------------------------------------------
(* ... then the statements.                                                *)

LEMMA BeginTxTypeInv ==
  ASSUME TypeInv, NEW h \in Handler, BeginTx(h)
  PROVE  TypeInv'
<1>1. DatabaseTypeOK' /\ users' = users /\ accounts' = accounts
  BY DEF BeginTx, Begin, TypeInv, TypeOK, DatabaseTypeOK
<1>2. CASE req[h].op = "create"
  BY <1>1, <1>2, ProceedTypeInv
  DEF BeginTx, Started, Labels, InTx, CreateTx, UpdateTx, DeleteTx
<1>3. CASE req[h].op # "create"
  BY <1>1, <1>3, ProceedTypeInv
  DEF BeginTx, Started, Labels, InTx, CreateTx, UpdateTx, DeleteTx
<1> QED
  BY <1>2, <1>3

LEMMA InsertUserTypeInv ==
  ASSUME TypeInv, NEW h \in Handler, InsertUser(h)
  PROVE  TypeInv'
<1> DEFINE row == [username |-> data[h].username, password |-> req[h].password,
                   deleted |-> FALSE]
<1>1. /\ pc[h] = "insertUser" /\ pc[h] \in Started \ {"read"}
      /\ req[h].op = "create" /\ req[h].id \in User
      /\ row \in UserRow
  BY DEF InsertUser, TypeInv, Control, Started, Labels, InTx, CreateTx, Fields, UserRow
<1>2. CASE WriteUser(h, req[h].id, row) /\ Proceed(h, "insertAccount")
  <2>1. DatabaseTypeOK' /\ users' = users /\ accounts' = accounts
    BY <1>1, <1>2, WriteUserTypes DEF TypeInv
  <2> QED
    BY <1>1, <1>2, <2>1, ProceedTypeInv DEF InTx, CreateTx, UpdateTx, DeleteTx
<1> QED
  BY <1>1, <1>2, AbandonTypeInv DEF InsertUser

LEMMA InsertAccountTypeInv ==
  ASSUME TypeInv, NEW h \in Handler, InsertAccount(h)
  PROVE  TypeInv'
<1> DEFINE row == [balance |-> data[h].balance, deleted |-> FALSE]
<1>1. /\ pc[h] = "insertAccount" /\ pc[h] \in Started \ {"read"}
      /\ req[h].id \in User
  BY DEF InsertAccount, TypeInv, Control, Started, Labels, InTx, CreateTx
<1>2. CASE row \in AccountRow /\ WriteAccount(h, req[h].id, row) /\ Proceed(h, "commit")
  <2>1. DatabaseTypeOK' /\ users' = users /\ accounts' = accounts
    BY <1>1, <1>2, WriteAccountTypes DEF TypeInv
  <2> QED
    BY <1>1, <1>2, <2>1, ProceedTypeInv DEF InTx, CreateTx, UpdateTx, DeleteTx
<1> QED
  BY <1>1, <1>2, AbandonTypeInv DEF InsertAccount

LEMMA SelectPkTypeInv ==
  ASSUME TypeInv, NEW h \in Handler, SelectPk(h)
  PROVE  TypeInv'
<1>1. /\ pc[h] = "selectPk" /\ pc[h] \in Started \ {"read"}
      /\ req[h].op \in {"update", "delete"}
  BY RequestKinds DEF SelectPk, TypeInv, Control, Started, Labels, InTx
<1>2. CASE UNCHANGED dbVars /\ Proceed(h, IF req[h].op = "update" THEN "updateUser"
                                                                ELSE "deleteAccount")
  <2>1. DatabaseTypeOK' /\ users' = users /\ accounts' = accounts
    BY <1>2 DEF TypeInv, TypeOK, DatabaseTypeOK, dbVars
  <2>2. CASE req[h].op = "update"
    BY <1>1, <1>2, <2>1, <2>2, ProceedTypeInv DEF InTx, CreateTx, UpdateTx, DeleteTx
  <2>3. CASE req[h].op = "delete"
    BY <1>1, <1>2, <2>1, <2>3, ProceedTypeInv DEF InTx, CreateTx, UpdateTx, DeleteTx
  <2> QED
    BY <1>1, <2>2, <2>3
<1> QED
  BY <1>1, <1>2, AbandonTypeInv DEF SelectPk

(* An update or a delete that is under way finds its rows.                 *)
LEMMA RowsFound ==
  ASSUME TypeInv, NEW h \in Handler, pc[h] \in UpdateTx \cup DeleteTx
  PROVE  /\ pc[h] \in Started \ {"read"}
         /\ req[h].id \in User
         /\ UserSeen(h, req[h].id) \in UserRow
         /\ AccountSeen(h, req[h].id) \in AccountRow
         /\ pc[h] \in UpdateTx => req[h] \in UpdateRequest /\ data[h] \in Fields
<1>1. pc[h] \in Started \ {"read"} /\ req[h].id \in User /\ req[h] \in Request
  BY DEF TypeInv, Control, Started, Labels, InTx, UpdateTx, DeleteTx
<1>2. users[req[h].id] # NoRow /\ accounts[req[h].id] # NoRow
  BY <1>1 DEF TypeInv, Control, Started, UpdateTx, DeleteTx
<1>3. pc[h] \in UpdateTx => req[h] \in UpdateRequest /\ data[h] \in Fields
  BY <1>1, RequestKinds DEF TypeInv, Control
<1> QED
  BY <1>1, <1>2, <1>3, SeenRows DEF TypeInv

LEMMA LockUserTypeInv ==
  ASSUME TypeInv, NEW h \in Handler, LockUser(h)
  PROVE  TypeInv'
<1>1. pc[h] = "updateUser" /\ pc[h] \in UpdateTx
  BY DEF LockUser, UpdateTx
<1>2. /\ pc[h] \in Started \ {"read"} /\ req[h].id \in User /\ req[h].op = "update"
      /\ UserSeen(h, req[h].id) \in UserRow
  BY <1>1, RowsFound DEF UpdateRequest
<1>3. DatabaseTypeOK' /\ users' = users /\ accounts' = accounts
  BY <1>2, WriteUserTypes DEF LockUser, TypeInv
<1> QED
  BY <1>2, <1>3, ProceedTypeInv DEF LockUser, InTx, CreateTx, UpdateTx, DeleteTx

LEMMA UpdateUserTypeInv ==
  ASSUME TypeInv, NEW h \in Handler, UpdateUser(h)
  PROVE  TypeInv'
<1> DEFINE u == req[h].id
           row == [UserSeen(h, u) EXCEPT !.username = data[h].username]
           next == IF req[h].password = None THEN "updateAccount" ELSE "updatePassword"
<1>1. pc[h] = "writeUser" /\ pc[h] \in UpdateTx
  BY DEF UpdateUser, UpdateTx
<1>2. /\ pc[h] \in Started \ {"read"} /\ u \in User /\ row \in UserRow
      /\ req[h].op = "update"
      /\ req[h].password # None => req[h].password \in Password
  BY <1>1, RowsFound DEF UserRow, Fields, UpdateRequest, Field
<1>3. CASE WriteUser(h, u, row) /\ Proceed(h, next)
  <2>1. DatabaseTypeOK' /\ users' = users /\ accounts' = accounts
    BY <1>2, <1>3, WriteUserTypes DEF TypeInv
  <2>2. CASE req[h].password = None
    BY <1>2, <1>3, <2>1, <2>2, ProceedTypeInv DEF InTx, CreateTx, UpdateTx, DeleteTx
  <2>3. CASE req[h].password # None
    BY <1>2, <1>3, <2>1, <2>3, ProceedTypeInv DEF InTx, CreateTx, UpdateTx, DeleteTx
  <2> QED
    BY <2>2, <2>3
<1> QED
  BY <1>1, <1>3, AbandonTypeInv DEF UpdateUser

LEMMA UpdatePasswordTypeInv ==
  ASSUME TypeInv, NEW h \in Handler, UpdatePassword(h)
  PROVE  TypeInv'
<1> DEFINE u == req[h].id
           row == [UserSeen(h, u) EXCEPT !.password = req[h].password]
<1>1. pc[h] = "updatePassword" /\ pc[h] \in UpdateTx
  BY DEF UpdatePassword, UpdateTx
<1>2. /\ pc[h] \in Started \ {"read"} /\ u \in User /\ req[h].op = "update"
      /\ req[h].password \in Password
  BY <1>1, RowsFound DEF TypeInv, Control, UpdateRequest
<1>3. row \in UserRow
  BY <1>1, <1>2, RowsFound DEF UserRow
<1>4. DatabaseTypeOK' /\ users' = users /\ accounts' = accounts
  BY <1>2, <1>3, WriteUserTypes DEF UpdatePassword, TypeInv
<1> QED
  BY <1>2, <1>4, ProceedTypeInv DEF UpdatePassword, InTx, CreateTx, UpdateTx, DeleteTx

LEMMA UpdateAccountRowTypeInv ==
  ASSUME TypeInv, NEW h \in Handler, UpdateAccountRow(h)
  PROVE  TypeInv'
<1> DEFINE u == req[h].id
           row == [AccountSeen(h, u) EXCEPT !.balance = data[h].balance]
<1>1. pc[h] = "updateAccount" /\ pc[h] \in UpdateTx
  BY DEF UpdateAccountRow, UpdateTx
<1>2. pc[h] \in Started \ {"read"} /\ u \in User /\ req[h].op = "update"
  BY <1>1, RowsFound DEF UpdateRequest
<1>3. CASE row \in AccountRow /\ WriteAccount(h, u, row) /\ Proceed(h, "selectDetails")
  <2>1. DatabaseTypeOK' /\ users' = users /\ accounts' = accounts
    BY <1>2, <1>3, WriteAccountTypes DEF TypeInv
  <2> QED
    BY <1>2, <1>3, <2>1, ProceedTypeInv DEF InTx, CreateTx, UpdateTx, DeleteTx
<1> QED
  BY <1>1, <1>3, AbandonTypeInv DEF UpdateAccountRow

LEMMA SelectDetailsTypeInv ==
  ASSUME TypeInv, NEW h \in Handler, SelectDetails(h)
  PROVE  TypeInv'
<1>1. pc[h] = "selectDetails" /\ pc[h] \in UpdateTx
  BY DEF SelectDetails, UpdateTx
<1>2. /\ pc[h] \in Started \ {"read"} /\ req[h] \in Request
      /\ [user |-> UserSeen(h, req[h].id), account |-> AccountSeen(h, req[h].id)]
           \in Details
  BY <1>1, RowsFound DEF Details, Request
<1>3. /\ users' = users /\ accounts' = accounts /\ DatabaseTypeOK'
      /\ req' = req /\ data' = data /\ pc' = [pc EXCEPT ![h] = "commit"]
  BY DEF SelectDetails, Goto, dbVars, TypeInv, TypeOK, DatabaseTypeOK
<1>4. TypeOK' /\ pc'[h] = "commit"
  BY <1>2, <1>3 DEF SelectDetails, TypeInv, TypeOK, Field, Labels, InTx
<1>5. Control(h)'
  BY <1>1, <1>3, <1>4 DEF TypeInv, Control, Started, Labels, InTx, CreateTx, UpdateTx,
    DeleteTx, Request, CreateRequest, UpdateRequest, DeleteRequest, Fields, Field
<1>6. \A g \in Handler \ {h} : pc'[g] = pc[g] /\ req'[g] = req[g] /\ data'[g] = data[g]
  BY <1>3 DEF TypeInv, TypeOK
<1> QED
  BY <1>3, <1>4, <1>5, <1>6, OthersControl DEF TypeInv

LEMMA DeleteAccountRowTypeInv ==
  ASSUME TypeInv, NEW h \in Handler, DeleteAccountRow(h)
  PROVE  TypeInv'
<1> DEFINE u == req[h].id
           row == [AccountSeen(h, u) EXCEPT !.deleted = TRUE]
<1>1. pc[h] = "deleteAccount" /\ pc[h] \in DeleteTx
  BY DEF DeleteAccountRow, DeleteTx
<1>2. /\ pc[h] \in Started \ {"read"} /\ u \in User /\ row \in AccountRow
      /\ req[h].op = "delete"
  BY <1>1, RowsFound DEF TypeInv, Control, AccountRow
<1>3. DatabaseTypeOK' /\ users' = users /\ accounts' = accounts
  BY <1>2, WriteAccountTypes DEF DeleteAccountRow, TypeInv
<1> QED
  BY <1>2, <1>3, ProceedTypeInv DEF DeleteAccountRow, InTx, CreateTx, UpdateTx, DeleteTx

LEMMA DeleteUserRowTypeInv ==
  ASSUME TypeInv, NEW h \in Handler, DeleteUserRow(h)
  PROVE  TypeInv'
<1> DEFINE u == req[h].id
           row == [UserSeen(h, u) EXCEPT !.deleted = TRUE]
<1>1. pc[h] = "deleteUser" /\ pc[h] \in DeleteTx
  BY DEF DeleteUserRow, DeleteTx
<1>2. /\ pc[h] \in Started \ {"read"} /\ u \in User /\ row \in UserRow
      /\ req[h].op = "delete"
  BY <1>1, RowsFound DEF TypeInv, Control, UserRow
<1>3. DatabaseTypeOK' /\ users' = users /\ accounts' = accounts
  BY <1>2, WriteUserTypes DEF DeleteUserRow, TypeInv
<1> QED
  BY <1>2, <1>3, ProceedTypeInv DEF DeleteUserRow, InTx, CreateTx, UpdateTx, DeleteTx
-----------------------------------------------------------------------------
(* ... the ends of transactions, the faults, and the rest.                 *)

LEMMA CommitTypeInv ==
  ASSUME TypeInv, NEW h \in Handler, CommitTx(h) \/ CommitUnacknowledged(h)
  PROVE  TypeInv'
<1>1. Commit(h) /\ pc[h] # "idle" /\ UNCHANGED <<req, existing, data, details>>
  BY DEF CommitTx, CommitUnacknowledged
<1>2. PICK code \in Codes : Answer(h, code)
  BY DEF CommitTx, CommitUnacknowledged, Codes
<1>3. /\ DatabaseTypeOK'
      /\ \A u \in User : /\ users[u] # NoRow => users'[u] # NoRow
                         /\ accounts[u] # NoRow => accounts'[u] # NoRow
  BY <1>1, CommitTypes DEF TypeInv
<1> QED
  BY <1>1, <1>2, <1>3, AnswerTypeInv

LEMMA RefusalTypeInv ==
  ASSUME TypeInv, NEW h \in Handler,
         \/ RejectBalance(h) \/ ReadMissing(h) \/ ReadFails(h)
         \/ HashFails(h) \/ BeginFails(h)
  PROVE  TypeInv'
<1>1. pc[h] # "idle"
  BY DEF RejectBalance, ReadMissing, ReadFails, HashFails, BeginFails
<1>2. PICK code \in Codes : Refuse(h, code)
  BY DEF RejectBalance, ReadMissing, ReadFails, HashFails, BeginFails, Codes
<1> QED
  BY <1>1, <1>2, RefuseTypeInv

(* Only a handler inside a transaction waits for another one.              *)
LEMMA WaitersInTx ==
  ASSUME NEW h \in Handler, DeadlockVictim(h)
  PROVE  pc[h] \in InTx
<1>1. PICK S \in SUBSET Handler : h \in S /\ WaitRing(S)
  BY DEF DeadlockVictim
<1>2. Blockers(h) # {}
  BY <1>1 DEF WaitRing
<1> QED
  BY <1>2 DEF Blockers, InTx, CreateTx, UpdateTx, DeleteTx

LEMMA FailureTypeInv ==
  ASSUME TypeInv, NEW h \in Handler, StatementFails(h) \/ DeadlockVictim(h)
  PROVE  TypeInv'
<1>1. pc[h] \in InTx
  BY WaitersInTx DEF StatementFails
<1>2. pc[h] # "idle" /\ Abandon(h)
  BY <1>1 DEF StatementFails, DeadlockVictim, InTx, CreateTx, UpdateTx, DeleteTx
<1> QED
  BY <1>2, AbandonTypeInv

LEMMA ReturnTypeInv ==
  ASSUME TypeInv, NEW h \in Handler, Return(h)
  PROVE  TypeInv'
<1>1. users' = users /\ accounts' = accounts
  BY DEF Return, dbVars
<1>2. TypeOK' /\ pc'[h] = "idle"
  BY DEF Return, Goto, dbVars, TypeInv, TypeOK, DatabaseTypeOK, Field, Labels
<1>3. \A g \in Handler \ {h} : pc'[g] = pc[g] /\ req'[g] = req[g] /\ data'[g] = data[g]
  BY DEF Return, Goto, TypeInv, TypeOK
<1>4. Control(h)'
  BY <1>2 DEF Control, Started, CreateTx, UpdateTx, DeleteTx
<1> QED
  BY <1>1, <1>2, <1>3, <1>4, OthersControl DEF TypeInv

LEMMA IdleControl ==
  ASSUME NEW h \in Handler, pc[h] = "idle"
  PROVE  Control(h)
  BY DEF Control, Started, CreateTx, UpdateTx, DeleteTx

(* A transfer's leg changes one balance that no handler has pending.       *)
LEMMA LegEffect ==
  ASSUME TypeOK, NEW u \in User, TransferLeg(u)
  PROVE  /\ UNCHANGED <<users, open, userWrites, accountWrites, pc, locals>>
         /\ \A h \in Handler : accountWrites[h][u] = NoRow
         /\ accounts[u] # NoRow /\ accounts'[u] \in AccountRow
         /\ accounts'[u] = [accounts[u] EXCEPT !.balance = accounts'[u].balance]
         /\ accounts'[u].deleted = accounts[u].deleted
         /\ \A v \in User \ {u} : accounts'[v] = accounts[v]
         /\ accounts' \in [User -> AccountRow \cup {NoRow}]
<1>1. PICK b \in Settled : accounts' = [accounts EXCEPT ![u].balance = b]
  BY DEF TransferLeg
<1>2. accounts[u] \in AccountRow /\ b \in BalanceColumn
  BY RequestAssumption DEF TransferLeg, TypeOK, DatabaseTypeOK
<1>3. accounts'[u] = [accounts[u] EXCEPT !.balance = b]
  BY <1>1 DEF TypeOK, DatabaseTypeOK
<1>4. /\ accounts'[u] \in AccountRow /\ accounts'[u].balance = b
      /\ accounts'[u].deleted = accounts[u].deleted
  BY <1>2, <1>3 DEF AccountRow
<1>5. /\ \A v \in User \ {u} : accounts'[v] = accounts[v]
      /\ accounts' \in [User -> AccountRow \cup {NoRow}]
  BY <1>1, <1>3, <1>4 DEF TypeOK, DatabaseTypeOK
<1> QED
  BY <1>3, <1>4, <1>5 DEF TransferLeg

LEMMA LegTypeInv ==
  ASSUME TypeInv, NEW u \in User, TransferLeg(u)
  PROVE  TypeInv'
<1>1. /\ UNCHANGED <<users, open, userWrites, accountWrites, pc, locals>>
      /\ accounts' \in [User -> AccountRow \cup {NoRow}]
      /\ \A v \in User : accounts[v] # NoRow => accounts'[v] # NoRow
  BY LegEffect, NoRowAssumption DEF TypeInv
<1>2. TypeOK'
  BY <1>1 DEF locals, TypeInv, TypeOK, DatabaseTypeOK
<1>3. ASSUME NEW h \in Handler
      PROVE  Control(h)'
  <2>1. Control(h)
    BY DEF TypeInv
  <2>2. pc[h] \in Started => req[h].id \in User
    BY <2>1 DEF Control
  <2>3. pc' = pc /\ req' = req /\ data' = data /\ users' = users
    BY <1>1 DEF locals
  <2>4. pc[h] \in Started \ {"read"} /\ req[h].op # "create" =>
          users'[req[h].id] # NoRow /\ accounts'[req[h].id] # NoRow
    BY <1>1, <2>1, <2>2, <2>3 DEF Control
  <2> QED
    BY <2>1, <2>3, <2>4 DEF Control
<1> QED
  BY <1>2, <1>3 DEF TypeInv

LEMMA CrashTypeInv ==
  ASSUME TypeInv, Crash
  PROVE  TypeInv'
<1>1. TypeOK'
  BY DEF Crash, LoseConnections, TypeInv, TypeOK, DatabaseTypeOK, NoWrites, Field, Labels
<1>2. \A h \in Handler : pc'[h] = "idle"
  BY DEF Crash
<1>3. \A h \in Handler : Control(h)'
  BY <1>2 DEF Control, Started, CreateTx, UpdateTx, DeleteTx
<1> QED
  BY <1>1, <1>3 DEF TypeInv
-----------------------------------------------------------------------------
LEMMA InitTypeInv ==
  ASSUME Init
  PROVE  TypeInv
<1>1. TypeOK
  BY SeedAssumption DEF Init, TypeOK, DatabaseTypeOK, NoWrites, Field, Labels
<1>2. \A h \in Handler : Control(h)
  BY IdleControl DEF Init
<1> QED
  BY <1>1, <1>2 DEF TypeInv

LEMMA NextTypeInv ==
  ASSUME TypeInv, [Next]_vars
  PROVE  TypeInv'
<1>1. CASE UNCHANGED vars
  <2>1. TypeOK'
    BY <1>1 DEF vars, dbVars, TypeInv, TypeOK, DatabaseTypeOK
  <2>2. \A h \in Handler : Control(h)'
    BY <1>1 DEF vars, dbVars, TypeInv, Control
  <2> QED
    BY <2>1, <2>2 DEF TypeInv
<1>2. CASE Crash \/ \E u \in User : TransferLeg(u)
  BY <1>2, CrashTypeInv, LegTypeInv
<1>3. ASSUME NEW h \in Handler,
             \/ CreateAccount(h) \/ UpdateOrDeleteAccount(h)
             \/ DeadlockVictim(h)
      PROVE  TypeInv'
  BY <1>3, CreateAccountTypeInv, UpdateOrDeleteTypeInv, FailureTypeInv
<1>4. ASSUME NEW h \in Handler, Work(h)
      PROVE  TypeInv'
  BY <1>4, ReadExistingTypeInv, RefusalTypeInv, BeginTxTypeInv, InsertUserTypeInv,
    InsertAccountTypeInv, SelectPkTypeInv, LockUserTypeInv, UpdateUserTypeInv,
    UpdatePasswordTypeInv, UpdateAccountRowTypeInv, SelectDetailsTypeInv, DeleteAccountRowTypeInv,
    DeleteUserRowTypeInv, CommitTypeInv, ReturnTypeInv
  DEF Work
<1>5. ASSUME NEW h \in Handler, Fault(h)
      PROVE  TypeInv'
  BY <1>5, RefusalTypeInv, FailureTypeInv, CommitTypeInv DEF Fault
<1> QED
  BY <1>1, <1>2, <1>3, <1>4, <1>5 DEF Next

(* Whatever the interleaving of requests and faults, every statement is    *)
(* given values its column accepts, and every handler is at a step its     *)
(* request allows.                                                         *)
THEOREM TypeCorrect == Spec => []TypeInv
  BY InitTypeInv, NextTypeInv, PTL DEF Spec

(* The state keeps its types.                                              *)
THEOREM TypesHold == Spec => []TypeOK
<1>1. TypeInv => TypeOK
  BY DEF TypeInv
<1> QED
  BY <1>1, TypeCorrect, PTL
-----------------------------------------------------------------------------
(* The locks are exclusive: at most one transaction has written a row.     *)
LocksExclusive ==
  \A g, h \in Handler, u \in User :
    /\ userWrites[g][u] # NoRow /\ userWrites[h][u] # NoRow => g = h
    /\ accountWrites[g][u] # NoRow /\ accountWrites[h][u] # NoRow => g = h

Creating(h) ==
  pc[h] \in {"begin", "commit"} \cup CreateTx /\ req[h].op = "create"

(* The user of a create is not in the tables and is nobody else's.         *)
Fresh(h) ==
  Creating(h) =>
    /\ users[req[h].id] = NoRow /\ accounts[req[h].id] = NoRow
    /\ \A g \in Handler : Creating(g) /\ req[g].id = req[h].id => g = h

UserHeld    == {"insertAccount", "writeUser", "updatePassword", "updateAccount",
                "selectDetails", "commit"}
AccountHeld == {"selectDetails", "deleteUser", "commit"}

(* The deleted flag that the transaction of h is about to install.         *)
Flag(h) == \/ req[h].op = "delete"
           \/ req[h].op = "update" /\ users[req[h].id].deleted

(* A transaction has written the rows of its own user that its statements  *)
(* have reached, and no other.                                             *)
Pending(h) ==
  \A u \in User :
    /\ userWrites[h][u] # NoRow <=> pc[h] \in UserHeld /\ u = req[h].id
    /\ accountWrites[h][u] # NoRow <=> pc[h] \in AccountHeld /\ u = req[h].id
    /\ userWrites[h][u] # NoRow => (userWrites[h][u].deleted <=> Flag(h))
    /\ accountWrites[h][u] # NoRow => (accountWrites[h][u].deleted <=> Flag(h))

SeedsKept == \A u \in Seed : users[u] # NoRow /\ accounts[u] = NoRow

PairInv ==
  /\ TypeInv
  /\ LocksExclusive
  /\ \A h \in Handler : Fresh(h) /\ Pending(h)
  /\ SeedsKept
  /\ RowsPaired
-----------------------------------------------------------------------------
(* The row locks.                                                          *)

LEMMA WriteUserLocks ==
  ASSUME TypeOK, LocksExclusive, NEW h \in Handler, NEW u \in User, NEW row,
         WriteUser(h, u, row)
  PROVE  /\ LocksExclusive'
         /\ users' = users /\ accounts' = accounts
         /\ accountWrites' = accountWrites
         /\ userWrites'[h][u] = row
         /\ \A v \in User \ {u} : userWrites'[h][v] = userWrites[h][v]
         /\ \A g \in Handler \ {h} : userWrites'[g] = userWrites[g]
<1>1. /\ users' = users /\ accounts' = accounts
      /\ accountWrites' = accountWrites
      /\ userWrites'[h][u] = row
      /\ \A v \in User \ {u} : userWrites'[h][v] = userWrites[h][v]
      /\ \A g \in Handler \ {h} : userWrites'[g] = userWrites[g]
  BY DEF WriteUser, TypeOK, DatabaseTypeOK
<1>2. \A g \in Handler \ {h} : userWrites[g][u] = NoRow
  BY DEF WriteUser, UserLockers
<1>3. LocksExclusive'
  BY <1>1, <1>2 DEF LocksExclusive
<1> QED
  BY <1>1, <1>3

LEMMA WriteAccountLocks ==
  ASSUME TypeOK, LocksExclusive, NEW h \in Handler, NEW u \in User, NEW row,
         WriteAccount(h, u, row)
  PROVE  /\ LocksExclusive'
         /\ users' = users /\ accounts' = accounts
         /\ userWrites' = userWrites
         /\ accountWrites'[h][u] = row
         /\ \A v \in User \ {u} : accountWrites'[h][v] = accountWrites[h][v]
         /\ \A g \in Handler \ {h} : accountWrites'[g] = accountWrites[g]
<1>1. /\ users' = users /\ accounts' = accounts
      /\ userWrites' = userWrites
      /\ accountWrites'[h][u] = row
      /\ \A v \in User \ {u} : accountWrites'[h][v] = accountWrites[h][v]
      /\ \A g \in Handler \ {h} : accountWrites'[g] = accountWrites[g]
  BY DEF WriteAccount, TypeOK, DatabaseTypeOK
<1>2. \A g \in Handler \ {h} : accountWrites[g][u] = NoRow
  BY DEF WriteAccount, AccountLockers
<1>3. LocksExclusive'
  BY <1>1, <1>2 DEF LocksExclusive
<1> QED
  BY <1>1, <1>3

LEMMA EndTxLocks ==
  ASSUME TypeOK, LocksExclusive, NEW h \in Handler, EndTx(h)
  PROVE  /\ LocksExclusive'
         /\ \A u \in User : userWrites'[h][u] = NoRow /\ accountWrites'[h][u] = NoRow
         /\ \A g \in Handler \ {h} : /\ userWrites'[g] = userWrites[g]
                                     /\ accountWrites'[g] = accountWrites[g]
<1>1. /\ \A u \in User : userWrites'[h][u] = NoRow /\ accountWrites'[h][u] = NoRow
      /\ \A g \in Handler \ {h} : /\ userWrites'[g] = userWrites[g]
                                  /\ accountWrites'[g] = accountWrites[g]
  BY DEF EndTx, NoWrites, TypeOK, DatabaseTypeOK
<1>2. LocksExclusive'
  BY <1>1 DEF LocksExclusive
<1> QED
  BY <1>1, <1>2
-----------------------------------------------------------------------------
(* A step of h that commits nothing keeps PairInv if h's own part holds    *)
(* after it.                                                               *)
LEMMA QuietStep ==
  ASSUME PairInv, TypeInv', NEW h \in Handler,
         users' = users, accounts' = accounts,
         \A g \in Handler \ {h} :
           /\ pc'[g] = pc[g] /\ req'[g] = req[g]
           /\ userWrites'[g] = userWrites[g] /\ accountWrites'[g] = accountWrites[g],
         LocksExclusive', Fresh(h)', Pending(h)'
  PROVE  PairInv'
<1>1. ASSUME NEW g \in Handler \ {h}
      PROVE  Pending(g)'
  <2>1. Pending(g)
    BY DEF PairInv
  <2> QED
    BY <2>1 DEF Pending, Flag
<1>2. ASSUME NEW g \in Handler \ {h}
      PROVE  Fresh(g)'
  <2>1. Fresh(g)
    BY DEF PairInv
  <2>2. \A f \in Handler \ {h} : Creating(f)' <=> Creating(f)
    BY DEF Creating
  <2> QED
    BY <2>1, <2>2 DEF Fresh
<1>3. SeedsKept' /\ RowsPaired'
  BY DEF PairInv, SeedsKept, RowsPaired
<1> QED
  BY <1>1, <1>2, <1>3 DEF PairInv

(* A create that goes on still has its user for itself.                    *)
LEMMA StillFresh ==
  ASSUME PairInv, NEW h \in Handler, users' = users, accounts' = accounts,
         \A g \in Handler \ {h} : pc'[g] = pc[g] /\ req'[g] = req[g],
         req'[h] = req[h], Creating(h)' => Creating(h)
  PROVE  Fresh(h)'
<1>1. Fresh(h)
  BY DEF PairInv
<1>2. \A g \in Handler : Creating(g)' => Creating(g)
  BY DEF Creating
<1> QED
  BY <1>1, <1>2 DEF Fresh

LEMMA AbandonPairInv ==
  ASSUME PairInv, TypeInv', NEW h \in Handler, Abandon(h)
  PROVE  PairInv'
<1>1. /\ users' = users /\ accounts' = accounts /\ EndTx(h)
      /\ pc'[h] = "reply" /\ req' = req
      /\ \A g \in Handler \ {h} : pc'[g] = pc[g]
  BY DEF Abandon, Rollback, Answer, Goto, PairInv, TypeInv, TypeOK
<1>2. /\ LocksExclusive'
      /\ \A u \in User : userWrites'[h][u] = NoRow /\ accountWrites'[h][u] = NoRow
      /\ \A g \in Handler \ {h} : /\ userWrites'[g] = userWrites[g]
                                  /\ accountWrites'[g] = accountWrites[g]
  BY <1>1, EndTxLocks DEF PairInv, TypeInv
<1>3. Pending(h)' /\ ~Creating(h)'
  BY <1>1, <1>2 DEF Pending, UserHeld, AccountHeld, Creating, CreateTx
<1>4. Fresh(h)'
  BY <1>3 DEF Fresh
<1> QED
  BY <1>1, <1>2, <1>3, <1>4, QuietStep

(* A step of a handler that holds no lock before or after it.              *)
LEMMA NoLockStep ==
  ASSUME PairInv, TypeInv', NEW h \in Handler,
         UNCHANGED <<users, accounts, userWrites, accountWrites>>,
         pc[h] \notin UserHeld \cup AccountHeld,
         pc'[h] \notin UserHeld \cup AccountHeld,
         \A g \in Handler \ {h} : pc'[g] = pc[g] /\ req'[g] = req[g],
         Fresh(h)'
  PROVE  PairInv'
<1>1. LocksExclusive'
  BY DEF PairInv, LocksExclusive
<1>2. Pending(h)
  BY DEF PairInv
<1>3. Pending(h)'
  BY <1>2 DEF Pending
<1> QED
  BY <1>1, <1>3, QuietStep
-----------------------------------------------------------------------------
(* Requests, reads and refusals take no lock.                              *)

LEMMA RequestPairInv ==
  ASSUME PairInv, TypeInv', NEW h \in Handler,
         CreateAccount(h) \/ UpdateOrDeleteAccount(h)
  PROVE  PairInv'
<1>1. /\ pc[h] = "idle" /\ UNCHANGED dbVars /\ pc'[h] \in {"begin", "read", "reply"}
      /\ \A g \in Handler \ {h} : pc'[g] = pc[g] /\ req'[g] = req[g]
  BY DEF CreateAccount, UpdateOrDeleteAccount, Answer, Goto, PairInv, TypeInv, TypeOK
<1>2. CASE CreateAccount(h)
  <2>1. PICK r \in CreateRequest : CreateAccount(h)!(r)
    BY <1>2 DEF CreateAccount
  <2>2. FreshId(r.id) /\ req'[h] = r /\ r.id \in User
    BY <2>1 DEF CreateRequest, PairInv, TypeInv, TypeOK
  <2>3. users[r.id] = NoRow /\ accounts[r.id] = NoRow
    BY <2>2 DEF FreshId, PairInv, SeedsKept, RowsPaired
  <2>4. \A g \in Handler \ {h} : Creating(g) => req[g].id # r.id
    BY <2>2 DEF FreshId, Creating
  <2>5. \A g \in Handler \ {h} : Creating(g)' <=> Creating(g)
    BY <1>1 DEF Creating
  <2> QED
    BY <1>1, <2>2, <2>3, <2>4, <2>5, NoLockStep
    DEF Fresh, UserHeld, AccountHeld, dbVars
<1>3. CASE UpdateOrDeleteAccount(h)
  <2>1. pc'[h] \in {"read", "reply"}
    BY <1>3 DEF UpdateOrDeleteAccount, Answer, Goto, PairInv, TypeInv, TypeOK
  <2>2. Fresh(h)'
    BY <2>1 DEF Fresh, Creating, CreateTx
  <2> QED
    BY <1>1, <2>2, NoLockStep DEF UserHeld, AccountHeld, dbVars
<1> QED
  BY <1>2, <1>3

LEMMA ReadPairInv ==
  ASSUME PairInv, TypeInv', NEW h \in Handler, ReadExisting(h)
  PROVE  PairInv'
<1>1. /\ pc[h] = "read" /\ UNCHANGED dbVars /\ pc'[h] = "begin" /\ req' = req
      /\ req[h].op \in {"update", "delete"}
      /\ \A g \in Handler \ {h} : pc'[g] = pc[g]
  BY DEF ReadExisting, Goto, PairInv, TypeInv, TypeOK
<1>2. Fresh(h)'
  BY <1>1 DEF Fresh, Creating
<1> QED
  BY <1>1, <1>2, NoLockStep DEF UserHeld, AccountHeld, dbVars

LEMMA RefusePairInv ==
  ASSUME PairInv, TypeInv', NEW h \in Handler, 
         \/ RejectBalance(h) \/ ReadMissing(h) \/ ReadFails(h)
         \/ HashFails(h) \/ BeginFails(h)
  PROVE  PairInv'
<1>1. /\ pc[h] \in {"read", "begin"} /\ UNCHANGED dbVars /\ pc'[h] = "reply" /\ req' = req
      /\ \A g \in Handler \ {h} : pc'[g] = pc[g]
  BY DEF RejectBalance, ReadMissing, ReadFails, HashFails, BeginFails, Refuse, Answer,
    Goto, PairInv, TypeInv, TypeOK
<1>2. Fresh(h)'
  BY <1>1 DEF Fresh, Creating, CreateTx
<1> QED
  BY <1>1, <1>2, NoLockStep DEF UserHeld, AccountHeld, dbVars

LEMMA ReturnPairInv ==
  ASSUME PairInv, TypeInv', NEW h \in Handler, Return(h)
  PROVE  PairInv'
<1>1. /\ pc[h] = "reply" /\ UNCHANGED dbVars /\ pc'[h] = "idle"
      /\ \A g \in Handler \ {h} : pc'[g] = pc[g] /\ req'[g] = req[g]
  BY DEF Return, Goto, PairInv, TypeInv, TypeOK
<1>2. Fresh(h)'
  BY <1>1 DEF Fresh, Creating, CreateTx
<1> QED
  BY <1>1, <1>2, NoLockStep DEF UserHeld, AccountHeld, dbVars

(* Where the handler that goes on stands.                                  *)
LEMMA ProceedControl ==
  ASSUME TypeOK, NEW h \in Handler, NEW label, Proceed(h, label)
  PROVE  /\ pc'[h] = label /\ req' = req
         /\ \A g \in Handler \ {h} : pc'[g] = pc[g]
  BY DEF Proceed, Goto, locals, TypeOK

LEMMA BeginPairInv ==
  ASSUME PairInv, TypeInv', NEW h \in Handler, BeginTx(h)
  PROVE  PairInv'
<1>1. /\ pc[h] = "begin" /\ req' = req
      /\ pc'[h] = IF req[h].op = "create" THEN "insertUser" ELSE "selectPk"
      /\ UNCHANGED <<users, accounts, userWrites, accountWrites>>
      /\ \A g \in Handler \ {h} : pc'[g] = pc[g]
  BY ProceedControl DEF BeginTx, Begin, PairInv, TypeInv
<1>2. pc[h] \notin UserHeld \cup AccountHeld /\ pc'[h] \notin UserHeld \cup AccountHeld
  BY <1>1 DEF UserHeld, AccountHeld
<1>3. Fresh(h)'
  BY <1>1, StillFresh DEF Creating, CreateTx
<1> QED
  BY <1>1, <1>2, <1>3, NoLockStep

LEMMA SelectPkPairInv ==
  ASSUME PairInv, TypeInv', NEW h \in Handler, SelectPk(h)
  PROVE  PairInv'
<1>1. CASE /\ UNCHANGED dbVars
           /\ Proceed(h, IF req[h].op = "update" THEN "updateUser" ELSE "deleteAccount")
  <2>1. /\ pc[h] = "selectPk" /\ req' = req
        /\ pc'[h] \in {"updateUser", "deleteAccount"}
        /\ \A g \in Handler \ {h} : pc'[g] = pc[g]
    BY <1>1, ProceedControl DEF SelectPk, PairInv, TypeInv
  <2>2. Fresh(h)'
    BY <2>1 DEF Fresh, Creating, CreateTx
  <2> QED
    BY <1>1, <2>1, <2>2, NoLockStep DEF UserHeld, AccountHeld, dbVars
<1> QED
  BY <1>1, AbandonPairInv DEF SelectPk
-----------------------------------------------------------------------------
(* The statements that write.                                              *)

(* The row that h writes to dbank_users carries the flag it will install.  *)
LEMMA WriteUserPairInv ==
  ASSUME PairInv, TypeInv', NEW h \in Handler, NEW row \in UserRow, NEW label,
         req[h].id \in User, WriteUser(h, req[h].id, row), Proceed(h, label),
         row.deleted <=> Flag(h),
         label \in UserHeld, label \in AccountHeld <=> pc[h] \in AccountHeld,
         label \in CreateTx \cup {"commit"} /\ req[h].op = "create" => pc[h] \in CreateTx
  PROVE  PairInv'
<1> DEFINE u == req[h].id
<1>1. /\ LocksExclusive'
      /\ users' = users /\ accounts' = accounts
      /\ accountWrites' = accountWrites
      /\ userWrites'[h][u] = row
      /\ \A v \in User \ {u} : userWrites'[h][v] = userWrites[h][v]
      /\ \A g \in Handler \ {h} : userWrites'[g] = userWrites[g]
  BY WriteUserLocks DEF PairInv, TypeInv
<1>2. /\ pc'[h] = label /\ req' = req
      /\ \A g \in Handler \ {h} : pc'[g] = pc[g]
  BY ProceedControl DEF PairInv, TypeInv
<1>3. Pending(h)
  BY DEF PairInv
<1>4. row # NoRow
  BY NoRowAssumption
<1>5. Flag(h)' <=> Flag(h)
  BY <1>1, <1>2 DEF Flag
<1>6. Pending(h)'
  <2> SUFFICES ASSUME NEW v \in User PROVE Pending(h)!(v)'
    BY DEF Pending
  <2>1. CASE v = u
    BY <1>1, <1>2, <1>3, <1>4, <1>5, <2>1 DEF Pending
  <2>2. CASE v # u
    BY <1>1, <1>2, <1>3, <1>5, <2>2 DEF Pending
  <2> QED
    BY <2>1, <2>2
<1>7. Fresh(h)'
  BY <1>1, <1>2, StillFresh DEF Creating, UserHeld
<1> QED
  BY <1>1, <1>2, <1>6, <1>7, QuietStep
(* The same for the row it writes to dbank_accounts.                       *)
LEMMA WriteAccountPairInv ==
  ASSUME PairInv, TypeInv', NEW h \in Handler, NEW row \in AccountRow, NEW label,
         req[h].id \in User, WriteAccount(h, req[h].id, row), Proceed(h, label),
         row.deleted <=> Flag(h),
         label \in AccountHeld, label \in UserHeld <=> pc[h] \in UserHeld,
         label \in CreateTx \cup {"commit"} /\ req[h].op = "create" => pc[h] \in CreateTx
  PROVE  PairInv'
<1> DEFINE u == req[h].id
<1>1. /\ LocksExclusive'
      /\ users' = users /\ accounts' = accounts
      /\ userWrites' = userWrites
      /\ accountWrites'[h][u] = row
      /\ \A v \in User \ {u} : accountWrites'[h][v] = accountWrites[h][v]
      /\ \A g \in Handler \ {h} : accountWrites'[g] = accountWrites[g]
  BY WriteAccountLocks DEF PairInv, TypeInv
<1>2. /\ pc'[h] = label /\ req' = req
      /\ \A g \in Handler \ {h} : pc'[g] = pc[g]
  BY ProceedControl DEF PairInv, TypeInv
<1>3. Pending(h)
  BY DEF PairInv
<1>4. row # NoRow
  BY NoRowAssumption
<1>5. Flag(h)' <=> Flag(h)
  BY <1>1, <1>2 DEF Flag
<1>6. Pending(h)'
  <2> SUFFICES ASSUME NEW v \in User PROVE Pending(h)!(v)'
    BY DEF Pending
  <2>1. CASE v = u
    BY <1>1, <1>2, <1>3, <1>4, <1>5, <2>1 DEF Pending
  <2>2. CASE v # u
    BY <1>1, <1>2, <1>3, <1>5, <2>2 DEF Pending
  <2> QED
    BY <2>1, <2>2
<1>7. Fresh(h)'
  BY <1>1, <1>2, StillFresh DEF Creating, AccountHeld
<1> QED
  BY <1>1, <1>2, <1>6, <1>7, QuietStep

LEMMA InsertUserPairInv ==
  ASSUME PairInv, TypeInv', NEW h \in Handler, InsertUser(h)
  PROVE  PairInv'
<1> DEFINE row == [username |-> data[h].username, password |-> req[h].password,
                   deleted |-> FALSE]
<1>1. /\ pc[h] = "insertUser" /\ req[h].op = "create" /\ req[h].id \in User
      /\ row \in UserRow
  BY DEF InsertUser, PairInv, TypeInv, Control, Started, Labels, InTx, CreateTx, Fields,
    UserRow
<1>2. CASE WriteUser(h, req[h].id, row) /\ Proceed(h, "insertAccount")
  BY <1>1, <1>2, WriteUserPairInv DEF Flag, UserHeld, AccountHeld, CreateTx
<1> QED
  BY <1>2, AbandonPairInv DEF InsertUser

LEMMA InsertAccountPairInv ==
  ASSUME PairInv, TypeInv', NEW h \in Handler, InsertAccount(h)
  PROVE  PairInv'
<1> DEFINE row == [balance |-> data[h].balance, deleted |-> FALSE]
<1>1. pc[h] = "insertAccount" /\ req[h].op = "create" /\ req[h].id \in User
  BY DEF InsertAccount, PairInv, TypeInv, Control, Started, Labels, InTx, CreateTx
<1>2. CASE row \in AccountRow /\ WriteAccount(h, req[h].id, row) /\ Proceed(h, "commit")
  BY <1>1, <1>2, WriteAccountPairInv DEF Flag, UserHeld, AccountHeld, CreateTx
<1> QED
  BY <1>2, AbandonPairInv DEF InsertAccount

(* Before its first write to a table a transaction sees the committed row; *)
(* after it the row it wrote, with the flag it will install.               *)
LEMMA FlagSeen ==
  ASSUME PairInv, NEW h \in Handler, pc[h] \in UpdateTx
  PROVE  /\ UserSeen(h, req[h].id).deleted <=> Flag(h)
         /\ AccountSeen(h, req[h].id).deleted <=> Flag(h)
<1> DEFINE u == req[h].id
<1>1. /\ req[h].op = "update" /\ u \in User
      /\ users[u] \in UserRow /\ accounts[u] \in AccountRow
      /\ users[u] # NoRow /\ accounts[u] # NoRow
  BY RowsFound DEF PairInv, TypeInv, TypeOK, DatabaseTypeOK, Control, Started, UpdateTx
<1>2. Flag(h) <=> users[u].deleted
  BY <1>1 DEF Flag
<1>3. users[u].deleted = accounts[u].deleted
  BY <1>1 DEF PairInv, SeedsKept, RowsPaired
<1>4. Pending(h)
  BY DEF PairInv
<1>5. UserSeen(h, u).deleted <=> Flag(h)
  BY <1>1, <1>2, <1>4 DEF UserSeen, Pending
<1>6. AccountSeen(h, u).deleted <=> Flag(h)
  BY <1>1, <1>2, <1>3, <1>4 DEF AccountSeen, Pending
<1> QED
  BY <1>5, <1>6

LEMMA LockUserPairInv ==
  ASSUME PairInv, TypeInv', NEW h \in Handler, LockUser(h)
  PROVE  PairInv'
<1>1. /\ pc[h] = "updateUser" /\ pc[h] \in UpdateTx /\ req[h].id \in User
      /\ UserSeen(h, req[h].id) \in UserRow /\ req[h].op = "update"
  BY RowsFound DEF LockUser, UpdateTx, PairInv, TypeInv, Control
<1> QED
  BY <1>1, FlagSeen, WriteUserPairInv DEF LockUser, UserHeld, AccountHeld

LEMMA UpdateUserPairInv ==
  ASSUME PairInv, TypeInv', NEW h \in Handler, UpdateUser(h)
  PROVE  PairInv'
<1> DEFINE u == req[h].id
           row == [UserSeen(h, u) EXCEPT !.username = data[h].username]
           next == IF req[h].password = None THEN "updateAccount" ELSE "updatePassword"
<1>1. pc[h] = "writeUser" /\ pc[h] \in UpdateTx /\ u \in User /\ row \in UserRow
  BY RowsFound DEF UpdateUser, UpdateTx, PairInv, UserRow, Fields
<1>2. UserSeen(h, u) \in UserRow
  BY <1>1, RowsFound DEF PairInv
<1>3. row.deleted = UserSeen(h, u).deleted
  BY <1>2 DEF UserRow
<1>4. req[h].op = "update"
  BY <1>1 DEF PairInv, TypeInv, Control
<1>5. CASE WriteUser(h, u, row) /\ Proceed(h, next)
  <2>1. next \in UserHeld /\ next \notin AccountHeld /\ pc[h] \notin AccountHeld
    BY <1>1 DEF UserHeld, AccountHeld
  <2> QED
    BY <1>1, <1>3, <1>4, <1>5, <2>1, FlagSeen, WriteUserPairInv
<1> QED
  BY <1>5, AbandonPairInv DEF UpdateUser

LEMMA UpdatePasswordPairInv ==
  ASSUME PairInv, TypeInv', NEW h \in Handler, UpdatePassword(h)
  PROVE  PairInv'
<1> DEFINE u == req[h].id
           row == [UserSeen(h, u) EXCEPT !.password = req[h].password]
<1>1. /\ pc[h] = "updatePassword" /\ pc[h] \in UpdateTx /\ u \in User
      /\ UserSeen(h, u) \in UserRow /\ req[h].op = "update"
      /\ req[h].password \in Password
  BY RowsFound DEF UpdatePassword, UpdateTx, PairInv, TypeInv, Control
<1>2. row \in UserRow /\ row.deleted = UserSeen(h, u).deleted
  BY <1>1 DEF UserRow
<1> QED
  BY <1>1, <1>2, FlagSeen, WriteUserPairInv DEF UpdatePassword, UserHeld, AccountHeld

LEMMA UpdateAccountRowPairInv ==
  ASSUME PairInv, TypeInv', NEW h \in Handler, UpdateAccountRow(h)
  PROVE  PairInv'
<1> DEFINE u == req[h].id
           row == [AccountSeen(h, u) EXCEPT !.balance = data[h].balance]
<1>1. /\ pc[h] = "updateAccount" /\ pc[h] \in UpdateTx /\ u \in User
      /\ AccountSeen(h, u) \in AccountRow /\ req[h].op = "update"
  BY RowsFound DEF UpdateAccountRow, UpdateTx, PairInv, TypeInv, Control
<1>2. row.deleted = AccountSeen(h, u).deleted
  BY <1>1 DEF AccountRow
<1>3. CASE row \in AccountRow /\ WriteAccount(h, u, row) /\ Proceed(h, "selectDetails")
  BY <1>1, <1>2, <1>3, FlagSeen, WriteAccountPairInv DEF UserHeld, AccountHeld
<1> QED
  BY <1>3, AbandonPairInv DEF UpdateAccountRow

LEMMA SelectDetailsPairInv ==
  ASSUME PairInv, TypeInv', NEW h \in Handler, SelectDetails(h)
  PROVE  PairInv'
<1>1. /\ pc[h] = "selectDetails" /\ pc'[h] = "commit" /\ req' = req
      /\ UNCHANGED <<users, accounts, userWrites, accountWrites>>
      /\ \A g \in Handler \ {h} : pc'[g] = pc[g]
  BY DEF SelectDetails, Goto, dbVars, PairInv, TypeInv, TypeOK
<1>2. req[h].op = "update"
  BY <1>1 DEF PairInv, TypeInv, Control, UpdateTx
<1>3. Pending(h)
  BY DEF PairInv
<1>4. Pending(h)'
  BY <1>1, <1>3 DEF Pending, Flag, UserHeld, AccountHeld
<1>5. Fresh(h)' /\ LocksExclusive'
  BY <1>1, <1>2 DEF Fresh, Creating, PairInv, LocksExclusive
<1> QED
  BY <1>1, <1>4, <1>5, QuietStep

LEMMA DeletePairInv ==
  ASSUME PairInv, TypeInv', NEW h \in Handler, DeleteAccountRow(h) \/ DeleteUserRow(h)
  PROVE  PairInv'
<1> DEFINE u == req[h].id
<1>1. /\ pc[h] \in DeleteTx /\ u \in User /\ req[h].op = "delete"
      /\ UserSeen(h, u) \in UserRow /\ AccountSeen(h, u) \in AccountRow
  BY RowsFound DEF DeleteAccountRow, DeleteUserRow, DeleteTx, PairInv, TypeInv, Control
<1>2. CASE DeleteAccountRow(h)
  <2> DEFINE row == [AccountSeen(h, u) EXCEPT !.deleted = TRUE]
  <2>1. row \in AccountRow /\ row.deleted
    BY <1>1 DEF AccountRow
  <2> QED
    BY <1>1, <1>2, <2>1, WriteAccountPairInv
    DEF DeleteAccountRow, Flag, UserHeld, AccountHeld
<1>3. CASE DeleteUserRow(h)
  <2> DEFINE row == [UserSeen(h, u) EXCEPT !.deleted = TRUE]
  <2>1. row \in UserRow /\ row.deleted
    BY <1>1 DEF UserRow
  <2> QED
    BY <1>1, <1>3, <2>1, WriteUserPairInv
    DEF DeleteUserRow, Flag, UserHeld, AccountHeld
<1> QED
  BY <1>2, <1>3
-----------------------------------------------------------------------------
(* Commit: h installs both rows of its user with one flag, touches no      *)
(* other row, and no other transaction has written these two.              *)

LEMMA CommitEffect ==
  ASSUME PairInv, NEW h \in Handler, pc[h] = "commit", Commit(h)
  PROVE  /\ req[h].id \in User
         /\ \A u \in User \ {req[h].id} : users'[u] = users[u] /\ accounts'[u] = accounts[u]
         /\ users'[req[h].id] # NoRow /\ accounts'[req[h].id] # NoRow
         /\ users'[req[h].id].deleted <=> Flag(h)
         /\ accounts'[req[h].id].deleted <=> Flag(h)
<1>1. req[h].id \in User
  BY DEF PairInv, TypeInv, Control, Started, Labels, InTx
<1>2. Pending(h)
  BY DEF PairInv
<1>3. \A u \in User : /\ users'[u] = UserSeen(h, u)
                      /\ accounts'[u] = AccountSeen(h, u)
  BY DEF Commit
<1>4. \A u \in User \ {req[h].id} :
        userWrites[h][u] = NoRow /\ accountWrites[h][u] = NoRow
  BY <1>2 DEF Pending
<1>5. /\ userWrites[h][req[h].id] # NoRow /\ accountWrites[h][req[h].id] # NoRow
      /\ userWrites[h][req[h].id].deleted <=> Flag(h)
      /\ accountWrites[h][req[h].id].deleted <=> Flag(h)
  BY <1>1, <1>2 DEF Pending, UserHeld, AccountHeld
<1> QED
  BY <1>1, <1>3, <1>4, <1>5 DEF UserSeen, AccountSeen

(* The user of a transaction that commits: new for a create, there for an  *)
(* update or a delete, and never one of the migration.                     *)
LEMMA CommitUser ==
  ASSUME PairInv, NEW h \in Handler, pc[h] = "commit"
  PROVE  /\ req[h].op = "create" => users[req[h].id] = NoRow /\ accounts[req[h].id] = NoRow
         /\ req[h].op # "create" => users[req[h].id] # NoRow /\ accounts[req[h].id] # NoRow
         /\ req[h].id \notin Seed
<1>1. Fresh(h) /\ Control(h)
  BY DEF PairInv, TypeInv
<1>2. req[h].op = "create" => users[req[h].id] = NoRow /\ accounts[req[h].id] = NoRow
  BY <1>1 DEF Fresh, Creating
<1>3. req[h].op # "create" => users[req[h].id] # NoRow /\ accounts[req[h].id] # NoRow
  BY <1>1 DEF Control, Started, Labels, InTx
<1> QED
  BY <1>2, <1>3 DEF PairInv, SeedsKept

LEMMA CommitPairInv ==
  ASSUME PairInv, TypeInv', NEW h \in Handler, CommitTx(h) \/ CommitUnacknowledged(h)
  PROVE  PairInv'
<1> DEFINE id == req[h].id
<1>1. /\ pc[h] = "commit" /\ Commit(h) /\ pc'[h] = "reply" /\ req' = req
      /\ \A g \in Handler \ {h} : pc'[g] = pc[g]
  BY DEF CommitTx, CommitUnacknowledged, Answer, Goto, PairInv, TypeInv, TypeOK
<1>2. /\ LocksExclusive'
      /\ \A u \in User : userWrites'[h][u] = NoRow /\ accountWrites'[h][u] = NoRow
      /\ \A g \in Handler \ {h} : /\ userWrites'[g] = userWrites[g]
                                  /\ accountWrites'[g] = accountWrites[g]
  BY <1>1, EndTxLocks DEF Commit, PairInv, TypeInv
<1>3. /\ id \in User
      /\ \A u \in User \ {id} : users'[u] = users[u] /\ accounts'[u] = accounts[u]
      /\ users'[id] # NoRow /\ accounts'[id] # NoRow
      /\ users'[id].deleted <=> Flag(h)
      /\ accounts'[id].deleted <=> Flag(h)
  BY <1>1, CommitEffect
<1>4. ~Creating(h)' /\ Pending(h)'
  BY <1>1, <1>2 DEF Creating, CreateTx, Pending, UserHeld, AccountHeld
<1>5. ASSUME NEW g \in Handler \ {h}
      PROVE  Fresh(g)'
  <2>1. Fresh(g) /\ (Creating(g)' <=> Creating(g))
    BY <1>1 DEF PairInv, Creating
  <2>2. Creating(g) => req[g].id \in User
    BY DEF PairInv, TypeInv, Control, Creating, Started, Labels, InTx, CreateTx
  <2>3. Creating(g) => req[g].id # id
    BY <1>1, <2>1, CommitUser DEF Fresh, Creating
  <2>4. \A f \in Handler : Creating(f)' => Creating(f)
    BY <1>1, <1>4 DEF Creating
  <2> QED
    BY <1>1, <1>3, <2>1, <2>2, <2>3, <2>4 DEF Fresh
<1>6. ASSUME NEW g \in Handler \ {h}
      PROVE  Pending(g)'
  <2>1. Pending(g) /\ Pending(h)
    BY DEF PairInv
  <2>2. userWrites[g][id] = NoRow /\ accountWrites[g][id] = NoRow
    BY <1>1, <1>3, <2>1 DEF PairInv, LocksExclusive, Pending, UserHeld, AccountHeld
  <2>3. ASSUME NEW u \in User, userWrites[g][u] # NoRow \/ accountWrites[g][u] # NoRow
        PROVE  Flag(g)' <=> Flag(g)
    BY <1>1, <1>3, <2>1, <2>2, <2>3 DEF Flag, Pending
  <2> SUFFICES ASSUME NEW u \in User PROVE Pending(g)!(u)'
    BY DEF Pending
  <2>4. userWrites'[g] = userWrites[g] /\ accountWrites'[g] = accountWrites[g]
        /\ pc'[g] = pc[g] /\ req'[g] = req[g]
    BY <1>1, <1>2
  <2> QED
    BY <2>1, <2>3, <2>4 DEF Pending
<1>7. SeedsKept'
  BY <1>1, <1>3, CommitUser, SeedAssumption DEF SeedsKept, PairInv
<1>8. RowsPaired'
  <2>1. ASSUME NEW u \in User \ Seed
        PROVE  RowsPaired!(u)'
    <3>1. RowsPaired!(u)
      BY DEF PairInv, RowsPaired
    <3>2. CASE u = id
      <4>1. users'[id] \in UserRow /\ accounts'[id] \in AccountRow
        BY <1>3 DEF TypeInv, TypeOK, DatabaseTypeOK
      <4>2. users'[id].deleted \in BOOLEAN /\ accounts'[id].deleted \in BOOLEAN
        BY <4>1 DEF UserRow, AccountRow
      <4> QED
        BY <1>3, <3>2, <4>2
    <3>3. CASE u # id
      BY <1>3, <3>1, <3>3
    <3> QED
      BY <3>2, <3>3
  <2> QED
    BY <2>1 DEF RowsPaired
<1> QED
  BY <1>2, <1>4, <1>5, <1>6, <1>7, <1>8 DEF PairInv, Fresh
-----------------------------------------------------------------------------
LEMMA FailurePairInv ==
  ASSUME PairInv, TypeInv', NEW h \in Handler, StatementFails(h) \/ DeadlockVictim(h)
  PROVE  PairInv'
  BY AbandonPairInv DEF StatementFails, DeadlockVictim

LEMMA CrashPairInv ==
  ASSUME PairInv, TypeInv', Crash
  PROVE  PairInv'
<1>1. /\ users' = users /\ accounts' = accounts
      /\ \A h \in Handler, u \in User :
           userWrites'[h][u] = NoRow /\ accountWrites'[h][u] = NoRow
      /\ \A h \in Handler : pc'[h] = "idle"
  BY DEF Crash, LoseConnections, NoWrites
<1>2. \A h \in Handler : Fresh(h)' /\ Pending(h)'
  BY <1>1 DEF Fresh, Creating, CreateTx, Pending, UserHeld, AccountHeld
<1>3. LocksExclusive' /\ SeedsKept' /\ RowsPaired'
  BY <1>1 DEF PairInv, LocksExclusive, SeedsKept, RowsPaired
<1> QED
  BY <1>2, <1>3 DEF PairInv

LEMMA LegPairInv ==
  ASSUME PairInv, TypeInv', NEW u \in User, TransferLeg(u)
  PROVE  PairInv'
<1>1. /\ UNCHANGED <<users, userWrites, accountWrites, pc, req>>
      /\ accounts[u] # NoRow /\ accounts'[u] # NoRow
      /\ accounts'[u].deleted = accounts[u].deleted
      /\ \A v \in User \ {u} : accounts'[v] = accounts[v]
  BY LegEffect, NoRowAssumption DEF locals, PairInv, TypeInv
<1>2. ASSUME NEW h \in Handler
      PROVE  Fresh(h)' /\ Pending(h)'
  <2>1. Fresh(h) /\ Pending(h) /\ (Creating(h) => req[h].id \in User)
    BY DEF PairInv, TypeInv, Control, Creating, Started, Labels, InTx, CreateTx
  <2>2. \A g \in Handler : Creating(g)' <=> Creating(g)
    BY <1>1 DEF Creating
  <2>3. Creating(h) => req[h].id # u
    BY <1>1, <2>1 DEF Fresh
  <2>4. Fresh(h)'
    BY <1>1, <2>1, <2>2, <2>3 DEF Fresh
  <2>5. Pending(h)'
    BY <1>1, <2>1 DEF Pending, Flag
  <2> QED
    BY <2>4, <2>5
<1>3. LocksExclusive'
  BY <1>1 DEF PairInv, LocksExclusive
<1>4. SeedsKept'
  BY <1>1, SeedAssumption DEF PairInv, SeedsKept
<1>5. ASSUME NEW v \in User \ Seed
      PROVE  RowsPaired!(v)'
  <2>1. RowsPaired!(v)
    BY DEF PairInv, RowsPaired
  <2>2. CASE v = u
    BY <1>1, <2>1, <2>2
  <2>3. CASE v # u
    BY <1>1, <2>1, <2>3
  <2> QED
    BY <2>2, <2>3
<1>6. RowsPaired'
  BY <1>5 DEF RowsPaired
<1> QED
  BY <1>2, <1>3, <1>4, <1>6 DEF PairInv

LEMMA InitPairInv ==
  ASSUME Init
  PROVE  PairInv
<1>1. \A h \in Handler : pc[h] = "idle"
  BY DEF Init
<1>2. \A h \in Handler, u \in User :
        userWrites[h][u] = NoRow /\ accountWrites[h][u] = NoRow
  BY DEF Init, NoWrites
<1>3. LocksExclusive /\ \A h \in Handler : Fresh(h) /\ Pending(h)
  BY <1>1, <1>2 DEF LocksExclusive, Fresh, Creating, CreateTx, Pending, UserHeld,
    AccountHeld
<1>4. SeedsKept /\ RowsPaired
  BY SeedAssumption, NoRowAssumption DEF Init, SeedsKept, RowsPaired
<1> QED
  BY <1>3, <1>4, InitTypeInv DEF PairInv

LEMMA NextPairInv ==
  ASSUME PairInv, [Next]_vars
  PROVE  PairInv'
<1>1. TypeInv'
  BY NextTypeInv DEF PairInv
<1>2. CASE UNCHANGED vars
  <2>1. /\ users' = users /\ accounts' = accounts /\ userWrites' = userWrites
        /\ accountWrites' = accountWrites /\ pc' = pc /\ req' = req
    BY <1>2 DEF vars, dbVars
  <2>2. \A h \in Handler : Fresh(h)' /\ Pending(h)'
    BY <2>1 DEF PairInv, Fresh, Creating, Pending, Flag
  <2>3. LocksExclusive' /\ SeedsKept' /\ RowsPaired'
    BY <2>1 DEF PairInv, LocksExclusive, SeedsKept, RowsPaired
  <2> QED
    BY <1>1, <2>2, <2>3 DEF PairInv
<1>3. CASE Crash \/ \E u \in User : TransferLeg(u)
  BY <1>1, <1>3, CrashPairInv, LegPairInv
<1>4. ASSUME NEW h \in Handler,
             CreateAccount(h) \/ UpdateOrDeleteAccount(h) \/ DeadlockVictim(h)
      PROVE  PairInv'
  BY <1>1, <1>4, RequestPairInv, FailurePairInv
<1>5. ASSUME NEW h \in Handler, Work(h)
      PROVE  PairInv'
  BY <1>1, <1>5, ReadPairInv, RefusePairInv, BeginPairInv, InsertUserPairInv,
    InsertAccountPairInv, SelectPkPairInv, LockUserPairInv, UpdateUserPairInv,
    UpdatePasswordPairInv, UpdateAccountRowPairInv, SelectDetailsPairInv, DeletePairInv, CommitPairInv,
    ReturnPairInv
  DEF Work
<1>6. ASSUME NEW h \in Handler, Fault(h)
      PROVE  PairInv'
  BY <1>1, <1>6, RefusePairInv, FailurePairInv, CommitPairInv DEF Fault
<1> QED
  BY <1>2, <1>3, <1>4, <1>5, <1>6 DEF Next

(* What the transactions under way have pending agrees with the steps      *)
(* their handlers have taken, in every reachable state.                    *)
THEOREM PairInvariant == Spec => []PairInv
  BY InitPairInv, NextPairInv, PTL DEF Spec

(* However creates, updates and deletes overlap, whichever statement fails *)
(* and whenever the process dies, every user that CreateAccount made has   *)
(* its account row, and DeleteAccount deletes the two together.            *)
THEOREM PairingHolds == Spec => []RowsPaired
<1>1. PairInv => RowsPaired
  BY DEF PairInv
<1> QED
  BY <1>1, PairInvariant, PTL
-----------------------------------------------------------------------------
(* Only a commit, of a request or a transfer, changes what is committed.   *)
LEMMA OnlyCommitWrites ==
  ASSUME [Next]_vars
  PROVE  \/ users' = users /\ accounts' = accounts
         \/ \E h \in Handler : CommitTx(h) \/ CommitUnacknowledged(h)
         \/ \E u \in User : TransferLeg(u)
<1>1. CASE UNCHANGED vars \/ Crash
  BY <1>1 DEF vars, dbVars, Crash, LoseConnections
<1>2. ASSUME NEW h \in Handler, CreateAccount(h) \/ UpdateOrDeleteAccount(h)
      PROVE  users' = users /\ accounts' = accounts
  BY <1>2 DEF CreateAccount, UpdateOrDeleteAccount, dbVars
<1>3. ASSUME NEW h \in Handler, Abandon(h)
      PROVE  users' = users /\ accounts' = accounts
  BY <1>3 DEF Abandon, Rollback
<1>4. ASSUME NEW h \in Handler, Work(h), ~CommitTx(h)
      PROVE  users' = users /\ accounts' = accounts
  <2>1. CASE ReadExisting(h) \/ RejectBalance(h) \/ ReadMissing(h) \/ Return(h)
             \/ BeginTx(h) \/ SelectDetails(h)
    BY <2>1 DEF ReadExisting, RejectBalance, ReadMissing, Refuse, Return, BeginTx, Begin,
      SelectDetails, dbVars
  <2>2. CASE \/ InsertUser(h) \/ LockUser(h) \/ UpdateUser(h) \/ UpdatePassword(h)
             \/ DeleteUserRow(h)
    BY <1>3, <2>2 DEF InsertUser, LockUser, UpdateUser, UpdatePassword, DeleteUserRow, WriteUser
  <2>3. CASE InsertAccount(h) \/ UpdateAccountRow(h) \/ DeleteAccountRow(h)
    BY <1>3, <2>3 DEF InsertAccount, UpdateAccountRow, DeleteAccountRow, WriteAccount
  <2>4. CASE SelectPk(h)
    BY <1>3, <2>4 DEF SelectPk, dbVars
  <2> QED
    BY <1>4, <2>1, <2>2, <2>3, <2>4 DEF Work
<1>5. ASSUME NEW h \in Handler, Fault(h), ~CommitUnacknowledged(h)
      PROVE  users' = users /\ accounts' = accounts
  BY <1>3, <1>5 DEF Fault, HashFails, ReadFails, BeginFails, Refuse, StatementFails, dbVars
<1> QED
  BY <1>1, <1>2, <1>3, <1>4, <1>5 DEF Next, DeadlockVictim

(* No row goes away or is marked as live again: an update that read the   *)
(* account before a delete committed leaves deleted_at alone.              *)
LEMMA RowsKept ==
  ASSUME PairInv, [Next]_vars, NEW u \in User
  PROVE  /\ users[u] # NoRow => users'[u] # NoRow
         /\ users[u] # NoRow /\ users[u].deleted => users'[u].deleted
         /\ accounts[u] # NoRow => accounts'[u] # NoRow
         /\ accounts[u] # NoRow /\ accounts[u].deleted => accounts'[u].deleted
<1>1. CASE users' = users /\ accounts' = accounts
  BY <1>1
<1>2. ASSUME NEW h \in Handler, CommitTx(h) \/ CommitUnacknowledged(h)
      PROVE  /\ users[u] # NoRow => users'[u] # NoRow
             /\ users[u] # NoRow /\ users[u].deleted => users'[u].deleted
             /\ accounts[u] # NoRow => accounts'[u] # NoRow
             /\ accounts[u] # NoRow /\ accounts[u].deleted => accounts'[u].deleted
  <2> DEFINE id == req[h].id
  <2>1. pc[h] = "commit" /\ Commit(h)
    BY <1>2 DEF CommitTx, CommitUnacknowledged
  <2>2. users[id] # NoRow => (users[id].deleted => Flag(h))
    <3>1. users[id] # NoRow => req[h].op \in {"update", "delete"}
      BY <2>1, CommitUser, RequestKinds DEF PairInv, TypeInv, Control
    <3> QED
      BY <3>1 DEF Flag
  <2>3. accounts[id] # NoRow => users[id] # NoRow /\ users[id].deleted = accounts[id].deleted
    BY <2>1, CommitUser, CommitEffect DEF PairInv, RowsPaired
  <2> QED
    BY <2>1, <2>2, <2>3, CommitEffect
<1>3. ASSUME NEW v \in User, TransferLeg(v)
      PROVE  /\ users' = users
             /\ accounts[u] # NoRow => accounts'[u] # NoRow
             /\ accounts[u] # NoRow /\ accounts[u].deleted => accounts'[u].deleted
  BY <1>3, LegEffect, NoRowAssumption DEF PairInv, TypeInv
<1> QED
  BY <1>1, <1>2, <1>3, OnlyCommitWrites

(* No interleaving brings a deleted account back.                          *)
THEOREM DeletedStaysDeleted == Spec => DeletedForever
<1>1. PairInv /\ [Next]_vars =>
        [\A u \in User :
           /\ users[u] # NoRow => users'[u] # NoRow
           /\ users[u] # NoRow /\ users[u].deleted => users'[u].deleted
           /\ accounts[u] # NoRow /\ accounts[u].deleted => accounts'[u].deleted]_vars
  BY RowsKept
<1> QED
  BY <1>1, PairInvariant, PTL DEF Spec, DeletedForever
=============================================================================
