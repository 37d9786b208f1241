--------------------------- MODULE RepliesProofs ----------------------------
(***************************************************************************)
(* What a client of the account service may rely on when it is answered,   *)
(* for any number of handlers, users, names and pooled connections: OK     *)
(* means durable, the details of an update are what it committed, no       *)
(* transaction outlives its call, nobody else's password comes or goes,    *)
(* a request takes effect as a whole, on its own account, and an update    *)
(* that nobody interfered with has the effect it asked for.                *)
(***************************************************************************)
EXTENDS RegistryProofs

(* A handler holds a connection exactly while it is inside RunInTx.        *)
TxHeld(h) == h \in open <=> pc[h] \in InTx

(* A handler that says OK has committed, and its rows are still there.     *)
Told(h) ==
  /\ pc[h] # "reply" => reply[h] = None
  /\ pc[h] = "reply" /\ reply[h] = "OK" =>
       /\ req[h].id \in User
       /\ users[req[h].id] # NoRow /\ accounts[req[h].id] # NoRow
       /\ req[h].op = "delete" =>
            users[req[h].id].deleted /\ accounts[req[h].id].deleted

(* The details were read after the last write of the transaction.          *)
DetailsRead(h) ==
  pc[h] = "commit" /\ req[h].op = "update" =>
    details[h] = [user |-> UserSeen(h, req[h].id), account |-> AccountSeen(h, req[h].id)]

(* The user name and the password that a create or an update has pending   *)
(* for u before the round trip of this label is made.                      *)
NameDue(h, label, u) ==
  IF label = "writeUser" THEN users[u].username ELSE data[h].username

PasswordDue(h, label, u) ==
  IF req[h].op = "update" /\ (\/ label \in {"writeUser", "updatePassword"}
                              \/ req[h].password = None)
  THEN users[u].password ELSE req[h].password

(* What a create or an update has pending is what its request asks for.    *)
WholePending(h) ==
  \A u \in User : req[h].op # "delete" =>
    /\ userWrites[h][u] # NoRow =>
         /\ userWrites[h][u].username = NameDue(h, pc[h], u)
         /\ userWrites[h][u].password = PasswordDue(h, pc[h], u)
    /\ accountWrites[h][u] # NoRow => accountWrites[h][u].balance = data[h].balance

(* The fields of an update are its request's over those of the first read. *)
MergedFrom(h) ==
  pc[h] \in Started \ {"read"} /\ req[h].op = "update" =>
    data[h] = Merge(req[h], existing[h])

OwnPart(h) ==
  TxHeld(h) /\ Told(h) /\ DetailsRead(h) /\ WholePending(h) /\ MergedFrom(h)

ReplyInv ==
  /\ RegistryInv
  /\ \A h \in Handler : OwnPart(h)
-----------------------------------------------------------------------------
(* A step of h leaves the local state and the transactions of the other    *)
(* handlers alone.                                                         *)
Alone(h) ==
  \A g \in Handler \ {h} :
    /\ pc'[g] = pc[g] /\ req'[g] = req[g] /\ data'[g] = data[g]
    /\ existing'[g] = existing[g] /\ details'[g] = details[g] /\ reply'[g] = reply[g]
    /\ g \in open' <=> g \in open
    /\ userWrites'[g] = userWrites[g] /\ accountWrites'[g] = accountWrites[g]

(* A row somebody has locked is not committed to by anybody else.          *)
LEMMA LockedRowStays ==
  ASSUME PairInv, [Next]_vars, NEW g \in Handler, NEW u \in User,
         userWrites[g][u] # NoRow, pc'[g] = pc[g]
  PROVE  users'[u] = users[u]
<1>1. ASSUME NEW h \in Handler, CommitTx(h) \/ CommitUnacknowledged(h)
      PROVE  users'[u] = users[u]
  <2>1. pc[h] = "commit" /\ Commit(h) /\ pc'[h] = "reply"
    BY <1>1 DEF CommitTx, CommitUnacknowledged, Answer, Goto, PairInv, TypeInv, TypeOK
  <2>2. h # g
    BY <2>1
  <2>3. userWrites[h][req[h].id] # NoRow
    BY <2>1, CommitEffect DEF PairInv, Pending, UserHeld
  <2> QED
    BY <2>1, <2>2, <2>3, CommitEffect DEF PairInv, LocksExclusive
<1>2. ASSUME NEW v \in User, TransferLeg(v)
      PROVE  users'[u] = users[u]
  BY <1>2 DEF TransferLeg
<1> QED
  BY <1>1, <1>2, OnlyCommitWrites

(* So the others keep their part.                                          *)
LEMMA OthersKeep ==
  ASSUME ReplyInv, [Next]_vars, NEW h \in Handler, Alone(h), NEW g \in Handler \ {h}
  PROVE  OwnPart(g)'
<1>1. /\ pc'[g] = pc[g] /\ req'[g] = req[g] /\ data'[g] = data[g]
      /\ existing'[g] = existing[g] /\ details'[g] = details[g] /\ reply'[g] = reply[g]
      /\ g \in open' <=> g \in open
      /\ userWrites'[g] = userWrites[g] /\ accountWrites'[g] = accountWrites[g]
  BY DEF Alone
<1>2. OwnPart(g) /\ PairInv
  BY DEF ReplyInv, RegistryInv, NamesInv
<1>3. TxHeld(g)'
  BY <1>1, <1>2 DEF OwnPart, TxHeld
<1>4. Told(g)'
  BY <1>1, <1>2, RowsKept DEF OwnPart, Told
<1>5. DetailsRead(g)'
  <2> SUFFICES ASSUME pc[g] = "commit", req[g].op = "update"
               PROVE  /\ UserSeen(g, req[g].id)' = UserSeen(g, req[g].id)
                      /\ AccountSeen(g, req[g].id)' = AccountSeen(g, req[g].id)
    BY <1>1, <1>2 DEF OwnPart, DetailsRead
  <2>1. req[g].id \in User
    BY <1>2 DEF PairInv, TypeInv, Control, Started, Labels, InTx
  <2>2. userWrites[g][req[g].id] # NoRow /\ accountWrites[g][req[g].id] # NoRow
    BY <1>2, <2>1 DEF PairInv, Pending, UserHeld, AccountHeld
  <2> QED
    BY <1>1, <2>2 DEF UserSeen, AccountSeen
<1>6. WholePending(g)'
  BY <1>1, <1>2, LockedRowStays DEF OwnPart, WholePending, NameDue, PasswordDue
<1>7. MergedFrom(g)'
  BY <1>1, <1>2 DEF OwnPart, MergedFrom
<1> QED
  BY <1>3, <1>4, <1>5, <1>6, <1>7 DEF OwnPart

(* A transfer's leg disturbs nobody: it keeps off the rows that have been  *)
(* written.                                                                *)
LEMMA LegPart ==
  ASSUME ReplyInv, [Next]_vars, NEW v \in User, TransferLeg(v), NEW g \in Handler
  PROVE  OwnPart(g)'
<1>1. UNCHANGED <<users, open, userWrites, accountWrites, pc, req, existing, data, details,
                  reply>>
  BY DEF TransferLeg, locals
<1>2. OwnPart(g) /\ PairInv
  BY DEF ReplyInv, RegistryInv, NamesInv
<1>3. TxHeld(g)' /\ WholePending(g)' /\ MergedFrom(g)'
  BY <1>1, <1>2 DEF OwnPart, TxHeld, WholePending, NameDue, PasswordDue, MergedFrom
<1>4. Told(g)'
  BY <1>1, <1>2, RowsKept DEF OwnPart, Told
<1>5. DetailsRead(g)'
  <2> SUFFICES ASSUME pc[g] = "commit", req[g].op = "update"
               PROVE  /\ UserSeen(g, req[g].id)' = UserSeen(g, req[g].id)
                      /\ AccountSeen(g, req[g].id)' = AccountSeen(g, req[g].id)
    BY <1>1, <1>2 DEF OwnPart, DetailsRead
  <2>1. req[g].id \in User
    BY <1>2 DEF PairInv, TypeInv, Control, Started, Labels, InTx
  <2>2. accountWrites[g][req[g].id] # NoRow
    BY <1>2, <2>1 DEF PairInv, Pending, AccountHeld
  <2> QED
    BY <1>1, <2>2 DEF UserSeen, AccountSeen
<1> QED
  BY <1>3, <1>4, <1>5 DEF OwnPart
-----------------------------------------------------------------------------
(* The ways the part of the handler that takes the step is kept.           *)

(* It is between requests, or has an answer.                               *)
LEMMA RestingPart ==
  ASSUME NEW h \in Handler, h \notin open', pc'[h] \in {"idle", "reply"},
         \A u \in User : userWrites'[h][u] = NoRow /\ accountWrites'[h][u] = NoRow,
         Told(h)'
  PROVE  OwnPart(h)'
  BY DEF OwnPart, TxHeld, DetailsRead, WholePending, MergedFrom, InTx, CreateTx,
    UpdateTx, DeleteTx, Started, Labels

(* A handler outside RunInTx has no transaction.                           *)
LEMMA OutsideTx ==
  ASSUME ReplyInv, NEW h \in Handler, pc[h] \notin InTx
  PROVE  /\ h \notin open
         /\ \A u \in User : userWrites[h][u] = NoRow /\ accountWrites[h][u] = NoRow
<1>1. OwnPart(h) /\ Pending(h)
  BY DEF ReplyInv, RegistryInv, NamesInv, PairInv
<1>2. pc[h] \notin UserHeld \cup AccountHeld
  BY DEF InTx, CreateTx, UpdateTx, DeleteTx, UserHeld, AccountHeld
<1> QED
  BY <1>1, <1>2 DEF OwnPart, TxHeld, Pending

LEMMA AbandonPart ==
  ASSUME ReplyInv, NEW h \in Handler, Abandon(h)
  PROVE  Alone(h) /\ OwnPart(h)'
<1>1. /\ EndTx(h) /\ pc'[h] = "reply" /\ reply'[h] = "Internal" /\ req' = req
      /\ existing' = existing /\ data' = data /\ details' = details
      /\ \A g \in Handler \ {h} : pc'[g] = pc[g] /\ reply'[g] = reply[g]
  BY DEF Abandon, Rollback, Answer, Goto, ReplyInv, RegistryInv, NamesInv, PairInv,
    TypeInv, TypeOK
<1>2. /\ \A u \in User : userWrites'[h][u] = NoRow /\ accountWrites'[h][u] = NoRow
      /\ \A g \in Handler \ {h} : /\ userWrites'[g] = userWrites[g]
                                  /\ accountWrites'[g] = accountWrites[g]
      /\ open' = open \ {h}
  BY <1>1, EndTxLocks DEF EndTx, ReplyInv, RegistryInv, NamesInv, PairInv, TypeInv
<1>3. Told(h)'
  BY <1>1 DEF Told
<1> QED
  BY <1>1, <1>2, <1>3, RestingPart DEF Alone

LEMMA RefusePart ==
  ASSUME ReplyInv, NEW h \in Handler, NEW code \in Codes \ {"OK"}, Refuse(h, code),
         pc[h] \notin InTx
  PROVE  Alone(h) /\ OwnPart(h)'
<1>1. /\ pc'[h] = "reply" /\ reply'[h] = code /\ req' = req
      /\ existing' = existing /\ data' = data /\ details' = details
      /\ open' = open /\ userWrites' = userWrites /\ accountWrites' = accountWrites
      /\ \A g \in Handler \ {h} : pc'[g] = pc[g] /\ reply'[g] = reply[g]
  BY DEF Refuse, Answer, Goto, dbVars, ReplyInv, RegistryInv, NamesInv, PairInv,
    TypeInv, TypeOK
<1>2. Told(h)'
  BY <1>1 DEF Told
<1> QED
  BY <1>1, <1>2, OutsideTx, RestingPart DEF Alone

LEMMA RefusalsPart ==
  ASSUME ReplyInv, NEW h \in Handler,
         \/ RejectBalance(h) \/ ReadMissing(h) \/ ReadFails(h)
         \/ HashFails(h) \/ BeginFails(h)
  PROVE  Alone(h) /\ OwnPart(h)'
<1>1. /\ pc[h] \in {"read", "begin"}
      /\ \E code \in Codes \ {"OK"} : Refuse(h, code)
  BY DEF RejectBalance, ReadMissing, ReadFails, HashFails, BeginFails, Codes
<1> QED
  BY <1>1, RefusePart DEF InTx, CreateTx, UpdateTx, DeleteTx

(* A step to the next round trip that changes no row and no request.       *)
LEMMA GoOnPart ==
  ASSUME ReplyInv, NEW h \in Handler, NEW label, Proceed(h, label),
         UNCHANGED <<users, accounts, userWrites, accountWrites>>,
         pc[h] \in Started \ {"read"}, pc[h] \notin UserHeld \cup AccountHeld,
         label \in InTx \ {"commit"}, open' = open \cup {h}
  PROVE  Alone(h) /\ OwnPart(h)'
<1>1. /\ pc'[h] = label /\ UNCHANGED locals
      /\ \A g \in Handler \ {h} : pc'[g] = pc[g]
  BY ProceedControl DEF Proceed, ReplyInv, RegistryInv, NamesInv, PairInv, TypeInv
<1>2. Alone(h)
  BY <1>1 DEF Alone, locals
<1>3. OwnPart(h) /\ Pending(h)
  BY DEF ReplyInv, RegistryInv, NamesInv, PairInv
<1>4. Told(h)' /\ TxHeld(h)' /\ DetailsRead(h)'
  BY <1>1, <1>3 DEF OwnPart, Told, TxHeld, DetailsRead, locals, InTx, CreateTx, UpdateTx,
    DeleteTx, Started, Labels
<1>5. WholePending(h)'
  BY <1>3 DEF Pending, WholePending
<1>6. MergedFrom(h)'
  BY <1>1, <1>3 DEF OwnPart, MergedFrom, locals
<1> QED
  BY <1>2, <1>4, <1>5, <1>6 DEF OwnPart

(* A step that writes the user row.                                        *)
LEMMA WriteUserPart ==
  ASSUME ReplyInv, NEW h \in Handler, NEW row, NEW label,
         req[h].id \in User, WriteUser(h, req[h].id, row), Proceed(h, label),
         pc[h] \in InTx \ {"commit"}, label \in InTx,
         label = "commit" => req[h].op # "update",
         req[h].op # "delete" =>
           /\ row.username = NameDue(h, label, req[h].id)
           /\ row.password = PasswordDue(h, label, req[h].id)
  PROVE  Alone(h) /\ OwnPart(h)'
<1> DEFINE u == req[h].id
<1>1. /\ users' = users /\ accounts' = accounts /\ accountWrites' = accountWrites
      /\ open' = open /\ userWrites'[h][u] = row
      /\ \A v \in User \ {u} : userWrites'[h][v] = userWrites[h][v]
      /\ \A g \in Handler \ {h} : userWrites'[g] = userWrites[g]
  <2>1. open' = open
    BY DEF WriteUser
  <2>2. TypeOK /\ LocksExclusive
    BY DEF ReplyInv, RegistryInv, NamesInv, PairInv, TypeInv
  <2> QED
    BY <2>1, <2>2, WriteUserLocks
<1>2. /\ pc'[h] = label /\ UNCHANGED locals
      /\ \A g \in Handler \ {h} : pc'[g] = pc[g]
  BY ProceedControl DEF Proceed, ReplyInv, RegistryInv, NamesInv, PairInv, TypeInv
<1>3. Alone(h)
  BY <1>1, <1>2 DEF Alone, locals
<1>4. OwnPart(h) /\ Pending(h)
  BY DEF ReplyInv, RegistryInv, NamesInv, PairInv
<1>5. Told(h)' /\ TxHeld(h)' /\ DetailsRead(h)'
  BY <1>1, <1>2, <1>4 DEF OwnPart, Told, TxHeld, DetailsRead, locals, InTx, CreateTx,
    UpdateTx, DeleteTx
<1>6. WholePending(h)'
  <2>1. \A v \in User : userWrites'[h][v] # NoRow => v = u
    BY <1>1, <1>4 DEF Pending
  <2> QED
    BY <1>1, <1>2, <1>4, <2>1 DEF OwnPart, WholePending, NameDue, PasswordDue, locals
<1>7. MergedFrom(h)'
  BY <1>1, <1>2, <1>4 DEF OwnPart, MergedFrom, locals, InTx, CreateTx, UpdateTx,
    DeleteTx, Started, Labels
<1> QED
  BY <1>3, <1>5, <1>6, <1>7 DEF OwnPart

(* A step that writes the account row.                                     *)
LEMMA WriteAccountPart ==
  ASSUME ReplyInv, NEW h \in Handler, NEW row, NEW label,
         req[h].id \in User, WriteAccount(h, req[h].id, row), Proceed(h, label),
         pc[h] \in InTx \ {"commit", "writeUser", "updatePassword"},
         label \in InTx \ {"writeUser", "updatePassword"},
         label = "commit" => req[h].op # "update",
         req[h].op # "delete" => row.balance = data[h].balance
  PROVE  Alone(h) /\ OwnPart(h)'
<1> DEFINE u == req[h].id
<1>1. /\ users' = users /\ accounts' = accounts /\ userWrites' = userWrites
      /\ open' = open /\ accountWrites'[h][u] = row
      /\ \A v \in User \ {u} : accountWrites'[h][v] = accountWrites[h][v]
      /\ \A g \in Handler \ {h} : accountWrites'[g] = accountWrites[g]
  <2>1. open' = open
    BY DEF WriteAccount
  <2>2. TypeOK /\ LocksExclusive
    BY DEF ReplyInv, RegistryInv, NamesInv, PairInv, TypeInv
  <2> QED
    BY <2>1, <2>2, WriteAccountLocks
<1>2. /\ pc'[h] = label /\ UNCHANGED locals
      /\ \A g \in Handler \ {h} : pc'[g] = pc[g]
  BY ProceedControl DEF Proceed, ReplyInv, RegistryInv, NamesInv, PairInv, TypeInv
<1>3. Alone(h)
  BY <1>1, <1>2 DEF Alone, locals
<1>4. OwnPart(h) /\ Pending(h)
  BY DEF ReplyInv, RegistryInv, NamesInv, PairInv
<1>5. Told(h)' /\ TxHeld(h)' /\ DetailsRead(h)'
  BY <1>1, <1>2, <1>4 DEF OwnPart, Told, TxHeld, DetailsRead, locals, InTx, CreateTx,
    UpdateTx, DeleteTx
<1>6. WholePending(h)'
  <2>1. \A v \in User : accountWrites'[h][v] # NoRow => v = u
    BY <1>1, <1>4 DEF Pending
  <2> QED
    BY <1>1, <1>2, <1>4, <2>1 DEF OwnPart, WholePending, NameDue, PasswordDue, locals
<1>7. MergedFrom(h)'
  BY <1>1, <1>2, <1>4 DEF OwnPart, MergedFrom, locals, InTx, CreateTx, UpdateTx,
    DeleteTx, Started, Labels
<1> QED
  BY <1>3, <1>5, <1>6, <1>7 DEF OwnPart
-----------------------------------------------------------------------------
(* The actions.                                                            *)

LEMMA RequestPart ==
  ASSUME ReplyInv, NEW h \in Handler, CreateAccount(h) \/ UpdateOrDeleteAccount(h)
  PROVE  Alone(h) /\ OwnPart(h)'
<1>1. /\ pc[h] = "idle" /\ UNCHANGED dbVars /\ details' = details /\ existing' = existing
      /\ \A g \in Handler \ {h} : /\ pc'[g] = pc[g] /\ req'[g] = req[g]
                                  /\ data'[g] = data[g] /\ reply'[g] = reply[g]
  BY DEF CreateAccount, UpdateOrDeleteAccount, Answer, Goto, ReplyInv, RegistryInv,
    NamesInv, PairInv, TypeInv, TypeOK
<1>2. Alone(h)
  BY <1>1 DEF Alone, dbVars
<1>3. pc[h] \notin InTx
  BY <1>1 DEF InTx, CreateTx, UpdateTx, DeleteTx
<1>4. /\ h \notin open'
      /\ \A u \in User : userWrites'[h][u] = NoRow /\ accountWrites'[h][u] = NoRow
  BY <1>1, <1>3, OutsideTx DEF dbVars
<1>5. \/ pc'[h] = "reply" /\ reply'[h] \in {"InvalidArgument", "Internal"}
      \/ pc'[h] \in {"begin", "read"} /\ reply' = reply
  BY DEF CreateAccount, UpdateOrDeleteAccount, Answer, Goto, ReplyInv, RegistryInv,
    NamesInv, PairInv, TypeInv, TypeOK
<1>6. pc'[h] \in Started \ {"read"} => req'[h].op = "create"
  BY RequestKinds DEF CreateAccount, UpdateOrDeleteAccount, CreateRequest, Answer, Goto,
    Started, ReplyInv, RegistryInv, NamesInv, PairInv, TypeInv, TypeOK
<1>7. reply[h] = None
  BY <1>1 DEF ReplyInv, OwnPart, Told
<1>8. Told(h)' /\ TxHeld(h)' /\ DetailsRead(h)'
  BY <1>4, <1>5, <1>7 DEF Told, TxHeld, DetailsRead, InTx, CreateTx, UpdateTx, DeleteTx
<1>9. WholePending(h)' /\ MergedFrom(h)'
  BY <1>4, <1>6 DEF WholePending, MergedFrom
<1> QED
  BY <1>2, <1>8, <1>9 DEF OwnPart

LEMMA ReadPart ==
  ASSUME ReplyInv, NEW h \in Handler, ReadExisting(h)
  PROVE  Alone(h) /\ OwnPart(h)'
<1>1. /\ pc[h] = "read" /\ pc'[h] = "begin" /\ req' = req /\ reply' = reply
      /\ details' = details /\ UNCHANGED dbVars
      /\ req[h].op = "update" => data'[h] = Merge(req[h], existing'[h])
      /\ \A g \in Handler \ {h} : /\ pc'[g] = pc[g] /\ data'[g] = data[g]
                                  /\ existing'[g] = existing[g]
  BY DEF ReadExisting, Goto, ReplyInv, RegistryInv, NamesInv, PairInv, TypeInv, TypeOK
<1>2. Alone(h)
  BY <1>1 DEF Alone, dbVars
<1>3. /\ h \notin open'
      /\ \A u \in User : userWrites'[h][u] = NoRow /\ accountWrites'[h][u] = NoRow
  BY <1>1, OutsideTx DEF dbVars, InTx, CreateTx, UpdateTx, DeleteTx
<1>4. Told(h)' /\ TxHeld(h)' /\ DetailsRead(h)'
  BY <1>1, <1>3 DEF ReplyInv, OwnPart, Told, TxHeld, DetailsRead, InTx, CreateTx,
    UpdateTx, DeleteTx
<1>5. WholePending(h)' /\ MergedFrom(h)'
  BY <1>1, <1>3 DEF WholePending, MergedFrom
<1> QED
  BY <1>2, <1>4, <1>5 DEF OwnPart

LEMMA BeginPart ==
  ASSUME ReplyInv, NEW h \in Handler, BeginTx(h)
  PROVE  Alone(h) /\ OwnPart(h)'
  BY GoOnPart DEF BeginTx, Begin, Started, Labels, UserHeld, AccountHeld, InTx, CreateTx,
    UpdateTx, DeleteTx

LEMMA SelectPkPart ==
  ASSUME ReplyInv, NEW h \in Handler, SelectPk(h)
  PROVE  Alone(h) /\ OwnPart(h)'
<1>1. pc[h] = "selectPk" /\ h \in open
  BY DEF SelectPk, ReplyInv, OwnPart, TxHeld, InTx
<1>2. CASE /\ UNCHANGED dbVars
           /\ Proceed(h, IF req[h].op = "update" THEN "updateUser" ELSE "deleteAccount")
  BY <1>1, <1>2, GoOnPart DEF dbVars, Started, Labels, UserHeld, AccountHeld, InTx,
    CreateTx, UpdateTx, DeleteTx
<1> QED
  BY <1>2, AbandonPart DEF SelectPk

(* Where a handler that writes stands.                                     *)
LEMMA Writing ==
  ASSUME ReplyInv, NEW h \in Handler, pc[h] \in CreateTx \cup UpdateTx \cup DeleteTx
  PROVE  /\ pc[h] \in InTx \ {"commit"} /\ pc[h] \in Started \ {"read"}
         /\ req[h].id \in User
         /\ pc[h] \in CreateTx => req[h].op = "create"
         /\ pc[h] \in UpdateTx => req[h].op = "update"
         /\ pc[h] \in DeleteTx => req[h].op = "delete"
         /\ OwnPart(h) /\ Pending(h)
  BY DEF ReplyInv, RegistryInv, NamesInv, PairInv, TypeInv, Control, InTx, CreateTx,
    UpdateTx, DeleteTx, Started, Labels

LEMMA InsertPart ==
  ASSUME ReplyInv, NEW h \in Handler, InsertUser(h) \/ InsertAccount(h)
  PROVE  Alone(h) /\ OwnPart(h)'
<1>1. pc[h] \in CreateTx /\ pc[h] \notin {"writeUser", "updatePassword"}
  BY DEF InsertUser, InsertAccount, CreateTx
<1>2. CASE Abandon(h)
  BY <1>2, AbandonPart
<1>3. CASE \E row : /\ WriteUser(h, req[h].id, row) /\ Proceed(h, "insertAccount")
                    /\ row.username = data[h].username
                    /\ row.password = req[h].password
  BY <1>1, <1>3, Writing, WriteUserPart DEF InTx, CreateTx, NameDue, PasswordDue
<1>4. CASE \E row : /\ WriteAccount(h, req[h].id, row) /\ Proceed(h, "commit")
                    /\ row.balance = data[h].balance
  BY <1>1, <1>4, Writing, WriteAccountPart DEF InTx
<1> QED
  BY <1>2, <1>3, <1>4 DEF InsertUser, InsertAccount

LEMMA UpdateUserPart ==
  ASSUME ReplyInv, NEW h \in Handler, LockUser(h) \/ UpdateUser(h)
  PROVE  Alone(h) /\ OwnPart(h)'
<1> DEFINE u == req[h].id
           row == [UserSeen(h, u) EXCEPT !.username = data[h].username]
           next == IF req[h].password = None THEN "updateAccount" ELSE "updatePassword"
<1>1. pc[h] \in {"updateUser", "writeUser"} /\ pc[h] \in UpdateTx
  BY DEF LockUser, UpdateUser, UpdateTx
<1>2. UserSeen(h, u) \in UserRow
  BY <1>1, RowsFound DEF ReplyInv, RegistryInv, NamesInv, PairInv
<1>3. CASE LockUser(h)
  <2>1. UserSeen(h, u) = users[u]
    BY <1>3, Writing, <1>1 DEF LockUser, UserSeen, Pending, UserHeld
  <2>2. UserSeen(h, u).username = NameDue(h, "writeUser", u)
    BY <2>1 DEF NameDue
  <2>3. UserSeen(h, u).password = PasswordDue(h, "writeUser", u)
    BY <1>1, <2>1, Writing DEF PasswordDue
  <2>4. WriteUser(h, u, UserSeen(h, u)) /\ Proceed(h, "writeUser")
    BY <1>3 DEF LockUser
  <2> QED
    BY <1>1, <2>2, <2>3, <2>4, Writing, WriteUserPart DEF InTx, UpdateTx
<1>4. CASE UpdateUser(h) /\ WriteUser(h, u, row) /\ Proceed(h, next)
  <2>1. /\ next \in InTx \ {"commit", "writeUser"}
        /\ next = "updatePassword" \/ req[h].password = None
    BY DEF InTx, UpdateTx
  <2>2. pc[h] = "writeUser" /\ userWrites[h][u] # NoRow /\ WholePending(h)
        /\ req[h].op = "update" /\ u \in User
    BY <1>1, <1>4, Writing DEF UpdateUser, Pending, UserHeld, OwnPart
  <2>3. UserSeen(h, u).password = users[u].password
    BY <2>2 DEF UserSeen, WholePending, PasswordDue
  <2>4. row.username = data[h].username /\ row.password = users[u].password
    BY <1>2, <2>3 DEF UserRow
  <2> HIDE DEF next, row
  <2>5. row.username = NameDue(h, next, u) /\ row.password = PasswordDue(h, next, u)
    BY <2>1, <2>2, <2>4 DEF NameDue, PasswordDue
  <2> QED
    BY <1>1, <1>4, <2>1, <2>5, Writing, WriteUserPart
<1> QED
  BY <1>3, <1>4, AbandonPart DEF UpdateUser

LEMMA UpdatePasswordPart ==
  ASSUME ReplyInv, NEW h \in Handler, UpdatePassword(h)
  PROVE  Alone(h) /\ OwnPart(h)'
<1> DEFINE u == req[h].id
           row == [UserSeen(h, u) EXCEPT !.password = req[h].password]
<1>1. pc[h] = "updatePassword" /\ pc[h] \in UpdateTx
  BY DEF UpdatePassword, UpdateTx
<1>2. UserSeen(h, u) \in UserRow
  BY <1>1, RowsFound DEF ReplyInv, RegistryInv, NamesInv, PairInv
<1>3. UserSeen(h, u).username = data[h].username
  BY <1>1, Writing DEF UserSeen, OwnPart, WholePending, NameDue, Pending, UserHeld
<1>4. row.password = req[h].password /\ row.username = data[h].username
  BY <1>2, <1>3 DEF UserRow
<1>5. req[h].password # None
  BY <1>1, RequestAssumption DEF ReplyInv, RegistryInv, NamesInv, PairInv, TypeInv, Control
<1>6. WriteUser(h, u, row) /\ Proceed(h, "updateAccount")
  BY DEF UpdatePassword
<1> HIDE DEF row
<1>7. /\ row.username = NameDue(h, "updateAccount", u)
      /\ row.password = PasswordDue(h, "updateAccount", u)
  BY <1>4, <1>5 DEF NameDue, PasswordDue
<1> QED
  BY <1>1, <1>6, <1>7, Writing, WriteUserPart DEF InTx, UpdateTx

LEMMA UpdateAccountRowPart ==
  ASSUME ReplyInv, NEW h \in Handler, UpdateAccountRow(h)
  PROVE  Alone(h) /\ OwnPart(h)'
<1> DEFINE u == req[h].id
           row == [AccountSeen(h, u) EXCEPT !.balance = data[h].balance]
<1>1. pc[h] = "updateAccount" /\ pc[h] \in UpdateTx
  BY DEF UpdateAccountRow, UpdateTx
<1>2. AccountSeen(h, u) \in AccountRow
  BY <1>1, RowsFound DEF ReplyInv, RegistryInv, NamesInv, PairInv
<1>3. row.balance = data[h].balance
  BY <1>2 DEF AccountRow
<1>4. CASE WriteAccount(h, u, row) /\ Proceed(h, "selectDetails")
  <2> HIDE DEF row
  <2> QED
    BY <1>1, <1>3, <1>4, Writing, WriteAccountPart DEF InTx, UpdateTx
<1> QED
  BY <1>4, AbandonPart DEF UpdateAccountRow

LEMMA SelectDetailsPart ==
  ASSUME ReplyInv, NEW h \in Handler, SelectDetails(h)
  PROVE  Alone(h) /\ OwnPart(h)'
<1>1. /\ pc[h] = "selectDetails" /\ pc'[h] = "commit" /\ UNCHANGED dbVars
      /\ req' = req /\ existing' = existing /\ data' = data /\ reply' = reply
      /\ details'[h] = [user |-> UserSeen(h, req[h].id), account |-> AccountSeen(h, req[h].id)]
      /\ \A g \in Handler \ {h} : pc'[g] = pc[g] /\ details'[g] = details[g]
  BY DEF SelectDetails, Goto, ReplyInv, RegistryInv, NamesInv, PairInv, TypeInv, TypeOK
<1>2. Alone(h)
  BY <1>1 DEF Alone, dbVars
<1>3. OwnPart(h) /\ pc[h] \in InTx /\ pc[h] \in Started \ {"read"}
  BY <1>1, Writing DEF UpdateTx
<1>4. DetailsRead(h)'
  BY <1>1 DEF DetailsRead, UserSeen, AccountSeen, dbVars
<1>5. TxHeld(h)' /\ Told(h)'
  BY <1>1, <1>3 DEF OwnPart, TxHeld, Told, dbVars, InTx
<1>6. WholePending(h)' /\ MergedFrom(h)'
  BY <1>1, <1>3 DEF OwnPart, WholePending, NameDue, PasswordDue, MergedFrom, dbVars
<1> QED
  BY <1>2, <1>4, <1>5, <1>6 DEF OwnPart

LEMMA DeletePart ==
  ASSUME ReplyInv, NEW h \in Handler, DeleteAccountRow(h) \/ DeleteUserRow(h)
  PROVE  Alone(h) /\ OwnPart(h)'
<1>1. pc[h] \in DeleteTx /\ pc[h] \notin {"writeUser", "updatePassword"}
  BY DEF DeleteAccountRow, DeleteUserRow, DeleteTx
<1>2. CASE \E row : WriteAccount(h, req[h].id, row) /\ Proceed(h, "deleteUser")
  BY <1>1, <1>2, Writing, WriteAccountPart DEF InTx, DeleteTx
<1>3. CASE \E row : WriteUser(h, req[h].id, row) /\ Proceed(h, "commit")
  BY <1>1, <1>3, Writing, WriteUserPart DEF InTx
<1> QED
  BY <1>2, <1>3 DEF DeleteAccountRow, DeleteUserRow

LEMMA CommitPart ==
  ASSUME ReplyInv, NEW h \in Handler, CommitTx(h) \/ CommitUnacknowledged(h)
  PROVE  Alone(h) /\ OwnPart(h)'
<1> DEFINE id == req[h].id
<1>1. /\ pc[h] = "commit" /\ Commit(h) /\ pc'[h] = "reply" /\ req' = req
      /\ existing' = existing /\ data' = data /\ details' = details
      /\ \A g \in Handler \ {h} : pc'[g] = pc[g] /\ reply'[g] = reply[g]
  BY DEF CommitTx, CommitUnacknowledged, Answer, Goto, ReplyInv, RegistryInv, NamesInv,
    PairInv, TypeInv, TypeOK
<1>2. /\ \A u \in User : userWrites'[h][u] = NoRow /\ accountWrites'[h][u] = NoRow
      /\ \A g \in Handler \ {h} : /\ userWrites'[g] = userWrites[g]
                                  /\ accountWrites'[g] = accountWrites[g]
      /\ open' = open \ {h}
  BY <1>1, EndTxLocks DEF Commit, EndTx, ReplyInv, RegistryInv, NamesInv, PairInv, TypeInv
<1>3. /\ id \in User /\ users'[id] # NoRow /\ accounts'[id] # NoRow
      /\ req[h].op = "delete" => users'[id].deleted /\ accounts'[id].deleted
  BY <1>1, CommitEffect DEF ReplyInv, RegistryInv, NamesInv, Flag
<1>4. Told(h)'
  BY <1>1, <1>3 DEF Told
<1> QED
  BY <1>1, <1>2, <1>4, RestingPart DEF Alone

LEMMA ReturnPart ==
  ASSUME ReplyInv, NEW h \in Handler, Return(h)
  PROVE  Alone(h) /\ OwnPart(h)'
<1>1. /\ pc[h] = "reply" /\ pc'[h] = "idle" /\ reply'[h] = None /\ UNCHANGED dbVars
      /\ \A g \in Handler \ {h} :
           /\ pc'[g] = pc[g] /\ req'[g] = req[g] /\ existing'[g] = existing[g]
           /\ data'[g] = data[g] /\ details'[g] = details[g] /\ reply'[g] = reply[g]
  BY DEF Return, Goto, ReplyInv, RegistryInv, NamesInv, PairInv, TypeInv, TypeOK
<1>2. /\ h \notin open'
      /\ \A u \in User : userWrites'[h][u] = NoRow /\ accountWrites'[h][u] = NoRow
  BY <1>1, OutsideTx DEF dbVars, InTx, CreateTx, UpdateTx, DeleteTx
<1>3. Told(h)'
  BY <1>1 DEF Told
<1> QED
  BY <1>1, <1>2, <1>3, RestingPart DEF Alone, dbVars

LEMMA CrashPart ==
  ASSUME Crash, NEW h \in Handler
  PROVE  OwnPart(h)'
<1>1. /\ h \notin open' /\ pc'[h] = "idle" /\ reply'[h] = None
      /\ \A u \in User : userWrites'[h][u] = NoRow /\ accountWrites'[h][u] = NoRow
  BY DEF Crash, LoseConnections, NoWrites
<1>2. Told(h)'
  BY <1>1 DEF Told
<1> QED
  BY <1>1, <1>2, RestingPart
-----------------------------------------------------------------------------
LEMMA InitReplyInv ==
  ASSUME Init
  PROVE  ReplyInv
<1>1. ASSUME NEW h \in Handler
      PROVE  OwnPart(h)
  BY DEF Init, NoWrites, OwnPart, TxHeld, Told, DetailsRead, WholePending, MergedFrom,
    InTx, CreateTx, UpdateTx, DeleteTx, Started, Labels
<1> QED
  BY <1>1, InitRegistryInv DEF ReplyInv

LEMMA NextReplyInv ==
  ASSUME ReplyInv, [Next]_vars
  PROVE  ReplyInv'
<1>1. RegistryInv'
  BY NextRegistryInv DEF ReplyInv
<1>2. CASE UNCHANGED vars
  BY <1>1, <1>2 DEF vars, dbVars, ReplyInv, OwnPart, TxHeld, Told, DetailsRead,
    WholePending, NameDue, PasswordDue, MergedFrom, UserSeen, AccountSeen
<1>3. CASE Crash \/ \E u \in User : TransferLeg(u)
  BY <1>1, <1>3, CrashPart, LegPart DEF ReplyInv
<1>4. ASSUME NEW h \in Handler, Alone(h), OwnPart(h)'
      PROVE  ReplyInv'
  BY <1>1, <1>4, OthersKeep DEF ReplyInv
<1>5. ASSUME NEW h \in Handler,
             CreateAccount(h) \/ UpdateOrDeleteAccount(h) \/ DeadlockVictim(h)
      PROVE  ReplyInv'
  BY <1>4, <1>5, RequestPart, AbandonPart DEF DeadlockVictim
<1>6. ASSUME NEW h \in Handler, Work(h)
      PROVE  ReplyInv'
  BY <1>4, <1>6, ReadPart, RefusalsPart, BeginPart, InsertPart, SelectPkPart,
    UpdateUserPart, UpdatePasswordPart, UpdateAccountRowPart, SelectDetailsPart,
    DeletePart, CommitPart, ReturnPart
  DEF Work
<1>7. ASSUME NEW h \in Handler, Fault(h)
      PROVE  ReplyInv'
  BY <1>4, <1>7, RefusalsPart, AbandonPart, CommitPart DEF Fault, StatementFails
<1> QED
  BY <1>2, <1>3, <1>5, <1>6, <1>7 DEF Next

THEOREM ReplyInvariant == Spec => []ReplyInv
  BY InitReplyInv, NextReplyInv, PTL DEF Spec
-----------------------------------------------------------------------------
(* RunInTx gives back its connection and its locks, whichever of the ways  *)
(* out of it a request takes.                                              *)
THEOREM TxReturned == Spec => []NoLeakedTx
<1>1. ASSUME ReplyInv, NEW h \in Handler
      PROVE  /\ h \in open <=> pc[h] \in InTx
             /\ h \notin open => userWrites[h] = NoWrites /\ accountWrites[h] = NoWrites
  <2>1. h \in open <=> pc[h] \in InTx
    BY <1>1 DEF ReplyInv, OwnPart, TxHeld
  <2>2. ASSUME h \notin open
        PROVE  userWrites[h] = NoWrites /\ accountWrites[h] = NoWrites
    <3>1. \A u \in User : userWrites[h][u] = NoRow /\ accountWrites[h][u] = NoRow
      BY <1>1, <2>1, <2>2, OutsideTx
    <3>2. /\ userWrites[h] = [u \in User |-> userWrites[h][u]]
          /\ accountWrites[h] = [u \in User |-> accountWrites[h][u]]
      BY <1>1 DEF ReplyInv, RegistryInv, NamesInv, PairInv, TypeInv, TypeOK, DatabaseTypeOK
    <3> QED
      BY <3>1, <3>2 DEF NoWrites
  <2> QED
    BY <2>1, <2>2
<1>2. ReplyInv => NoLeakedTx
  BY <1>1 DEF NoLeakedTx
<1> QED
  BY <1>2, ReplyInvariant, PTL

(* The service says OK only of what is durable, and what the client was    *)
(* told stays true whatever the other requests do meanwhile.               *)
THEOREM OkIsDurable == Spec => []OkMeansDurable
<1>1. ReplyInv => OkMeansDurable
  BY DEF ReplyInv, OwnPart, Told, OkMeansDurable
<1> QED
  BY <1>1, ReplyInvariant, PTL

(* Only a commit says OK.                                                  *)
LEMMA OkCommits ==
  ASSUME ReplyInv, [Next]_vars, NEW h \in Handler, pc[h] = "commit", reply'[h] = "OK"
  PROVE  CommitTx(h)
<1>1. reply[h] # "OK"
  BY RequestAssumption DEF ReplyInv, OwnPart, Told
<1>2. CASE UNCHANGED vars \/ Crash \/ \E u \in User : TransferLeg(u)
  BY <1>1, <1>2, RequestAssumption DEF vars, Crash, TransferLeg, locals
<1>3. ASSUME NEW g \in Handler \ {h}, Alone(g)
      PROVE  FALSE
  BY <1>1, <1>3 DEF Alone
<1>4. ASSUME NEW g \in Handler \ {h},
             \/ CreateAccount(g) \/ UpdateOrDeleteAccount(g) \/ DeadlockVictim(g)
             \/ Work(g) \/ Fault(g)
      PROVE  FALSE
  BY <1>3, <1>4, RequestPart, ReadPart, RefusalsPart, BeginPart, InsertPart,
    SelectPkPart, UpdateUserPart, UpdatePasswordPart, UpdateAccountRowPart,
    SelectDetailsPart, DeletePart, CommitPart, ReturnPart, AbandonPart
  DEF Work, Fault, StatementFails, DeadlockVictim
<1>5. ASSUME Abandon(h) \/ CommitUnacknowledged(h)
      PROVE  FALSE
  BY <1>5 DEF Abandon, CommitUnacknowledged, Answer, ReplyInv, RegistryInv, NamesInv,
    PairInv, TypeInv, TypeOK
<1>6. ASSUME Work(h), ~CommitTx(h)
      PROVE  FALSE
  BY <1>6 DEF Work, ReadExisting, RejectBalance, ReadMissing, BeginTx, InsertUser,
    InsertAccount, SelectPk, LockUser, UpdateUser, UpdatePassword, UpdateAccountRow,
    SelectDetails, DeleteAccountRow, DeleteUserRow, Return
<1>7. ASSUME \/ CreateAccount(h) \/ UpdateOrDeleteAccount(h) \/ DeadlockVictim(h)
             \/ Fault(h)
      PROVE  FALSE
  BY <1>5, <1>7 DEF CreateAccount, UpdateOrDeleteAccount, DeadlockVictim, Fault,
    HashFails, ReadFails, BeginFails, StatementFails
<1> QED
  BY <1>2, <1>4, <1>6, <1>7 DEF Next

(* The details an update answers with are the rows it committed: nobody    *)
(* changed them between its read and its commit.                           *)
THEOREM RepliesCommitted == Spec => RepliesWithCommitted
<1>1. ASSUME ReplyInv, [Next]_vars, NEW h \in Handler,
             pc[h] = "commit", reply'[h] = "OK", req[h].op = "update"
      PROVE  details[h] = [user |-> users'[req[h].id], account |-> accounts'[req[h].id]]
  <2>1. users'[req[h].id] = UserSeen(h, req[h].id)
        /\ accounts'[req[h].id] = AccountSeen(h, req[h].id)
    BY <1>1, OkCommits, CommitEffect DEF CommitTx, Commit, ReplyInv, RegistryInv, NamesInv
  <2> QED
    BY <1>1, <2>1 DEF ReplyInv, OwnPart, DetailsRead
<1>2. ReplyInv /\ [Next]_vars =>
        [\A h \in Handler :
           pc[h] = "commit" /\ reply'[h] = "OK" /\ req[h].op = "update" =>
             details[h] = [user |-> users'[req[h].id], account |-> accounts'[req[h].id]]
        ]_vars
  BY <1>1
<1> QED
  BY <1>2, ReplyInvariant, PTL DEF Spec, RepliesWithCommitted

(* A commit installs all that its request asks for.                        *)
LEMMA CommitTakesEffect ==
  ASSUME ReplyInv, NEW h \in Handler, pc[h] = "commit", Commit(h)
  PROVE  TakesEffect(h, req[h].id)
<1> DEFINE u == req[h].id
<1>1. /\ PairInv /\ DeleteKeeps /\ OwnPart(h) /\ Pending(h) /\ TypeOK
      /\ u \in User /\ req[h] \in Request
  BY DEF ReplyInv, RegistryInv, NamesInv, PairInv, TypeInv, Control, Started, Labels, InTx
<1>2. userWrites[h][u] # NoRow /\ accountWrites[h][u] # NoRow
  BY <1>1 DEF Pending, UserHeld, AccountHeld
<1>3. users'[u] = userWrites[h][u] /\ accounts'[u] = accountWrites[h][u]
  BY <1>1, <1>2 DEF Commit, UserSeen, AccountSeen
<1>4. /\ users'[u] \in UserRow /\ accounts'[u] \in AccountRow
      /\ users[u] \in UserRow \cup {NoRow} /\ accounts[u] \in AccountRow \cup {NoRow}
  BY <1>1, <1>2, <1>3 DEF TypeOK, DatabaseTypeOK
<1>5. (users'[u].deleted <=> Flag(h)) /\ (accounts'[u].deleted <=> Flag(h))
  BY <1>1, <1>2, <1>3 DEF Pending
<1>6. req[h].op # "delete" =>
        /\ users'[u].username = data[h].username
        /\ users'[u].password = PasswordDue(h, "commit", u)
        /\ accounts'[u].balance = data[h].balance
  BY <1>1, <1>2, <1>3 DEF OwnPart, WholePending, NameDue
<1>7. CASE req[h].op = "create"
  <2>1. users[u] = NoRow /\ accounts[u] = NoRow
    BY <1>1, <1>7, CommitUser
  <2>2. /\ users'[u] = [username |-> data[h].username, password |-> req[h].password,
                        deleted |-> FALSE]
        /\ accounts'[u] = [balance |-> data[h].balance, deleted |-> FALSE]
    BY <1>4, <1>5, <1>6, <1>7 DEF PasswordDue, Flag, UserRow, AccountRow
  <2> QED
    BY <1>7, <2>1, <2>2 DEF TakesEffect
<1>8. ASSUME req[h].op # "create"
      PROVE  /\ users[u] \in UserRow /\ accounts[u] \in AccountRow
             /\ users[u].deleted = accounts[u].deleted
  BY <1>1, <1>4, <1>8, CommitUser DEF PairInv, RowsPaired
<1>9. CASE req[h].op = "update"
  <2>1. PasswordDue(h, "commit", u) = Over(req[h].password, users[u].password)
    BY <1>9 DEF PasswordDue, Over
  <2>2. users'[u].deleted = users[u].deleted /\ accounts'[u].deleted = accounts[u].deleted
    BY <1>4, <1>5, <1>8, <1>9 DEF Flag, UserRow, AccountRow
  <2>3. /\ users'[u] = [users[u] EXCEPT !.username = data[h].username,
                                        !.password = Over(req[h].password, @)]
        /\ accounts'[u] = [accounts[u] EXCEPT !.balance = data[h].balance]
    BY <1>4, <1>6, <1>8, <1>9, <2>1, <2>2 DEF UserRow, AccountRow
  <2> QED
    BY <1>9, <2>3 DEF TakesEffect
<1>10. CASE req[h].op = "delete"
  <2>1. /\ users'[u].username = users[u].username
        /\ users'[u].password = users[u].password
        /\ accounts'[u].balance = accounts[u].balance
    BY <1>1, <1>2, <1>3, <1>10 DEF DeleteKeeps
  <2>2. users'[u].deleted = TRUE /\ accounts'[u].deleted = TRUE
    BY <1>4, <1>5, <1>10 DEF Flag, UserRow, AccountRow
  <2>3. /\ users'[u] = [users[u] EXCEPT !.deleted = TRUE]
        /\ accounts'[u] = [accounts[u] EXCEPT !.deleted = TRUE]
    BY <1>4, <1>8, <1>10, <2>1, <2>2 DEF UserRow, AccountRow
  <2> QED
    BY <1>10, <2>3 DEF TakesEffect
<1> QED
  BY <1>1, <1>7, <1>9, <1>10, RequestKinds

(* Whatever overlaps with it and whichever of its statements fails, a      *)
(* request changes its own account at its commit, and all of it, or        *)
(* nothing: only transfers change a balance otherwise.                     *)
THEOREM WholeRequests == Spec => RequestsWhole
<1>1. ASSUME ReplyInv, [Next]_vars, NEW u \in User,
             users'[u] # users[u] \/ accounts'[u] # accounts[u]
      PROVE  \/ /\ pc' = pc /\ users'[u] = users[u]
                /\ accounts'[u] = [accounts[u] EXCEPT !.balance = accounts'[u].balance]
             \/ \E h \in Handler :
                  /\ pc[h] = "commit" /\ pc'[h] = "reply"
                  /\ req[h].id = u /\ TakesEffect(h, u)
  <2>1. ASSUME NEW h \in Handler, CommitTx(h) \/ CommitUnacknowledged(h)
        PROVE  /\ pc[h] = "commit" /\ pc'[h] = "reply"
               /\ req[h].id = u /\ TakesEffect(h, u)
    <3>1. pc[h] = "commit" /\ Commit(h) /\ pc'[h] = "reply"
      BY <1>1, <2>1 DEF CommitTx, CommitUnacknowledged, Answer, Goto, ReplyInv,
        RegistryInv, NamesInv, PairInv, TypeInv, TypeOK
    <3>2. req[h].id = u
      BY <1>1, <3>1, CommitEffect DEF ReplyInv, RegistryInv, NamesInv
    <3> QED
      BY <1>1, <3>1, <3>2, CommitTakesEffect
  <2>2. ASSUME NEW v \in User, TransferLeg(v)
        PROVE  /\ pc' = pc /\ users'[u] = users[u]
               /\ accounts'[u] = [accounts[u] EXCEPT !.balance = accounts'[u].balance]
    BY <1>1, <2>2, LegEffect DEF ReplyInv, RegistryInv, NamesInv, PairInv, TypeInv
  <2> QED
    BY <1>1, <2>1, <2>2, OnlyCommitWrites
<1>2. ReplyInv /\ [Next]_vars =>
        [\A u \in User : users'[u] # users[u] \/ accounts'[u] # accounts[u] =>
           \/ /\ pc' = pc /\ users'[u] = users[u]
              /\ accounts'[u] = [accounts[u] EXCEPT !.balance = accounts'[u].balance]
           \/ \E h \in Handler :
                /\ pc[h] = "commit" /\ pc'[h] = "reply"
                /\ req[h].id = u /\ TakesEffect(h, u)]_vars
  BY <1>1
<1> QED
  BY <1>2, ReplyInvariant, PTL DEF Spec, RequestsWhole

(* An update whose account is, at its commit, as it was when the update    *)
(* first read it leaves exactly what it asked for; a balance it does not   *)
(* name is left as its float64.                                            *)
THEOREM FreshUpdates == Spec => FreshUpdatesExact
<1>1. ASSUME ReplyInv, [Next]_vars, NEW h \in Handler,
             pc[h] = "commit", reply'[h] = "OK", req[h].op = "update",
             existing[h] = Read(req[h].id)
      PROVE  LET u == req[h].id
             IN /\ users'[u] = [users[u] EXCEPT !.username = Over(req[h].username, @),
                                                !.password = Over(req[h].password, @)]
                /\ accounts'[u] = [accounts[u] EXCEPT
                                     !.balance = Float64(Over(req[h].balance, @))]
  <2> DEFINE u == req[h].id
  <2>1. TakesEffect(h, u)
    BY <1>1, OkCommits, CommitTakesEffect DEF CommitTx
  <2>2. /\ users'[u] = [users[u] EXCEPT !.username = data[h].username,
                                        !.password = Over(req[h].password, @)]
        /\ accounts'[u] = [accounts[u] EXCEPT !.balance = data[h].balance]
    BY <1>1, <2>1 DEF TakesEffect
  <2>3. data[h] = Merge(req[h], Read(u))
    BY <1>1 DEF ReplyInv, OwnPart, MergedFrom, Started, Labels, InTx
  <2>4. data[h].username = Over(req[h].username, users[u].username)
    BY <2>3 DEF Merge, Read
  <2>5. data[h].balance = Float64(Over(req[h].balance, accounts[u].balance))
    BY <2>3 DEF Merge, Read, Over
  <2> QED
    BY <2>2, <2>4, <2>5
<1>2. ReplyInv /\ [Next]_vars =>
        [\A h \in Handler :
           pc[h] = "commit" /\ reply'[h] = "OK" /\ req[h].op = "update" =>
             LET u == req[h].id
             IN existing[h] = Read(u) =>
                  /\ users'[u] = [users[u] EXCEPT !.username = Over(req[h].username, @),
                                                  !.password = Over(req[h].password, @)]
                  /\ accounts'[u] = [accounts[u] EXCEPT
                                       !.balance = Float64(Over(req[h].balance, @))]]_vars
  BY <1>1
<1> QED
  BY <1>2, ReplyInvariant, PTL DEF Spec, FreshUpdatesExact

(* The password of a user changes only at the commit of an update that     *)
(* carries the new one: no update of other fields, and no delete, brings   *)
(* back a password it read before.                                         *)
THEOREM PasswordsStay == Spec => PasswordsKept
<1>1. ASSUME ReplyInv, [Next]_vars, NEW u \in User, users[u] # NoRow,
             users'[u].password # users[u].password
      PROVE  \E h \in Handler :
               /\ pc[h] = "commit" /\ pc'[h] = "reply"
               /\ req[h].op = "update" /\ req[h].id = u
               /\ req[h].password # None /\ req[h].password = users'[u].password
  <2>1. PICK h \in Handler : CommitTx(h) \/ CommitUnacknowledged(h)
    BY <1>1, OnlyCommitWrites DEF TransferLeg
  <2>2. pc[h] = "commit" /\ Commit(h) /\ pc'[h] = "reply"
    BY <1>1, <2>1 DEF CommitTx, CommitUnacknowledged, Answer, Goto, ReplyInv, RegistryInv,
      NamesInv, PairInv, TypeInv, TypeOK
  <2>3. u = req[h].id
    BY <1>1, <2>2, CommitEffect DEF ReplyInv, RegistryInv, NamesInv
  <2>4. users'[u] = userWrites[h][u] /\ userWrites[h][u] # NoRow
    BY <1>1, <2>2 DEF Commit, UserSeen
  <2>5. req[h].op # "create"
    BY <1>1, <2>2, <2>3, CommitUser DEF ReplyInv, RegistryInv, NamesInv
  <2>6. req[h].op # "delete"
    BY <1>1, <2>4 DEF ReplyInv, RegistryInv, DeleteKeeps
  <2>7. req[h].op = "update"
    BY <1>1, <2>2, <2>5, <2>6, RequestKinds DEF ReplyInv, RegistryInv, NamesInv, PairInv,
      TypeInv, Control
  <2> QED
    BY <1>1, <2>2, <2>3, <2>4, <2>7 DEF ReplyInv, OwnPart, WholePending, PasswordDue
<1>2. ReplyInv /\ [Next]_vars =>
        [\A u \in User : users[u] # NoRow /\ users'[u].password # users[u].password =>
           \E h \in Handler :
             /\ pc[h] = "commit" /\ pc'[h] = "reply"
             /\ req[h].op = "update" /\ req[h].id = u
             /\ req[h].password # None /\ req[h].password = users'[u].password]_vars
  BY <1>1
<1> QED
  BY <1>2, ReplyInvariant, PTL DEF Spec, PasswordsKept
-----------------------------------------------------------------------------

(* Only a handler inside RunInTx is in anybody's way: the others have      *)
(* nothing written and hold no connection.                                 *)
LEMMA BlockersOpen ==
  ASSUME ReplyInv, NEW h \in Handler
  PROVE  Blockers(h) \subseteq open
<1>1. ASSUME NEW g \in Handler, g \notin open
      PROVE  \A u \in User : userWrites[g][u] = NoRow /\ accountWrites[g][u] = NoRow
  BY <1>1, OutsideTx DEF ReplyInv, OwnPart, TxHeld
<1>2. ASSUME pc[h] \in InTx
      PROVE  req[h].id \in User
  BY <1>2 DEF ReplyInv, RegistryInv, NamesInv, PairInv, TypeInv, Control, Started, Labels,
    InTx, CreateTx, UpdateTx, DeleteTx
<1>3. CASE pc[h] = "insertUser"
  BY <1>1, <1>2, <1>3 DEF Blockers, NameLockers, InTx, CreateTx
<1>4. CASE pc[h] = "writeUser"
  BY <1>1, <1>2, <1>4 DEF Blockers, NameLockers, InTx, UpdateTx
<1>5. CASE pc[h] \in {"updateUser", "deleteUser"}
  BY <1>1, <1>2, <1>5 DEF Blockers, UserLockers, InTx, UpdateTx, DeleteTx
<1>6. CASE pc[h] \in {"updateAccount", "deleteAccount"}
  BY <1>1, <1>2, <1>6 DEF Blockers, AccountLockers, InTx, UpdateTx, DeleteTx
<1>7. CASE pc[h] \notin {"insertUser", "updateUser", "writeUser", "deleteUser",
                         "updateAccount", "deleteAccount"}
  BY <1>7 DEF Blockers
<1> QED
  BY <1>3, <1>4, <1>5, <1>6, <1>7

(* Requests never come to a standstill: whoever holds a lock or a          *)
(* connection needs no further connection, so that somebody can go on, or  *)
(* those inside RunInTx include a ring that PostgreSQL breaks.             *)
THEOREM SomebodyGoesOn == Spec => []NeverStuck
<1>1. ASSUME ReplyInv, NEW h \in Handler, pc[h] # "idle",
             \A g \in Handler : ~Ready(g)
      PROVE  \E S \in SUBSET Handler : WaitRing(S)
  <2>1. open \subseteq Handler /\ IsFiniteSet(open)
    BY <1>1, HandlerAssumption, FS_Subset
    DEF ReplyInv, RegistryInv, NamesInv, PairInv, TypeInv, TypeOK, DatabaseTypeOK
  <2>2. ASSUME NEW g \in open
        PROVE  Blockers(g) \cap open # {}
    <3>1. pc[g] \in InTx
      BY <1>1, <2>1 DEF ReplyInv, OwnPart, TxHeld
    <3>2. Blockers(g) # {}
      BY <1>1, <2>1, <3>1 DEF Ready, InTx, CreateTx, UpdateTx, DeleteTx
    <3> QED
      BY <1>1, <2>1, <3>2, BlockersOpen
  <2>3. open # {}
    <3>1. SUFFICES ASSUME open = {}
                   PROVE  FALSE
      OBVIOUS
    <3>2. Blockers(h) = {}
      BY <1>1, <3>1, BlockersOpen
    <3>3. ConnectionFree
      BY <3>1, FS_EmptySet, PoolAssumption DEF ConnectionFree
    <3> QED
      BY <1>1, <3>2, <3>3 DEF Ready
  <2> DEFINE B == [g \in open |-> Blockers(g)]
  <2>4. PICK S \in SUBSET open :
          /\ S # {} /\ \A g \in S : B[g] \cap S # {}
          /\ \A g \in S : \E f \in S : g \in B[f]
    <3>1. \A g \in open : B[g] \cap open # {}
      BY <2>2
    <3> HIDE DEF B
    <3> QED
      BY <2>1, <2>3, <3>1, RingExists
  <2>5. WaitRing(S)
    BY <2>4 DEF WaitRing
  <2> QED
    BY <2>1, <2>5
<1>2. ReplyInv => NeverStuck
  BY <1>1 DEF NeverStuck
<1> QED
  BY <1>2, ReplyInvariant, PTL
=============================================================================
