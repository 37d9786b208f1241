--------------------------- MODULE TransfersProofs --------------------------
(***************************************************************************)
(* Proofs about Transfers, for any number of handlers and accounts, any    *)
(* layout of the two tables and any commits of the account service: its    *)
(* safety properties, and at the end that it implements Bank.              *)
(***************************************************************************)
EXTENDS Transfers, DatabaseProofs

Checked    == {"begin"} \cup InTx
Started    == Checked \cup {"readFrom", "readTo", "publish"}
Unrecorded == Labels \ {"publish", "done", "lost"}
Debited    == {"credit", "insertRecord", "commit"}
Credited   == {"insertRecord", "commit"}

(* What the reads and their checks have established of the request.        *)
Control(h) ==
  /\ pc[h] \in Started => req[h] \in Request /\ Valid(req[h])
  /\ pc[h] = "readTo"  => req[h].from \in User
  /\ pc[h] \in Checked => /\ req[h].from \in User /\ req[h].to \in User
                          /\ req[h].from # req[h].to

(* A transaction has written the balances of the legs that its statements  *)
(* have reached, where there is a row for them, and nothing else.          *)
Written(h, u) ==
  \/ pc[h] \in Debited /\ AccountId[u] = req[h].from
  \/ pc[h] \in Credited /\ AccountId[u] = req[h].to

NewBalance(h, u) == IF AccountId[u] = req[h].from THEN Column(data[h].from)
                                                  ELSE Column(data[h].to)

Pending(h) ==
  \A u \in User :
    /\ userWrites[h][u] = NoRow
    /\ accountWrites[h][u] # NoRow <=> Written(h, u)
    /\ accountWrites[h][u] # NoRow =>
         /\ accountWrites[h][u].balance = NewBalance(h, u)
         /\ accountWrites[h][u].deleted = accounts[u].deleted

(* What the check leaves the payer, in halves, is no debt.                 *)
Funds(h) == pc[h] \in Checked => data[h].from >= 0

Backed(h) ==
  /\ pc[h] \in Unrecorded => h \notin records
  /\ pc[h] = "publish" => h \in records
  /\ reply[h] = "OK" => (IF req[h] \in Handler THEN req[h] ELSE h) \in records
  /\ pc[h] # "done" => reply[h] # "OK"

Own(h) == Control(h) /\ Pending(h) /\ Funds(h) /\ Backed(h)

RowsThere ==
  /\ users    \in [User -> UserRow]
  /\ accounts \in [User -> AccountRow]

LocksExclusive ==
  \A g, h \in Handler, u \in User :
    accountWrites[g][u] # NoRow /\ accountWrites[h][u] # NoRow => g = h

TransferInv ==
  /\ TypeOK /\ RowsThere /\ LocksExclusive
  /\ \A h \in Handler : Own(h)
  /\ events \subseteq records
-----------------------------------------------------------------------------

(* Rounding to the column makes no debt.                                   *)
LEMMA ColumnKeeps ==
  ASSUME NEW x \in Int
  PROVE  /\ Column(x) \in Int
         /\ x >= 0 => Column(x) >= 0
  BY DEF Column

LEMMA BalanceInt ==
  ASSUME RowsThere, NEW u \in User
  PROVE  accounts[u].balance \in Int
  BY BalanceAssumption DEF RowsThere, AccountRow, BalanceColumn

(* An id is one row's at most.                                             *)
LEMMA IdsApart ==
  ASSUME TypeOK, NEW u \in User, NEW v \in User,
         AccountId[u] = v \/ AccountId[u] = AccountId[v]
  PROVE  u = v
  BY LayoutAssumption DEF TypeOK, AccountId

LEMMA RowEquality ==
  ASSUME NEW r \in AccountRow, NEW s \in AccountRow, NEW n,
         s.balance = n, s.deleted = r.deleted
  PROVE  s = [r EXCEPT !.balance = n]
  BY DEF AccountRow

LEMMA RequestAmount ==
  ASSUME NEW r \in Request, Valid(r)
  PROVE  r.amount \in Int /\ r.amount > 0 /\ r.amount \in Amounts
  BY AmountAssumption DEF Request, Valid
-----------------------------------------------------------------------------

LEMMA NothingWritten ==
  ASSUME TransferInv, NEW h \in Handler, pc[h] \notin Debited
  PROVE  \A u \in User : userWrites[h][u] = NoRow /\ accountWrites[h][u] = NoRow
  BY DEF TransferInv, Own, Pending, Written, Debited, Credited

(* A step of h that writes over no row another handler has locked leaves   *)
(* the others their part.                                                  *)
LEMMA OthersOwn ==
  ASSUME TransferInv, NEW h \in Handler, layout' = layout,
         \A g \in Handler \ {h} :
           /\ pc'[g] = pc[g] /\ req'[g] = req[g] /\ data'[g] = data[g]
           /\ reply'[g] = reply[g]
           /\ userWrites'[g] = userWrites[g] /\ accountWrites'[g] = accountWrites[g],
         records \subseteq records', records' \subseteq records \cup {h},
         \A g \in Handler \ {h}, u \in User :
           accountWrites[g][u] # NoRow => accounts'[u] = accounts[u]
  PROVE  \A g \in Handler \ {h} : Own(g)'
<1> SUFFICES ASSUME NEW g \in Handler \ {h} PROVE Own(g)'
  OBVIOUS
<1>1. Own(g)
  BY DEF TransferInv
<1>2. Control(g)'
  BY <1>1 DEF Own, Control
<1>3. Funds(g)'
  BY <1>1 DEF Own, Funds
<1>4. Backed(g)'
  BY <1>1 DEF Own, Backed
<1>5. Pending(g)'
  <2>1. ASSUME NEW u \in User
        PROVE  Written(g, u)' <=> Written(g, u)
    BY DEF Written, AccountId
  <2>2. ASSUME NEW u \in User
        PROVE  NewBalance(g, u)' = NewBalance(g, u)
    BY DEF NewBalance, AccountId
  <2> QED
    BY <1>1, <2>1, <2>2 DEF Own, Pending
<1> QED
  BY <1>2, <1>3, <1>4, <1>5 DEF Own

(* A step of h that commits nothing keeps TransferInv if h's own part      *)
(* holds after it.                                                         *)
LEMMA QuietStep ==
  ASSUME TransferInv, TypeOK', NEW h \in Handler,
         users' = users, accounts' = accounts, layout' = layout,
         records' = records, events' \subseteq records,
         \A g \in Handler \ {h} :
           /\ pc'[g] = pc[g] /\ req'[g] = req[g] /\ data'[g] = data[g]
           /\ reply'[g] = reply[g]
           /\ userWrites'[g] = userWrites[g] /\ accountWrites'[g] = accountWrites[g],
         LocksExclusive', Own(h)'
  PROVE  TransferInv'
<1>1. \A g \in Handler : Own(g)'
  BY OthersOwn
<1>2. RowsThere'
  BY DEF TransferInv, RowsThere
<1> QED
  BY <1>1, <1>2 DEF TransferInv

(* A handler that answers and holds no row.                                *)
LEMMA AnswerInv ==
  ASSUME TransferInv, NEW h \in Handler, NEW code \in Codes, Answer(h, code),
         users' = users, accounts' = accounts, records' = records, stale' = stale,
         data' = data, events' \subseteq records, open' \in SUBSET Handler,
         userWrites' \in [Handler -> [User -> UserRow \cup {NoRow}]],
         accountWrites' \in [Handler -> [User -> AccountRow \cup {NoRow}]],
         req' \in [Handler -> Request \cup Lookup \cup {None}],
         \A u \in User : userWrites'[h][u] = NoRow /\ accountWrites'[h][u] = NoRow,
         \A g \in Handler \ {h} :
           /\ req'[g] = req[g]
           /\ userWrites'[g] = userWrites[g] /\ accountWrites'[g] = accountWrites[g],
         code = "OK" => (IF req'[h] \in Handler THEN req'[h] ELSE h) \in records
  PROVE  TransferInv'
<1>1. TypeOK' /\ layout' = layout
  BY DEF TransferInv, TypeOK, DatabaseTypeOK, Answer, Goto, Labels, InTx
<1>2. /\ pc'[h] = "done" /\ reply'[h] = code
      /\ \A g \in Handler \ {h} : pc'[g] = pc[g] /\ reply'[g] = reply[g]
  BY DEF TransferInv, TypeOK, Answer, Goto
<1>3. LocksExclusive'
  BY DEF TransferInv, LocksExclusive
<1>4. Control(h)' /\ Funds(h)' /\ Backed(h)'
  BY <1>2 DEF Control, Funds, Backed, Started, Checked, InTx, Unrecorded
<1>5. Pending(h)'
  BY <1>2 DEF Pending, Written, Debited, Credited
<1> QED
  BY <1>1, <1>2, <1>3, <1>4, <1>5, QuietStep DEF Own

LEMMA RefuseInv ==
  ASSUME TransferInv, NEW h \in Handler, NEW code \in Codes, Refuse(h, code),
         pc[h] \notin Debited,
         code = "OK" => (IF req[h] \in Handler THEN req[h] ELSE h) \in records
  PROVE  TransferInv'
<1>1. /\ Answer(h, code) /\ users' = users /\ accounts' = accounts /\ open' = open
      /\ userWrites' = userWrites /\ accountWrites' = accountWrites
      /\ records' = records /\ stale' = stale /\ events' = events /\ req' = req
      /\ data' = data
  BY DEF Refuse, dbVars, outputs
<1> QED
  BY <1>1, NothingWritten, AnswerInv DEF TransferInv, TypeOK, DatabaseTypeOK

LEMMA AbandonInv ==
  ASSUME TransferInv, NEW h \in Handler, Abandon(h)
  PROVE  TransferInv'
<1>1. /\ Answer(h, "Internal") /\ users' = users /\ accounts' = accounts /\ EndTx(h)
      /\ records' = records /\ stale' = stale /\ events' = events /\ req' = req
      /\ data' = data
  BY DEF Abandon, Rollback, outputs
<1> QED
  BY <1>1, EndTxClears, AnswerInv DEF TransferInv, TypeOK, Codes
-----------------------------------------------------------------------------
(* A handler that goes on and holds no row yet.                            *)
LEMMA ProceedInv ==
  ASSUME TransferInv, NEW h \in Handler,
         NEW label \in {"readFrom", "readTo", "begin", "debit"}, Goto(h, label),
         UNCHANGED <<users, accounts, userWrites, accountWrites, records, events,
                     stale, reply>>,
         open' \in SUBSET Handler,
         req' \in [Handler -> Request \cup Lookup \cup {None}],
         data' \in [Handler -> [from : Int, to : Int]],
         \A g \in Handler \ {h} : req'[g] = req[g] /\ data'[g] = data[g],
         pc[h] \in Unrecorded \ Debited, Control(h)', Funds(h)'
  PROVE  TransferInv'
<1>1. TypeOK' /\ layout' = layout
  BY DEF TransferInv, TypeOK, DatabaseTypeOK, Goto, Labels, InTx
<1>2. pc'[h] = label /\ \A g \in Handler \ {h} : pc'[g] = pc[g]
  BY DEF TransferInv, TypeOK, Goto
<1>3. LocksExclusive'
  BY DEF TransferInv, LocksExclusive
<1>4. Backed(h)'
  BY <1>2 DEF TransferInv, Own, Backed, Unrecorded
<1>5. Pending(h)'
  BY <1>2, NothingWritten DEF Pending, Written, Debited, Credited
<1>6. events' \subseteq records /\ records' = records
  BY DEF TransferInv
<1> QED
  BY <1>1, <1>2, <1>3, <1>4, <1>5, <1>6, QuietStep DEF Own

LEMMA SubmitInv ==
  ASSUME TransferInv, NEW h \in Handler, Submit(h)
  PROVE  TransferInv'
<1>1. PICK r \in Request : Submit(h)!(r)
  BY DEF Submit
<1>2. /\ users' = users /\ accounts' = accounts /\ open' = open
      /\ userWrites' = userWrites /\ accountWrites' = accountWrites
      /\ records' = records /\ stale' = stale /\ events' = events /\ data' = data
      /\ pc[h] = "idle"
  BY <1>1 DEF dbVars, outputs
<1>3. CASE /\ Valid(r) /\ Goto(h, "readFrom")
           /\ req' = [req EXCEPT ![h] = r] /\ UNCHANGED reply
  <2>1. /\ pc'[h] = "readFrom" /\ req'[h] = r
        /\ req' \in [Handler -> Request \cup Lookup \cup {None}]
        /\ \A g \in Handler \ {h} : req'[g] = req[g]
    BY <1>3 DEF TransferInv, TypeOK, Goto
  <2>2. Control(h)' /\ Funds(h)'
    BY <1>3, <2>1 DEF Control, Funds, Checked, InTx
  <2> QED
    BY <1>2, <1>3, <2>1, <2>2, ProceedInv
    DEF TransferInv, TypeOK, DatabaseTypeOK, Unrecorded, Labels, Debited
<1>4. CASE ~Valid(r) /\ Answer(h, "InvalidArgument") /\ UNCHANGED req
  <2>1. Refuse(h, "InvalidArgument")
    BY <1>1, <1>4 DEF Refuse
  <2> QED
    BY <1>2, <2>1, RefuseInv DEF Codes, Debited
<1> QED
  BY <1>1, <1>3, <1>4

LEMMA ReadFromInv ==
  ASSUME TransferInv, NEW h \in Handler, ReadFrom(h)
  PROVE  TransferInv'
<1>1. pc[h] = "readFrom" /\ pc[h] \in Unrecorded \ Debited /\ pc[h] \in Started
  BY DEF ReadFrom, Unrecorded, Labels, Debited, Started
<1>2. CASE ~Found(req[h].from) /\ Refuse(h, "Internal")
  BY <1>1, <1>2, RefuseInv DEF Codes
<1>3. CASE /\ Found(req[h].from)
           /\ data' = [data EXCEPT ![h].from =
                         2 * Float64(accounts[req[h].from].balance)]
           /\ Goto(h, "readTo")
           /\ UNCHANGED <<dbVars, outputs, req, reply>>
  <2>1. 2 * Float64(accounts[req[h].from].balance) \in Int
    BY <1>3, BalanceInt, Float64Keeps DEF TransferInv, Found
  <2>2. /\ data' \in [Handler -> [from : Int, to : Int]]
        /\ \A g \in Handler \ {h} : data'[g] = data[g]
    BY <1>3, <2>1 DEF TransferInv, TypeOK
  <2>3. pc'[h] = "readTo"
    BY <1>3 DEF TransferInv, TypeOK, Goto
  <2>4. Control(h)' /\ Funds(h)'
    BY <1>1, <1>3, <2>3 DEF TransferInv, Own, Control, Funds, Checked, InTx, Found
  <2> QED
    BY <1>1, <1>3, <2>2, <2>4, ProceedInv
    DEF TransferInv, TypeOK, DatabaseTypeOK, dbVars, outputs
<1> QED
  BY <1>2, <1>3 DEF ReadFrom

(* The second read and the checks: what Funds says holds from here on.     *)
LEMMA ReadToInv ==
  ASSUME TransferInv, NEW h \in Handler, ReadTo(h)
  PROVE  TransferInv'
<1> DEFINE r == req[h]
           from == data[h].from - r.amount
           to == 2 * Float64(accounts[r.to].balance) + r.amount
<1>1. pc[h] = "readTo" /\ pc[h] \in Unrecorded \ Debited /\ pc[h] \in Started
  BY DEF ReadTo, Unrecorded, Labels, Debited, Started
<1>2. ASSUME NEW code \in {"Internal", "InvalidArgument"}, Refuse(h, code)
      PROVE  TransferInv'
  BY <1>1, <1>2, RefuseInv DEF Codes
<1>3. CASE /\ Found(r.to) /\ data[h].from >= r.amount /\ r.from # r.to
           /\ data' = [data EXCEPT ![h].from = @ - r.amount, ![h].to = to]
           /\ Goto(h, "begin")
           /\ UNCHANGED <<dbVars, outputs, req, reply>>
  <2>1. r \in Request /\ Valid(r)
    BY <1>1 DEF TransferInv, Own, Control
  <2>2. r.amount \in Int /\ r.amount > 0
    BY <2>1, RequestAmount
  <2>3. data[h] \in [from : Int, to : Int] /\ data[h].from \in Int
    BY DEF TransferInv, TypeOK
  <2>4. accounts[r.to].balance \in Int /\ r.to \in User
    BY <1>3, BalanceInt DEF TransferInv, Found
  <2>5. to \in Int
    <3>1. Float64(accounts[r.to].balance) \in Int
      BY <2>4, Float64Keeps
    <3> HIDE DEF r
    <3> QED
      BY <2>2, <3>1
  <2>6. /\ data' \in [Handler -> [from : Int, to : Int]]
        /\ \A g \in Handler \ {h} : data'[g] = data[g]
        /\ data'[h].from = from /\ data'[h].to = to
    <3> HIDE DEF r, to
    <3>1. data \in [Handler -> [from : Int, to : Int]]
      BY DEF TransferInv, TypeOK
    <3>2. \A g \in Handler \ {h} : data'[g] = data[g]
      BY <1>3, <3>1
    <3>3. from \in Int
      BY <2>2, <2>3 DEF r
    <3>4. data'[h] = [from |-> from, to |-> to]
      BY <1>3, <3>1 DEF r
    <3>5. DOMAIN data' = Handler /\ data' = [g \in Handler |-> data'[g]]
      BY <1>3, <3>1
    <3> QED
      BY <2>5, <3>1, <3>2, <3>3, <3>4, <3>5
  <2>7. pc'[h] = "begin" /\ req' = req
    BY <1>3 DEF TransferInv, TypeOK, Goto
  <2>8. Funds(h)'
    BY <1>3, <2>2, <2>3, <2>6, <2>7 DEF Funds
  <2>9. r.from \in User /\ r.to \in User
    BY <1>1, <2>4 DEF TransferInv, Own, Control
  <2>10. Control(h)'
    BY <1>3, <2>1, <2>7, <2>9 DEF Control
  <2> QED
    BY <1>1, <1>3, <2>6, <2>8, <2>10, ProceedInv
    DEF TransferInv, TypeOK, DatabaseTypeOK, dbVars, outputs
<1> QED
  BY <1>2, <1>3 DEF ReadTo

LEMMA BeginTxInv ==
  ASSUME TransferInv, NEW h \in Handler, BeginTx(h)
  PROVE  TransferInv'
<1>1. /\ pc[h] = "begin" /\ Goto(h, "debit")
      /\ UNCHANGED <<users, accounts, userWrites, accountWrites, records, events,
                     stale, req, data, reply>>
      /\ open' \in SUBSET Handler
  BY DEF BeginTx, Begin, Proceed, outputs, TransferInv, TypeOK, DatabaseTypeOK
<1>2. pc'[h] = "debit"
  BY <1>1 DEF TransferInv, TypeOK, Goto
<1>3. Control(h)' /\ Funds(h)'
  BY <1>1, <1>2 DEF TransferInv, Own, Control, Funds, Started, Checked, InTx
<1> QED
  BY <1>1, <1>3, ProceedInv
  DEF TransferInv, TypeOK, Unrecorded, Labels, Debited
-----------------------------------------------------------------------------
(* The statements.                                                         *)

(* A statement that leaves h's transaction open, with h's own rows right.  *)
LEMMA StatementInv ==
  ASSUME TransferInv, NEW h \in Handler, NEW next \in Debited, Proceed(h, next),
         pc[h] \in InTx, UNCHANGED <<users, accounts, open, userWrites>>,
         accountWrites' \in [Handler -> [User -> AccountRow \cup {NoRow}]],
         \A g \in Handler \ {h} : accountWrites'[g] = accountWrites[g],
         LocksExclusive', Pending(h)'
  PROVE  TransferInv'
<1>1. /\ layout' = layout /\ edits' = edits /\ records' = records
      /\ events' = events /\ stale' = stale /\ req' = req /\ data' = data
      /\ reply' = reply /\ pc' = [pc EXCEPT ![h] = next]
  BY DEF Proceed, Goto, outputs
<1>2. TypeOK'
  BY <1>1 DEF TransferInv, TypeOK, DatabaseTypeOK, Labels, InTx, Debited
<1>3. pc'[h] = next /\ \A g \in Handler \ {h} : pc'[g] = pc[g]
  BY <1>1 DEF TransferInv, TypeOK
<1>4. Control(h)' /\ Funds(h)'
  BY <1>1, <1>3
  DEF TransferInv, Own, Control, Funds, Started, Checked, InTx, Debited
<1>5. Backed(h)'
  BY <1>1, <1>3
  DEF TransferInv, Own, Backed, Unrecorded, Labels, InTx, Debited
<1>6. events' \subseteq records
  BY <1>1 DEF TransferInv
<1> QED
  BY <1>1, <1>2, <1>3, <1>4, <1>5, <1>6, QuietStep DEF Own

(* An UPDATE that finds the row of a leg locks it and writes its balance.  *)
LEMMA WriteLeg ==
  ASSUME TransferInv, NEW h \in Handler, NEW u \in User, NEW n \in BalanceColumn,
         accountWrites[h][u] = NoRow,
         WriteAccount(h, u, [AccountSeen(h, u) EXCEPT !.balance = n])
  PROVE  /\ UNCHANGED <<users, accounts, open, userWrites>>
         /\ accountWrites' \in [Handler -> [User -> AccountRow \cup {NoRow}]]
         /\ \A g \in Handler \ {h} : accountWrites'[g] = accountWrites[g]
         /\ \A v \in User \ {u} : accountWrites'[h][v] = accountWrites[h][v]
         /\ accountWrites'[h][u] \in AccountRow
         /\ accountWrites'[h][u].balance = n
         /\ accountWrites'[h][u].deleted = accounts[u].deleted
         /\ LocksExclusive'
<1> DEFINE row == [AccountSeen(h, u) EXCEPT !.balance = n]
<1>1. AccountSeen(h, u) = accounts[u] /\ accounts[u] \in AccountRow
  BY DEF AccountSeen, TransferInv, RowsThere
<1>2. row \in AccountRow /\ row.balance = n /\ row.deleted = accounts[u].deleted
  BY <1>1 DEF AccountRow
<1> HIDE DEF row
<1>3. accountWrites' = [accountWrites EXCEPT ![h] = [@ EXCEPT ![u] = row]]
  BY DEF WriteAccount, row
<1>4. /\ accountWrites' \in [Handler -> [User -> AccountRow \cup {NoRow}]]
      /\ \A g \in Handler \ {h} : accountWrites'[g] = accountWrites[g]
      /\ \A v \in User \ {u} : accountWrites'[h][v] = accountWrites[h][v]
      /\ accountWrites'[h][u] = row
  BY <1>2, <1>3 DEF TransferInv, TypeOK, DatabaseTypeOK
<1>5. \A g \in Handler \ {h} : accountWrites[g][u] = NoRow
  BY DEF WriteAccount, AccountLockers
<1>6. LocksExclusive'
  BY <1>4, <1>5 DEF TransferInv, LocksExclusive
<1> QED
  BY <1>2, <1>4, <1>6 DEF WriteAccount

(* Either UPDATE: its id's row comes to be written, if there is one.       *)
LEMMA SetBalanceInv ==
  ASSUME TransferInv, NEW h \in Handler, NEW id, NEW next \in Debited,
         SetBalance(h, id, (IF id = req[h].from THEN data[h].from ELSE data[h].to),
                    next),
         \/ pc[h] = "debit" /\ next = "credit" /\ id = req[h].from
         \/ pc[h] = "credit" /\ next = "insertRecord" /\ id = req[h].to
  PROVE  TransferInv'
<1> DEFINE n == Column(IF id = req[h].from THEN data[h].from ELSE data[h].to)
<1>1. /\ pc[h] \in InTx
      /\ req[h].from \in User /\ req[h].to \in User /\ req[h].from # req[h].to
  BY DEF TransferInv, Own, Control, Checked, InTx
<1>2. \A u \in User : /\ userWrites[h][u] = NoRow
                      /\ accountWrites[h][u] # NoRow <=> Written(h, u)
                      /\ accountWrites[h][u] # NoRow =>
                           /\ accountWrites[h][u].balance = NewBalance(h, u)
                           /\ accountWrites[h][u].deleted = accounts[u].deleted
  BY DEF TransferInv, Own, Pending
<1>3. ASSUME Proceed(h, next)
      PROVE  /\ \A u \in User : NewBalance(h, u)' = NewBalance(h, u)
             /\ \A u \in User :
                  Written(h, u)' <=> Written(h, u) \/ AccountId[u] = id
  <2>1. /\ layout' = layout /\ req' = req /\ data' = data /\ pc'[h] = next
    BY <1>3 DEF Proceed, Goto, outputs, TransferInv, TypeOK
  <2>2. \A u \in User : NewBalance(h, u)' = NewBalance(h, u)
    BY <2>1 DEF NewBalance, AccountId
  <2>3. \A u \in User : Written(h, u)' <=> Written(h, u) \/ AccountId[u] = id
    BY <2>1 DEF Written, AccountId, Debited, Credited
  <2> QED
    BY <2>2, <2>3
<1>4. CASE Matched(id) = {} /\ UNCHANGED dbVars /\ Proceed(h, next)
  <2>1. /\ UNCHANGED <<users, accounts, open, userWrites>>
        /\ accountWrites' = accountWrites
    BY <1>4 DEF dbVars
  <2>2. \A u \in User : AccountId[u] # id
    BY <1>4 DEF Matched
  <2>3. Pending(h)'
    BY <1>2, <1>3, <1>4, <2>1, <2>2 DEF Pending
  <2>4. LocksExclusive'
    BY <2>1 DEF TransferInv, LocksExclusive
  <2> QED
    BY <1>1, <1>4, <2>1, <2>3, <2>4, StatementInv
    DEF TransferInv, TypeOK, DatabaseTypeOK
<1>5. ASSUME NEW u \in Matched(id), n \in BalanceColumn, Proceed(h, next),
             WriteAccount(h, u, [AccountSeen(h, u) EXCEPT !.balance = n])
      PROVE  TransferInv'
  <2>1. u \in User /\ AccountId[u] = id
    BY <1>5 DEF Matched
  <2>2. accountWrites[h][u] = NoRow
    BY <1>1, <1>2, <2>1 DEF Written, Debited, Credited
  <2>3. /\ UNCHANGED <<users, accounts, open, userWrites>>
        /\ accountWrites' \in [Handler -> [User -> AccountRow \cup {NoRow}]]
        /\ \A g \in Handler \ {h} : accountWrites'[g] = accountWrites[g]
        /\ \A v \in User \ {u} : accountWrites'[h][v] = accountWrites[h][v]
        /\ accountWrites'[h][u] \in AccountRow
        /\ accountWrites'[h][u].balance = n
        /\ accountWrites'[h][u].deleted = accounts[u].deleted
        /\ LocksExclusive'
    BY <1>5, <2>1, <2>2, WriteLeg
  <2>4. NewBalance(h, u) = n
    BY <1>1, <2>1 DEF NewBalance
  <2>5. \A v \in User \ {u} : AccountId[v] # id
    BY <2>1, IdsApart DEF TransferInv
  <2>6. accountWrites'[h][u] # NoRow
    BY <2>3, NoRowAssumption
  <2>7. ASSUME NEW v \in User
        PROVE  /\ userWrites'[h][v] = NoRow
               /\ accountWrites'[h][v] # NoRow <=> Written(h, v)'
               /\ accountWrites'[h][v] # NoRow =>
                    /\ accountWrites'[h][v].balance = NewBalance(h, v)'
                    /\ accountWrites'[h][v].deleted = accounts'[v].deleted
    <3>1. CASE v = u
      BY <1>2, <1>3, <1>5, <2>1, <2>3, <2>4, <2>6, <3>1
    <3>2. CASE v # u
      BY <1>2, <1>3, <1>5, <2>3, <2>5, <3>2
    <3> QED
      BY <3>1, <3>2
  <2>8. Pending(h)'
    BY <2>7 DEF Pending
  <2> QED
    BY <1>1, <1>5, <2>3, <2>8, StatementInv
<1> QED
  BY <1>4, <1>5, AbandonInv DEF SetBalance

LEMMA LegsInv ==
  ASSUME TransferInv, NEW h \in Handler, Debit(h) \/ Credit(h)
  PROVE  TransferInv'
<1>1. CASE Debit(h)
  <2>1. pc[h] = "debit" /\ SetBalance(h, req[h].from, data[h].from, "credit")
    BY <1>1 DEF Debit
  <2> QED
    BY <2>1, SetBalanceInv DEF Debited
<1>2. CASE Credit(h)
  <2>1. pc[h] = "credit" /\ SetBalance(h, req[h].to, data[h].to, "insertRecord")
    BY <1>2 DEF Credit
  <2>2. req[h].to # req[h].from
    BY <2>1 DEF TransferInv, Own, Control, Checked, InTx
  <2> QED
    BY <2>1, <2>2, SetBalanceInv DEF Debited
<1> QED
  BY <1>1, <1>2

LEMMA InsertRecordInv ==
  ASSUME TransferInv, NEW h \in Handler, InsertRecord(h)
  PROVE  TransferInv'
<1>1. CASE UNCHANGED dbVars /\ Proceed(h, "commit")
  <2>1. /\ UNCHANGED <<users, accounts, open, userWrites>>
        /\ accountWrites' = accountWrites
    BY <1>1 DEF dbVars
  <2>2. /\ layout' = layout /\ req' = req /\ data' = data /\ pc'[h] = "commit"
        /\ pc[h] = "insertRecord"
    BY <1>1 DEF InsertRecord, Proceed, Goto, outputs, TransferInv, TypeOK
  <2>3. \A u \in User : /\ Written(h, u)' <=> Written(h, u)
                        /\ NewBalance(h, u)' = NewBalance(h, u)
    BY <2>2 DEF Written, NewBalance, AccountId, Debited, Credited
  <2>4. Pending(h)'
    BY <2>1, <2>3 DEF TransferInv, Own, Pending
  <2>5. LocksExclusive'
    BY <2>1 DEF TransferInv, LocksExclusive
  <2> QED
    BY <1>1, <2>1, <2>2, <2>4, <2>5, StatementInv
    DEF TransferInv, TypeOK, DatabaseTypeOK, Debited, InTx
<1> QED
  BY <1>1, AbandonInv DEF InsertRecord

(* What the commit of a transfer makes of the rows.                        *)
LEMMA RecordRows ==
  ASSUME TransferInv, NEW h \in Handler, Record(h)
  PROVE  /\ users' = users
         /\ accounts' \in [User -> AccountRow]
         /\ \A u \in User : ~Written(h, u) => accounts'[u] = accounts[u]
         /\ \A u \in User : Written(h, u) =>
              /\ accounts'[u] = accountWrites[h][u]
              /\ accounts'[u].balance = NewBalance(h, u)
              /\ accounts'[u].deleted = accounts[u].deleted
<1>1. \A u \in User : /\ userWrites[h][u] = NoRow
                      /\ accountWrites[h][u] # NoRow <=> Written(h, u)
                      /\ accountWrites[h][u] # NoRow =>
                           /\ accountWrites[h][u].balance = NewBalance(h, u)
                           /\ accountWrites[h][u].deleted = accounts[u].deleted
  BY DEF TransferInv, Own, Pending
<1>2. /\ users' = [u \in User |-> UserSeen(h, u)]
      /\ accounts' = [u \in User |-> AccountSeen(h, u)]
  BY DEF Record, Commit
<1>3. users' = users
  BY <1>1, <1>2 DEF UserSeen, TransferInv, RowsThere
<1>4. \A u \in User : AccountSeen(h, u) \in AccountRow
  BY <1>1 DEF AccountSeen, TransferInv, RowsThere, TypeOK, DatabaseTypeOK
<1> QED
  BY <1>1, <1>2, <1>3, <1>4 DEF AccountSeen

LEMMA RecordInv ==
  ASSUME TransferInv, NEW h \in Handler, Record(h),
         \/ Goto(h, "publish") /\ UNCHANGED reply
         \/ Answer(h, "Internal")
  PROVE  TransferInv'
<1>1. /\ users' = users
      /\ accounts' \in [User -> AccountRow]
      /\ \A u \in User : ~Written(h, u) => accounts'[u] = accounts[u]
      /\ \A u \in User : Written(h, u) =>
           /\ accounts'[u] = accountWrites[h][u]
           /\ accounts'[u].balance = NewBalance(h, u)
           /\ accounts'[u].deleted = accounts[u].deleted
  BY RecordRows
<1>2. /\ pc[h] = "commit" /\ EndTx(h)
      /\ records' = records \cup {h} /\ events' = events
      /\ stale' \in SUBSET Handler
      /\ req' = req /\ data' = data /\ layout' = layout /\ edits' = edits
  BY DEF Record, Commit, Goto, Answer, Outdated, TransferInv, TypeOK
<1>3. /\ open' \in SUBSET Handler
      /\ userWrites' \in [Handler -> [User -> UserRow \cup {NoRow}]]
      /\ accountWrites' \in [Handler -> [User -> AccountRow \cup {NoRow}]]
      /\ \A u \in User : userWrites'[h][u] = NoRow /\ accountWrites'[h][u] = NoRow
      /\ \A g \in Handler \ {h} : /\ userWrites'[g] = userWrites[g]
                                  /\ accountWrites'[g] = accountWrites[g]
  BY <1>2, EndTxClears DEF TransferInv, TypeOK
<1>4. /\ pc' \in [Handler -> Labels] /\ reply' \in [Handler -> Codes \cup {None}]
      /\ \A g \in Handler \ {h} : pc'[g] = pc[g] /\ reply'[g] = reply[g]
      /\ \/ pc'[h] = "publish" /\ reply'[h] = reply[h]
         \/ pc'[h] = "done" /\ reply'[h] = "Internal"
  BY DEF Goto, Answer, TransferInv, TypeOK, Labels, Codes
<1>5. TypeOK'
  BY <1>1, <1>2, <1>3, <1>4 DEF TransferInv, TypeOK, DatabaseTypeOK
<1>6. RowsThere' /\ LocksExclusive'
  BY <1>1, <1>3 DEF TransferInv, RowsThere, LocksExclusive
<1>7. \A g \in Handler \ {h} : Own(g)'
  <2>1. ASSUME NEW g \in Handler \ {h}, NEW u \in User, accountWrites[g][u] # NoRow
        PROVE  accounts'[u] = accounts[u]
    <3>1. accountWrites[h][u] = NoRow
      BY <2>1 DEF TransferInv, LocksExclusive
    <3>2. ~Written(h, u)
      BY <3>1 DEF TransferInv, Own, Pending
    <3> QED
      BY <1>1, <3>2
  <2> QED
    BY <1>2, <1>3, <1>4, <2>1, OthersOwn
<1>8. Own(h)'
  <2>1. Control(h)'
    BY <1>2, <1>4 DEF TransferInv, Own, Control, Started, Checked, InTx
  <2>2. Funds(h)'
    BY <1>4 DEF Funds, Checked, InTx
  <2>3. Backed(h)'
    BY <1>2, <1>4 DEF TransferInv, Own, Backed, Unrecorded
  <2>4. Pending(h)'
    BY <1>3, <1>4 DEF Pending, Written, Debited, Credited
  <2> QED
    BY <2>1, <2>2, <2>3, <2>4 DEF Own
<1>9. events' \subseteq records'
  BY <1>2 DEF TransferInv
<1> QED
  BY <1>5, <1>6, <1>7, <1>8, <1>9 DEF TransferInv
-----------------------------------------------------------------------------
(* The event, and the other operations.                                    *)

LEMMA PublishInv ==
  ASSUME TransferInv, NEW h \in Handler, Publish(h) \/ PublishFails(h)
  PROVE  TransferInv'
<1>1. pc[h] = "publish" /\ pc[h] \notin Debited
  BY DEF Publish, PublishFails, Debited
<1>2. (IF req[h] \in Handler THEN req[h] ELSE h) \in records /\ h \in records
  <2>1. req[h] \in Request /\ h \in records
    BY <1>1 DEF TransferInv, Own, Control, Started, Backed
  <2> QED
    BY <2>1, NoneAssumption DEF Lookup
<1>3. CASE Publish(h)
  <2>1. /\ Answer(h, "OK") /\ users' = users /\ accounts' = accounts /\ open' = open
        /\ userWrites' = userWrites /\ accountWrites' = accountWrites
        /\ records' = records /\ stale' = stale /\ events' = events \cup {h}
        /\ req' = req /\ data' = data
    BY <1>3 DEF Publish, dbVars
  <2>2. events' \subseteq records
    BY <1>2, <2>1 DEF TransferInv
  <2> QED
    BY <1>1, <1>2, <2>1, <2>2, NothingWritten, AnswerInv
    DEF TransferInv, TypeOK, DatabaseTypeOK, Codes
<1>4. CASE PublishFails(h)
  BY <1>1, <1>2, <1>4, RefuseInv DEF PublishFails, Codes
<1> QED
  BY <1>3, <1>4

LEMMA GetTransactionInv ==
  ASSUME TransferInv, NEW h \in Handler, GetTransaction(h)
  PROVE  TransferInv'
<1>1. pc[h] = "idle" /\ pc[h] \notin Debited
  BY DEF GetTransaction, Debited
<1>2. CASE Refuse(h, "InvalidArgument")
  BY <1>1, <1>2, RefuseInv DEF Codes
<1>3. ASSUME NEW id \in Lookup, req' = [req EXCEPT ![h] = id],
             \/ id \in records /\ Answer(h, "OK")
             \/ Answer(h, "Internal"),
             UNCHANGED <<dbVars, outputs, data>>
      PROVE  TransferInv'
  <2>1. /\ users' = users /\ accounts' = accounts /\ open' = open
        /\ userWrites' = userWrites /\ accountWrites' = accountWrites
        /\ records' = records /\ stale' = stale /\ events' = events /\ data' = data
        /\ events' \subseteq records
    BY <1>3 DEF dbVars, outputs, TransferInv
  <2>2. /\ req' \in [Handler -> Request \cup Lookup \cup {None}]
        /\ req'[h] = id /\ \A g \in Handler \ {h} : req'[g] = req[g]
    BY <1>3 DEF TransferInv, TypeOK
  <2>3. id \in records => id \in Handler
    BY DEF TransferInv, TypeOK
  <2>4. /\ open' \in SUBSET Handler
        /\ userWrites' \in [Handler -> [User -> UserRow \cup {NoRow}]]
        /\ accountWrites' \in [Handler -> [User -> AccountRow \cup {NoRow}]]
    BY <2>1 DEF TransferInv, TypeOK, DatabaseTypeOK
  <2>5. \A u \in User : userWrites'[h][u] = NoRow /\ accountWrites'[h][u] = NoRow
    BY <1>1, <2>1, NothingWritten
  <2>6. CASE id \in records /\ Answer(h, "OK")
    <3>1. (IF req'[h] \in Handler THEN req'[h] ELSE h) \in records /\ "OK" \in Codes
      BY <2>2, <2>3, <2>6 DEF Codes
    <3> QED
      BY <2>1, <2>2, <2>4, <2>5, <2>6, <3>1, AnswerInv
  <2>7. CASE Answer(h, "Internal")
    <3>1. "Internal" \in Codes /\ "Internal" # "OK"
      BY DEF Codes
    <3> QED
      BY <2>1, <2>2, <2>4, <2>5, <2>7, <3>1, AnswerInv
  <2> QED
    BY <1>3, <2>6, <2>7
<1> QED
  BY <1>2, <1>3 DEF GetTransaction

(* The account service only writes rows that no transfer has locked.       *)
LEMMA EditInv ==
  ASSUME TransferInv, NEW u \in User, Edit(u)
  PROVE  TransferInv'
<1>1. /\ pc' = pc /\ req' = req /\ data' = data /\ reply' = reply
      /\ layout' = layout /\ records' = records /\ events' = events /\ open' = open
      /\ userWrites' = userWrites /\ accountWrites' = accountWrites
      /\ stale' \in SUBSET Handler /\ edits' \in 0 .. MaxEdits
  BY RowsAssumption DEF Edit, Outdated, TransferInv, TypeOK
<1>2. /\ users' \in [User -> UserRow] /\ accounts' \in [User -> AccountRow]
      /\ \A v \in User \ {u} : accounts'[v] = accounts[v]
  <2>1. CASE /\ users' = users
             /\ \E b \in NewBalances : accounts' = [accounts EXCEPT ![u].balance = b]
    <3>1. PICK b \in NewBalances : accounts' = [accounts EXCEPT ![u].balance = b]
      BY <2>1
    <3>2. b \in BalanceColumn
      BY RowsAssumption
    <3> QED
      BY <2>1, <3>1, <3>2 DEF TransferInv, RowsThere, AccountRow
  <2>2. CASE /\ accounts' = [accounts EXCEPT ![u].deleted = TRUE]
             /\ users' = [users EXCEPT ![u].deleted = TRUE]
    BY <2>2 DEF TransferInv, RowsThere, AccountRow, UserRow
  <2> QED
    BY <2>1, <2>2 DEF Edit
<1>3. TypeOK' /\ RowsThere' /\ LocksExclusive'
  BY <1>1, <1>2 DEF TransferInv, TypeOK, DatabaseTypeOK, RowsThere, LocksExclusive
<1>4. ASSUME NEW g \in Handler
      PROVE  Own(g)'
  <2>1. Control(g)' /\ Funds(g)' /\ Backed(g)'
    BY <1>1 DEF TransferInv, Own, Control, Funds, Backed
  <2>2. \A v \in User : /\ Written(g, v)' <=> Written(g, v)
                        /\ NewBalance(g, v)' = NewBalance(g, v)
    BY <1>1 DEF Written, NewBalance, AccountId
  <2>3. accountWrites[g][u] = NoRow
    BY DEF Edit
  <2>4. Pending(g)'
    BY <1>1, <1>2, <2>2, <2>3 DEF TransferInv, Own, Pending
  <2> QED
    BY <2>1, <2>4 DEF Own
<1> QED
  BY <1>1, <1>3, <1>4 DEF TransferInv

LEMMA CrashInv ==
  ASSUME TransferInv, Crash
  PROVE  TransferInv'
<1>1. /\ users' = users /\ accounts' = accounts /\ open' = {}
      /\ userWrites' = [h \in Handler |-> NoWrites]
      /\ accountWrites' = [h \in Handler |-> NoWrites]
      /\ layout' = layout /\ records' = records /\ events' = events /\ stale' = stale
      /\ req' = req /\ data' = data /\ reply' = reply /\ edits' = edits
      /\ pc' \in [Handler -> Labels]
      /\ \A h \in Handler :
           pc'[h] = IF pc[h] \in {"idle", "done"} THEN pc[h] ELSE "lost"
  BY DEF Crash, LoseConnections, outputs, Labels
<1>2. TypeOK'
  BY <1>1 DEF TransferInv, TypeOK, DatabaseTypeOK, NoWrites
<1>3. RowsThere' /\ LocksExclusive'
  BY <1>1 DEF TransferInv, RowsThere, LocksExclusive, NoWrites
<1>4. ASSUME NEW h \in Handler
      PROVE  Own(h)'
  <2>1. pc'[h] \in {"idle", "done", "lost"} /\ (pc[h] = "done" => pc'[h] = "done")
        /\ (pc'[h] \in {"idle", "done"} => pc'[h] = pc[h])
    BY <1>1
  <2>2. Control(h)' /\ Funds(h)'
    BY <2>1 DEF Control, Funds, Started, Checked, InTx
  <2>3. Backed(h)'
    BY <1>1, <2>1 DEF TransferInv, Own, Backed, Unrecorded, Labels
  <2>4. Pending(h)'
    BY <1>1, <2>1 DEF Pending, Written, Debited, Credited, NoWrites
  <2> QED
    BY <2>2, <2>3, <2>4 DEF Own
<1> QED
  BY <1>1, <1>2, <1>3, <1>4 DEF TransferInv
-----------------------------------------------------------------------------
LEMMA InitTransferInv ==
  ASSUME Init
  PROVE  TransferInv
<1>1. TypeOK
  BY RowsAssumption DEF Init, TypeOK, DatabaseTypeOK, NoWrites, Labels
<1>2. RowsThere /\ LocksExclusive
  BY RowsAssumption DEF Init, RowsThere, LocksExclusive, NoWrites
<1>3. events \subseteq records
  BY DEF Init
<1>4. ASSUME NEW h \in Handler
      PROVE  Own(h)
  <2>1. Control(h) /\ Funds(h)
    BY <1>4 DEF Init, Control, Funds, Started, Checked, InTx
  <2>2. Backed(h)
    BY <1>4, NoneAssumption DEF Init, Backed, Codes
  <2>3. Pending(h)
    BY <1>4 DEF Init, Pending, Written, Debited, Credited, NoWrites
  <2> QED
    BY <2>1, <2>2, <2>3 DEF Own
<1> QED
  BY <1>1, <1>2, <1>3, <1>4 DEF TransferInv

LEMMA StutterInv ==
  ASSUME TransferInv, UNCHANGED vars
  PROVE  TransferInv'
<1>1. TypeOK' /\ RowsThere' /\ LocksExclusive'
  BY DEF vars, dbVars, TransferInv, TypeOK, DatabaseTypeOK, RowsThere, LocksExclusive
<1>2. ASSUME NEW h \in Handler
      PROVE  Own(h)'
  <2>1. Control(h)' /\ Funds(h)' /\ Backed(h)'
    BY DEF vars, dbVars, TransferInv, Own, Control, Funds, Backed
  <2>2. \A u \in User : /\ Written(h, u)' <=> Written(h, u)
                        /\ NewBalance(h, u)' = NewBalance(h, u)
    BY DEF vars, Written, NewBalance, AccountId
  <2>3. Pending(h)'
    BY <2>2 DEF vars, dbVars, TransferInv, Own, Pending
  <2> QED
    BY <2>1, <2>3 DEF Own
<1> QED
  BY <1>1, <1>2 DEF vars, TransferInv

LEMMA NextTransferInv ==
  ASSUME TransferInv, [Next]_vars
  PROVE  TransferInv'
<1>1. CASE UNCHANGED vars
  BY <1>1, StutterInv
<1>2. CASE Crash
  BY <1>2, CrashInv
<1>3. ASSUME NEW u \in User, Edit(u)
      PROVE  TransferInv'
  BY <1>3, EditInv
<1>4. ASSUME NEW h \in Handler, Submit(h) \/ GetTransaction(h) \/ DeadlockVictim(h)
      PROVE  TransferInv'
  BY <1>4, SubmitInv, GetTransactionInv, AbandonInv DEF DeadlockVictim
<1>5. ASSUME NEW h \in Handler, CommitTx(h) \/ CommitUnacknowledged(h)
      PROVE  TransferInv'
  BY <1>5, RecordInv DEF CommitTx, CommitUnacknowledged
<1>6. ASSUME NEW h \in Handler, QueryFails(h) \/ StatementFails(h)
      PROVE  TransferInv'
  BY <1>6, RefuseInv, AbandonInv DEF QueryFails, StatementFails, Codes, Debited
<1>7. ASSUME NEW h \in Handler, Work(h)
      PROVE  TransferInv'
  BY <1>5, <1>7, ReadFromInv, ReadToInv, BeginTxInv, LegsInv, InsertRecordInv,
    PublishInv DEF Work
<1>8. ASSUME NEW h \in Handler, Fault(h)
      PROVE  TransferInv'
  BY <1>5, <1>6, <1>8, PublishInv DEF Fault
<1> QED
  BY <1>1, <1>2, <1>3, <1>4, <1>7, <1>8 DEF Next

(* Whatever overlaps and fails, each transfer has pending exactly the legs *)
(* its statements have reached, with balances its checks allow, under      *)
(* exclusive locks, and is recorded before it is announced.                *)
THEOREM TransferInvariant == Spec => []TransferInv
  BY InitTransferInv, NextTransferInv, PTL DEF Spec

(* The state keeps its types: no UPDATE writes what the column refuses.    *)
THEOREM TypesHold == Spec => []TypeOK
<1>1. TransferInv => TypeOK
  BY DEF TransferInv
<1> QED
  BY <1>1, TransferInvariant, PTL

(* Events and successes are of recorded transfers only.                    *)
THEOREM EventsAreBacked == Spec => []EventsBacked
<1>1. TransferInv => EventsBacked
  BY DEF TransferInv, Own, Backed, EventsBacked
<1> QED
  BY <1>1, TransferInvariant, PTL
-----------------------------------------------------------------------------
(* Only a transfer's commit and the account service change a row.          *)
LEMMA WhoWrites ==
  ASSUME TransferInv, [Next]_vars
  PROVE  \/ accounts' = accounts
         \/ edits' # edits
         \/ \E h \in Handler : Record(h)
<1>1. CASE UNCHANGED vars
  BY <1>1 DEF vars, dbVars
<1>2. CASE Crash
  BY <1>2 DEF Crash, LoseConnections
<1>3. ASSUME NEW u \in User, Edit(u)
      PROVE  edits' # edits
  BY <1>3 DEF Edit, TransferInv, TypeOK
<1>4. ASSUME NEW h \in Handler,
             \/ Submit(h) \/ GetTransaction(h) \/ DeadlockVictim(h)
             \/ QueryFails(h) \/ StatementFails(h) \/ PublishFails(h)
             \/ ReadFrom(h) \/ ReadTo(h) \/ BeginTx(h) \/ Publish(h)
      PROVE  accounts' = accounts
  BY <1>4 DEF Submit, GetTransaction, DeadlockVictim, QueryFails, StatementFails,
    PublishFails, ReadFrom, ReadTo, BeginTx, Publish, Begin, Refuse, Abandon,
    Rollback, dbVars
<1>5. ASSUME NEW h \in Handler, Debit(h) \/ Credit(h) \/ InsertRecord(h)
      PROVE  accounts' = accounts
  BY <1>5 DEF Debit, Credit, InsertRecord, SetBalance, WriteAccount, Abandon,
    Rollback, dbVars
<1>6. ASSUME NEW h \in Handler, CommitTx(h) \/ CommitUnacknowledged(h)
      PROVE  Record(h)
  BY <1>6 DEF CommitTx, CommitUnacknowledged
<1> QED
  BY <1>1, <1>2, <1>3, <1>4, <1>5, <1>6 DEF Next, Work, Fault

LEMMA RecordMovesBoth ==
  ASSUME TransferInv, NEW h \in Handler, Record(h)
  PROVE  /\ h \in records' \ records
         /\ accounts' = [u \in User |-> [accounts[u] EXCEPT !.balance =
              IF AccountId[u] = req[h].from THEN Column(data[h].from)
              ELSE IF AccountId[u] = req[h].to THEN Column(data[h].to) ELSE @]]
<1>1. /\ accounts' \in [User -> AccountRow]
      /\ \A u \in User : ~Written(h, u) => accounts'[u] = accounts[u]
      /\ \A u \in User : Written(h, u) =>
           /\ accounts'[u].balance = NewBalance(h, u)
           /\ accounts'[u].deleted = accounts[u].deleted
  BY RecordRows
<1>2. pc[h] = "commit" /\ records' = records \cup {h}
  BY DEF Record
<1>3. h \notin records
  BY <1>2 DEF TransferInv, Own, Backed, Unrecorded, Labels, InTx
<1>4. ASSUME NEW u \in User
      PROVE  accounts'[u] = [accounts[u] EXCEPT !.balance =
              IF AccountId[u] = req[h].from THEN Column(data[h].from)
              ELSE IF AccountId[u] = req[h].to THEN Column(data[h].to) ELSE @]
  <2>1. accounts[u] \in AccountRow /\ accounts'[u] \in AccountRow
    BY <1>1 DEF TransferInv, RowsThere
  <2>2. Written(h, u) <=> AccountId[u] \in {req[h].from, req[h].to}
    BY <1>2 DEF Written, Debited, Credited
  <2>3. CASE AccountId[u] = req[h].from
    <3>1. /\ accounts'[u].balance = Column(data[h].from)
          /\ accounts'[u].deleted = accounts[u].deleted
      BY <1>1, <2>2, <2>3 DEF NewBalance
    <3>2. accounts'[u] = [accounts[u] EXCEPT !.balance = Column(data[h].from)]
      BY <2>1, <3>1, RowEquality
    <3> QED
      BY <2>3, <3>2
  <2>4. CASE AccountId[u] # req[h].from /\ AccountId[u] = req[h].to
    <3>1. /\ accounts'[u].balance = Column(data[h].to)
          /\ accounts'[u].deleted = accounts[u].deleted
      BY <1>1, <2>2, <2>4 DEF NewBalance
    <3>2. accounts'[u] = [accounts[u] EXCEPT !.balance = Column(data[h].to)]
      BY <2>1, <3>1, RowEquality
    <3> QED
      BY <2>4, <3>2
  <2>5. CASE AccountId[u] \notin {req[h].from, req[h].to}
    <3>1. accounts'[u] = accounts[u]
      BY <1>1, <2>2, <2>5
    <3>2. accounts[u] = [accounts[u] EXCEPT !.balance = accounts[u].balance]
      BY <2>1, RowEquality
    <3> QED
      BY <2>5, <3>1, <3>2
  <2> QED
    BY <2>3, <2>4, <2>5
<1> QED
  BY <1>1, <1>2, <1>3, <1>4

(* Both legs of a recorded transfer or none: the rows change by a commit   *)
(* of the account service, or as the one transfer that is recorded then    *)
(* says.                                                                   *)
THEOREM BothLegsOrNone == Spec => BothLegs
<1>1. TransferInv /\ [Next]_vars =>
        [accounts' # accounts /\ edits' = edits =>
           \E h \in records' \ records :
             accounts' = [u \in User |-> [accounts[u] EXCEPT !.balance =
               IF AccountId[u] = req[h].from THEN Column(data[h].from)
               ELSE IF AccountId[u] = req[h].to THEN Column(data[h].to) ELSE @]]]_vars
  <2> SUFFICES ASSUME TransferInv, [Next]_vars, accounts' # accounts, edits' = edits
               PROVE  \E h \in records' \ records :
             accounts' = [u \in User |-> [accounts[u] EXCEPT !.balance =
               IF AccountId[u] = req[h].from THEN Column(data[h].from)
               ELSE IF AccountId[u] = req[h].to THEN Column(data[h].to) ELSE @]]
    OBVIOUS
  <2>1. PICK h \in Handler : Record(h)
    BY WhoWrites
  <2> QED
    BY <2>1, RecordMovesBoth
<1> QED
  BY <1>1, TransferInvariant, PTL DEF Spec, BothLegs
-----------------------------------------------------------------------------
(* What a handler that is not stale carries is what its reads and the      *)
(* committed rows still say.                                               *)
FreshData(h) ==
  h \notin stale =>
    /\ pc[h] = "readTo" =>
         data[h].from = 2 * Float64(accounts[req[h].from].balance)
    /\ pc[h] \in Checked =>
         /\ data[h].from = 2 * Float64(accounts[req[h].from].balance) - req[h].amount
         /\ data[h].to   = 2 * Float64(accounts[req[h].to].balance) + req[h].amount

FreshInv == \A h \in Handler : FreshData(h)

LEMMA ReadByStep ==
  ASSUME NEW h
  PROVE  /\ pc[h] = "readTo" => HasRead(h) = {req[h].from}
         /\ pc[h] \in Checked => HasRead(h) = {req[h].from, req[h].to}
  BY DEF HasRead, Checked, InTx

(* A handler that stands still stays right, or becomes stale.              *)
LEMMA FreshKept ==
  ASSUME NEW h \in Handler, FreshData(h),
         pc'[h] = pc[h], req'[h] = req[h], data'[h] = data[h], stale \subseteq stale',
         h \notin stale' => \A u \in HasRead(h) : accounts'[u] = accounts[u]
  PROVE  FreshData(h)'
<1>1. CASE h \in stale'
  BY <1>1 DEF FreshData
<1>2. CASE h \notin stale' /\ pc[h] = "readTo"
  <2>1. accounts'[req[h].from] = accounts[req[h].from]
    BY <1>2, ReadByStep
  <2> QED
    BY <1>2, <2>1 DEF FreshData, Checked, InTx
<1>3. CASE h \notin stale' /\ pc[h] \in Checked
  <2>1. /\ accounts'[req[h].from] = accounts[req[h].from]
        /\ accounts'[req[h].to] = accounts[req[h].to]
    BY <1>3, ReadByStep
  <2> QED
    BY <1>3, <2>1 DEF FreshData, Checked, InTx
<1>4. CASE pc[h] \notin Checked \cup {"readTo"}
  BY <1>4 DEF FreshData
<1> QED
  BY <1>1, <1>2, <1>3, <1>4

(* A step of h that commits nothing.                                       *)
LEMMA FreshQuietStep ==
  ASSUME FreshInv, NEW h \in Handler, accounts' = accounts, stale' = stale,
         \A g \in Handler \ {h} :
           pc'[g] = pc[g] /\ req'[g] = req[g] /\ data'[g] = data[g],
         FreshData(h)'
  PROVE  FreshInv'
<1>1. ASSUME NEW g \in Handler \ {h}
      PROVE  FreshData(g)'
  BY FreshKept DEF FreshInv
<1> QED
  BY <1>1 DEF FreshInv

LEMMA AnswerFresh ==
  ASSUME TransferInv, FreshInv, NEW h \in Handler, NEW code, Answer(h, code),
         accounts' = accounts, stale' = stale, data' = data,
         \A g \in Handler \ {h} : req'[g] = req[g]
  PROVE  FreshInv'
<1>1. pc'[h] = "done" /\ \A g \in Handler \ {h} : pc'[g] = pc[g]
  BY DEF Answer, Goto, TransferInv, TypeOK
<1>2. FreshData(h)'
  BY <1>1 DEF FreshData, Checked, InTx
<1> QED
  BY <1>1, <1>2, FreshQuietStep

LEMMA RefuseFresh ==
  ASSUME TransferInv, FreshInv, NEW h \in Handler, NEW code,
         Refuse(h, code) \/ Abandon(h)
  PROVE  FreshInv'
<1>1. /\ accounts' = accounts /\ stale' = stale /\ data' = data /\ req' = req
      /\ Answer(h, code) \/ Answer(h, "Internal")
  BY DEF Refuse, Abandon, Rollback, dbVars, outputs
<1> QED
  BY <1>1, AnswerFresh

(* A step from one point to the next after the checks.                     *)
LEMMA ProceedFresh ==
  ASSUME TransferInv, FreshInv, NEW h \in Handler, NEW label \in Checked,
         Proceed(h, label), accounts' = accounts, pc[h] \in Checked
  PROVE  FreshInv'
<1>1. /\ stale' = stale /\ req' = req /\ data' = data /\ pc'[h] = label
      /\ \A g \in Handler \ {h} : pc'[g] = pc[g]
  BY DEF Proceed, Goto, outputs, TransferInv, TypeOK
<1>2. FreshData(h)
  BY DEF FreshInv
<1>3. FreshData(h)'
  BY <1>1, <1>2 DEF FreshData, Checked, InTx
<1> QED
  BY <1>1, <1>3, FreshQuietStep

LEMMA SubmitFresh ==
  ASSUME TransferInv, FreshInv, NEW h \in Handler, Submit(h) \/ GetTransaction(h)
  PROVE  FreshInv'
<1>1. /\ accounts' = accounts /\ stale' = stale /\ data' = data
      /\ \A g \in Handler \ {h} : req'[g] = req[g]
      /\ \/ Goto(h, "readFrom")
         \/ \E code : Answer(h, code)
  BY DEF Submit, GetTransaction, Refuse, dbVars, outputs, TransferInv, TypeOK
<1>2. CASE Goto(h, "readFrom")
  <2>1. pc'[h] = "readFrom" /\ \A g \in Handler \ {h} : pc'[g] = pc[g]
    BY <1>2 DEF Goto, TransferInv, TypeOK
  <2>2. FreshData(h)'
    BY <2>1 DEF FreshData, Checked, InTx
  <2> QED
    BY <1>1, <2>1, <2>2, FreshQuietStep
<1> QED
  BY <1>1, <1>2, AnswerFresh

LEMMA ReadFromFresh ==
  ASSUME TransferInv, FreshInv, NEW h \in Handler, ReadFrom(h)
  PROVE  FreshInv'
<1>1. CASE Refuse(h, "Internal")
  BY <1>1, RefuseFresh
<1>2. CASE /\ data' = [data EXCEPT ![h].from =
                         2 * Float64(accounts[req[h].from].balance)]
           /\ Goto(h, "readTo")
           /\ UNCHANGED <<dbVars, outputs, req, reply>>
  <2>1. /\ accounts' = accounts /\ stale' = stale /\ req' = req
        /\ pc'[h] = "readTo" /\ \A g \in Handler \ {h} : pc'[g] = pc[g]
    BY <1>2 DEF dbVars, outputs, Goto, TransferInv, TypeOK
  <2>2. /\ data'[h].from = 2 * Float64(accounts[req[h].from].balance)
        /\ \A g \in Handler \ {h} : data'[g] = data[g]
    BY <1>2 DEF TransferInv, TypeOK
  <2>3. FreshData(h)'
    BY <2>1, <2>2 DEF FreshData, Checked, InTx
  <2> QED
    BY <2>1, <2>2, <2>3, FreshQuietStep
<1> QED
  BY <1>1, <1>2 DEF ReadFrom

LEMMA ReadToFresh ==
  ASSUME TransferInv, FreshInv, NEW h \in Handler, ReadTo(h)
  PROVE  FreshInv'
<1> DEFINE from == data[h].from - req[h].amount
           to == 2 * Float64(accounts[req[h].to].balance) + req[h].amount
<1>1. CASE Refuse(h, "Internal") \/ Refuse(h, "InvalidArgument")
  BY <1>1, RefuseFresh
<1>2. CASE /\ data' = [data EXCEPT ![h].from = @ - req[h].amount, ![h].to = to]
           /\ Goto(h, "begin")
           /\ UNCHANGED <<dbVars, outputs, req, reply>>
  <2>1. /\ accounts' = accounts /\ stale' = stale /\ req' = req
        /\ pc'[h] = "begin" /\ \A g \in Handler \ {h} : pc'[g] = pc[g]
    BY <1>2 DEF dbVars, outputs, Goto, TransferInv, TypeOK
  <2>2. /\ data'[h].from = from /\ data'[h].to = to
        /\ \A g \in Handler \ {h} : data'[g] = data[g]
    <3> HIDE DEF to
    <3> QED
      BY <1>2 DEF TransferInv, TypeOK
  <2>3. pc[h] = "readTo" /\ FreshData(h)
    BY DEF ReadTo, FreshInv
  <2>4. FreshData(h)'
    BY <2>1, <2>2, <2>3 DEF FreshData
  <2> QED
    BY <2>1, <2>2, <2>4, FreshQuietStep
<1> QED
  BY <1>1, <1>2 DEF ReadTo

(* The statements in the transaction.                                      *)
LEMMA StatementFresh ==
  ASSUME TransferInv, FreshInv, NEW h \in Handler,
         BeginTx(h) \/ Debit(h) \/ Credit(h) \/ InsertRecord(h)
  PROVE  FreshInv'
<1>1. pc[h] \in Checked
  BY DEF BeginTx, Debit, Credit, InsertRecord, Checked, InTx
<1>2. \/ Abandon(h)
      \/ \E label \in Checked : Proceed(h, label) /\ accounts' = accounts
  BY DEF BeginTx, Begin, Debit, Credit, InsertRecord, SetBalance, WriteAccount, dbVars,
    Checked, InTx
<1> QED
  BY <1>1, <1>2, RefuseFresh, ProceedFresh

(* A commit makes everybody stale who had read what it writes.             *)
LEMMA CommitFresh ==
  ASSUME TransferInv, FreshInv, NEW h \in Handler, CommitTx(h) \/ CommitUnacknowledged(h)
  PROVE  FreshInv'
<1> DEFINE written == {u \in User : accountWrites[h][u] # NoRow}
<1>1. /\ Record(h) /\ req' = req /\ data' = data
      /\ stale' = stale \cup (Outdated(written) \ {h})
  BY DEF CommitTx, CommitUnacknowledged, Record
<1>2. /\ pc'[h] \in {"publish", "done"}
      /\ \A g \in Handler \ {h} : pc'[g] = pc[g]
  BY DEF CommitTx, CommitUnacknowledged, Answer, Goto, TransferInv, TypeOK
<1>3. \A u \in User \ written : accounts'[u] = accounts[u]
  BY <1>1 DEF Record, Commit, AccountSeen
<1>4. FreshData(h)'
  BY <1>2 DEF FreshData, Checked, InTx
<1>5. ASSUME NEW g \in Handler \ {h}
      PROVE  FreshData(g)'
  <2>1. ASSUME g \notin stale', NEW u \in HasRead(g)
        PROVE  accounts'[u] = accounts[u]
    <3>1. u \in User
      BY ReadByStep DEF HasRead, TransferInv, Own, Control, Checked, InTx
    <3>2. u \notin written
      BY <1>1, <2>1 DEF Outdated
    <3> QED
      BY <1>3, <3>1, <3>2
  <2>2. FreshData(g) /\ stale \subseteq stale'
    BY <1>1 DEF FreshInv
  <2> QED
    BY <1>1, <1>2, <2>1, <2>2, FreshKept
<1> QED
  BY <1>4, <1>5 DEF FreshInv

LEMMA EditFresh ==
  ASSUME TransferInv, FreshInv, NEW u \in User, Edit(u)
  PROVE  FreshInv'
<1>1. /\ pc' = pc /\ req' = req /\ data' = data /\ stale' = stale \cup Outdated({u})
      /\ \A v \in User \ {u} : accounts'[v] = accounts[v]
  BY DEF Edit, TransferInv, RowsThere
<1> SUFFICES ASSUME NEW g \in Handler PROVE FreshData(g)'
  BY DEF FreshInv
<1>2. ASSUME g \notin stale', NEW v \in HasRead(g)
      PROVE  accounts'[v] = accounts[v]
  <2>1. v \in User
    BY ReadByStep DEF HasRead, TransferInv, Own, Control, Checked, InTx
  <2>2. v # u
    BY <1>1, <1>2 DEF Outdated
  <2> QED
    BY <1>1, <2>1, <2>2
<1> QED
  BY <1>1, <1>2, FreshKept DEF FreshInv

LEMMA NextFresh ==
  ASSUME TransferInv, FreshInv, [Next]_vars
  PROVE  FreshInv'
<1>1. CASE UNCHANGED vars
  BY <1>1, FreshKept DEF FreshInv, vars, dbVars
<1>2. CASE Crash
  <2>1. /\ accounts' = accounts /\ stale' = stale /\ req' = req /\ data' = data
        /\ \A h \in Handler : pc'[h] \in {pc[h], "lost"}
    BY <1>2 DEF Crash, LoseConnections, outputs
  <2>2. ASSUME NEW h \in Handler PROVE FreshData(h)'
    <3>1. CASE pc'[h] = pc[h]
      BY <2>1, <3>1, FreshKept DEF FreshInv
    <3>2. CASE pc'[h] = "lost"
      BY <3>2 DEF FreshData, Checked, InTx
    <3> QED
      BY <2>1, <3>1, <3>2
  <2> QED
    BY <2>2 DEF FreshInv
<1>3. ASSUME NEW u \in User, Edit(u)
      PROVE  FreshInv'
  BY <1>3, EditFresh
<1>4. ASSUME NEW h \in Handler, Submit(h) \/ GetTransaction(h)
      PROVE  FreshInv'
  BY <1>4, SubmitFresh
<1>5. ASSUME NEW h \in Handler,
             \/ DeadlockVictim(h) \/ QueryFails(h) \/ StatementFails(h) \/ PublishFails(h)
      PROVE  FreshInv'
  BY <1>5, RefuseFresh DEF DeadlockVictim, QueryFails, StatementFails, PublishFails
<1>6. ASSUME NEW h \in Handler, Publish(h)
      PROVE  FreshInv'
  <2>1. /\ Answer(h, "OK") /\ accounts' = accounts /\ stale' = stale /\ data' = data
        /\ req' = req
    BY <1>6 DEF Publish, dbVars
  <2> QED
    BY <2>1, AnswerFresh
<1>7. ASSUME NEW h \in Handler, ReadFrom(h) \/ ReadTo(h)
      PROVE  FreshInv'
  BY <1>7, ReadFromFresh, ReadToFresh
<1>8. ASSUME NEW h \in Handler, BeginTx(h) \/ Debit(h) \/ Credit(h) \/ InsertRecord(h)
      PROVE  FreshInv'
  BY <1>8, StatementFresh
<1>9. ASSUME NEW h \in Handler, CommitTx(h) \/ CommitUnacknowledged(h)
      PROVE  FreshInv'
  BY <1>9, CommitFresh
<1> QED
  BY <1>1, <1>2, <1>3, <1>4, <1>5, <1>6, <1>7, <1>8, <1>9 DEF Next, Work, Fault

LEMMA InitFresh ==
  ASSUME Init
  PROVE  FreshInv
  BY DEF Init, FreshInv, FreshData, Checked, InTx

(* What the column makes of a debit and of a credit in halves.             *)
LEMMA ColumnOfLegs ==
  ASSUME NEW b \in Int, NEW n \in Int, n > 0
  PROVE  /\ 2 * b - n >= 0 => Column(2 * b - n) = b - (n \div 2)
         /\ 2 * b + n >= 0 => Column(2 * b + n) = b + ((n + 1) \div 2)
         /\ 2 * b + n < 0  => Column(2 * b + n) = b + (n \div 2)
  BY DEF Column

(* Only a commit records a transfer.                                       *)
LEMMA WhoRecords ==
  ASSUME TransferInv, [Next]_vars, NEW h \in records' \ records
  PROVE  Record(h)
<1>1. CASE UNCHANGED vars
  BY <1>1 DEF vars
<1>2. CASE Crash \/ \E u \in User : Edit(u)
  BY <1>2 DEF Crash, Edit, outputs
<1>3. ASSUME NEW g \in Handler,
             \/ Submit(g) \/ GetTransaction(g) \/ DeadlockVictim(g)
             \/ QueryFails(g) \/ StatementFails(g) \/ PublishFails(g)
             \/ ReadFrom(g) \/ ReadTo(g) \/ BeginTx(g) \/ Publish(g)
      PROVE  records' = records
  BY <1>3 DEF Submit, GetTransaction, DeadlockVictim, QueryFails, StatementFails,
    PublishFails, ReadFrom, ReadTo, BeginTx, Publish, Refuse, Abandon, Proceed, outputs
<1>4. ASSUME NEW g \in Handler, Debit(g) \/ Credit(g) \/ InsertRecord(g)
      PROVE  records' = records
  BY <1>4 DEF Debit, Credit, InsertRecord, SetBalance, Abandon, Proceed, outputs
<1>5. ASSUME NEW g \in Handler, CommitTx(g) \/ CommitUnacknowledged(g)
      PROVE  Record(h)
  BY <1>5 DEF CommitTx, CommitUnacknowledged, Record
<1> QED
  BY <1>1, <1>2, <1>3, <1>4, <1>5 DEF Next, Work, Fault

LEMMA FreshRecordExact ==
  ASSUME TransferInv, FreshInv, NEW h \in Handler, Record(h), h \notin stale,
         \A u \in {req[h].from, req[h].to} :
           Float64(accounts[u].balance) = accounts[u].balance
  PROVE  LET r == req[h]
             up(u) == IF 2 * accounts[u].balance + r.amount >= 0 THEN 1 ELSE 0
         IN accounts' = [u \in User |-> [accounts[u] EXCEPT !.balance =
              IF AccountId[u] = r.from    THEN @ - (r.amount \div 2)
              ELSE IF AccountId[u] = r.to THEN @ + ((r.amount + up(u)) \div 2)
              ELSE @]]
<1> DEFINE r == req[h]
           up(u) == IF 2 * accounts[u].balance + r.amount >= 0 THEN 1 ELSE 0
           after(u) == IF AccountId[u] = r.from
                       THEN accounts[u].balance - (r.amount \div 2)
                       ELSE IF AccountId[u] = r.to
                       THEN accounts[u].balance + ((r.amount + up(u)) \div 2)
                       ELSE accounts[u].balance
<1>1. pc[h] = "commit" /\ pc[h] \in Checked /\ pc[h] \in Started
  BY DEF Record, Checked, Started, InTx
<1>2. /\ r \in Request /\ Valid(r) /\ r.from \in User /\ r.to \in User
      /\ r.from # r.to /\ data[h].from >= 0
  BY <1>1 DEF TransferInv, Own, Control, Funds
<1>3. r.amount \in Int /\ r.amount > 0
  BY <1>2, RequestAmount
<1>4. /\ data[h].from = 2 * accounts[r.from].balance - r.amount
      /\ data[h].to   = 2 * accounts[r.to].balance + r.amount
  BY <1>1 DEF FreshInv, FreshData
<1>5. \A u \in User : accounts[u].balance \in Int
  BY BalanceInt DEF TransferInv
<1>6. /\ Column(data[h].from) = accounts[r.from].balance - (r.amount \div 2)
      /\ Column(data[h].to) = accounts[r.to].balance + ((r.amount + up(r.to)) \div 2)
  <2>1. Column(data[h].from) = accounts[r.from].balance - (r.amount \div 2)
    BY <1>2, <1>3, <1>4, <1>5, ColumnOfLegs
  <2>2. CASE 2 * accounts[r.to].balance + r.amount >= 0
    <3>1. up(r.to) = 1
      BY <2>2
    <3> QED
      BY <1>2, <1>3, <1>4, <1>5, <2>1, <2>2, <3>1, ColumnOfLegs
  <2>3. CASE ~(2 * accounts[r.to].balance + r.amount >= 0)
    <3>1. up(r.to) = 0 /\ 2 * accounts[r.to].balance + r.amount < 0
      BY <1>2, <1>3, <1>5, <2>3
    <3> QED
      BY <1>2, <1>3, <1>4, <1>5, <2>1, <3>1, ColumnOfLegs
  <2> QED
    BY <2>2, <2>3
<1>7. accounts' = [u \in User |-> [accounts[u] EXCEPT !.balance =
         IF AccountId[u] = r.from THEN Column(data[h].from)
         ELSE IF AccountId[u] = r.to THEN Column(data[h].to) ELSE @]]
  BY RecordMovesBoth
<1>8. ASSUME NEW u \in User
      PROVE  (IF AccountId[u] = r.from THEN Column(data[h].from)
              ELSE IF AccountId[u] = r.to THEN Column(data[h].to)
              ELSE accounts[u].balance) = after(u)
  <2>1. /\ AccountId[u] = r.from => u = r.from
        /\ AccountId[u] = r.to => u = r.to
    BY <1>2, IdsApart DEF TransferInv
  <2>2. CASE AccountId[u] = r.from
    BY <1>6, <2>1, <2>2
  <2>3. CASE AccountId[u] # r.from /\ AccountId[u] = r.to
    BY <1>6, <2>1, <2>3
  <2>4. CASE AccountId[u] \notin {r.from, r.to}
    BY <2>4
  <2> QED
    BY <2>2, <2>3, <2>4
<1>9. accounts' = [u \in User |-> [accounts[u] EXCEPT !.balance = after(u)]]
  <2> HIDE DEF after
  <2> QED
    BY <1>7, <1>8
<1> QED
  BY <1>9

(* The history variable tells stale reads from fresh ones.                 *)
THEOREM FreshInvariant == Spec => []FreshInv
<1>1. Init => FreshInv
  BY InitFresh
<1>2. TransferInv /\ FreshInv /\ [Next]_vars => FreshInv'
  BY NextFresh
<1> QED
  BY <1>1, <1>2, TransferInvariant, PTL DEF Spec

(* A transfer that nobody interfered with moves its amount exactly, but    *)
(* for half of a last digit, and touches no other account.                 *)
THEOREM FreshAreExact == Spec => FreshTransfersExact
<1> DEFINE r(h) == req[h]
           up(h, u) == IF 2 * accounts[u].balance + r(h).amount >= 0 THEN 1 ELSE 0
           Exact ==
             \A h \in (records' \ records) \ stale :
               (\A u \in {r(h).from, r(h).to} :
                  Float64(accounts[u].balance) = accounts[u].balance) =>
               accounts' = [u \in User |-> [accounts[u] EXCEPT !.balance =
                 IF AccountId[u] = r(h).from    THEN @ - (r(h).amount \div 2)
                 ELSE IF AccountId[u] = r(h).to THEN @ + ((r(h).amount + up(h, u)) \div 2)
                 ELSE @]]
<1>1. TransferInv /\ TransferInv' /\ FreshInv /\ [Next]_vars => [Exact]_vars
  <2> SUFFICES ASSUME TransferInv, TransferInv', FreshInv, [Next]_vars,
                      NEW h \in (records' \ records) \ stale,
                      \A u \in {r(h).from, r(h).to} :
                        Float64(accounts[u].balance) = accounts[u].balance
               PROVE  accounts' = [u \in User |-> [accounts[u] EXCEPT !.balance =
                 IF AccountId[u] = r(h).from    THEN @ - (r(h).amount \div 2)
                 ELSE IF AccountId[u] = r(h).to THEN @ + ((r(h).amount + up(h, u)) \div 2)
                 ELSE @]]
    OBVIOUS
  <2>1. h \in Handler /\ Record(h)
    BY WhoRecords DEF TransferInv, TypeOK
  <2> QED
    BY <2>1, FreshRecordExact
<1> QED
  BY <1>1, TransferInvariant, FreshInvariant, PTL DEF Spec, FreshTransfersExact

(* What a recorded transfer leaves below zero: not its payer, and its      *)
(* payee only if it read a debt.                                           *)
LEMMA RecordLeavesDebt ==
  ASSUME TransferInv, FreshInv, NEW h \in Handler, Record(h),
         NEW u \in User, accounts'[u].balance < 0
  PROVE  /\ AccountId[u] # req[h].from
         /\ \/ accounts[u].balance < 0
            \/ AccountId[u] = req[h].to /\ h \in stale
<1>1. pc[h] = "commit" /\ pc[h] \in Checked /\ pc[h] \in Started
  BY DEF Record, Checked, Started, InTx
<1>2. /\ req[h] \in Request /\ Valid(req[h]) /\ req[h].to \in User
      /\ data[h].from >= 0 /\ data[h].from \in Int /\ data[h].to \in Int
  BY <1>1 DEF TransferInv, Own, Control, Funds, TypeOK
<1>3. accounts'[u] = [accounts[u] EXCEPT !.balance =
         IF AccountId[u] = req[h].from THEN Column(data[h].from)
         ELSE IF AccountId[u] = req[h].to THEN Column(data[h].to) ELSE @]
  BY RecordMovesBoth
<1>4. accounts[u] \in AccountRow /\ accounts[u].balance \in Int
  BY BalanceInt DEF TransferInv, RowsThere
<1>5. AccountId[u] # req[h].from
  <2>1. Column(data[h].from) \in Int /\ Column(data[h].from) >= 0
    BY <1>2, ColumnKeeps
  <2>2. AccountId[u] = req[h].from => accounts'[u].balance = Column(data[h].from)
    BY <1>3, <1>4 DEF AccountRow
  <2> QED
    BY <2>1, <2>2
<1>6. CASE AccountId[u] # req[h].to
  <2>1. accounts'[u].balance = accounts[u].balance
    BY <1>3, <1>4, <1>5, <1>6 DEF AccountRow
  <2> QED
    BY <1>5, <2>1
<1>7. CASE AccountId[u] = req[h].to /\ h \notin stale
  <2>1. u = req[h].to
    BY <1>2, <1>7, IdsApart DEF TransferInv
  <2>2. data[h].to = 2 * Float64(accounts[u].balance) + req[h].amount
    BY <1>1, <1>7, <2>1 DEF FreshInv, FreshData
  <2>3. accounts'[u].balance = Column(data[h].to)
    BY <1>3, <1>4, <1>5, <1>7 DEF AccountRow
  <2>4. data[h].to < 0
    BY <1>2, <2>3, ColumnKeeps
  <2>5. /\ Float64(accounts[u].balance) \in Int
        /\ accounts[u].balance >= 0 => Float64(accounts[u].balance) >= 0
    BY <1>4, Float64Keeps
  <2>6. req[h].amount \in Int /\ req[h].amount > 0
    BY <1>2, RequestAmount
  <2>7. Float64(accounts[u].balance) < 0
    BY <2>2, <2>4, <2>5, <2>6
  <2> QED
    BY <1>4, <1>5, <2>5, <2>7
<1> QED
  BY <1>5, <1>6, <1>7

(* No transfer overdraws anybody, although the funds are checked on a read *)
(* that the debit does not repeat: the debit writes what that read         *)
(* allowed.  Debts are the account service's, and what is left of them.    *)
THEOREM NoOverdraft == Spec => NeverOverdraws
<1>1. TransferInv /\ FreshInv /\ [Next]_vars =>
        [\A h \in records' \ records, u \in User : accounts'[u].balance < 0 =>
           /\ AccountId[u] # req[h].from
           /\ \/ accounts[u].balance < 0
              \/ AccountId[u] = req[h].to /\ h \in stale]_vars
  <2> SUFFICES ASSUME TransferInv, FreshInv, [Next]_vars, TransferInv',
                      NEW h \in records' \ records, NEW u \in User,
                      accounts'[u].balance < 0
               PROVE  /\ AccountId[u] # req[h].from
                      /\ \/ accounts[u].balance < 0
                         \/ AccountId[u] = req[h].to /\ h \in stale
    BY NextTransferInv
  <2>1. h \in Handler /\ Record(h)
    BY WhoRecords DEF TransferInv, TypeOK
  <2> QED
    BY <2>1, RecordLeavesDebt
<1> QED
  BY <1>1, TransferInvariant, FreshInvariant, PTL DEF Spec, NeverOverdraws
-----------------------------------------------------------------------------
(* A handler has a connection for itself exactly while it is inside        *)
(* RunInTx.                                                                *)
TxHeld == \A h \in Handler : h \in open <=> pc[h] \in InTx

LEMMA StepTxHeld ==
  ASSUME TypeOK, TxHeld, NEW h \in Handler, NEW label \in Labels, Goto(h, label),
         open' = IF label \in InTx THEN open \cup {h} ELSE open \ {h}
  PROVE  TxHeld'
<1>1. pc'[h] = label /\ \A g \in Handler \ {h} : pc'[g] = pc[g]
  BY DEF TypeOK, Goto
<1> QED
  BY <1>1 DEF TxHeld

(* A handler outside RunInTx, or inside it, that stays there.              *)
LEMMA StayTxHeld ==
  ASSUME TypeOK, TxHeld, NEW h \in Handler, NEW label \in Labels, Goto(h, label),
         open' = open, label \in InTx <=> pc[h] \in InTx
  PROVE  TxHeld'
<1>1. open' = IF label \in InTx THEN open \cup {h} ELSE open \ {h}
  BY DEF TxHeld
<1> QED
  BY <1>1, StepTxHeld

LEMMA AbandonTxHeld ==
  ASSUME TypeOK, TxHeld, NEW h \in Handler, Abandon(h)
  PROVE  TxHeld'
<1>1. Goto(h, "done") /\ open' = open \ {h} /\ "done" \in Labels /\ "done" \notin InTx
  BY DEF Abandon, Answer, Rollback, EndTx, Labels, InTx
<1> QED
  BY <1>1, StepTxHeld

LEMMA RefuseTxHeld ==
  ASSUME TypeOK, TxHeld, NEW h \in Handler, NEW code, Refuse(h, code),
         pc[h] \notin InTx
  PROVE  TxHeld'
<1>1. Goto(h, "done") /\ open' = open /\ "done" \in Labels /\ "done" \notin InTx
  BY DEF Refuse, Answer, dbVars, Labels, InTx
<1> QED
  BY <1>1, StayTxHeld

LEMMA StatementTxHeld ==
  ASSUME TypeOK, TxHeld, NEW h \in Handler, Debit(h) \/ Credit(h) \/ InsertRecord(h)
  PROVE  TxHeld'
<1>1. CASE Abandon(h)
  BY <1>1, AbandonTxHeld
<1>2. ASSUME NEW label \in {"credit", "insertRecord", "commit"}, Proceed(h, label),
             open' = open
      PROVE  TxHeld'
  <2>1. pc[h] \in InTx /\ label \in InTx /\ label \in Labels
    BY <1>2 DEF Debit, Credit, InsertRecord, InTx, Labels
  <2> QED
    BY <1>2, <2>1, StayTxHeld DEF Proceed
<1>3. ASSUME NEW id, NEW x, NEW label \in {"credit", "insertRecord"},
             SetBalance(h, id, x, label)
      PROVE  TxHeld'
  <2>1. Abandon(h) \/ (Proceed(h, label) /\ open' = open)
    BY <1>3 DEF SetBalance, WriteAccount, dbVars
  <2> QED
    BY <1>1, <1>2, <2>1
<1>4. CASE Debit(h)
  BY <1>3, <1>4 DEF Debit
<1>5. CASE Credit(h)
  BY <1>3, <1>5 DEF Credit
<1>6. CASE InsertRecord(h)
  BY <1>1, <1>2, <1>6 DEF InsertRecord, dbVars
<1> QED
  BY <1>4, <1>5, <1>6

LEMMA NextTxHeld ==
  ASSUME TypeOK, TxHeld, [Next]_vars
  PROVE  TxHeld'
<1>1. CASE UNCHANGED vars
  BY <1>1 DEF vars, dbVars, TxHeld
<1>2. CASE Crash
  BY <1>2 DEF Crash, LoseConnections, TxHeld, InTx
<1>3. CASE \E u \in User : Edit(u)
  BY <1>3 DEF Edit, TxHeld
<1>4. ASSUME NEW h \in Handler, Submit(h) \/ GetTransaction(h)
      PROVE  TxHeld'
  <2>1. pc[h] \notin InTx /\ open' = open
    BY <1>4 DEF Submit, GetTransaction, Refuse, dbVars, InTx
  <2>2. Goto(h, "readFrom") \/ Goto(h, "done")
    BY <1>4 DEF Submit, GetTransaction, Refuse, Answer
  <2> QED
    BY <2>1, <2>2, StayTxHeld DEF InTx, Labels
<1>5. ASSUME NEW h \in Handler, ReadFrom(h) \/ ReadTo(h) \/ Publish(h)
      PROVE  TxHeld'
  <2>1. pc[h] \notin InTx /\ open' = open
    BY <1>5 DEF ReadFrom, ReadTo, Publish, Refuse, dbVars, InTx
  <2>2. Goto(h, "readTo") \/ Goto(h, "begin") \/ Goto(h, "done")
    BY <1>5 DEF ReadFrom, ReadTo, Publish, Refuse, Answer
  <2> QED
    BY <2>1, <2>2, StayTxHeld DEF InTx, Labels
<1>6. ASSUME NEW h \in Handler, BeginTx(h)
      PROVE  TxHeld'
  <2>1. Goto(h, "debit") /\ open' = open \cup {h} /\ "debit" \in InTx /\ "debit" \in Labels
    BY <1>6 DEF BeginTx, Begin, Proceed, InTx, Labels
  <2> QED
    BY <2>1, StepTxHeld
<1>7. ASSUME NEW h \in Handler, CommitTx(h) \/ CommitUnacknowledged(h)
      PROVE  TxHeld'
  <2>1. open' = open \ {h} /\ (Goto(h, "publish") \/ Goto(h, "done"))
    BY <1>7 DEF CommitTx, CommitUnacknowledged, Record, Commit, EndTx, Answer
  <2> QED
    BY <2>1, StepTxHeld DEF InTx, Labels
<1>8. ASSUME NEW h \in Handler, StatementFails(h) \/ DeadlockVictim(h)
      PROVE  TxHeld'
  BY <1>8, AbandonTxHeld DEF StatementFails, DeadlockVictim
<1>9. ASSUME NEW h \in Handler, QueryFails(h) \/ PublishFails(h)
      PROVE  TxHeld'
  BY <1>9, RefuseTxHeld DEF QueryFails, PublishFails, InTx
<1> QED
  BY <1>1, <1>2, <1>3, <1>4, <1>5, <1>6, <1>7, <1>8, <1>9, StatementTxHeld
  DEF Next, Work, Fault

(* Only a handler inside RunInTx is in anybody's way.                      *)
LEMMA BlockersOpen ==
  ASSUME TransferInv, TxHeld, NEW h \in Handler
  PROVE  Blockers(h) \subseteq open
<1>1. ASSUME NEW g \in Handler, g \notin open
      PROVE  \A u \in User : accountWrites[g][u] = NoRow
  BY <1>1, NothingWritten DEF TxHeld, Debited, InTx
<1>2. \A u \in User : AccountLockers(h, u) \subseteq open
  BY <1>1 DEF AccountLockers
<1> QED
  BY <1>2 DEF Blockers, Matched

(* Transfers never come to a standstill, in whatever order they lock the   *)
(* rows and however few connections there are: somebody can go on, or      *)
(* those inside RunInTx include a ring that PostgreSQL breaks.             *)
THEOREM SomebodyGoesOn == Spec => []NeverStuck
<1> DEFINE Busy(h) == pc[h] \notin {"idle", "done", "lost"}
<1>1. ASSUME TransferInv, TxHeld, NEW h \in Handler, Busy(h),
             \A g \in Handler : ~Ready(g)
      PROVE  \E S \in SUBSET Handler : WaitRing(S)
  <2>1. open \subseteq Handler /\ IsFiniteSet(open)
    BY <1>1, HandlerAssumption, FS_Subset DEF TransferInv, TypeOK, DatabaseTypeOK
  <2>2. ASSUME NEW g \in open
        PROVE  Blockers(g) \cap open # {}
    <3>1. pc[g] \in InTx
      BY <1>1, <2>1 DEF TxHeld
    <3>2. Blockers(g) # {}
      BY <1>1, <2>1, <3>1 DEF Ready, InTx
    <3> QED
      BY <1>1, <2>1, <3>2, BlockersOpen
  <2>3. open # {}
    <3>1. SUFFICES ASSUME open = {}
                   PROVE  FALSE
      OBVIOUS
    <3>2. Blockers(h) = {}
      BY <1>1, <3>1, BlockersOpen
    <3>3. ConnectionFree
      BY <3>1, FS_EmptySet, PoolAssumption DEF ConnectionFree
    <3> QED
      BY <1>1, <3>2, <3>3 DEF Ready
  <2> DEFINE InWay == [g \in open |-> Blockers(g)]
  <2>4. PICK S \in SUBSET open :
          /\ S # {} /\ \A g \in S : InWay[g] \cap S # {}
          /\ \A g \in S : \E f \in S : g \in InWay[f]
    <3>1. \A g \in open : InWay[g] \cap open # {}
      BY <2>2
    <3> HIDE DEF InWay
    <3> QED
      BY <2>1, <2>3, <3>1, RingExists
  <2>5. WaitRing(S)
    BY <2>4 DEF WaitRing
  <2> QED
    BY <2>1, <2>5
<1>2. TransferInv /\ TxHeld => NeverStuck
  BY <1>1 DEF NeverStuck
<1>3. Spec => []TxHeld
  <2>1. Init => TxHeld
    BY DEF Init, TxHeld, InTx
  <2>2. TransferInv /\ TxHeld /\ [Next]_vars => TxHeld'
    BY NextTxHeld DEF TransferInv
  <2> QED
    BY <2>1, <2>2, TransferInvariant, PTL DEF Spec
<1> QED
  BY <1>2, <1>3, TransferInvariant, PTL
-----------------------------------------------------------------------------
(* What Bank sees of a step: an operation of the account service, the      *)
(* commit of one transfer, or at most one of the four things that a step   *)
(* can otherwise change.                                                   *)
Seen(h) ==
  \/ /\ pc[h] = "idle" /\ UNCHANGED <<data, events>>
     /\ \E r \in Request \cup Lookup : req' = [req EXCEPT ![h] = r]
  \/ /\ pc[h] \in {"readFrom", "readTo"} /\ UNCHANGED <<req, events>>
     /\ \A g \in Handler \ {h} : data'[g] = data[g]
  \/ /\ pc[h] = "publish" /\ UNCHANGED <<req, data>> /\ events' = events \cup {h}

Unseen == UNCHANGED <<req, data, events>>

committed == <<users, accounts, layout, edits, records>>

Begun(h) == pc[h] = "idle" => req[h] = None

RowsWhole ==
  \A u \in User : /\ users[u].deleted = accounts[u].deleted
                  /\ users[u].username = Owner[u].username

BankInv == TransferInv /\ RowsWhole /\ \A h \in Handler : Begun(h)

LEMMA ReadsSeen ==
  ASSUME TransferInv, NEW h \in Handler, ReadFrom(h) \/ ReadTo(h)
  PROVE  UNCHANGED committed /\ (Seen(h) \/ Unseen)
<1>1. data \in [Handler -> [from : Int, to : Int]]
  BY DEF TransferInv, TypeOK
<1>2. CASE Refuse(h, "Internal") \/ Refuse(h, "InvalidArgument")
  BY <1>2 DEF Refuse, Answer, Goto, dbVars, outputs, Unseen, committed
<1>3. CASE ReadFrom(h) /\ ~Refuse(h, "Internal")
  BY <1>1, <1>3 DEF ReadFrom, Goto, dbVars, outputs, committed, Seen
<1>4. CASE ReadTo(h) /\ ~Refuse(h, "Internal") /\ ~Refuse(h, "InvalidArgument")
  BY <1>1, <1>4 DEF ReadTo, Goto, dbVars, outputs, committed, Seen
<1> QED
  BY <1>2, <1>3, <1>4

LEMMA StepSeen ==
  ASSUME TransferInv, [Next]_vars
  PROVE  \/ \E u \in User : Edit(u)
         \/ \E h \in Handler : Record(h) /\ UNCHANGED <<layout, edits>>
         \/ UNCHANGED committed /\ (Unseen \/ \E h \in Handler : Seen(h))
<1>1. CASE UNCHANGED vars
  BY <1>1 DEF vars, dbVars, committed, Unseen
<1>2. CASE Crash
  BY <1>2 DEF Crash, LoseConnections, outputs, committed, Unseen
<1>3. ASSUME NEW h \in Handler, Submit(h) \/ GetTransaction(h)
      PROVE  UNCHANGED committed /\ (Unseen \/ Seen(h))
  BY <1>3 DEF Submit, GetTransaction, Refuse, Answer, Goto, dbVars, outputs,
    committed, Unseen, Seen
<1>4. ASSUME NEW h \in Handler,
             \/ DeadlockVictim(h) \/ QueryFails(h) \/ StatementFails(h)
             \/ PublishFails(h) \/ BeginTx(h)
      PROVE  UNCHANGED committed /\ Unseen
  BY <1>4 DEF DeadlockVictim, QueryFails, StatementFails, PublishFails, BeginTx, Begin,
    Refuse, Abandon, Rollback, Proceed, Answer, Goto, dbVars, outputs, committed, Unseen
<1>5. ASSUME NEW h \in Handler, Debit(h) \/ Credit(h) \/ InsertRecord(h)
      PROVE  UNCHANGED committed /\ Unseen
  BY <1>5 DEF Debit, Credit, InsertRecord, SetBalance, WriteAccount, Abandon,
    Rollback, Proceed, Answer, Goto, dbVars, outputs, committed, Unseen
<1>6. ASSUME NEW h \in Handler, Publish(h)
      PROVE  UNCHANGED committed /\ Seen(h)
  BY <1>6 DEF Publish, Answer, Goto, dbVars, committed, Seen
<1>7. ASSUME NEW h \in Handler, CommitTx(h) \/ CommitUnacknowledged(h)
      PROVE  Record(h) /\ UNCHANGED <<layout, edits>>
  BY <1>7 DEF CommitTx, CommitUnacknowledged, Answer, Goto
<1> QED
  BY <1>1, <1>2, <1>3, <1>4, <1>5, <1>6, <1>7, ReadsSeen DEF Next, Work, Fault
(* Who is idle after a step was idle before it and has not asked.          *)
LEMMA IdleStays ==
  ASSUME TransferInv, [Next]_vars, NEW g \in Handler, pc'[g] = "idle"
  PROVE  pc[g] = "idle" /\ req'[g] = req[g]
<1>1. /\ pc \in [Handler -> Labels]
      /\ req \in [Handler -> Request \cup Lookup \cup {None}]
  BY DEF TransferInv, TypeOK
<1>2. ASSUME NEW h \in Handler, NEW label, label # "idle", Goto(h, label),
             \A f \in Handler \ {h} : req'[f] = req[f]
      PROVE  pc[g] = "idle" /\ req'[g] = req[g]
  BY <1>1, <1>2 DEF Goto
<1>3. CASE UNCHANGED vars
  BY <1>3 DEF vars
<1>4. CASE Crash \/ \E u \in User : Edit(u)
  BY <1>1, <1>4 DEF Crash, Edit
<1>5. ASSUME NEW h \in Handler, Submit(h) \/ GetTransaction(h)
      PROVE  pc[g] = "idle" /\ req'[g] = req[g]
  <2>1. \A f \in Handler \ {h} : req'[f] = req[f]
    BY <1>1, <1>5 DEF Submit, GetTransaction, Refuse
  <2>2. Goto(h, "readFrom") \/ Goto(h, "done")
    BY <1>5 DEF Submit, GetTransaction, Refuse, Answer
  <2> QED
    BY <1>2, <2>1, <2>2
<1>6. ASSUME NEW h \in Handler,
             \/ DeadlockVictim(h) \/ QueryFails(h) \/ StatementFails(h)
             \/ PublishFails(h) \/ BeginTx(h) \/ ReadFrom(h) \/ ReadTo(h)
             \/ Debit(h) \/ Credit(h) \/ InsertRecord(h) \/ Publish(h)
             \/ CommitTx(h) \/ CommitUnacknowledged(h)
      PROVE  req' = req /\ \E label \in Labels \ {"idle"} : Goto(h, label)
  BY <1>6 DEF DeadlockVictim, QueryFails, StatementFails, PublishFails, BeginTx,
    ReadFrom, ReadTo, Debit, Credit, SetBalance, InsertRecord, Publish, CommitTx,
    CommitUnacknowledged, Record, Refuse, Abandon, Proceed, Answer, Labels, InTx
<1> QED
  BY <1>2, <1>3, <1>4, <1>5, <1>6 DEF Next, Work, Fault

LEMMA EditWhole ==
  ASSUME BankInv, NEW u \in User, Edit(u)
  PROVE  /\ RowsWhole'
         /\ \A v \in User \ {u} : users'[v] = users[v] /\ accounts'[v] = accounts[v]
         /\ users'[u].username = users[u].username
         /\ users'[u].password = users[u].password
         /\ \/ users'[u].deleted = users[u].deleted
            \/ users'[u].deleted /\ accounts'[u].balance = accounts[u].balance
<1>1. users \in [User -> UserRow] /\ accounts \in [User -> AccountRow]
  BY DEF BankInv, TransferInv, RowsThere
<1>2. CASE /\ users' = users
           /\ \E b \in NewBalances : accounts' = [accounts EXCEPT ![u].balance = b]
  <2>1. PICK b \in NewBalances : accounts' = [accounts EXCEPT ![u].balance = b]
    BY <1>2
  <2>2. accounts'[u].deleted = accounts[u].deleted
    BY <1>1, <2>1 DEF AccountRow
  <2> QED
    BY <1>1, <1>2, <2>1, <2>2 DEF BankInv, RowsWhole
<1>3. CASE /\ accounts' = [accounts EXCEPT ![u].deleted = TRUE]
           /\ users' = [users EXCEPT ![u].deleted = TRUE]
  <2>1. /\ accounts'[u].deleted = TRUE /\ accounts'[u].balance = accounts[u].balance
        /\ users'[u].deleted = TRUE /\ users'[u].username = users[u].username
        /\ users'[u].password = users[u].password
    BY <1>1, <1>3 DEF AccountRow, UserRow
  <2> QED
    BY <1>1, <1>3, <2>1 DEF BankInv, RowsWhole
<1> QED
  BY <1>2, <1>3 DEF Edit

LEMMA NextBankInv ==
  ASSUME BankInv, [Next]_vars
  PROVE  BankInv'
<1>1. TransferInv'
  BY NextTransferInv DEF BankInv
<1>2. \A h \in Handler : Begun(h)'
  BY IdleStays DEF BankInv, Begun
<1>3. RowsWhole'
  <2>1. CASE \E u \in User : Edit(u)
    BY <2>1, EditWhole
  <2>2. ASSUME NEW h \in Handler, Record(h)
        PROVE  RowsWhole'
    BY <2>2, RecordRows DEF BankInv, RowsWhole
  <2>3. CASE UNCHANGED committed
    BY <2>3 DEF BankInv, RowsWhole, committed
  <2> QED
    BY <2>1, <2>2, <2>3, StepSeen DEF BankInv
<1> QED
  BY <1>1, <1>2, <1>3 DEF BankInv
-----------------------------------------------------------------------------
(* The account that Bank sees at u.                                        *)
AccountAt(u) ==
  [username |-> users[u].username, password |-> users[u].password,
   balance  |-> accounts[u].balance, deleted |-> users[u].deleted]

LEMMA AccountSeenAt ==
  ASSUME BankInv, NEW u \in User
  PROVE  /\ CommittedAccounts[u] = AccountAt(u)
         /\ AccountAt(u) \in B!R!Account /\ AccountAt(u) # NoRow
<1>1. users[u] \in UserRow /\ accounts[u] \in AccountRow
      /\ users[u].deleted = accounts[u].deleted
  BY DEF BankInv, TransferInv, RowsThere, RowsWhole
<1>2. AccountAt(u) \in B!R!Account
  BY <1>1 DEF AccountAt, B!R!Account, UserRow, AccountRow
<1>3. CommittedAccounts[u] = AccountAt(u)
  BY <1>1 DEF CommittedAccounts, AccountAt
<1> QED
  BY <1>2, <1>3, NoAccountAssumption

LEMMA RowOfIs ==
  ASSUME TypeOK, NEW id
  PROVE  /\ RowOf(id) \in B!Party
         /\ \A u \in User : RowOf(id) = u <=> AccountId[u] = id
<1>1. CASE \A u \in User : AccountId[u] # id
  BY <1>1, NoAccountAssumption DEF RowOf, Matched, B!Party
<1>2. ASSUME NEW v \in User, AccountId[v] = id
      PROVE  RowOf(id) = v
  BY <1>2, IdsApart DEF RowOf, Matched
<1>3. ASSUME NEW v \in User, AccountId[v] = id
      PROVE  \A u \in User : RowOf(id) = u <=> AccountId[u] = id
  BY <1>2, <1>3, IdsApart
<1> QED
  BY <1>1, <1>2, <1>3 DEF B!Party

(* A request that is accepted asks for a transfer, a question for one that *)
(* was made does not.                                                      *)
LEMMA AskedSeen ==
  ASSUME BankInv, NEW h \in Handler, UNCHANGED committed, pc[h] = "idle",
         UNCHANGED <<data, events>>,
         NEW r \in Request \cup Lookup, req' = [req EXCEPT ![h] = r]
  PROVE  [B!Next]_B!vars
<1>1. TypeOK /\ req[h] = None
  BY DEF BankInv, TransferInv, Begun
<1>2. \A id : RowOf(id)' = RowOf(id)
  BY DEF RowOf, Matched, AccountId, committed
<1>3. UNCHANGED <<CommittedAccounts, edits, Terms, records, events>>
  BY DEF committed, CommittedAccounts, Terms
<1> DEFINE p == [from |-> RowOf(r.from), to |-> RowOf(r.to)]
<1>4. Asked[h] = NoRow
  BY <1>1, NoneAssumption DEF Asked
<1>5. Asked' = [Asked EXCEPT ![h] = IF r \in Request THEN p ELSE NoRow]
  <2>1. \A g \in Handler : req'[g] = IF g = h THEN r ELSE req[g]
    BY <1>1 DEF TypeOK
  <2>2. \A g \in Handler : Asked'[g] = IF g = h THEN (IF r \in Request THEN p ELSE NoRow)
                                                ELSE Asked[g]
    BY <1>2, <2>1 DEF Asked
  <2> QED
    BY <2>2 DEF Asked
<1>6. CASE r \in Request
  <2>1. p \in [from : B!Party, to : B!Party]
    BY <1>1, RowOfIs
  <2>2. Asked' = [Asked EXCEPT ![h] = p]
    BY <1>5, <1>6
  <2> HIDE DEF p
  <2>3. B!Ask(h)
    BY <1>3, <1>4, <2>1, <2>2 DEF B!Ask
  <2> QED
    BY <2>3 DEF B!Next
<1>7. CASE r \notin Request
  <2>1. Asked' = Asked
    BY <1>4, <1>5, <1>7 DEF Asked
  <2> QED
    BY <1>3, <2>1 DEF B!vars
<1> QED
  BY <1>6, <1>7
(* A balance read, or a new one worked out, is a step of its own.          *)
LEMMA ReckoningSeen ==
  ASSUME BankInv, BankInv', NEW h \in Handler, UNCHANGED committed,
         pc[h] \in {"readFrom", "readTo"}, UNCHANGED <<req, events>>,
         \A g \in Handler \ {h} : data'[g] = data[g]
  PROVE  [B!Next]_B!vars
<1>1. UNCHANGED <<CommittedAccounts, edits, Asked, records, events>>
  BY DEF committed, CommittedAccounts, Asked, RowOf, Matched, AccountId
<1>2. Terms' \in [Handler -> [payer : Int, payee : Int]]
  <2>1. \A g \in Handler : Column(data'[g].from) \in Int /\ Column(data'[g].to) \in Int
    BY ColumnKeeps DEF BankInv, TransferInv, TypeOK
  <2> QED
    BY <2>1 DEF Terms, Column
<1>3. \A g \in Handler \ {h} : Terms'[g] = Terms[g]
  BY DEF Terms, Column
<1>4. Asked[h] # NoRow /\ h \notin records
  <2>1. req[h] \in Request /\ h \notin records
    BY DEF BankInv, TransferInv, Own, Control, Started, Backed, Unrecorded, Labels
  <2>2. Asked[h] \in [from : B!Party, to : B!Party]
    BY <2>1, RowOfIs DEF Asked, BankInv, TransferInv
  <2> QED
    BY <2>1, <2>2, NoAccountAssumption DEF Asked
<1> QED
  BY <1>1, <1>2, <1>3, <1>4 DEF B!Reckon, B!Next

LEMMA PublishSeen ==
  ASSUME BankInv, NEW h \in Handler, UNCHANGED committed, pc[h] = "publish",
         UNCHANGED <<req, data>>, events' = events \cup {h}
  PROVE  [B!Next]_B!vars
<1>1. UNCHANGED <<CommittedAccounts, edits, Asked, Terms, records>>
  BY DEF committed, CommittedAccounts, Asked, RowOf, Matched, AccountId, Terms
<1>2. h \in records
  BY DEF BankInv, TransferInv, Own, Backed
<1> QED
  BY <1>1, <1>2 DEF B!Announce, B!Next, B!vars

(* The commit of a transfer moves money from one account to another.       *)
LEMMA RecordSeen ==
  ASSUME BankInv, BankInv', NEW h \in Handler, Record(h), UNCHANGED <<layout, edits>>
  PROVE  B!Next
<1> DEFINE r == req[h]
<1>1. TypeOK /\ data[h].from \in Int /\ data[h].to \in Int
  BY DEF BankInv, TransferInv, TypeOK
<1>2. /\ r \in Request /\ r.from # r.to /\ data[h].from >= 0 /\ h \notin records
  <2>1. pc[h] = "commit"
    BY DEF Record
  <2> QED
    BY <2>1 DEF BankInv, TransferInv, Own, Control, Funds, Backed, Started, Checked,
      InTx, Unrecorded, Labels
<1>3. UNCHANGED <<edits, Asked, Terms, events>> /\ records' = records \cup {h}
  BY DEF Record, Asked, RowOf, Matched, AccountId, Terms
<1>4. /\ Asked[h] = [from |-> RowOf(r.from), to |-> RowOf(r.to)]
      /\ Asked[h].from = RowOf(r.from) /\ Asked[h].to = RowOf(r.to)
  BY <1>2 DEF Asked
<1>5. Asked[h] \in B!Parties
  <2>1. RowOf(r.from) \in B!Party /\ RowOf(r.to) \in B!Party
    BY <1>1, RowOfIs
  <2>2. RowOf(r.from) = RowOf(r.to) => RowOf(r.from) = NoRow
    <3>1. \A u \in User : ~(AccountId[u] = r.from /\ AccountId[u] = r.to)
      BY <1>2
    <3> QED
      BY <1>1, <2>1, <3>1, RowOfIs DEF B!Party
  <2>3. \A u \in User : B!R!Known(u)
    BY AccountSeenAt DEF B!R!Known
  <2> QED
    BY <1>4, <2>1, <2>2, <2>3 DEF B!Parties, B!Party
<1>6. Terms[h] = [payer |-> Column(data[h].from), payee |-> Column(data[h].to)]
      /\ Terms[h].payer >= 0
  BY <1>1, <1>2, ColumnKeeps DEF Terms
<1>7. ASSUME NEW u \in User
      PROVE  CommittedAccounts'[u] =
        IF u = Asked[h].from THEN [CommittedAccounts[u] EXCEPT !.balance = Terms[h].payer]
        ELSE IF u = Asked[h].to
        THEN [CommittedAccounts[u] EXCEPT !.balance = Terms[h].payee]
        ELSE CommittedAccounts[u]
  <2> DEFINE n == IF AccountId[u] = r.from THEN Column(data[h].from)
                  ELSE IF AccountId[u] = r.to THEN Column(data[h].to)
                  ELSE accounts[u].balance
  <2>1. accounts'[u].balance = n /\ users'[u] = users[u]
        /\ accounts'[u].deleted = accounts[u].deleted
    <3>1. accounts[u] \in AccountRow
      BY DEF BankInv, TransferInv, RowsThere
    <3>2. accounts'[u] = [accounts[u] EXCEPT !.balance = n]
      BY RecordMovesBoth DEF BankInv
    <3> HIDE DEF n
    <3>3. accounts'[u].balance = n /\ accounts'[u].deleted = accounts[u].deleted
      BY <3>1, <3>2 DEF AccountRow
    <3> QED
      BY <3>3, RecordRows DEF BankInv
  <2>2. CommittedAccounts'[u] =
          [username |-> users[u].username, password |-> users[u].password,
           balance  |-> n, deleted |-> users[u].deleted]
    BY <2>1 DEF CommittedAccounts, BankInv, RowsWhole
  <2>3. CommittedAccounts[u] = AccountAt(u)
    BY AccountSeenAt
  <2>4. /\ u = Asked[h].from <=> AccountId[u] = r.from
        /\ u = Asked[h].to   <=> AccountId[u] = r.to
    <3>1. /\ RowOf(r.from) = u <=> AccountId[u] = r.from
          /\ RowOf(r.to) = u <=> AccountId[u] = r.to
      BY <1>1, RowOfIs
    <3> QED
      BY <1>4, <3>1
  <2>5. CASE AccountId[u] = r.from
    <3>1. CommittedAccounts'[u] = [AccountAt(u) EXCEPT !.balance = Terms[h].payer]
      BY <1>6, <2>2, <2>5 DEF AccountAt
    <3> QED
      BY <2>3, <2>4, <2>5, <3>1
  <2>6. CASE AccountId[u] # r.from /\ AccountId[u] = r.to
    <3>1. CommittedAccounts'[u] = [AccountAt(u) EXCEPT !.balance = Terms[h].payee]
      BY <1>6, <2>2, <2>6 DEF AccountAt
    <3> QED
      BY <2>3, <2>4, <2>6, <3>1
  <2>7. CASE AccountId[u] \notin {r.from, r.to}
    <3>1. CommittedAccounts'[u] = AccountAt(u)
      BY <2>2, <2>7 DEF AccountAt
    <3> QED
      BY <2>3, <2>4, <2>7, <3>1
  <2> QED
    BY <2>5, <2>6, <2>7
<1>8. B!Move(h)
  <2>1. CommittedAccounts' = [u \in User |-> CommittedAccounts'[u]]
    BY DEF CommittedAccounts
  <2> QED
    BY <1>2, <1>3, <1>5, <1>6, <1>7, <2>1 DEF B!Move
<1> QED
  BY <1>8 DEF B!Next

(* A commit of the account service is an operation of Registry.            *)
LEMMA EditSeen ==
  ASSUME BankInv, BankInv', NEW u \in User, Edit(u)
  PROVE  B!Next
<1> DEFINE a == [username |-> users'[u].username, password |-> users'[u].password,
                 balance  |-> accounts'[u].balance, deleted |-> users'[u].deleted]
<1>1. /\ edits' = edits + 1
      /\ UNCHANGED <<Asked, Terms, records, events>>
  BY DEF Edit, Asked, RowOf, Matched, AccountId, Terms
<1>2. /\ \A v \in User \ {u} : users'[v] = users[v] /\ accounts'[v] = accounts[v]
      /\ users'[u].username = users[u].username
      /\ users'[u].password = users[u].password
      /\ \/ users'[u].deleted = users[u].deleted
         \/ users'[u].deleted /\ accounts'[u].balance = accounts[u].balance
  BY EditWhole
<1>3. a \in B!R!Account /\ CommittedAccounts'[u] = a
  <2>1. users'[u] \in UserRow /\ accounts'[u] \in AccountRow
        /\ users'[u].deleted = accounts'[u].deleted
    BY DEF BankInv, TransferInv, RowsThere, RowsWhole
  <2> QED
    BY <2>1 DEF CommittedAccounts, B!R!Account, UserRow, AccountRow
<1>4. CommittedAccounts[u] = AccountAt(u) /\ B!R!Known(u)
  BY AccountSeenAt DEF B!R!Known
<1>5. B!R!NameFree(u, a.username)
  <2>1. ASSUME NEW v \in User \ {u}
        PROVE  CommittedAccounts[v].username # a.username
    <3>1. CommittedAccounts[v].username = users[v].username
      <4>1. CommittedAccounts[v] = AccountAt(v)
        BY AccountSeenAt
      <4> QED
        BY <4>1 DEF AccountAt
    <3>2. users[v].username # users[u].username
      BY OwnerAssumption DEF BankInv, RowsWhole
    <3> QED
      BY <1>2, <3>1, <3>2
  <2> QED
    BY <2>1 DEF B!R!NameFree
<1>6. B!R!Put(u, a)
  <2>1. \A v \in User : CommittedAccounts'[v] = IF v = u THEN a ELSE CommittedAccounts[v]
    BY <1>2, <1>3 DEF CommittedAccounts
  <2>2. CommittedAccounts' = [CommittedAccounts EXCEPT ![u] = a]
    BY <2>1 DEF CommittedAccounts
  <2> QED
    BY <2>2 DEF B!R!Put
<1>7. CASE users'[u].deleted = users[u].deleted
  <2>1. a.deleted = CommittedAccounts[u].deleted
    BY <1>4, <1>7 DEF AccountAt
  <2> HIDE DEF a
  <2>2. B!R!Update(u)
    BY <1>3, <1>4, <1>5, <1>6, <2>1 DEF B!R!Update
  <2> QED
    BY <1>1, <2>2 DEF B!R!Next, B!AccountService, B!Next
<1>8. CASE users'[u].deleted /\ accounts'[u].balance = accounts[u].balance
  <2>1. /\ a.deleted /\ a.username = CommittedAccounts[u].username
        /\ a.password = CommittedAccounts[u].password
        /\ a.balance = CommittedAccounts[u].balance
    BY <1>2, <1>4, <1>8 DEF AccountAt
  <2> HIDE DEF a
  <2>2. B!R!Delete(u)
    BY <1>3, <1>4, <1>6, <2>1 DEF B!R!Delete
  <2> QED
    BY <1>1, <2>2 DEF B!R!Next, B!AccountService, B!Next
<1> QED
  BY <1>2, <1>7, <1>8

LEMMA InitBank ==
  ASSUME Init
  PROVE  BankInv /\ B!Init
<1>1. BankInv
  BY InitTransferInv, OwnerAssumption DEF Init, BankInv, RowsWhole, Begun
<1>2. CommittedAccounts \in [User -> B!R!Account \cup {NoRow}]
  BY <1>1, AccountSeenAt DEF CommittedAccounts
<1>3. Asked = [h \in Handler |-> NoRow]
  BY NoneAssumption DEF Init, Asked
<1>4. Terms = [h \in Handler |-> [payer |-> 0, payee |-> 0]]
  BY DEF Init, Terms, Column
<1> QED
  BY <1>1, <1>2, <1>3, <1>4 DEF Init, B!Init

(* However transfers overlap, fail and crash, and whatever the account     *)
(* service does to the same rows meanwhile, they are to its registry what  *)
(* single steps are that move money from one account to another.           *)
THEOREM BankImplemented == Spec => ImplementsBank
<1>1. BankInv /\ BankInv' /\ [Next]_vars => [B!Next]_B!vars
  <2> SUFFICES ASSUME BankInv, BankInv', [Next]_vars
               PROVE  [B!Next]_B!vars
    OBVIOUS
  <2>1. CASE UNCHANGED committed /\ Unseen
    BY <2>1 DEF committed, Unseen, B!vars, CommittedAccounts, Asked, RowOf, Matched,
      AccountId, Terms
  <2>2. ASSUME NEW h \in Handler, UNCHANGED committed, Seen(h)
        PROVE  [B!Next]_B!vars
    BY <2>2, AskedSeen, ReckoningSeen, PublishSeen DEF Seen
  <2> QED
    BY <2>1, <2>2, RecordSeen, EditSeen, StepSeen DEF BankInv
<1>2. BankInv /\ [Next]_vars => BankInv'
  BY NextBankInv
<1>3. Init => BankInv /\ B!Init
  BY InitBank
<1> QED
  BY <1>1, <1>2, <1>3, PTL DEF Spec, ImplementsBank, B!Spec
=============================================================================
