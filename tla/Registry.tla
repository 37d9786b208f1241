------------------------------ MODULE Registry ------------------------------
(***************************************************************************)
(* What the two tables promise to be: a table of accounts that are         *)
(* created, changed and deleted one at a time.  A user and its account are *)
(* one thing, names are unique, and a deleted account keeps its name and   *)
(* stays deleted.                                                          *)
(***************************************************************************)

CONSTANTS
  User,           \* ids of accounts
  Username,       \* names
  Password,       \* hashes of passwords
  BalanceColumn,  \* balances
  Reserved,       \* names that users without an account have
  NoRow           \* no such account

VARIABLE registry

Known(u) == registry[u] # NoRow
Live(u)  == Known(u) /\ ~registry[u].deleted

NameFree(u, name) ==
  /\ name \notin Reserved
  /\ \A v \in User \ {u} : Known(v) => registry[v].username # name

Account == [username : Username, password : Password, balance : BalanceColumn,
            deleted : BOOLEAN]

Put(u, a) == registry' = [registry EXCEPT ![u] = a]

Init == registry = [u \in User |-> NoRow]

Create(u) == \E a \in Account :
  ~Known(u) /\ ~a.deleted /\ NameFree(u, a.username) /\ Put(u, a)

(* Any change of one account, by an update or by a transfer, a deleted one *)
(* too: both may have read it before it was deleted.  What the change may  *)
(* be is up to them.                                                       *)
Update(u) == \E a \in Account :
  /\ Known(u) /\ a.deleted = registry[u].deleted
  /\ NameFree(u, a.username) /\ Put(u, a)

(* The account's row stays, marked as deleted.                             *)
Delete(u) == \E a \in Account :
  /\ Known(u) /\ a.deleted /\ Put(u, a)
  /\ a.username = registry[u].username /\ a.password = registry[u].password
  /\ a.balance = registry[u].balance

Next == \E u \in User : Create(u) \/ Update(u) \/ Delete(u)

Spec == Init /\ [][Next]_registry
=============================================================================
