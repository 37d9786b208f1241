---------------------------- MODULE MCTransfers -----------------------------
(* Small instances of Transfers for TLC.                                   *)
EXTENDS Transfers

CONSTANTS u1, u2, u3,      \* users, as ids too
          i1, i2, i3,      \* ids of account rows that CreateAccount generated
          a, b, c, p

MCOwner ==
  [u \in {u1, u2, u3} |->
     [username |-> CASE u = u1 -> a [] u = u2 -> b [] u = u3 -> c,
      password |-> p, deleted |-> u = u3]]

(* Two live accounts and a deleted one.                                    *)
MCOpening ==
  [u \in {u1, u2, u3} |->
     [balance |-> CASE u = u1 -> 2 [] u = u2 -> 1 [] u = u3 -> 1,
      deleted |-> u = u3]]

(* What an update leaves: a debt that one credit does not clear, or enough *)
(* for a transfer.                                                         *)
DebtOrFunds == {-4, 3}

(* CreateAccount draws the user's id and the account's independently.      *)
GeneratedIds == [u \in {u1, u2, u3} |-> CASE u = u1 -> i1 [] u = u2 -> i2 [] u = u3 -> i3]

(* Rows loaded with the same id in both tables; one made by CreateAccount. *)
SharedIds == [u \in {u1, u2, u3} |-> u]
MixedIds  == [SharedIds EXCEPT ![u2] = i2]

(* dbank_transactions as the first migration creates it ...                *)
MigratedTable ==
  [columns  |-> {"pk", "id", "account_pk", "transaction_type", "amount",
                 "currency", "transaction_date", "description", "created_at",
                 "updated_at", "deleted_at"},
   required |-> {"id", "account_pk", "transaction_type", "amount", "currency"},
   intId    |-> FALSE, textTimes |-> FALSE]

(* ... and as Store.CreateTransaction expects it.                          *)
ExpectedTable ==
  [columns  |-> InsertColumns \cup {"id", "created_at", "updated_at", "deleted_at"},
   required |-> {"from_account_id", "to_account_id", "transaction_type", "amount"},
   intId    |-> TRUE, textTimes |-> TRUE]

(* Databases made by hand for the statements, with rows of either kind,    *)
(* and ones the program's migration made.                                  *)
FittingLayout  == [accountId |-> SharedIds, table |-> ExpectedTable]
MixedLayout    == [accountId |-> MixedIds, table |-> ExpectedTable]
MigratedLayout == [accountId |-> MixedIds, table |-> MigratedTable]
ProgramLayout  == [accountId |-> GeneratedIds, table |-> MigratedTable]

AllLayouts     == {FittingLayout, MixedLayout, MigratedLayout}
FittingLayouts == {FittingLayout}
ProgramLayouts == {ProgramLayout}
=============================================================================
