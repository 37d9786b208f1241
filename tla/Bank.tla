-------------------------------- MODULE Bank --------------------------------
(***************************************************************************)
(* What the transaction service promises, over the accounts that Registry  *)
(* promises.  A transfer has one account to take from and one to give to   *)
(* and reckons the balances it will leave them.  It takes effect on both   *)
(* of them at once, when it is recorded: once or never.  It leaves its     *)
(* payer no debt, and is announced afterwards, once or never.  That it     *)
(* reckons with the newest balances is not promised.                       *)
(***************************************************************************)
EXTENDS Integers

CONSTANTS
  User, Username, Password, BalanceColumn, NoRow,  \* those of Registry
  Transfer       \* what may be asked for

VARIABLES
  registry,      \* the accounts
  edits,         \* operations of the account service so far
  asked,         \* the accounts of each transfer, NoRow before it is asked for
  terms,         \* the balances it will leave its payer and its payee
  records,       \* the transfers that have taken effect
  events         \* the transfers that are announced

vars == <<registry, edits, asked, terms, records, events>>

R == INSTANCE Registry WITH Reserved <- {}

(* NoRow stands for an account that there is none of.                      *)
Party == User \cup {NoRow}

(* Two accounts, of which both, one or none exist.                         *)
Parties == {p \in [from : Party, to : Party] :
  /\ p.from = p.to => p.from = NoRow
  /\ \A u \in {p.from, p.to} : u = NoRow \/ R!Known(u)}

Init ==
  /\ registry \in [User -> R!Account \cup {NoRow}]
  /\ edits = 0
  /\ asked = [t \in Transfer |-> NoRow]
  /\ terms = [t \in Transfer |-> [payer |-> 0, payee |-> 0]]
  /\ records = {} /\ events = {}

(* The account service works on the same accounts.                         *)
AccountService ==
  /\ edits' = edits + 1
  /\ UNCHANGED <<asked, terms, records, events>>
  /\ R!Next

Ask(t) ==
  /\ asked[t] = NoRow
  /\ \E p \in [from : Party, to : Party] : asked' = [asked EXCEPT ![t] = p]
  /\ UNCHANGED <<registry, edits, terms, records, events>>

Reckon(t) ==
  /\ asked[t] # NoRow /\ t \notin records
  /\ terms' \in [Transfer -> [payer : Int, payee : Int]]
  /\ \A s \in Transfer \ {t} : terms'[s] = terms[s]
  /\ UNCHANGED <<registry, edits, asked, records, events>>

Move(t) ==
  /\ asked[t] \in Parties /\ t \notin records
  /\ terms[t].payer >= 0
  /\ registry' = [u \in User |->
       IF u = asked[t].from    THEN [registry[u] EXCEPT !.balance = terms[t].payer]
       ELSE IF u = asked[t].to THEN [registry[u] EXCEPT !.balance = terms[t].payee]
       ELSE registry[u]]
  /\ records' = records \cup {t}
  /\ UNCHANGED <<edits, asked, terms, events>>

Announce(t) ==
  /\ t \in records \ events
  /\ events' = events \cup {t}
  /\ UNCHANGED <<registry, edits, asked, terms, records>>

Next ==
  \/ \E t \in Transfer : Ask(t) \/ Reckon(t) \/ Move(t) \/ Announce(t)
  \/ AccountService

Spec == Init /\ [][Next]_vars
=============================================================================
