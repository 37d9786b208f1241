---------------------------- MODULE Bookkeeping -----------------------------
(***************************************************************************)
(* What the ledger promises: every entry is one half of a pair that is     *)
(* made at once, for a transfer that was made before and is not settled    *)
(* yet.  A transfer is settled when it has a pair; nothing settled is      *)
(* entered again, and no entry goes away.  A transfer that is never        *)
(* settled may have any number of pairs, or none.                          *)
(***************************************************************************)
EXTENDS Naturals

CONSTANTS Message,  \* what may ask for entries
          Transfer  \* what may have them

VARIABLES made, settled, entries

Init ==
  /\ made = {} /\ settled = {}
  /\ entries = [m \in Message |-> [debit |-> 0, credit |-> 0]]

Make(m) ==
  /\ m \notin made
  /\ made' = made \cup {m}
  /\ UNCHANGED <<settled, entries>>

Enter(m) ==
  /\ m \in made \ settled
  /\ entries' = [entries EXCEPT ![m].debit = @ + 1, ![m].credit = @ + 1]
  /\ UNCHANGED <<made, settled>>

Settle(m) ==
  /\ m \in made \ settled /\ entries[m].debit > 0
  /\ settled' = settled \cup {m}
  /\ UNCHANGED <<made, entries>>

Next == \E m \in Transfer : Make(m) \/ Enter(m) \/ Settle(m)

Spec == Init /\ [][Next]_<<made, settled, entries>>
=============================================================================
