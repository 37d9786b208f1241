----------------------------- MODULE MCAccounts -----------------------------
(* Small instances of Accounts for TLC.                                    *)
EXTENDS Accounts, TLC

CONSTANTS alice, a, p   \* the migration's user, its name and its password

MCSeedRow ==
  [u \in {alice} |-> [username |-> a, password |-> p, deleted |-> FALSE]]

MCNoSeedRow == [u \in {} |-> {}]

(* Handlers are interchangeable, and so are the ids not yet given out and the *)
(* names and passwords that the migration's users do not have: no definition *)
(* tells one of them from another.                                           *)
Symmetry ==
  Permutations(Handler) \cup Permutations(User \ Seed)
    \cup Permutations(Username \ {SeedRow[s].username : s \in Seed})
    \cup Permutations(Password \ {SeedRow[s].password : s \in Seed})
=============================================================================
