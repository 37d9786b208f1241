------------------------------ MODULE MCPaging ------------------------------
(* Small instance of Paging for TLC.                                       *)
EXTENDS Paging, TLC

CONSTANTS u1, u2, u3, a, b, c, p

Symmetry == Permutations(User) \cup Permutations(Username)
=============================================================================
