--------------------------- MODULE DatabaseProofs ---------------------------
(***************************************************************************)
(* What the proofs about both services need of the database they share.    *)
(***************************************************************************)
EXTENDS Database, FiniteSetTheorems, TLAPS

(* A float64 rounds to a whole number of last digits, and keeps the sign.  *)
LEMMA Float64Int ==
  ASSUME NEW b \in Int
  PROVE  Float64(b) \in Int
  BY BalanceAssumption DEF Float64

LEMMA Float64Keeps ==
  ASSUME NEW b \in Int
  PROVE  /\ Float64(b) \in Int
         /\ b >= 0 => Float64(b) >= 0
  BY BalanceAssumption DEF Float64

(* Transactions end with no row written.                                   *)
LEMMA EndTxClears ==
  ASSUME DatabaseTypeOK, NEW h \in Handler, EndTx(h)
  PROVE  /\ open' \in SUBSET Handler
         /\ userWrites' \in [Handler -> [User -> UserRow \cup {NoRow}]]
         /\ accountWrites' \in [Handler -> [User -> AccountRow \cup {NoRow}]]
         /\ \A u \in User : userWrites'[h][u] = NoRow /\ accountWrites'[h][u] = NoRow
         /\ \A g \in Handler \ {h} : /\ userWrites'[g] = userWrites[g]
                                     /\ accountWrites'[g] = accountWrites[g]
  BY DEF EndTx, NoWrites, DatabaseTypeOK
-----------------------------------------------------------------------------
(* Where everybody waits for somebody there is a ring of them: the least   *)
(* set whose members all have one of it in their way.                      *)
LEMMA RingExists ==
  ASSUME NEW W, IsFiniteSet(W), W # {}, NEW B,
         \A g \in W : B[g] \cap W # {}
  PROVE  \E S \in SUBSET W :
           /\ S # {} /\ \A g \in S : B[g] \cap S # {}
           /\ \A g \in S : \E f \in S : g \in B[f]
<1> DEFINE Waiting == {S \in SUBSET W : S # {} /\ \A g \in S : B[g] \cap S # {}}
<1>1. Waiting \subseteq SUBSET W /\ Waiting # {}
  <2>1. W \in Waiting
    OBVIOUS
  <2> QED
    BY <2>1
<1>2. IsWellFoundedOn(StrictSubsetOrdering(W), SUBSET W)
  BY FS_StrictSubsetOrderingWellFounded, FS_FiniteSubsetsOfFinite
<1>3. \E x \in Waiting : \A y \in Waiting : ~(<<y, x>> \in StrictSubsetOrdering(W))
  <2> HIDE DEF Waiting
  <2> QED
    BY <1>1, <1>2, WFMin
<1>4. PICK S \in Waiting : \A y \in Waiting : ~(<<y, S>> \in StrictSubsetOrdering(W))
  BY <1>3
<1> DEFINE Needed == {g \in S : \E f \in S : g \in B[f]}
<1>5. Needed \in Waiting
  <2>1. Needed # {}
    BY <1>4
  <2>2. ASSUME NEW g \in Needed
        PROVE  B[g] \cap Needed # {}
    BY <1>4
  <2> QED
    BY <1>4, <2>1, <2>2
<1>6. Needed = S
  <2>1. <<Needed, S>> \notin StrictSubsetOrdering(W)
    BY <1>4, <1>5
  <2>2. <<Needed, S>> \in (SUBSET W) \X (SUBSET W) /\ Needed \subseteq S
    BY <1>4
  <2> QED
    BY <2>1, <2>2 DEF StrictSubsetOrdering
<1>7. S \in SUBSET W /\ S # {} /\ \A g \in S : B[g] \cap S # {}
  BY <1>4
<1>8. \A g \in S : \E f \in S : g \in B[f]
  BY <1>6
<1> HIDE DEF Waiting, Needed
<1> QED
  BY <1>7, <1>8
=============================================================================
