---------------------------- MODULE PagingProofs ----------------------------
(***************************************************************************)
(* Theorems about Paging, for any set of users with fewer members than     *)
(* PostgreSQL has keys, any width of the numbers and any page size: what a *)
(* walk of the list skips is bounded by what was deleted during it, what   *)
(* it repeats by what was created, and page 0 never shows anything.        *)
(***************************************************************************)
EXTENDS Paging, FiniteSetTheorems, SequenceTheorems, TLAPS

(* Accounts in front of u in the list, and its place there.                *)
Before(u) == {v \in LiveSet : stamp[v] > stamp[u]}
Rank(u)   == Cardinality(Before(u))

(* How many rows the walk has asked for.                                   *)
Done == (page - 1) * size

(* Accounts the walk can no longer show, and those it will show again, if  *)
(* nothing changes any more.                                               *)
Missed == {u \in began : seen[u] = 0 /\ (~Live(u) \/ Rank(u) < Done)}
Again  == {u \in LiveSet : seen[u] > 0 /\ Rank(u) >= Done}

WalkInv ==
  /\ page > 0 => size > 0 /\ Done <= Cardinality(User) /\ ~ended
  /\ \A u \in began : Known(u)
  /\ \A u \in User : seen[u] > 0 => Known(u)

SkipInv ==
  /\ SkipsOnlyByDeletion
  /\ page > 0 /\ Distinct => Cardinality(Missed) <= deleted

RepeatInv ==
  /\ RepeatsOnlyByCreation
  /\ IsFiniteSet(Repetitions)
  /\ page > 0 /\ Distinct =>
       Cardinality(Repetitions) + Cardinality(Again) <= created

PagingInv == TypeOK /\ WalkInv /\ SkipInv /\ RepeatInv
-----------------------------------------------------------------------------
(* Arithmetic of the offset.                                               *)
LEMMA ModSmall ==
  ASSUME NEW m \in Nat, NEW k \in 0 .. m - 1
  PROVE  k % m = k
  OBVIOUS

LEMMA ModNegative ==
  ASSUME NEW m \in Nat, NEW k \in 1 .. m - 1
  PROVE  (-k) % m = m - k
  OBVIOUS

LEMMA ModRange ==
  ASSUME NEW m \in Nat, m > 0, NEW k \in Int
  PROVE  k % m \in 0 .. m - 1
  OBVIOUS

LEMMA Product ==
  ASSUME NEW k \in Nat, NEW n \in Nat
  PROVE  /\ k * n \in Nat
         /\ (k + 1) * n = k * n + n
         /\ n > 0 => k * n >= k
  OBVIOUS
-----------------------------------------------------------------------------
(* Places in the list.                                                     *)
LEMMA SetsFinite ==
  /\ IsFiniteSet(LiveSet) /\ Cardinality(LiveSet) \in Nat
  /\ Cardinality(User) \in Nat /\ Cardinality(LiveSet) <= Cardinality(User)
  /\ \A u : IsFiniteSet(Before(u)) /\ Rank(u) \in Nat
<1>1. LiveSet \in SUBSET User /\ \A u : Before(u) \in SUBSET LiveSet
  BY DEF LiveSet, Before
<1>2. IsFiniteSet(LiveSet) /\ Cardinality(LiveSet) <= Cardinality(User)
  BY <1>1, UserAssumption, FS_Subset
<1>3. \A u : IsFiniteSet(Before(u))
  BY <1>1, <1>2, FS_Subset
<1> QED
  BY <1>2, <1>3, UserAssumption, FS_CardinalityType DEF Rank

(* Accounts with different times have different places.                    *)
LEMMA RanksDiffer ==
  ASSUME stamp \in [User -> Nat], Distinct,
         NEW u \in LiveSet, NEW v \in LiveSet, u # v
  PROVE  Rank(u) # Rank(v)
<1>1. /\ u \in Existing /\ v \in Existing /\ u \in User /\ v \in User
      /\ stamp[u] # stamp[v] /\ stamp[u] \in Nat /\ stamp[v] \in Nat
  BY DEF LiveSet, Live, Existing, Distinct
<1>2. ASSUME NEW x \in LiveSet, NEW y \in LiveSet, stamp[x] > stamp[y]
      PROVE  Rank(x) # Rank(y)
  <2>1. x \in Before(y) /\ x \notin Before(x)
    BY <1>2 DEF Before, LiveSet
  <2>2. Before(x) \in SUBSET Before(y)
    BY <1>2 DEF Before, LiveSet
  <2> QED
    BY <2>1, <2>2, SetsFinite, FS_Subset DEF Rank
<1> QED
  BY <1>1, <1>2

(* A query lists the accounts in the order of their places.                *)
LEMMA OrderIsOnto ==
  ASSUME NEW s \in Orders
  PROVE  /\ s \in [1 .. Cardinality(LiveSet) -> LiveSet]
         /\ s \in Seq(LiveSet) /\ Len(s) = Cardinality(LiveSet)
         /\ \A i, j \in 1 .. Cardinality(LiveSet) : i # j => s[i] # s[j]
         /\ \A u \in LiveSet : \E i \in 1 .. Cardinality(LiveSet) : s[i] = u
<1> DEFINE N == Cardinality(LiveSet)
<1>1. /\ s \in [1 .. N -> LiveSet]
      /\ \A i, j \in 1 .. N : i # j => s[i] # s[j]
  BY DEF Orders, SetToSeqs
<1>2. N \in Nat /\ IsFiniteSet(LiveSet)
  BY SetsFinite
<1>3. s \in Seq(LiveSet) /\ Len(s) = N
  <2> HIDE DEF N
  <2> QED
    BY <1>1, <1>2
<1>4. Cardinality(1 .. N) = N
  <2> HIDE DEF N
  <2> QED
    BY <1>2, FS_Interval
<1>5. s \in Injection(1 .. N, LiveSet)
  BY <1>1 DEF Injection, IsInjective
<1>6. s \in Surjection(1 .. N, LiveSet)
  BY <1>2, <1>4, <1>5, FS_Injection
<1> QED
  BY <1>1, <1>3, <1>6 DEF Surjection

LEMMA OrderByRank ==
  ASSUME stamp \in [User -> Nat], Distinct, NEW s \in Orders,
         NEW i \in 1 .. Cardinality(LiveSet)
  PROVE  Rank(s[i]) = i - 1
<1> DEFINE N == Cardinality(LiveSet)
           first == [j \in 1 .. i - 1 |-> s[j]]
<1>1. /\ s \in [1 .. N -> LiveSet] /\ N \in Nat /\ Len(s) = N
      /\ \A j, k \in 1 .. N : j # k => s[j] # s[k]
      /\ \A u \in LiveSet : \E j \in 1 .. N : s[j] = u
  BY OrderIsOnto, SetsFinite
<1>2. \A j \in 1 .. N : s[j] \in Existing /\ stamp[s[j]] \in Nat
  BY <1>1 DEF LiveSet, Live, Existing
<1>3. \A j, k \in 1 .. N : j < k => stamp[s[j]] > stamp[s[k]]
  <2> SUFFICES ASSUME NEW j \in 1 .. N, NEW k \in 1 .. N, j < k
               PROVE  stamp[s[j]] > stamp[s[k]]
    OBVIOUS
  <2>1. stamp[s[j]] >= stamp[s[k]]
    BY <1>1 DEF Orders
  <2>2. stamp[s[j]] # stamp[s[k]]
    BY <1>1, <1>2 DEF Distinct
  <2> QED
    BY <1>2, <2>1, <2>2
<1>4. \A u \in LiveSet : u \in Before(s[i]) <=> \E j \in 1 .. i - 1 : s[j] = u
  <2> SUFFICES ASSUME NEW j \in 1 .. N
               PROVE  s[j] \in Before(s[i]) <=> j < i
    <3>1. ASSUME NEW u \in LiveSet
          PROVE  u \in Before(s[i]) <=> \E k \in 1 .. i - 1 : s[k] = u
      <4>1. PICK k \in 1 .. N : s[k] = u
        BY <1>1
      <4>2. \A l \in 1 .. i - 1 : l \in 1 .. N /\ l < i
        BY <1>1
      <4>3. u \in Before(s[i]) <=> k < i
        BY <4>1
      <4>4. (\E l \in 1 .. i - 1 : s[l] = u) <=> k < i
        BY <1>1, <4>1, <4>2
      <4> QED
        BY <4>3, <4>4
    <3> QED
      BY <3>1
  <2>1. CASE j < i
    BY <1>1, <1>3, <2>1 DEF Before
  <2>2. CASE j = i
    BY <1>1, <1>2, <2>2 DEF Before
  <2>3. CASE j > i
    <3>1. stamp[s[i]] > stamp[s[j]]
      BY <1>3, <2>3
    <3> QED
      BY <1>1, <1>2, <2>3, <3>1 DEF Before
  <2> QED
    BY <1>1, <2>1, <2>2, <2>3
<1>5. first \in Bijection(1 .. i - 1, Before(s[i]))
  <2>1. \A j \in 1 .. i - 1 : j \in 1 .. N /\ s[j] \in LiveSet
    BY <1>1
  <2>2. \A j \in 1 .. i - 1 : s[j] \in Before(s[i])
    BY <1>4, <2>1
  <2>3. first \in [1 .. i - 1 -> Before(s[i])]
    BY <2>2
  <2>4. first \in Injection(1 .. i - 1, Before(s[i]))
    BY <1>1, <2>1, <2>3 DEF Injection, IsInjective
  <2>5. \A u \in Before(s[i]) : \E j \in 1 .. i - 1 : first[j] = u
    BY <1>4 DEF Before
  <2> QED
    BY <2>3, <2>4, <2>5 DEF Surjection, Bijection
<1>6. i - 1 \in Nat
  BY <1>1
<1> QED
  BY <1>5, <1>6, FS_CountingElements DEF ExistsBijection, Rank
-----------------------------------------------------------------------------
(* The rows of a page.                                                     *)
LEMMA OffsetTyped ==
  ASSUME NEW p \in Unsigned, NEW n \in Unsigned
  PROVE  Offset(p, n) \in Unsigned /\ Offset(p, n) \in Nat /\ n \in Nat
<1>1. (p - 1) * n \in Int /\ 2 * Half \in Nat /\ 2 * Half > 0
  BY BoundAssumption DEF Unsigned
<1>2. Offset(p, n) \in 0 .. 2 * Half - 1
  BY <1>1, ModRange DEF Offset
<1> QED
  BY <1>1, <1>2 DEF Unsigned

LEMMA CutRows ==
  ASSUME NEW s \in Orders, NEW p \in Unsigned, NEW n \in Unsigned
  PROVE  LET N == Cardinality(LiveSet)
             o == Offset(p, n)
         IN /\ Cut(s, p, n) \in Seq(LiveSet)
            /\ Len(Cut(s, p, n)) = IF o >= N THEN 0 ELSE IF o + n < N THEN n ELSE N - o
            /\ \A i \in 1 .. Len(Cut(s, p, n)) : Cut(s, p, n)[i] = s[o + i]
<1> DEFINE N == Cardinality(LiveSet)
           o == Offset(p, n)
           last == IF o + n < N THEN o + n ELSE N
<1>1. /\ s \in [1 .. N -> LiveSet] /\ Len(s) = N /\ N \in Nat
      /\ o \in Nat /\ n \in Nat
  BY OrderIsOnto, SetsFinite, OffsetTyped
<1>2. Cut(s, p, n) = SubSeq(s, o + 1, last)
  BY <1>1 DEF Cut
<1> HIDE DEF o, N
<1>3. /\ o + 1 \in Int /\ last \in Int
      /\ \A i \in o + 1 .. last : s[i] \in LiveSet
  BY <1>1
<1> HIDE DEF last
<1>4. /\ SubSeq(s, o + 1, last) \in Seq(LiveSet)
      /\ Len(SubSeq(s, o + 1, last)) =
           IF o + 1 <= last THEN last - (o + 1) + 1 ELSE 0
      /\ \A i \in 1 .. last - (o + 1) + 1 :
           SubSeq(s, o + 1, last)[i] = s[o + 1 + i - 1]
  BY <1>3, SubSeqProperties
<1>5. Len(Cut(s, p, n)) = IF o >= N THEN 0 ELSE IF o + n < N THEN n ELSE N - o
  BY <1>1, <1>2, <1>3, <1>4 DEF last
<1>6. \A i \in 1 .. Len(Cut(s, p, n)) : Cut(s, p, n)[i] = s[o + i]
  <2> SUFFICES ASSUME NEW i \in 1 .. Len(Cut(s, p, n))
               PROVE  Cut(s, p, n)[i] = s[o + i]
    OBVIOUS
  <2>1. i \in 1 .. last - (o + 1) + 1 /\ o + 1 + i - 1 = o + i
    BY <1>1, <1>2, <1>3, <1>4
  <2> QED
    BY <1>2, <1>4, <2>1
<1> QED
  BY <1>2, <1>4, <1>5, <1>6 DEF o, N

LEMMA RowsTyped ==
  ASSUME NEW p \in Unsigned, NEW n \in Unsigned, NEW rows \in GetAllAccounts(p, n)
  PROVE  rows \in Seq(User) /\ Len(rows) <= n
<1>1. n \in Nat /\ LiveSet \subseteq User
  BY BoundAssumption DEF Unsigned, LiveSet
<1>2. CASE rows = << >>
  BY <1>1, <1>2
<1>3. ASSUME NEW s \in Orders, rows = Cut(s, p, n)
      PROVE  rows \in Seq(User) /\ Len(rows) <= n
  <2>1. /\ rows \in Seq(LiveSet)
        /\ Cardinality(LiveSet) \in Nat /\ Offset(p, n) \in Nat
        /\ Len(rows) = IF Offset(p, n) >= Cardinality(LiveSet) THEN 0
                       ELSE IF Offset(p, n) + n < Cardinality(LiveSet) THEN n
                       ELSE Cardinality(LiveSet) - Offset(p, n)
    BY <1>3, CutRows, SetsFinite, OffsetTyped
  <2> QED
    BY <1>1, <2>1
<1> QED
  BY <1>2, <1>3 DEF GetAllAccounts

(* A walk counts its pages from 1 and comes to no offset beyond the last   *)
(* account, so its offsets neither wrap around nor are refused.            *)
LEMMA WalkOffset ==
  ASSUME TypeOK, WalkInv, page > 0
  PROVE  /\ page \in Unsigned /\ size \in Unsigned /\ size \in Nat \ {0}
         /\ Done \in Nat /\ Done < Half /\ page <= Done + 1
         /\ Offset(page, size) = Done /\ Readable(size) /\ Readable(Done)
<1>1. /\ page \in Nat \ {0} /\ size \in Nat \ {0} /\ size < Half /\ Half \in Nat
      /\ page \in Unsigned /\ size \in Unsigned
  BY BoundAssumption DEF TypeOK, WalkInv, Unsigned
<1>2. Done \in Nat /\ Done >= page - 1
  <2>1. page - 1 \in Nat
    BY <1>1
  <2> QED
    BY <1>1, <2>1, Product DEF Done
<1>3. Done < Half
  BY <1>1, <1>2, SetsFinite, UserAssumption DEF WalkInv
<1>4. 2 * Half \in Nat /\ Done \in 0 .. 2 * Half - 1
  BY <1>1, <1>2, <1>3
<1>5. Offset(page, size) = Done
  BY <1>4, ModSmall DEF Offset, Done
<1> QED
  BY <1>1, <1>2, <1>3, <1>5 DEF Readable

(* A page shows the accounts whose places it stands for, and is full       *)
(* exactly if there are enough.                                            *)
LEMMA PageRows ==
  ASSUME TypeOK, WalkInv, page > 0, NEW rows \in GetAllAccounts(page, size)
  PROVE  /\ Len(rows) \in Nat /\ Len(rows) <= size
         /\ Len(rows) = size => Done + size <= Cardinality(LiveSet)
         /\ ToSet(rows) \subseteq LiveSet
         /\ Distinct => \A u \in LiveSet :
              /\ u \in ToSet(rows) <=> Rank(u) >= Done /\ Rank(u) < Done + size
              /\ Len(rows) < size => Rank(u) < Done + size
<1> DEFINE N == Cardinality(LiveSet)
<1>1. /\ page \in Unsigned /\ size \in Unsigned /\ size \in Nat \ {0}
      /\ Done \in Nat /\ Offset(page, size) = Done /\ N \in Nat
  BY WalkOffset, SetsFinite
<1>2. PICK s \in Orders : rows = Cut(s, page, size)
  BY WalkOffset DEF GetAllAccounts
<1>3. /\ rows \in Seq(LiveSet)
      /\ Len(rows) = IF Done >= N THEN 0 ELSE IF Done + size < N THEN size ELSE N - Done
      /\ \A i \in 1 .. Len(rows) : rows[i] = s[Done + i]
  BY <1>1, <1>2, CutRows
<1>4. /\ Len(rows) \in Nat /\ Len(rows) <= size
      /\ Len(rows) = size => Done + size <= N
      /\ Len(rows) < size => N < Done + size
  <2> HIDE DEF N
  <2> QED
    BY <1>1, <1>3
<1>5. ToSet(rows) = {rows[i] : i \in 1 .. Len(rows)} /\ ToSet(rows) \subseteq LiveSet
  BY <1>3 DEF ToSet
<1>6. ASSUME Distinct, NEW u \in LiveSet
      PROVE  /\ u \in ToSet(rows) <=> Rank(u) >= Done /\ Rank(u) < Done + size
             /\ Len(rows) < size => Rank(u) < Done + size
  <2>1. stamp \in [User -> Nat]
    BY BoundAssumption DEF TypeOK
  <2>2. PICK i \in 1 .. N : s[i] = u
    BY OrderIsOnto
  <2>3. Rank(u) = i - 1 /\ i \in Nat /\ i <= N
    BY <1>1, <1>6, <2>1, <2>2, OrderByRank
  <2>4. u \in ToSet(rows) <=> \E j \in 1 .. Len(rows) : Done + j = i
    <3>1. \A j \in 1 .. Len(rows) : Done + j \in 1 .. N
      <4> HIDE DEF N
      <4> QED
        BY <1>1, <1>3
    <3>2. \A k, l \in 1 .. N : k # l => s[k] # s[l]
      BY OrderIsOnto
    <3>3. ASSUME NEW j \in 1 .. Len(rows)
          PROVE  rows[j] = u <=> Done + j = i
      <4>1. rows[j] = s[Done + j] /\ Done + j \in 1 .. N
        BY <1>3, <3>1
      <4> QED
        BY <2>2, <3>2, <4>1
    <3> QED
      BY <1>5, <3>3
  <2>5. (\E j \in 1 .. Len(rows) : Done + j = i) <=> i > Done /\ i <= Done + Len(rows)
    BY <1>1, <1>4, <2>3
  <2>6. i > Done /\ i <= Done + Len(rows) <=> Rank(u) >= Done /\ Rank(u) < Done + size
    <3> HIDE DEF N
    <3> QED
      BY <1>1, <1>3, <1>4, <2>3
  <2>7. Len(rows) < size => Rank(u) < Done + size
    <3> HIDE DEF N
    <3> QED
      BY <1>1, <1>4, <2>3
  <2> QED
    BY <2>4, <2>5, <2>6, <2>7
<1> QED
  BY <1>4, <1>5, <1>6
-----------------------------------------------------------------------------
(* What the operations do to the list.                                     *)
LEMMA PutKnown ==
  ASSUME TypeOK, NEW u \in User, NEW a \in Account, Put(u, a)
  PROVE  /\ registry' \in [User -> Account \cup {NoRow}]
         /\ registry'[u] = a /\ Known(u)' /\ (Live(u)' <=> ~a.deleted)
         /\ \A v \in User \ {u} : registry'[v] = registry[v]
<1>1. /\ registry' \in [User -> Account \cup {NoRow}] /\ registry'[u] = a
      /\ \A v \in User \ {u} : registry'[v] = registry[v]
  BY DEF Put, TypeOK
<1> QED
  BY <1>1, RowAssumption DEF Known, Live

LEMMA OthersKnown ==
  ASSUME NEW v, registry'[v] = registry[v]
  PROVE  (Known(v)' <=> Known(v)) /\ (Live(v)' <=> Live(v))
  BY DEF Known, Live

LEMMA CreateList ==
  ASSUME TypeOK, NEW u \in User, CreateAccount(u)
  PROVE  /\ registry' \in [User -> Account \cup {NoRow}]
         /\ stamp' \in [User -> 0 .. MaxStamp]
         /\ \A v \in User \ {u} : stamp'[v] = stamp[v]
         /\ u \notin Existing /\ Existing' = Existing \cup {u}
         /\ u \notin LiveSet /\ LiveSet' = LiveSet \cup {u}
<1>1. PICK a \in Account : ~Known(u) /\ ~a.deleted /\ Put(u, a)
  BY DEF CreateAccount, Create
<1>2. /\ registry' \in [User -> Account \cup {NoRow}] /\ Known(u)' /\ Live(u)'
      /\ \A v \in User \ {u} : (Known(v)' <=> Known(v)) /\ (Live(v)' <=> Live(v))
  BY <1>1, PutKnown, OthersKnown
<1>3. /\ stamp' \in [User -> 0 .. MaxStamp]
      /\ \A v \in User \ {u} : stamp'[v] = stamp[v]
  BY BoundAssumption DEF CreateAccount, TypeOK
<1>4. Existing' = Existing \cup {u} /\ LiveSet' = LiveSet \cup {u}
  BY <1>2 DEF Existing, LiveSet
<1>5. u \notin Existing /\ u \notin LiveSet
  BY <1>1 DEF Existing, LiveSet, Live
<1> QED
  BY <1>2, <1>3, <1>4, <1>5

LEMMA UpdateList ==
  ASSUME TypeOK, NEW u \in User, UpdateAccount(u)
  PROVE  /\ registry' \in [User -> Account \cup {NoRow}] /\ stamp' = stamp
         /\ Existing' = Existing /\ LiveSet' = LiveSet
<1>1. PICK a \in Account : /\ Known(u) /\ a.deleted = registry[u].deleted
                           /\ Put(u, a)
  BY DEF UpdateAccount, Update
<1>2. /\ registry' \in [User -> Account \cup {NoRow}]
      /\ Known(u)' /\ (Live(u)' <=> Live(u))
      /\ \A v \in User \ {u} : (Known(v)' <=> Known(v)) /\ (Live(v)' <=> Live(v))
  BY <1>1, PutKnown, OthersKnown DEF Live
<1>3. Existing' = Existing /\ LiveSet' = LiveSet
  BY <1>1, <1>2 DEF Existing, LiveSet
<1> QED
  BY <1>2, <1>3 DEF UpdateAccount

LEMMA DeleteList ==
  ASSUME TypeOK, NEW u \in User, DeleteAccount(u)
  PROVE  /\ registry' \in [User -> Account \cup {NoRow}] /\ stamp' = stamp
         /\ Existing' = Existing
         /\ u \in LiveSet /\ LiveSet' = LiveSet \ {u}
<1>1. PICK a \in Account : Known(u) /\ a.deleted /\ Put(u, a)
  BY DEF DeleteAccount, Delete
<1>2. /\ registry' \in [User -> Account \cup {NoRow}] /\ Known(u)' /\ ~Live(u)'
      /\ \A v \in User \ {u} : (Known(v)' <=> Known(v)) /\ (Live(v)' <=> Live(v))
  BY <1>1, PutKnown, OthersKnown
<1>3. Existing' = Existing /\ LiveSet' = LiveSet \ {u}
  BY <1>1, <1>2 DEF Existing, LiveSet
<1> QED
  BY <1>2, <1>3 DEF DeleteAccount, LiveSet

LEMMA DistinctBefore ==
  ASSUME Distinct', Existing \subseteq Existing',
         \A u \in Existing : stamp'[u] = stamp[u]
  PROVE  Distinct
  BY DEF Distinct

LEMMA OneMore ==
  ASSUME NEW S, IsFiniteSet(S), NEW x, NEW T, T \subseteq S \cup {x}
  PROVE  /\ IsFiniteSet(T) /\ Cardinality(T) \in Nat /\ Cardinality(S) \in Nat
         /\ Cardinality(T) <= Cardinality(S) + 1
<1>1. /\ IsFiniteSet(S \cup {x})
      /\ Cardinality(S \cup {x}) \in {Cardinality(S), Cardinality(S) + 1}
  BY FS_AddElement
<1>2. IsFiniteSet(T) /\ Cardinality(T) <= Cardinality(S \cup {x})
  BY <1>1, FS_Subset
<1> QED
  BY <1>1, <1>2, FS_CardinalityType

LEMMA NoMore ==
  ASSUME NEW S, IsFiniteSet(S), NEW T, T \subseteq S
  PROVE  /\ IsFiniteSet(T) /\ Cardinality(T) \in Nat /\ Cardinality(S) \in Nat
         /\ Cardinality(T) <= Cardinality(S)
  BY FS_Subset, FS_CardinalityType

LEMMA CountsFinite ==
  ASSUME TypeOK
  PROVE  /\ IsFiniteSet(Missed) /\ IsFiniteSet(Again)
         /\ Cardinality(Missed) \in Nat /\ Cardinality(Again) \in Nat
<1>1. Missed \in SUBSET User /\ Again \in SUBSET User
  BY DEF TypeOK, Missed, Again, LiveSet
<1> QED
  BY <1>1, UserAssumption, FS_Subset, FS_CardinalityType

(* A deletion draws the accounts behind it forward by one place, a         *)
(* creation pushes them back by one.                                       *)
LEMMA RankAfterDelete ==
  ASSUME NEW u \in LiveSet, LiveSet' = LiveSet \ {u}, stamp' = stamp, NEW v
  PROVE  /\ Rank(v)' = IF u \in Before(v) THEN Rank(v) - 1 ELSE Rank(v)
         /\ Rank(v) \in Nat
<1>1. Before(v)' = Before(v) \ {u}
  BY DEF Before
<1> QED
  BY <1>1, SetsFinite, FS_RemoveElement DEF Rank

LEMMA RankAfterCreate ==
  ASSUME NEW u \in User, u \notin LiveSet, LiveSet' = LiveSet \cup {u},
         \A w \in User \ {u} : stamp'[w] = stamp[w], NEW v \in User \ {u}
  PROVE  Rank(v) \in Nat /\ Rank(v)' \in {Rank(v), Rank(v) + 1}
<1>1. Before(v)' = Before(v) \/ Before(v)' = Before(v) \cup {u}
  <2>1. Before(v)' = Before(v) \cup {w \in {u} : stamp'[w] > stamp[v]}
    BY DEF Before, LiveSet
  <2> QED
    BY <2>1
<1> QED
  BY <1>1, SetsFinite, FS_AddElement DEF Rank
-----------------------------------------------------------------------------
(* Operations on accounts while a walk goes on.                            *)
LEMMA CreateInv ==
  ASSUME PagingInv, NEW c \in User, CreateAccount(c)
  PROVE  PagingInv'
<1>1. TypeOK /\ WalkInv /\ SkipInv /\ RepeatInv
  BY DEF PagingInv
<1>2. /\ registry' \in [User -> Account \cup {NoRow}]
      /\ stamp' \in [User -> 0 .. MaxStamp]
      /\ \A v \in User \ {c} : stamp'[v] = stamp[v]
      /\ c \notin Existing /\ Existing' = Existing \cup {c}
      /\ c \notin LiveSet /\ LiveSet' = LiveSet \cup {c}
  BY <1>1, CreateList
<1>3. /\ UNCHANGED <<reply, size, page, seen, began, ended, deleted>>
      /\ created' = (IF page > 0 THEN created + 1 ELSE created)
      /\ created \in Nat /\ deleted \in Nat /\ page \in Nat
      /\ seen \in [User -> Nat] /\ began \in SUBSET User
  BY <1>1 DEF CreateAccount, walkVars, TypeOK, Unsigned
<1>4. TypeOK'
  <2>1. created' \in Nat
    BY <1>3
  <2> QED
    BY <1>1, <1>2, <1>3, <2>1 DEF TypeOK
<1>5. WalkInv'
  <2>1. \A u \in User : Known(u) => Known(u)'
    BY <1>2 DEF Existing
  <2> QED
    BY <1>1, <1>3, <2>1 DEF WalkInv, Done
<1>6. /\ c \notin began /\ seen[c] = 0
      /\ Done' = Done /\ Repetitions' = Repetitions
      /\ Distinct' => Distinct
  <2>1. Distinct' => Distinct
    BY <1>2, DistinctBefore DEF Existing
  <2> QED
    BY <1>1, <1>2, <1>3, <2>1 DEF WalkInv, Existing, Done, Repetitions
<1>7. ASSUME page > 0, Distinct' PROVE Cardinality(Missed') <= deleted
  <2>1. \A u \in began : u # c /\ Rank(u) \in Nat /\ Rank(u)' \in {Rank(u), Rank(u) + 1}
    BY <1>2, <1>3, <1>6, RankAfterCreate
  <2>2. \A u \in began : Live(u)' <=> Live(u)
    BY <1>2, <1>3, <2>1 DEF LiveSet
  <2>3. Done \in Int
    BY <1>1, <1>7, WalkOffset
  <2>4. ASSUME NEW u \in began, Rank(u)' < Done PROVE Rank(u) < Done
    BY <2>1, <2>3, <2>4
  <2>5. Missed' \subseteq Missed
    BY <1>3, <1>6, <2>2, <2>4 DEF Missed
  <2> QED
    BY <1>1, <1>3, <1>6, <1>7, <2>5, CountsFinite, NoMore DEF SkipInv
<1>8. ASSUME page > 0, Distinct'
      PROVE  Cardinality(Repetitions) + Cardinality(Again') <= created + 1
  <2>1. \A u \in LiveSet : u # c /\ Rank(u) \in Nat /\ Rank(u)' \in {Rank(u), Rank(u) + 1}
    BY <1>2, RankAfterCreate DEF LiveSet
  <2>2. Done \in Int /\ Distinct /\ stamp \in [User -> Nat]
    BY <1>1, <1>6, <1>8, WalkOffset, BoundAssumption DEF TypeOK
  <2>3. \A u \in Again' : u \in LiveSet /\ seen[u] > 0 /\ Rank(u)' >= Done
    BY <1>2, <1>3, <1>6 DEF Again
  <2>4. ASSUME NEW u \in Again', u \notin Again PROVE Rank(u) = Done - 1
    <3>1. ~(Rank(u) >= Done) /\ Rank(u) \in Nat
      BY <2>1, <2>3, <2>4 DEF Again
    <3> QED
      BY <2>1, <2>2, <2>3, <3>1
  <2>5. \A u, v \in Again' \ Again : u = v
    BY <2>2, <2>3, <2>4, RanksDiffer
  <2>6. \E x : Again' \subseteq Again \cup {x}
    BY <2>5
  <2>7. Cardinality(Again') <= Cardinality(Again) + 1 /\ Cardinality(Again') \in Nat
    BY <1>1, <2>6, CountsFinite, OneMore
  <2>8. /\ Cardinality(Repetitions) + Cardinality(Again) <= created
        /\ Cardinality(Again) \in Nat /\ Cardinality(Repetitions) \in Nat
    BY <1>1, <1>8, <2>2, CountsFinite, FS_CardinalityType DEF RepeatInv
  <2> QED
    BY <1>3, <2>7, <2>8
<1>9. SkipInv'
  BY <1>1, <1>3, <1>6, <1>7 DEF SkipInv, SkipsOnlyByDeletion
<1>10. RepeatInv'
  <2>1. Cardinality(Repetitions) \in Nat
    BY <1>1, FS_CardinalityType DEF RepeatInv
  <2>2. Distinct' => Cardinality(Repetitions) <= created'
    BY <1>1, <1>3, <1>6, <2>1 DEF RepeatInv, RepeatsOnlyByCreation
  <2>3. page' > 0 /\ Distinct' =>
          Cardinality(Repetitions) + Cardinality(Again') <= created'
    BY <1>3, <1>8
  <2> QED
    BY <1>1, <1>6, <2>2, <2>3 DEF RepeatInv, RepeatsOnlyByCreation
<1> QED
  BY <1>4, <1>5, <1>9, <1>10 DEF PagingInv

LEMMA UpdateInv ==
  ASSUME PagingInv, NEW c \in User, UpdateAccount(c)
  PROVE  PagingInv'
<1>1. TypeOK /\ WalkInv /\ SkipInv /\ RepeatInv
  BY DEF PagingInv
<1>2. /\ registry' \in [User -> Account \cup {NoRow}]
      /\ UNCHANGED <<stamp, reply, size, page, seen, began, ended, created, deleted>>
      /\ Existing' = Existing /\ LiveSet' = LiveSet
  BY <1>1, UpdateList DEF UpdateAccount, walkVars
<1>3. TypeOK'
  BY <1>1, <1>2 DEF TypeOK
<1>4. /\ began \in SUBSET User
      /\ \A u \in User : (Known(u)' <=> Known(u)) /\ (Live(u)' <=> Live(u))
  BY <1>1, <1>2 DEF Existing, LiveSet, TypeOK
<1>5. /\ Distinct' <=> Distinct
      /\ Repetitions' = Repetitions /\ Done' = Done
      /\ \A u : Rank(u)' = Rank(u)
  BY <1>2 DEF Distinct, Repetitions, Done, Rank, Before
<1>6. Missed' = Missed /\ Again' = Again
  BY <1>2, <1>4, <1>5 DEF Missed, Again
<1>7. WalkInv'
  BY <1>1, <1>2, <1>4, <1>5 DEF WalkInv
<1>8. SkipInv' /\ RepeatInv'
  BY <1>1, <1>2, <1>5, <1>6
     DEF SkipInv, RepeatInv, SkipsOnlyByDeletion, RepeatsOnlyByCreation
<1> QED
  BY <1>3, <1>7, <1>8 DEF PagingInv

LEMMA DeleteInv ==
  ASSUME PagingInv, NEW d \in User, DeleteAccount(d)
  PROVE  PagingInv'
<1>1. TypeOK /\ WalkInv /\ SkipInv /\ RepeatInv
  BY DEF PagingInv
<1>2. /\ registry' \in [User -> Account \cup {NoRow}] /\ stamp' = stamp
      /\ Existing' = Existing
      /\ d \in LiveSet /\ LiveSet' = LiveSet \ {d}
  BY <1>1, DeleteList
<1>3. /\ UNCHANGED <<reply, size, page, seen, began, ended, created>>
      /\ deleted' = (IF page > 0 THEN deleted + 1 ELSE deleted)
      /\ created \in Nat /\ deleted \in Nat /\ page \in Nat
      /\ seen \in [User -> Nat] /\ began \in SUBSET User
  BY <1>1 DEF DeleteAccount, walkVars, TypeOK, Unsigned
<1>4. TypeOK'
  <2>1. deleted' \in Nat
    BY <1>3
  <2> QED
    BY <1>1, <1>2, <1>3, <2>1 DEF TypeOK
<1>5. WalkInv'
  <2>1. \A u \in User : Known(u) => Known(u)'
    BY <1>2 DEF Existing
  <2> QED
    BY <1>1, <1>3, <2>1 DEF WalkInv, Done
<1>6. /\ Done' = Done /\ Repetitions' = Repetitions
      /\ Distinct' <=> Distinct
  BY <1>2, <1>3 DEF Done, Repetitions, Distinct
<1>7. \A u : /\ Rank(u) \in Nat
             /\ Rank(u)' = IF d \in Before(u) THEN Rank(u) - 1 ELSE Rank(u)
  BY <1>2, RankAfterDelete
<1>8. ASSUME page > 0, Distinct PROVE Cardinality(Missed') <= deleted + 1
  <2>1. Done \in Nat /\ stamp \in [User -> Nat]
    BY <1>1, <1>8, WalkOffset, BoundAssumption DEF TypeOK
  <2>2. ASSUME NEW u \in Missed', u \notin Missed, u # d
        PROVE  u \in LiveSet /\ Rank(u) = Done /\ d \in Before(u)
    <3>1. /\ u \in began /\ seen[u] = 0
          /\ ~Live(u)' \/ Rank(u)' < Done
      BY <1>3, <1>6, <2>2 DEF Missed
    <3>2. Live(u) /\ Rank(u) >= Done
      BY <1>7, <2>1, <2>2, <3>1 DEF Missed
    <3>3. u \in LiveSet /\ Rank(u)' < Done
      BY <1>2, <1>3, <2>2, <3>1, <3>2 DEF LiveSet
    <3> QED
      BY <1>7, <2>1, <3>2, <3>3
  <2>3. \A u, v \in Missed' \ (Missed \cup {d}) : u = v
    BY <1>8, <2>1, <2>2, RanksDiffer
  <2>4. ASSUME d \in Missed' \ Missed, NEW u \in Missed' \ Missed, u # d
        PROVE  FALSE
    <3>1. Rank(d) >= Done
      BY <1>2, <1>3, <1>6, <1>7, <2>1, <2>4 DEF Missed, LiveSet
    <3>2. d \in Before(u) /\ Rank(u) = Done
      BY <2>2, <2>4
    <3>3. Before(d) \subseteq Before(u) \ {d} /\ IsFiniteSet(Before(u))
      <4>1. /\ u \in User /\ d \in User /\ stamp[u] \in Nat /\ stamp[d] \in Nat
            /\ \A v \in LiveSet : stamp[v] \in Nat
        BY <1>2, <2>1, <2>2, <2>4 DEF LiveSet
      <4> QED
        BY <3>2, <4>1, SetsFinite DEF Before
    <3>4. Cardinality(Before(d)) <= Cardinality(Before(u)) - 1
      <4>1. /\ IsFiniteSet(Before(u) \ {d})
            /\ Cardinality(Before(u) \ {d}) = Cardinality(Before(u)) - 1
        BY <3>2, <3>3, FS_RemoveElement
      <4>2. Cardinality(Before(d)) <= Cardinality(Before(u) \ {d})
        BY <3>3, <4>1, NoMore
      <4> QED
        BY <4>1, <4>2
    <3> QED
      BY <1>7, <2>1, <3>1, <3>2, <3>4 DEF Rank
  <2>5. \E x : Missed' \subseteq Missed \cup {x}
    <3>1. \A u, v \in Missed' \ Missed : u = v
      BY <2>3, <2>4
    <3> QED
      BY <3>1
  <2>6. /\ Cardinality(Missed') <= Cardinality(Missed) + 1
        /\ Cardinality(Missed') \in Nat /\ Cardinality(Missed) \in Nat
    BY <1>1, <2>5, CountsFinite, OneMore
  <2>7. Cardinality(Missed) <= deleted
    BY <1>1, <1>8 DEF SkipInv
  <2> QED
    BY <1>3, <2>6, <2>7
<1>9. ASSUME page > 0, Distinct
      PROVE  Cardinality(Repetitions) + Cardinality(Again') <= created
  <2>1. Done \in Int
    BY <1>1, <1>9, WalkOffset
  <2>2. ASSUME NEW u, Rank(u)' >= Done PROVE Rank(u) >= Done
    BY <1>7, <2>1, <2>2
  <2>3. Again' \subseteq Again
    BY <1>2, <1>3, <1>6, <2>2 DEF Again
  <2>4. /\ Cardinality(Again') <= Cardinality(Again)
        /\ Cardinality(Again') \in Nat /\ Cardinality(Again) \in Nat
    BY <1>1, <2>3, CountsFinite, NoMore
  <2>5. /\ Cardinality(Repetitions) \in Nat
        /\ Cardinality(Repetitions) + Cardinality(Again) <= created
    BY <1>1, <1>9, FS_CardinalityType DEF RepeatInv
  <2> QED
    BY <1>3, <2>4, <2>5
<1>10. SkipInv'
  <2>1. ended => ~(page > 0)
    BY <1>1 DEF WalkInv
  <2>2. SkipsOnlyByDeletion'
    BY <1>1, <1>3, <1>6, <2>1 DEF SkipInv, SkipsOnlyByDeletion
  <2>3. page' > 0 /\ Distinct' => Cardinality(Missed') <= deleted'
    BY <1>3, <1>6, <1>8
  <2> QED
    BY <2>2, <2>3 DEF SkipInv
<1>11. RepeatInv'
  BY <1>1, <1>3, <1>6, <1>9 DEF RepeatInv, RepeatsOnlyByCreation
<1> QED
  BY <1>4, <1>5, <1>10, <1>11 DEF PagingInv
-----------------------------------------------------------------------------
(* Requests.                                                               *)
LEMMA AnsweredTyped ==
  ASSUME NEW p \in Unsigned, NEW n \in Unsigned, NEW rows \in Seq(User),
         Len(rows) <= n, Answered(p, n, rows)
  PROVE  /\ reply' \in [page : Unsigned, size : Unsigned, rows : Seq(User),
                        code : {"none", "OK", "Internal"}]
         /\ Len(reply'.rows) <= reply'.size
  BY DEF Answered

(* A history that starts over counts nothing.                              *)
LEMMA ForgetInv ==
  ASSUME PagingInv, NEW known \in SUBSET User, \A u \in known : Known(u),
         Forget(known),
         size' \in 0 .. MaxSize, page' \in {0, 1}, page' > 0 => size' > 0,
         /\ reply' \in [page : Unsigned, size : Unsigned, rows : Seq(User),
                        code : {"none", "OK", "Internal"}]
         /\ Len(reply'.rows) <= reply'.size,
         page' > 0 => known \subseteq LiveSet
  PROVE  PagingInv'
<1>1. /\ TypeOK /\ UNCHANGED <<registry, stamp>>
      /\ seen' = [u \in User |-> 0] /\ began' = known
      /\ created' = 0 /\ deleted' = 0 /\ ended' = FALSE
  BY DEF PagingInv, Forget
<1>2. TypeOK'
  <2>1. page' \in Unsigned /\ 0 \in Nat
    BY BoundAssumption DEF Unsigned
  <2>2. seen' \in [User -> Nat]
    BY <1>1
  <2> QED
    BY <1>1, <2>1, <2>2 DEF TypeOK
<1>3. page' > 0 => Done' = 0
  <2> SUFFICES ASSUME page' > 0 PROVE Done' = 0
    OBVIOUS
  <2>1. page' - 1 = 0 /\ size' \in Nat
    BY BoundAssumption
  <2>2. \A n \in Nat : 0 * n = 0
    OBVIOUS
  <2> QED
    BY <2>1, <2>2 DEF Done
<1>4. WalkInv'
  BY <1>1, <1>3, SetsFinite DEF WalkInv, Known
<1>5. Repetitions' = {}
  BY <1>1 DEF Repetitions
<1>6. page' > 0 => Missed' = {} /\ Again' = {}
  <2>1. Again' = {}
    BY <1>1 DEF Again, LiveSet
  <2>2. ASSUME page' > 0, NEW u \in Missed' PROVE FALSE
    <3>1. u \in LiveSet /\ Rank(u)' = Rank(u) /\ (Live(u)' <=> Live(u))
      BY <1>1, <2>2 DEF Missed, Rank, Before, LiveSet, Live, Known
    <3>2. Rank(u) \in Nat /\ Done' = 0
      BY <1>3, <2>2, SetsFinite
    <3> QED
      BY <2>2, <3>1, <3>2 DEF Missed, LiveSet
  <2> QED
    BY <2>1, <2>2
<1>7. Cardinality({}) = 0 /\ IsFiniteSet({})
  BY FS_EmptySet
<1>8. SkipInv'
  <2>1. ASSUME page' > 0 PROVE Cardinality(Missed') <= deleted'
    <3>1. Missed' = {}
      BY <1>6, <2>1
    <3>2. Cardinality(Missed') = 0
      BY <1>7, <3>1
    <3> QED
      BY <1>1, <3>2
  <2> QED
    BY <1>1, <2>1 DEF SkipInv, SkipsOnlyByDeletion
<1>9. RepeatInv'
  <2>1. ASSUME page' > 0
        PROVE  Cardinality(Repetitions') + Cardinality(Again') <= created'
    <3>1. Again' = {}
      BY <1>6, <2>1
    <3>2. Cardinality(Repetitions') = 0 /\ Cardinality(Again') = 0
      BY <1>5, <1>7, <3>1
    <3> QED
      BY <1>1, <3>2
  <2> QED
    BY <1>1, <1>5, <1>7, <2>1 DEF RepeatInv, RepeatsOnlyByCreation
<1> QED
  BY <1>2, <1>4, <1>8, <1>9 DEF PagingInv

LEMMA ListAccountsInv ==
  ASSUME PagingInv, ListAccounts
  PROVE  PagingInv'
<1>1. PICK p \in Unsigned, n \in Unsigned :
        \E rows \in GetAllAccounts(p, n) :
          page = 0 /\ page' = page /\ size' = 0 /\ Answered(p, n, rows) /\ Forget({})
  BY DEF ListAccounts
<1>2. PICK rows \in GetAllAccounts(p, n) :
          page = 0 /\ page' = page /\ size' = 0 /\ Answered(p, n, rows) /\ Forget({})
  BY <1>1
<1>3. rows \in Seq(User) /\ Len(rows) <= n
  BY RowsTyped
<1>4. size' \in 0 .. MaxSize /\ page' = 0
  BY <1>2, BoundAssumption
<1> QED
  BY <1>2, <1>3, <1>4, AnsweredTyped, ForgetInv

LEMMA BeginWalkInv ==
  ASSUME PagingInv, BeginWalk
  PROVE  PagingInv'
<1>1. PICK n \in 1 .. MaxSize :
        page' = 1 /\ size' = n /\ reply' = NoReply /\ Forget(LiveSet)
  BY DEF BeginWalk
<1>2. /\ reply' \in [page : Unsigned, size : Unsigned, rows : Seq(User),
                     code : {"none", "OK", "Internal"}]
      /\ Len(reply'.rows) <= reply'.size
  BY <1>1, BoundAssumption DEF NoReply, Unsigned
<1>3. LiveSet \in SUBSET User /\ \A u \in LiveSet : Known(u)
  BY DEF LiveSet, Live
<1>4. size' \in 0 .. MaxSize /\ page' = 1 /\ size' > 0
  BY <1>1, BoundAssumption
<1> QED
  BY <1>1, <1>2, <1>3, <1>4, ForgetInv

(* The repetitions that a page adds, one for each account on it that the   *)
(* walk has seen before.                                                   *)
LEMMA PageRepeats ==
  ASSUME seen \in [User -> Nat], NEW R \in SUBSET User,
         IsFiniteSet(Repetitions), NEW K \in SUBSET User, IsFiniteSet(K),
         \A u \in R : seen[u] > 0 => u \in K,
         seen' = [u \in User |-> seen[u] + (IF u \in R THEN 1 ELSE 0)]
  PROVE  /\ IsFiniteSet(Repetitions')
         /\ Cardinality(Repetitions') \in Nat
         /\ Cardinality(Repetitions') <= Cardinality(Repetitions) + Cardinality(K)
<1> DEFINE next == [u \in K |-> <<u, seen[u] + 1>>]
           New  == {next[u] : u \in K}
<1>1. next \in Surjection(K, New)
  BY DEF Surjection
<1>2. IsFiniteSet(New) /\ Cardinality(New) <= Cardinality(K)
  BY <1>1, FS_Surjection
<1>3. ASSUME NEW u \in User, NEW k \in 2 .. seen'[u]
      PROVE  <<u, k>> \in Repetitions \cup New
  <2>1. CASE k <= seen[u]
    BY <2>1 DEF Repetitions
  <2>2. CASE ~(k <= seen[u])
    <3>1. u \in R /\ k = seen[u] + 1 /\ seen[u] > 0
      BY <2>2
    <3>2. u \in K /\ <<u, k>> = next[u]
      BY <3>1
    <3> QED
      BY <3>2
  <2> QED
    BY <2>1, <2>2
<1>4. Repetitions' \subseteq Repetitions \cup New
  BY <1>3 DEF Repetitions
<1> HIDE DEF New
<1>5. /\ IsFiniteSet(Repetitions \cup New)
      /\ Cardinality(Repetitions \cup New) <= Cardinality(Repetitions) + Cardinality(K)
  <2>1. /\ IsFiniteSet(Repetitions \cup New) /\ IsFiniteSet(Repetitions \cap New)
        /\ Cardinality(Repetitions \cup New)
             = Cardinality(Repetitions) + Cardinality(New) - Cardinality(Repetitions \cap New)
    BY <1>2, FS_Union, FS_Intersection
  <2>2. /\ Cardinality(Repetitions) \in Nat /\ Cardinality(New) \in Nat
        /\ Cardinality(Repetitions \cap New) \in Nat /\ Cardinality(K) \in Nat
    BY <1>2, <2>1, FS_CardinalityType
  <2> QED
    BY <1>2, <2>1, <2>2
<1>6. /\ IsFiniteSet(Repetitions') /\ Cardinality(Repetitions') \in Nat
      /\ Cardinality(Repetitions') <= Cardinality(Repetitions \cup New)
  BY <1>4, <1>5, NoMore
<1> QED
  BY <1>2, <1>5, <1>6, FS_CardinalityType

LEMMA NextPageInv ==
  ASSUME PagingInv, NextPage
  PROVE  PagingInv'
<1>1. TypeOK /\ WalkInv /\ SkipInv /\ RepeatInv
  BY DEF PagingInv
<1>2. PICK rows \in GetAllAccounts(page, size) :
        /\ page > 0
        /\ Answered(page, size, rows)
        /\ seen' = [u \in User |-> seen[u] + (IF u \in ToSet(rows) THEN 1 ELSE 0)]
        /\ page' = (IF Len(rows) = size THEN page + 1 ELSE 0)
        /\ ended' = (Len(rows) < size)
        /\ UNCHANGED <<registry, stamp, size, began, created, deleted>>
  BY DEF NextPage
<1> DEFINE R == ToSet(rows)
<1>3. /\ page \in Unsigned /\ size \in Unsigned /\ size \in Nat \ {0}
      /\ Done \in Nat /\ Done < Half /\ page <= Done + 1
      /\ page \in Nat \ {0} /\ Half \in Nat
  BY <1>1, <1>2, WalkOffset, BoundAssumption DEF Unsigned
<1>4. /\ Len(rows) \in Nat /\ Len(rows) <= size
      /\ Len(rows) = size => Done + size <= Cardinality(LiveSet)
      /\ R \subseteq LiveSet
      /\ Distinct => \A u \in LiveSet :
           /\ u \in R <=> Rank(u) >= Done /\ Rank(u) < Done + size
           /\ Len(rows) < size => Rank(u) < Done + size
  BY <1>1, <1>2, PageRows
<1> HIDE DEF R
<1>5. /\ seen \in [User -> Nat] /\ seen' \in [User -> Nat]
      /\ \A u \in User : seen'[u] = IF u \in R THEN seen[u] + 1 ELSE seen[u]
      /\ \A u \in R : u \in User /\ seen'[u] > 0
      /\ began \in SUBSET User /\ created \in Nat /\ deleted \in Nat
  BY <1>1, <1>2, <1>4 DEF R, TypeOK, LiveSet
<1>6. /\ Len(rows) = size => page' = page + 1 /\ Done' = Done + size /\ ~ended'
      /\ Len(rows) # size => page' = 0 /\ ended'
      /\ page' > 0 => Len(rows) = size
      /\ ended' => Len(rows) < size
  <2>1. page - 1 \in Nat /\ page - 1 + 1 = page
    BY <1>3
  <2>2. page * size = Done + size
    BY <1>3, <2>1, Product DEF Done
  <2>3. Len(rows) = size => page' - 1 = page /\ size' = size
    BY <1>2, <1>3
  <2>4. Len(rows) = size => Done' = Done + size
    BY <2>2, <2>3 DEF Done
  <2>5. ended' <=> Len(rows) < size
    BY <1>2
  <2>6. page' = IF Len(rows) = size THEN page + 1 ELSE 0
    BY <1>2
  <2>7. CASE Len(rows) = size
    BY <1>3, <2>4, <2>5, <2>6, <2>7
  <2>8. CASE Len(rows) # size
    BY <1>3, <1>4, <2>5, <2>6, <2>8
  <2> QED
    BY <2>7, <2>8
<1>7. TypeOK'
  <2>1. rows \in Seq(User)
    BY <1>3, RowsTyped
  <2>2. /\ reply' \in [page : Unsigned, size : Unsigned, rows : Seq(User),
                       code : {"none", "OK", "Internal"}]
        /\ Len(reply'.rows) <= reply'.size
    BY <1>2, <1>3, <1>4, <2>1, AnsweredTyped
  <2>3. page' \in Unsigned
    <3>1. Len(rows) = size => page + 1 <= Half
      BY <1>3, <1>4, SetsFinite, UserAssumption
    <3> QED
      BY <1>2, <1>3, <3>1 DEF Unsigned
  <2>4. ended' \in BOOLEAN
    BY <1>2
  <2> QED
    BY <1>1, <1>2, <1>5, <2>2, <2>3, <2>4 DEF TypeOK
<1>8. /\ LiveSet' = LiveSet /\ (Distinct' <=> Distinct)
      /\ \A u : /\ (Known(u)' <=> Known(u)) /\ (Live(u)' <=> Live(u))
                /\ Rank(u)' = Rank(u) /\ Rank(u) \in Nat
  BY <1>2, SetsFinite DEF LiveSet, Distinct, Existing, Known, Live, Rank, Before
<1>9. WalkInv'
  <2>1. \A u \in R : Known(u)
    BY <1>4 DEF LiveSet, Live
  <2>2. page' > 0 => size' > 0 /\ Done' <= Cardinality(User) /\ ~ended'
    BY <1>2, <1>3, <1>4, <1>6, SetsFinite
  <2>3. \A u \in User : seen'[u] > 0 => Known(u)
    BY <1>1, <1>5, <2>1 DEF WalkInv
  <2> QED
    BY <1>1, <1>2, <1>8, <2>2, <2>3 DEF WalkInv
<1>10. ASSUME Distinct, NEW u \in began, seen'[u] = 0,
              Live(u) => Rank(u) < Done + size
       PROVE  u \in Missed
  <2>1. u \notin R /\ seen[u] = 0
    BY <1>5, <1>10
  <2>2. Live(u) => Rank(u) < Done
    BY <1>3, <1>4, <1>5, <1>8, <1>10, <2>1 DEF LiveSet
  <2> QED
    BY <2>1, <2>2 DEF Missed
<1>11. SkipInv'
  <2>1. Distinct => Cardinality(Missed) <= deleted
    BY <1>1, <1>2 DEF SkipInv
  <2>2. ASSUME ended', Distinct
        PROVE  Cardinality({u \in began : seen'[u] = 0}) <= deleted
    <3>1. \A u \in began : Live(u) => Rank(u) < Done + size
      BY <1>4, <1>5, <1>6, <2>2 DEF LiveSet
    <3>2. {u \in began : seen'[u] = 0} \subseteq Missed
      BY <1>10, <2>2, <3>1
    <3> QED
      BY <1>1, <1>5, <2>1, <2>2, <3>2, CountsFinite, NoMore
  <2>3. ASSUME page' > 0, Distinct PROVE Cardinality(Missed') <= deleted
    <3>1. Done' = Done + size
      BY <1>6, <2>3
    <3>2. Missed' \subseteq Missed
      BY <1>2, <1>8, <1>10, <2>3, <3>1 DEF Missed
    <3> QED
      BY <1>1, <1>5, <2>1, <2>3, <3>2, CountsFinite, NoMore
  <2> QED
    BY <1>2, <1>8, <2>2, <2>3 DEF SkipInv, SkipsOnlyByDeletion
<1>12. /\ IsFiniteSet(Repetitions') /\ Cardinality(Repetitions') \in Nat
       /\ Distinct => Cardinality(Repetitions')
                        <= Cardinality(Repetitions) + Cardinality(Again \cap R)
  <2>1. R \in SUBSET User /\ IsFiniteSet(R) /\ IsFiniteSet(Again \cap R)
        /\ IsFiniteSet(Repetitions)
        /\ seen' = [u \in User |-> seen[u] + (IF u \in R THEN 1 ELSE 0)]
    BY <1>1, <1>2, <1>5, UserAssumption, FS_Subset, FS_Intersection
       DEF R, RepeatInv
  <2>2. IsFiniteSet(Repetitions') /\ Cardinality(Repetitions') \in Nat
    BY <1>5, <2>1, PageRepeats
  <2>3. ASSUME Distinct PROVE \A u \in R : seen[u] > 0 => u \in Again \cap R
    BY <1>4, <2>3 DEF Again
  <2>4. Again \cap R \in SUBSET User
    BY <2>1
  <2>5. Distinct => Cardinality(Repetitions')
                      <= Cardinality(Repetitions) + Cardinality(Again \cap R)
    BY <1>5, <2>1, <2>3, <2>4, PageRepeats
  <2> QED
    BY <2>2, <2>5
<1>13. RepeatInv'
  <2>1. /\ IsFiniteSet(Again) /\ IsFiniteSet(Again \cap R)
        /\ Cardinality(Again) \in Nat /\ Cardinality(Again \cap R) \in Nat
        /\ Cardinality(Again \cap R) <= Cardinality(Again)
        /\ IsFiniteSet(Again \ R) /\ Cardinality(Again \ R) \in Nat
        /\ Cardinality(Again \ R) = Cardinality(Again) - Cardinality(Again \cap R)
    BY <1>1, CountsFinite, FS_Intersection, FS_Difference, FS_CardinalityType
  <2>2. /\ Cardinality(Repetitions) \in Nat
        /\ Distinct => Cardinality(Repetitions) + Cardinality(Again) <= created
    BY <1>1, <1>2, FS_CardinalityType DEF RepeatInv
  <2>3. Distinct => Cardinality(Repetitions') <= created
    BY <1>5, <1>12, <2>1, <2>2
  <2>4. ASSUME page' > 0, Distinct
        PROVE  Cardinality(Repetitions') + Cardinality(Again') <= created
    <3>1. Done' = Done + size
      BY <1>6, <2>4
    <3>2. ASSUME NEW u \in Again' PROVE u \in Again \ R
      <4>1. u \in LiveSet /\ u \in User /\ seen'[u] > 0 /\ Rank(u) >= Done + size
        BY <1>8, <3>1, <3>2 DEF Again, LiveSet
      <4>2. u \notin R /\ Rank(u) >= Done
        BY <1>3, <1>4, <1>8, <2>4, <4>1
      <4> QED
        BY <1>5, <4>1, <4>2 DEF Again
    <3>3. Cardinality(Again') <= Cardinality(Again \ R) /\ Cardinality(Again') \in Nat
      BY <2>1, <3>2, NoMore
    <3> QED
      BY <1>5, <1>12, <2>1, <2>2, <2>4, <3>3
  <2> QED
    BY <1>2, <1>8, <1>12, <2>3, <2>4 DEF RepeatInv, RepeatsOnlyByCreation
<1> QED
  BY <1>7, <1>9, <1>11, <1>13 DEF PagingInv

LEMMA QueryFailsInv ==
  ASSUME PagingInv, QueryFails
  PROVE  PagingInv'
<1>1. TypeOK /\ WalkInv /\ SkipInv /\ RepeatInv /\ page > 0
  BY DEF PagingInv, QueryFails
<1>2. /\ Answered(page, size, << >>) /\ page' = 0
      /\ UNCHANGED <<registry, stamp, size, seen, began, created, deleted, ended>>
  BY DEF QueryFails
<1>3. TypeOK'
  <2>1. page \in Unsigned /\ size \in Unsigned /\ size \in Nat /\ 0 \in Unsigned
    BY <1>1, WalkOffset, BoundAssumption DEF Unsigned
  <2>2. << >> \in Seq(User) /\ Len(<< >>) <= size
    BY <2>1
  <2>3. /\ reply' \in [page : Unsigned, size : Unsigned, rows : Seq(User),
                       code : {"none", "OK", "Internal"}]
        /\ Len(reply'.rows) <= reply'.size
    BY <1>2, <2>1, <2>2, AnsweredTyped
  <2> QED
    BY <1>1, <1>2, <2>1, <2>3 DEF TypeOK
<1>4. WalkInv'
  BY <1>1, <1>2 DEF WalkInv, Known
<1>5. (Distinct' <=> Distinct) /\ Repetitions' = Repetitions
  BY <1>2 DEF Distinct, Existing, Known, Repetitions
<1>6. SkipInv' /\ RepeatInv'
  BY <1>1, <1>2, <1>5
     DEF SkipInv, RepeatInv, SkipsOnlyByDeletion, RepeatsOnlyByCreation
<1> QED
  BY <1>3, <1>4, <1>6 DEF PagingInv
-----------------------------------------------------------------------------
(* The invariant that the bounds rest on: during a walk, whatever it has   *)
(* passed without showing is paid for by a deletion, whatever it has shown *)
(* and not passed by a creation.                                           *)
THEOREM PagingInvariant == ListSpec => []PagingInv
<1>1. ListInit => PagingInv
  <2> SUFFICES ASSUME ListInit PROVE PagingInv
    OBVIOUS
  <2>1. TypeOK
    <3>1. /\ registry \in [User -> Account \cup {NoRow}]
          /\ stamp \in [User -> 0 .. MaxStamp] /\ seen \in [User -> Nat]
      BY BoundAssumption DEF ListInit, Init
    <3>2. /\ NoReply \in [page : Unsigned, size : Unsigned, rows : Seq(User),
                          code : {"none", "OK", "Internal"}]
          /\ Len(NoReply.rows) <= NoReply.size
      BY BoundAssumption DEF NoReply, Unsigned
    <3>3. 0 \in Unsigned /\ 0 \in 0 .. MaxSize /\ 0 \in Nat
      BY BoundAssumption DEF Unsigned
    <3> QED
      BY <3>1, <3>2, <3>3 DEF ListInit, TypeOK
  <2>2. WalkInv
    BY DEF ListInit, WalkInv
  <2>3. Repetitions = {}
    BY DEF ListInit, Repetitions
  <2>4. SkipInv /\ RepeatInv
    BY <2>3, FS_EmptySet
       DEF ListInit, SkipInv, RepeatInv, SkipsOnlyByDeletion, RepeatsOnlyByCreation
  <2> QED
    BY <2>1, <2>2, <2>4 DEF PagingInv
<1>2. PagingInv /\ [ListNext]_vars => PagingInv'
  <2> SUFFICES ASSUME PagingInv, [ListNext]_vars PROVE PagingInv'
    OBVIOUS
  <2>1. CASE UNCHANGED vars
    BY <2>1
       DEF vars, walkVars, PagingInv, TypeOK, WalkInv, SkipInv, RepeatInv, Done,
           SkipsOnlyByDeletion, RepeatsOnlyByCreation, Repetitions, Missed,
           Again, Rank, Before, Distinct, Existing, LiveSet, Live, Known
  <2> QED
    BY <2>1, CreateInv, UpdateInv, DeleteInv, ListAccountsInv, BeginWalkInv,
       NextPageInv, QueryFailsInv DEF ListNext
<1> QED
  BY <1>1, <1>2, PTL DEF ListSpec

(* Every variable keeps its type: the walk's page number never wraps       *)
(* around, whatever the number of accounts.                                *)
THEOREM TypesHold == ListSpec => []TypeOK
<1>1. PagingInv => TypeOK
  BY DEF PagingInv
<1> QED
  BY <1>1, PagingInvariant, PTL

(* A walk to the last page leaves out at most as many accounts as were     *)
(* deleted during it.                                                      *)
THEOREM SkipsBounded == ListSpec => []SkipsOnlyByDeletion
<1>1. PagingInv => SkipsOnlyByDeletion
  BY DEF PagingInv, SkipInv
<1> QED
  BY <1>1, PagingInvariant, PTL

(* A walk shows accounts again at most as often as accounts were created   *)
(* during it.                                                              *)
THEOREM RepeatsBounded == ListSpec => []RepeatsOnlyByCreation
<1>1. PagingInv => RepeatsOnlyByCreation
  BY DEF PagingInv, RepeatInv
<1> QED
  BY <1>1, PagingInvariant, PTL

(* A page 0 has either no rows or an offset that PostgreSQL refuses.       *)
LEMMA PageZeroEmpty ==
  ASSUME NEW n \in Unsigned, NEW rows \in GetAllAccounts(0, n)
  PROVE  rows = << >>
<1>1. Half \in Nat /\ Half > 0 /\ n \in 0 .. 2 * Half - 1 /\ 0 \in Unsigned
      /\ 2 * Half \in Nat
  BY BoundAssumption DEF Unsigned
<1>2. CASE n = 0
  <2>1. rows \in Seq(User) /\ Len(rows) <= 0
    BY <1>1, <1>2, RowsTyped
  <2> QED
    BY <2>1, EmptySeq
<1>3. CASE n # 0 /\ Readable(n)
  <2>1. (0 - 1) * n = -n /\ n \in 1 .. 2 * Half - 1
    BY <1>1, <1>3
  <2>2. Offset(0, n) = 2 * Half - n
    BY <1>1, <2>1, ModNegative DEF Offset
  <2>3. ~Readable(Offset(0, n))
    BY <1>1, <1>3, <2>2 DEF Readable
  <2> QED
    BY <2>3 DEF GetAllAccounts
<1>4. CASE ~Readable(n)
  BY <1>4 DEF GetAllAccounts
<1> QED
  BY <1>2, <1>3, <1>4

(* No request for page 0 is answered with accounts.                        *)
THEOREM PageZeroShowsNothing == ListSpec => []PageZeroRefused
<1>1. ListInit => PageZeroRefused
  BY DEF ListInit, NoReply, PageZeroRefused
<1>2. ASSUME PagingInv, PageZeroRefused, [ListNext]_vars
      PROVE  PageZeroRefused'
  <2>1. ASSUME NEW p, NEW n, NEW rows, Answered(p, n, rows), p = 0 => rows = << >>
        PROVE  PageZeroRefused'
    BY <2>1 DEF Answered, PageZeroRefused
  <2>2. CASE ListAccounts
    BY <2>1, <2>2, PageZeroEmpty DEF ListAccounts
  <2>3. CASE BeginWalk
    BY <2>3 DEF BeginWalk, NoReply, PageZeroRefused
  <2>4. CASE NextPage
    <3>1. page # 0
      BY <1>2, <2>4 DEF NextPage
    <3> QED
      BY <2>1, <2>4, <3>1 DEF NextPage
  <2>5. CASE QueryFails
    BY <2>1, <2>5 DEF QueryFails
  <2>6. CASE UNCHANGED reply
    BY <1>2, <2>6 DEF PageZeroRefused
  <2> QED
    BY <1>2, <2>2, <2>3, <2>4, <2>5, <2>6
       DEF ListNext, CreateAccount, UpdateAccount, DeleteAccount, vars, walkVars
<1> QED
  BY <1>1, <1>2, PagingInvariant, PTL DEF ListSpec
=============================================================================
