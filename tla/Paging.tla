------------------------------- MODULE Paging -------------------------------
(***************************************************************************)
(* AccountService.ListAccounts: a client walks the pages of the account    *)
(* list, one request per page, while accounts are created and deleted.     *)
(*                                                                         *)
(* A page is one SELECT over the committed live accounts, the newest       *)
(* first, with LIMIT and OFFSET.  created_at is the time at which the      *)
(* creating transaction began, so that a late commit may enter anywhere in *)
(* the order, and two accounts may share a time: PostgreSQL then orders    *)
(* them as it likes, anew for every query.                                 *)
(***************************************************************************)
EXTENDS Registry, Integers, SequencesExt

CONSTANTS
  Half,      \* how many offsets PostgreSQL can read (2^63)
  MaxStamp,  \* bound on the times of creation
  MaxSize    \* bound on the page size of a walk

ASSUME BoundAssumption ==
  /\ Half \in Nat \ {0} /\ MaxStamp \in Nat
  /\ MaxSize \in Nat /\ MaxSize < Half

(* The primary keys of the rows are numbers that PostgreSQL can read.      *)
ASSUME UserAssumption == IsFiniteSet(User) /\ Cardinality(User) < Half

ASSUME RowAssumption == NoRow \notin Account

VARIABLES
  stamp,    \* created_at of each account
  reply,    \* the last request and its answer
  size,     \* page_size of the walk
  page,     \* its next page; 0: no walk under way
  seen,     \* history: how often the walk was shown each account
  began,    \* history: the live accounts when it began
  created,  \* history: how many were created during it
  deleted,  \* history: how many were deleted during it
  ended     \* history: the walk came to the last page

walkVars == <<reply, size, page, seen, began, ended>>
vars     == <<registry, stamp, walkVars, created, deleted>>

(* page and page_size, uint64.                                             *)
Unsigned == 0 .. 2 * Half - 1
Existing == {u \in User : Known(u)}
LiveSet  == {u \in User : Live(u)}

TypeOK ==
  /\ registry \in [User -> Account \cup {NoRow}]
  /\ stamp \in [User -> 0 .. MaxStamp]
  /\ reply \in [page : Unsigned, size : Unsigned, rows : Seq(User),
               code : {"none", "OK", "Internal"}]
  /\ Len(reply.rows) <= reply.size
  /\ size \in 0 .. MaxSize
  /\ page \in Unsigned
  /\ seen \in [User -> Nat]
  /\ began \in SUBSET User
  /\ created \in Nat /\ deleted \in Nat
  /\ ended \in BOOLEAN

NoReply == [page |-> 0, size |-> 0, code |-> "none", rows |-> << >>]

ListInit ==
  /\ Init
  /\ stamp = [u \in User |-> 0]
  /\ reply = NoReply /\ size = 0 /\ page = 0
  /\ seen = [u \in User |-> 0] /\ began = {}
  /\ created = 0 /\ deleted = 0 /\ ended = FALSE
-----------------------------------------------------------------------------
(* Store.GetAllAccounts                                                    *)

(* Mutant: no ORDER BY.                                                    *)
AnyOrder == SetToSeqs(LiveSet)

Orders ==
  {s \in SetToSeqs(LiveSet) :
     \A i, j \in 1 .. Len(s) : i < j => stamp[s[i]] >= stamp[s[j]]}

(* Mutants: pages are counted from 0; the offset is one too far.           *)
OffsetFromZero(p, n) == (p * n) % (2 * Half)
OffsetTooFar(p, n)   == ((p - 1) * n + 1) % (2 * Half)

(* (page - 1) * pageSize on unsigned integers.                             *)
Offset(p, n) == ((p - 1) * n) % (2 * Half)

(* PostgreSQL reads both numbers as signed ones and refuses what is none.  *)
Readable(k) == k < Half

(* Mutant: one row more, to see whether there is a next page.              *)
OneRowMore(s, p, n) ==
  LET last == Offset(p, n) + n + 1
  IN SubSeq(s, Offset(p, n) + 1, IF last < Len(s) THEN last ELSE Len(s))

Cut(s, p, n) ==
  SubSeq(s, Offset(p, n) + 1, IF Offset(p, n) + n < Len(s) THEN Offset(p, n) + n
                                                           ELSE Len(s))

(* The rows a query may return; none when PostgreSQL refuses it.           *)
GetAllAccounts(p, n) ==
  IF Readable(n) /\ Readable(Offset(p, n)) THEN {Cut(s, p, n) : s \in Orders}
                                           ELSE {<< >>}

(* ListAccounts answers Internal for every error of the store: a query     *)
(* that failed or was refused, and NotFound for a page without rows.       *)
Answered(p, n, rows) ==
  reply' = [page |-> p, size |-> n, rows |-> rows,
            code |-> IF rows = << >> THEN "Internal" ELSE "OK"]
-----------------------------------------------------------------------------
CreateAccount(u) == \E t \in 1 .. MaxStamp :
  /\ Create(u) /\ stamp' = [stamp EXCEPT ![u] = t]
  /\ created' = IF page > 0 THEN created + 1 ELSE created
  /\ UNCHANGED <<walkVars, deleted>>

UpdateAccount(u) == Update(u) /\ UNCHANGED <<stamp, walkVars, created, deleted>>

DeleteAccount(u) ==
  /\ Live(u) /\ Delete(u)
  /\ deleted' = IF page > 0 THEN deleted + 1 ELSE deleted
  /\ UNCHANGED <<stamp, walkVars, created>>

(* The history starts over.                                                *)
Forget(known) ==
  /\ seen' = [u \in User |-> 0] /\ began' = known
  /\ created' = 0 /\ deleted' = 0 /\ ended' = FALSE
  /\ UNCHANGED <<registry, stamp>>

(* A request that belongs to no walk.                                      *)
ListAccounts == \E p, n \in Unsigned : \E rows \in GetAllAccounts(p, n) :
  /\ page = 0 /\ UNCHANGED page /\ size' = 0
  /\ Answered(p, n, rows)
  /\ Forget({})

BeginWalk == \E n \in 1 .. MaxSize :
  /\ page' = 1 /\ size' = n
  /\ reply' = NoReply
  /\ Forget(LiveSet)

(* The client goes on to the next page until one is not full.              *)
NextPage == \E rows \in GetAllAccounts(page, size) :
  /\ page > 0
  /\ Answered(page, size, rows)
  /\ seen' = [u \in User |-> seen[u] + (IF u \in ToSet(rows) THEN 1 ELSE 0)]
  /\ page' = IF Len(rows) = size THEN page + 1 ELSE 0
  /\ ended' = (Len(rows) < size)
  /\ UNCHANGED <<registry, stamp, size, began, created, deleted>>

(* The query fails and the client gives up.                                *)
QueryFails ==
  /\ page > 0
  /\ Answered(page, size, << >>) /\ page' = 0
  /\ UNCHANGED <<registry, stamp, size, seen, began, created, deleted, ended>>

ListNext ==
  \/ \E u \in User : CreateAccount(u) \/ UpdateAccount(u) \/ DeleteAccount(u)
  \/ ListAccounts \/ BeginWalk \/ NextPage \/ QueryFails

ListSpec == ListInit /\ [][ListNext]_vars
-----------------------------------------------------------------------------
(* created_at orders the accounts.                                         *)
Distinct == \A u, v \in Existing : stamp[u] = stamp[v] => u = v

(* Every page is a query of its own.  An account is left out of a walk     *)
(* only because another one was deleted meanwhile, which draws the others  *)
(* forward over the edge of a page, one for each deletion; creations skip  *)
(* none, wherever in the order they turn up.                               *)
SkipsOnlyByDeletion ==
  ended /\ Distinct => Cardinality({u \in began : seen[u] = 0}) <= deleted

(* The second and every later time that an account was shown.              *)
Repetitions == UNION {{u} \X (2 .. seen[u]) : u \in User}

(* An account is shown again only because another one was created, which   *)
(* pushes the others back, one repetition for each creation; deletions     *)
(* repeat none.                                                            *)
RepeatsOnlyByCreation == Distinct => Cardinality(Repetitions) <= created

(* Page 0 has the offset 2^64 - page_size, which PostgreSQL refuses: no    *)
(* client that counts pages from 0 is shown rows of another page.          *)
PageZeroRefused == reply.page = 0 => reply.rows = << >> /\ reply.code # "OK"
=============================================================================
