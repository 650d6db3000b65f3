---------------------------- MODULE ImportProofs ----------------------------
(***************************************************************************)
(* Theorems about Import, for any number of requests at once and any       *)
(* sheets: batches are numbered without a gap and hold what they say, the  *)
(* reports add up, and the index keeps a message from being mailed twice.  *)
(***************************************************************************)
EXTENDS Import, FiniteSetTheorems, SequenceTheorems, FunctionTheorems, TLAPS

-----------------------------------------------------------------------------
(* The inductive invariants *)

InTransaction(r) == pc[r] \in {"number", "insert", "commit"}

(* The lock is held through a whole transaction, so there is one at most.  *)
OneTransaction == \A r \in Imports : InTransaction(r) => lock = r

(* A transaction inserts rows of its sheet that are not in the queue, and  *)
(* has inserted none before it is about to commit.                         *)
InsertsCandidates ==
  /\ inserted \in [Imports -> SUBSET Nat]
  /\ \A r \in Imports : /\ inserted[r] \subseteq Candidates(r)
                        /\ inserted[r] # {} => pc[r] = "commit"

(* The numbers given out are 1..n, and the transaction that has taken one  *)
(* has the next.                                                           *)
NumbersInOrder ==
  \E n \in Nat : /\ DOMAIN batches = 1..n
                 /\ \A r \in Imports : pc[r] \in {"insert", "commit"} => number[r] = n + 1

RowsOfBatch(n) == {i \in RowIds : queue[i].batch = n}

BatchesHoldTheirRows ==
  /\ \A i \in RowIds : queue[i].batch \in DOMAIN batches
  /\ \A n \in DOMAIN batches :
       batches[n].inserted = Cardinality(RowsOfBatch(n)) /\ batches[n].inserted > 0

ImportInv == /\ TypeOK /\ OneTransaction /\ InsertsCandidates
             /\ NumbersInOrder /\ BatchesHoldTheirRows

(* While edits do not cross another write and acceptances are recorded:    *)
(* what is going out is `sending` and what went out stays live, ...        *)
MailedRowsStayLive ==
  /\ \A i \in flying : queue[i].status = "sending"
  /\ \A i \in mailed : \/ queue[i].status = "sent"
                       \/ queue[i].status = "sending" /\ i \in flying
  /\ \A e \in edit : e.seen \in {"failed", "cancelled"}

Key(i) == dedupeKey(queue[i].msg)

(* ... live rows have keys of their own, also against the rows that are    *)
(* about to be committed.                                                  *)
LiveKeysAreUnique ==
  /\ \A i, j \in RowIds :
       i # j /\ Live(queue[i].status) /\ Live(queue[j].status) => Key(i) # Key(j)
  /\ \A i \in RowIds, r \in Imports : \A n \in inserted[r] :
       Live(queue[i].status) => dedupeKey(file[r][n]) # Key(i)

DeliveryInv == ImportInv /\ MailedRowsStayLive /\ LiveKeysAreUnique

-----------------------------------------------------------------------------
(* Operators *)

(* Every k has one row at that position of the sheet: counting the rows up *)
(* to each is a bijection onto 1..k.                                       *)
LEMMA RowsInSheetOrder ==
  ASSUME NEW S \in SUBSET Nat, IsFiniteSet(S)
  PROVE  /\ Cardinality(S) \in Nat
         /\ \A k \in 1..Cardinality(S) :
              InSheetOrder(S, k) \in S /\ Position(S, InSheetOrder(S, k)) = k
  <1> DEFINE T == 1..Cardinality(S)
             f == [n \in S |-> Position(S, n)]
  <1>1. Cardinality(S) \in Nat
    BY FS_CardinalityType
  <1>2. ASSUME NEW n \in S
        PROVE  IsFiniteSet({m \in S : m <= n}) /\ Position(S, n) \in T
    <2>1. IsFiniteSet({m \in S : m <= n}) /\ Position(S, n) <= Cardinality(S)
      BY FS_Subset DEF Position
    <2>2. Position(S, n) \in Nat /\ (Position(S, n) = 0 <=> {m \in S : m <= n} = {})
      BY <2>1, FS_CardinalityType, FS_EmptySet DEF Position
    <2>3. n \in {m \in S : m <= n}
      OBVIOUS
    <2> QED BY <1>1, <2>1, <2>2, <2>3
  <1>3. ASSUME NEW m \in S, NEW n \in S, m < n PROVE Position(S, m) # Position(S, n)
    <2> DEFINE A == {x \in S : x <= m}
               B == {x \in S : x <= n}
    <2>1. A \subseteq B
      <3>1. ASSUME NEW x \in S, x <= m PROVE x <= n
        <4>1. m \in Nat /\ n \in Nat /\ x \in Nat
          OBVIOUS
        <4> QED BY <4>1, <3>1, <1>3
      <3> QED BY <3>1
    <2>2. n \in B /\ n \notin A
      BY <1>3
    <2>3. IsFiniteSet(B) /\ Position(S, m) = Cardinality(A) /\ Position(S, n) = Cardinality(B)
      BY <1>2 DEF Position
    <2> HIDE DEF A, B
    <2> QED BY <2>1, <2>2, <2>3, FS_Subset
  <1>4. f \in [S -> T]
    BY <1>2
  <1>5. ASSUME NEW m \in S, NEW n \in S, f[m] = f[n] PROVE m = n
    <2>1. Position(S, m) = Position(S, n)
      BY <1>5
    <2>2. m \in Nat /\ n \in Nat
      OBVIOUS
    <2>3. ~(m < n) /\ ~(n < m)
      BY <1>3, <2>1
    <2> QED BY <2>2, <2>3
  <1>6. IsFiniteSet(T) /\ Cardinality(T) = Cardinality(S)
    BY <1>1, FS_Interval
  <1> HIDE DEF f, T
  <1>7. f \in Surjection(S, T)
    <2>1. f \in Injection(S, T)
      BY <1>4, <1>5, Fun_IsInj
    <2> QED BY <2>1, <1>6, FS_Injection
  <1>8. \A k \in T : \E n \in S : f[n] = k
    BY <1>7, Fun_SurjectionProperties
  <1>9. \A k \in T : \E n \in S : Position(S, n) = k
    BY <1>8 DEF f
  <1> QED BY <1>1, <1>9 DEF InSheetOrder, T

(* The number after 1..n is n + 1.                                         *)
LEMMA NumberAfter ==
  ASSUME NEW n \in Nat
  PROVE  NextNumber(1..n) = n + 1
  <1>1. CASE n = 0
    BY <1>1 DEF NextNumber
  <1>2. CASE n # 0
    <2>1. n \in 1..n /\ \A y \in 1..n : n >= y
      BY <1>2
    <2>2. Max(1..n) = n
      BY <2>1 DEF Max
    <2> QED BY <1>2, <2>1, <2>2 DEF NextNumber
  <1> QED BY <1>1, <1>2

(* A part and the rest of it.                                              *)
LEMMA CountParts ==
  ASSUME NEW A, NEW B, IsFiniteSet(A), IsFiniteSet(B), A \cap B = {}
  PROVE  /\ IsFiniteSet(A \cup B)
         /\ Cardinality(A) \in Nat /\ Cardinality(B) \in Nat
         /\ Cardinality(A \cup B) = Cardinality(A) + Cardinality(B)
  <1>1. /\ IsFiniteSet(A \cup B)
        /\ Cardinality(A \cup B) = Cardinality(A) + Cardinality(B) - Cardinality(A \cap B)
    BY FS_Union
  <1>2. Cardinality(A \cap B) = 0
    BY FS_EmptySet
  <1>3. Cardinality(A) \in Nat /\ Cardinality(B) \in Nat
    BY FS_CardinalityType
  <1> QED BY <1>1, <1>2, <1>3

(* What a sheet looks like.                                                *)
LEMMA SheetRows ==
  ASSUME TypeOK, NEW r \in Imports
  PROVE  /\ file[r] \in Seq(Messages \cup {Invalid})
         /\ DOMAIN file[r] = 1..Len(file[r]) /\ Len(file[r]) \in Nat
         /\ DOMAIN file[r] \subseteq Nat /\ IsFiniteSet(DOMAIN file[r])
         /\ Cardinality(DOMAIN file[r]) = Len(file[r])
         /\ \A n \in Valid(r) : file[r][n] \in Messages
         /\ Candidates(r) \subseteq Valid(r) \ SuppressedRows(r)
         /\ SuppressedRows(r) \subseteq Valid(r) /\ Valid(r) \subseteq DOMAIN file[r]
  <1>1. file[r] \in Seq(Messages \cup {Invalid})
    BY ImportAssumption, EmptySeq DEF TypeOK
  <1>2. DOMAIN file[r] = 1..Len(file[r]) /\ Len(file[r]) \in Nat
    BY <1>1, LenProperties
  <1>3. IsFiniteSet(1..Len(file[r])) /\ Cardinality(1..Len(file[r])) = Len(file[r])
    BY <1>2, FS_Interval
  <1>4. \A n \in Valid(r) : file[r][n] \in Messages
    BY <1>1, <1>2, ElementOfSeq DEF Valid
  <1> QED BY <1>1, <1>2, <1>3, <1>4 DEF Candidates, SuppressedRows, Valid

(* Rows of the sheet are counted once, whichever of the candidates were    *)
(* let through.                                                            *)
LEMMA ResultAddsUp ==
  ASSUME TypeOK, NEW r \in Imports, NEW rows \in SUBSET Candidates(r), NEW b \in Nat
  PROVE  LET result == Result(r, b, rows) IN
         /\ result \in Reports
         /\ result.totalRows = result.inserted + result.duplicates
                                 + result.suppressed + result.errors
  <1> DEFINE D == DOMAIN file[r]
             twice == Repeated(r) \cup Existing(r, rows)
             supp == SuppressedRows(r)
             bad == Rejected(r)
  <1>1. /\ rows \subseteq D /\ twice \subseteq D /\ supp \subseteq D /\ bad \subseteq D
        /\ rows \cap twice = {} /\ (rows \cup twice) \cap supp = {}
        /\ (rows \cup twice \cup supp) \cap bad = {}
        /\ D = rows \cup twice \cup supp \cup bad
    BY SheetRows DEF Repeated, Existing, Rejected
  <1>2. IsFiniteSet(D) /\ Cardinality(D) = Len(file[r]) /\ Len(file[r]) \in Nat
    BY SheetRows
  <1> HIDE DEF D, twice, supp, bad
  <1>3. IsFiniteSet(rows) /\ IsFiniteSet(twice) /\ IsFiniteSet(supp) /\ IsFiniteSet(bad)
    BY <1>1, <1>2, FS_Subset
  <1>4. /\ IsFiniteSet(rows \cup twice)
        /\ Cardinality(rows) \in Nat /\ Cardinality(twice) \in Nat
        /\ Cardinality(rows \cup twice) = Cardinality(rows) + Cardinality(twice)
    BY <1>1, <1>3, CountParts
  <1>5. /\ IsFiniteSet(rows \cup twice \cup supp)
        /\ Cardinality(supp) \in Nat
        /\ Cardinality(rows \cup twice \cup supp)
             = Cardinality(rows \cup twice) + Cardinality(supp)
    BY <1>1, <1>3, <1>4, CountParts
  <1>6. /\ Cardinality(bad) \in Nat
        /\ Cardinality(D) = Cardinality(rows \cup twice \cup supp) + Cardinality(bad)
    BY <1>1, <1>3, <1>5, CountParts
  <1>7. Result(r, b, rows) = [batch |-> b, totalRows |-> Len(file[r]),
          inserted |-> Cardinality(rows), duplicates |-> Cardinality(twice),
          suppressed |-> Cardinality(supp), errors |-> Cardinality(bad)]
    BY DEF Result, twice, supp, bad
  <1>8. Len(file[r]) = Cardinality(rows) + Cardinality(twice) + Cardinality(supp) + Cardinality(bad)
    BY <1>2, <1>4, <1>5, <1>6
  <1>9. Result(r, b, rows) \in Reports
    BY <1>2, <1>4, <1>5, <1>6, <1>7 DEF Reports
  <1> QED BY <1>7, <1>8, <1>9

(* A sheet the database rejected is counted as well.                       *)
LEMMA FailureAddsUp ==
  ASSUME TypeOK, NEW r \in Imports
  PROVE  /\ Failure(r) \in Reports
         /\ Failure(r).totalRows = Failure(r).inserted + Failure(r).duplicates
                                     + Failure(r).suppressed + Failure(r).errors
  <1> DEFINE D == DOMAIN file[r]
             twice == Repeated(r)
             supp == SuppressedRows(r)
             bad == Rejected(r) \cup Candidates(r)
  <1>1. /\ twice \subseteq D /\ supp \subseteq D /\ bad \subseteq D
        /\ twice \cap supp = {} /\ (twice \cup supp) \cap bad = {}
        /\ D = twice \cup supp \cup bad
    BY SheetRows DEF Repeated, Rejected
  <1>2. IsFiniteSet(D) /\ Cardinality(D) = Len(file[r]) /\ Len(file[r]) \in Nat
    BY SheetRows
  <1> HIDE DEF D, twice, supp, bad
  <1>3. IsFiniteSet(twice) /\ IsFiniteSet(supp) /\ IsFiniteSet(bad)
    BY <1>1, <1>2, FS_Subset
  <1>4. /\ IsFiniteSet(twice \cup supp)
        /\ Cardinality(twice) \in Nat /\ Cardinality(supp) \in Nat
        /\ Cardinality(twice \cup supp) = Cardinality(twice) + Cardinality(supp)
    BY <1>1, <1>3, CountParts
  <1>5. /\ Cardinality(bad) \in Nat
        /\ Cardinality(D) = Cardinality(twice \cup supp) + Cardinality(bad)
    BY <1>1, <1>3, <1>4, CountParts
  <1>6. Failure(r) = [batch |-> NoBatch, totalRows |-> Len(file[r]),
          inserted |-> 0, duplicates |-> Cardinality(twice),
          suppressed |-> Cardinality(supp), errors |-> Cardinality(bad)]
    BY DEF Failure, twice, supp, bad
  <1>7. Len(file[r]) = 0 + Cardinality(twice) + Cardinality(supp) + Cardinality(bad)
    BY <1>1, <1>2, <1>4, <1>5
  <1>8. Failure(r) \in Reports
    BY <1>2, <1>4, <1>5, <1>6 DEF Reports, NoBatch
  <1> QED BY <1>6, <1>7, <1>8

-----------------------------------------------------------------------------
(* The queue *)

(* Rows keep their message and their batch, whatever becomes of them.      *)
SameRows ==
  /\ queue' \in Seq(QueueRows) /\ RowIds' = RowIds
  /\ \A i \in RowIds : /\ queue'[i].msg = queue[i].msg
                       /\ queue'[i].batch = queue[i].batch

Statuses == {"pending", "sending", "sent", "failed", "cancelled"}

LEMMA RowShape ==
  ASSUME TypeOK
  PROVE  /\ Len(queue) \in Nat /\ RowIds = 1..Len(queue)
         /\ \A i \in RowIds : queue[i] \in QueueRows
  BY LenProperties, ElementOfSeq DEF TypeOK, RowIds

(* An update by id. *)
LEMMA StatusChange ==
  ASSUME TypeOK, NEW i \in RowIds, NEW s \in Statuses, SetStatus(i, s)
  PROVE  /\ SameRows
         /\ queue'[i].status = s
         /\ \A j \in RowIds \ {i} : queue'[j] = queue[j]
  <1>1. /\ Len(queue) \in Nat /\ RowIds = 1..Len(queue)
        /\ \A j \in RowIds : queue[j] \in QueueRows
    BY RowShape
  <1>2. [queue[i] EXCEPT !.status = s] \in QueueRows
    BY <1>1 DEF QueueRows, Statuses
  <1>3. queue' \in [1..Len(queue) -> QueueRows]
    BY <1>1, <1>2 DEF SetStatus, TypeOK
  <1>4. queue' \in Seq(QueueRows) /\ RowIds' = RowIds
    BY <1>1, <1>3, IsASeq DEF RowIds
  <1>5. /\ queue'[i] = [queue[i] EXCEPT !.status = s]
        /\ \A j \in RowIds \ {i} : queue'[j] = queue[j]
    BY <1>1 DEF SetStatus, RowIds
  <1>6. /\ queue'[i].status = s
        /\ queue'[i].msg = queue[i].msg /\ queue'[i].batch = queue[i].batch
    BY <1>1, <1>5 DEF QueueRows
  <1> QED BY <1>4, <1>5, <1>6 DEF SameRows

(* One statement over many rows. *)
LEMMA CancellationChange ==
  ASSUME TypeOK, NEW S \in SUBSET RowIds, CancelMany(S)
  PROVE  /\ SameRows
         /\ \A j \in RowIds : \/ queue'[j] = queue[j]
                              \/ queue[j].status = "pending" /\ queue'[j].status = "cancelled"
  <1>1. /\ Len(queue) \in Nat /\ RowIds = 1..Len(queue)
        /\ \A j \in RowIds : queue[j] \in QueueRows
    BY RowShape
  <1>2. \A j \in RowIds : [queue[j] EXCEPT !.status = "cancelled"] \in QueueRows
    BY <1>1 DEF QueueRows
  <1>3. queue' \in [1..Len(queue) -> QueueRows]
    BY <1>1, <1>2 DEF CancelMany
  <1>4. queue' \in Seq(QueueRows) /\ RowIds' = RowIds
    BY <1>1, <1>3, IsASeq DEF RowIds
  <1>5. \A j \in RowIds : \/ queue'[j] = queue[j]
                          \/ /\ queue[j].status = "pending"
                             /\ queue'[j] = [queue[j] EXCEPT !.status = "cancelled"]
    BY DEF CancelMany
  <1>6. \A j \in RowIds : queue'[j].msg = queue[j].msg /\ queue'[j].batch = queue[j].batch
    <2>1. \A row \in QueueRows : LET new == [row EXCEPT !.status = "cancelled"] IN
                                 new.msg = row.msg /\ new.batch = row.batch
      BY DEF QueueRows
    <2> QED BY <1>1, <1>5, <2>1
  <1>7. \A j \in RowIds : queue[j].status = "pending" /\ queue'[j] # queue[j]
                            => queue'[j].status = "cancelled"
    BY <1>1, <1>5 DEF QueueRows
  <1> QED BY <1>4, <1>5, <1>6, <1>7 DEF SameRows

(* The senders and the operators. *)
RowStep(i) == Claim(i) \/ Accepted(i) \/ Settle(i) \/ ReviveRead(i)

EditStep ==
  \/ \E S \in SUBSET RowIds : CancelMany(S)
  \/ \E to \in Recipients : Suppress(to)
  \/ \E e \in edit : ReviveWrite(e)

(* ... leave the rows and everything of the importer's as it was.          *)
LEMMA RowsStay ==
  ASSUME TypeOK, (\E i \in RowIds : RowStep(i)) \/ EditStep
  PROVE  /\ SameRows
         /\ UNCHANGED <<batches, lock, request>>
  <1>1. ASSUME UNCHANGED queue PROVE SameRows
    BY <1>1 DEF SameRows, TypeOK, RowIds
  <1>2. ASSUME NEW i \in RowIds, RowStep(i)
        PROVE  SameRows /\ UNCHANGED <<batches, lock, request>>
    <2>1. CASE Claim(i)
      BY <2>1, StatusChange DEF Claim, Statuses
    <2>2. CASE Accepted(i) \/ ReviveRead(i)
      BY <2>2, <1>1 DEF Accepted, ReviveRead
    <2>3. CASE Settle(i)
      <3>1. UNCHANGED queue \/ \E s \in Statuses : SetStatus(i, s)
        BY <2>3 DEF Settle, Statuses
      <3> QED BY <2>3, <3>1, <1>1, StatusChange DEF Settle
    <2> QED BY <1>2, <2>1, <2>2, <2>3 DEF RowStep
  <1>3. ASSUME NEW S \in SUBSET RowIds, CancelMany(S)
        PROVE  SameRows /\ UNCHANGED <<batches, lock, request>>
    BY <1>3, CancellationChange DEF CancelMany
  <1>4. ASSUME NEW to \in Recipients, Suppress(to)
        PROVE  SameRows /\ UNCHANGED <<batches, lock, request>>
    BY <1>4, <1>1 DEF Suppress
  <1>5. ASSUME NEW e \in edit, ReviveWrite(e)
        PROVE  SameRows /\ UNCHANGED <<batches, lock, request>>
    <2>1. e.row \in RowIds
      BY DEF TypeOK
    <2>2. UNCHANGED queue \/ SetStatus(e.row, "pending")
      BY <1>5 DEF ReviveWrite
    <2> QED BY <1>5, <2>1, <2>2, <1>1, StatusChange DEF ReviveWrite, Statuses
  <1> QED BY <1>2, <1>3, <1>4, <1>5 DEF EditStep

-----------------------------------------------------------------------------
(* The senders and the operators keep what the importer relies on *)

LEMMA OthersKeepTypes ==
  ASSUME TypeOK, (\E i \in RowIds : RowStep(i)) \/ EditStep
  PROVE  TypeOK'
  <1>1. SameRows /\ UNCHANGED <<batches, lock, request>>
    BY RowsStay
  <1>2. suppressed' \subseteq Recipients
    BY DEF TypeOK, RowStep, EditStep, Claim, Accepted, Settle, ReviveRead,
           CancelMany, Suppress, ReviveWrite
  <1>3. flying' \subseteq RowIds /\ mailed' \subseteq RowIds
    BY DEF TypeOK, RowStep, EditStep, Claim, Accepted, Settle, ReviveRead,
           CancelMany, Suppress, ReviveWrite, sending
  <1>4. (\A e \in edit' : e.row \in RowIds) /\ editsLeft' \in Nat
    BY DEF TypeOK, RowStep, EditStep, Claim, Accepted, Settle, ReviveRead,
           CancelMany, Suppress, ReviveWrite, editing, Request
  <1> QED BY <1>1, <1>2, <1>3, <1>4 DEF TypeOK, SameRows, request, transaction

LEMMA OthersKeepImportInv ==
  ASSUME ImportInv, (\E i \in RowIds : RowStep(i)) \/ EditStep
  PROVE  ImportInv'
  <1>1. SameRows /\ UNCHANGED <<batches, lock, request>> /\ TypeOK'
    BY RowsStay, OthersKeepTypes DEF ImportInv
  <1>2. UNCHANGED <<pc, file, listed, number, inserted, report>>
    BY <1>1 DEF request, transaction
  <1>3. \A r \in Imports : Candidates(r)' = Candidates(r)
    BY <1>2 DEF Candidates, Valid, SuppressedRows
  <1>4. OneTransaction' /\ InsertsCandidates' /\ NumbersInOrder'
    BY <1>1, <1>2, <1>3 DEF ImportInv, OneTransaction, InTransaction,
                            InsertsCandidates, NumbersInOrder
  <1>5. \A n : RowsOfBatch(n)' = RowsOfBatch(n)
    BY <1>1 DEF SameRows, RowsOfBatch, RowIds
  <1>6. BatchesHoldTheirRows'
    BY <1>1, <1>5 DEF ImportInv, BatchesHoldTheirRows, SameRows, RowIds
  <1> QED BY <1>1, <1>4, <1>6 DEF ImportInv

-----------------------------------------------------------------------------
(* Requests *)

(* Nobody else is inside a transaction. *)
LEMMA OnlyTransaction ==
  ASSUME TypeOK, OneTransaction, NEW r \in Imports, InTransaction(r)
  PROVE  /\ lock = r
         /\ \A q \in Imports \ {r} : ~InTransaction(q)
  BY DEF OneTransaction

(* The steps of a request before its transaction writes. *)
PreparingStep(r) == Start(r) \/ Validate(r) \/ LockBatches(r) \/ TakeNumber(r)

LEMMA PreparingKeepsTypes ==
  ASSUME ImportInv, NEW r \in Imports, PreparingStep(r)
  PROVE  TypeOK'
  <1>1. UNCHANGED <<queue, batches, sending, editing, suppressed>>
    BY DEF PreparingStep, Start, Validate, LockBatches, TakeNumber
  <1>2. /\ queue' \in Seq(QueueRows) /\ DOMAIN batches' \subseteq Nat
        /\ (\A n \in DOMAIN batches' : batches'[n] \in Reports)
        /\ suppressed' \subseteq Recipients
        /\ flying' \subseteq RowIds' /\ mailed' \subseteq RowIds'
        /\ (\A e \in edit' : e.row \in RowIds') /\ editsLeft' \in Nat
    BY <1>1 DEF ImportInv, TypeOK, sending, editing, RowIds
  <1>3. CASE Start(r)
    <2>1. /\ pc' \in [Imports -> {"idle", "validate", "lock", "number", "insert",
                                   "commit", "done"}]
          /\ file' \in [Imports -> Files \cup {<<>>}]
          /\ listed' \in [Imports -> SUBSET Recipients]
      BY <1>3 DEF ImportInv, TypeOK, Start
    <2>2. \A q \in Imports : inserted'[q] \subseteq DOMAIN file'[q]
      <3>1. inserted[r] = {}
        BY <1>3 DEF Start, ImportInv, InsertsCandidates
      <3> QED BY <1>3, <3>1 DEF ImportInv, TypeOK, Start, transaction
    <2>3. lock' \in {None} \cup {q \in Imports : pc'[q] \in {"number", "insert", "commit"}}
      BY <1>3 DEF ImportInv, TypeOK, Start
    <2> QED BY <1>2, <1>3, <2>1, <2>2, <2>3 DEF ImportInv, TypeOK, Start, transaction
  <1>4. CASE Validate(r)
    <2>1. report' \in [Imports -> Reports \cup {None}]
      <3>1. Result(r, NoBatch, {}) \in Reports
        BY ResultAddsUp DEF ImportInv, NoBatch
      <3> QED BY <1>4, <3>1 DEF ImportInv, TypeOK, Validate, Finish
    <2>2. /\ pc' \in [Imports -> {"idle", "validate", "lock", "number", "insert",
                                   "commit", "done"}]
          /\ \A q \in Imports : InTransaction(q)' <=> InTransaction(q)
      BY <1>4 DEF ImportInv, TypeOK, Validate, Finish, InTransaction
    <2>3. lock' \in {None} \cup {q \in Imports : pc'[q] \in {"number", "insert", "commit"}}
      BY <1>4, <2>2 DEF ImportInv, TypeOK, Validate, InTransaction
    <2> QED BY <1>2, <1>4, <2>1, <2>2, <2>3 DEF ImportInv, TypeOK, Validate, transaction
  <1>5. CASE LockBatches(r)
    BY <1>2, <1>5 DEF ImportInv, TypeOK, LockBatches, transaction
  <1>6. CASE TakeNumber(r)
    <2>1. PICK n \in Nat : DOMAIN batches = 1..n
      BY DEF ImportInv, NumbersInOrder
    <2>2. NextNumber(DOMAIN batches) \in Nat
      BY <2>1, NumberAfter
    <2> QED BY <1>2, <1>6, <2>2 DEF ImportInv, TypeOK, TakeNumber
  <1> QED BY <1>3, <1>4, <1>5, <1>6 DEF PreparingStep

LEMMA PreparingKeepsImportInv ==
  ASSUME ImportInv, NEW r \in Imports, PreparingStep(r)
  PROVE  ImportInv'
  <1>1. UNCHANGED <<queue, batches, inserted>>
    BY DEF PreparingStep, Start, Validate, LockBatches, TakeNumber, transaction
  <1>2. pc[r] # "commit" /\ inserted[r] = {}
    BY DEF PreparingStep, Start, Validate, LockBatches, TakeNumber,
           ImportInv, InsertsCandidates
  <1>3. \A q \in Imports \ {r} : /\ pc'[q] = pc[q] /\ number'[q] = number[q]
                                 /\ file'[q] = file[q] /\ listed'[q] = listed[q]
    BY DEF PreparingStep, Start, Validate, LockBatches, TakeNumber, transaction,
           Finish, ImportInv, TypeOK
  <1>4. OneTransaction'
    <2>1. CASE Start(r) \/ Validate(r)
      <3>1. ~InTransaction(r)' /\ lock' = lock
        BY <2>1 DEF Start, Validate, Finish, InTransaction, ImportInv, TypeOK
      <3> QED BY <1>3, <3>1 DEF OneTransaction, InTransaction, ImportInv
    <2>2. CASE LockBatches(r)
      <3>1. \A q \in Imports : ~InTransaction(q)
        BY <2>2, ImportAssumption DEF LockBatches, LockFree, OneTransaction, ImportInv
      <3>2. lock' = r
        BY <2>2 DEF LockBatches
      <3> QED BY <1>3, <3>1, <3>2 DEF OneTransaction, InTransaction
    <2>3. CASE TakeNumber(r)
      <3>1. lock' = lock /\ InTransaction(r)
        BY <2>3 DEF TakeNumber, InTransaction
      <3> QED BY <1>3, <3>1 DEF OneTransaction, InTransaction, ImportInv
    <2> QED BY <2>1, <2>2, <2>3 DEF PreparingStep
  <1>5. InsertsCandidates'
    <2>1. \A q \in Imports \ {r} : Candidates(q)' = Candidates(q)
      BY <1>3 DEF Candidates, Valid, SuppressedRows
    <2> QED BY <1>1, <1>2, <1>3, <2>1 DEF ImportInv, InsertsCandidates
  <1>6. NumbersInOrder'
    <2>1. PICK n \in Nat :
            /\ DOMAIN batches = 1..n
            /\ \A q \in Imports : pc[q] \in {"insert", "commit"} => number[q] = n + 1
      BY DEF ImportInv, NumbersInOrder
    <2>2. pc'[r] \in {"insert", "commit"} => number'[r] = n + 1
      BY <2>1, NumberAfter DEF PreparingStep, Start, Validate, LockBatches,
           TakeNumber, Finish, ImportInv, TypeOK
    <2>3. DOMAIN batches' = 1..n
      BY <1>1, <2>1
    <2>4. \A q \in Imports : pc'[q] \in {"insert", "commit"} => number'[q] = n + 1
      BY <1>3, <2>1, <2>2
    <2> QED BY <2>3, <2>4 DEF NumbersInOrder
  <1>7. BatchesHoldTheirRows'
    BY <1>1 DEF ImportInv, BatchesHoldTheirRows, RowsOfBatch, RowIds
  <1> QED BY <1>4, <1>5, <1>6, <1>7, PreparingKeepsTypes DEF ImportInv

(* The insert: the rows wait for the commit. *)
LEMMA InsertKeepsImportInv ==
  ASSUME ImportInv, NEW r \in Imports, InsertRows(r)
  PROVE  ImportInv'
  <1>1. /\ UNCHANGED <<queue, batches, suppressed, lock, file, listed, number,
                       report, sending, editing>>
        /\ pc[r] = "insert" /\ pc' = [pc EXCEPT ![r] = "commit"]
        /\ inserted' = [inserted EXCEPT ![r] = NewRows(r)]
    BY DEF InsertRows
  <1>2. NewRows(r) \subseteq Candidates(r) /\ Candidates(r) \subseteq DOMAIN file[r]
        /\ DOMAIN file[r] \subseteq Nat
    BY SheetRows DEF NewRows, ImportInv
  <1>3. \A q \in Imports : Candidates(q)' = Candidates(q)
    BY <1>1 DEF Candidates, Valid, SuppressedRows
  <1>4. InsertsCandidates'
    BY <1>1, <1>2, <1>3 DEF ImportInv, InsertsCandidates, TypeOK
  <1>5. \A q \in Imports : inserted'[q] \subseteq DOMAIN file'[q]
    BY <1>1, <1>2 DEF ImportInv, InsertsCandidates, TypeOK
  <1>6. TypeOK'
    BY <1>1, <1>5 DEF ImportInv, TypeOK, sending, editing, RowIds
  <1>7. OneTransaction' /\ NumbersInOrder'
    BY <1>1 DEF ImportInv, TypeOK, OneTransaction, InTransaction, NumbersInOrder
  <1>8. BatchesHoldTheirRows'
    BY <1>1 DEF ImportInv, BatchesHoldTheirRows, RowsOfBatch, RowIds
  <1> QED BY <1>4, <1>6, <1>7, <1>8 DEF ImportInv

(* A transaction that leaves nothing behind. *)
LEMMA RollbackKeepsImportInv ==
  ASSUME ImportInv, NEW r \in Imports, NothingQueued(r) \/ Fails(r)
  PROVE  ImportInv'
  <1>1. /\ UNCHANGED <<queue, batches, suppressed, file, listed, sending, editing>>
        /\ EndTransaction(r)
        /\ \E result \in Reports : Finish(r, result)
    <2>1. Result(r, NoBatch, {}) \in Reports /\ Failure(r) \in Reports
      BY ResultAddsUp, FailureAddsUp DEF ImportInv, NoBatch
    <2> QED BY <2>1 DEF NothingQueued, Fails
  <1>2. /\ pc' = [pc EXCEPT ![r] = "done"]
        /\ lock' = IF lock = r THEN None ELSE lock
        /\ number' = [number EXCEPT ![r] = 0]
        /\ inserted' = [inserted EXCEPT ![r] = {}]
    BY <1>1 DEF EndTransaction, Finish
  <1>3. \A q \in Imports : Candidates(q)' = Candidates(q)
    BY <1>1 DEF Candidates, Valid, SuppressedRows
  <1>4. InsertsCandidates'
    BY <1>2, <1>3 DEF ImportInv, InsertsCandidates, TypeOK
  <1>5. TypeOK'
    <2>1. report' \in [Imports -> Reports \cup {None}]
      BY <1>1 DEF Finish, ImportInv, TypeOK
    <2>2. lock' \in {None} \cup {q \in Imports : pc'[q] \in {"number", "insert", "commit"}}
      BY <1>2 DEF ImportInv, TypeOK
    <2>3. \A q \in Imports : inserted'[q] \subseteq DOMAIN file'[q]
      BY <1>1, <1>2 DEF ImportInv, TypeOK, InsertsCandidates
    <2> QED BY <1>1, <1>2, <2>1, <2>2, <2>3 DEF ImportInv, TypeOK, sending, editing, RowIds
  <1>6. OneTransaction'
    BY <1>2 DEF ImportInv, TypeOK, OneTransaction, InTransaction
  <1>7. NumbersInOrder'
    BY <1>1, <1>2 DEF ImportInv, TypeOK, NumbersInOrder
  <1>8. BatchesHoldTheirRows'
    BY <1>1 DEF ImportInv, BatchesHoldTheirRows, RowsOfBatch, RowIds
  <1> QED BY <1>4, <1>5, <1>6, <1>7, <1>8 DEF ImportInv

(* What a commit adds to the queue: one row for each that was inserted.    *)
LEMMA CommittedRows ==
  ASSUME ImportInv, NEW r \in Imports, Commit(r)
  PROVE  LET L == Len(queue)
             c == Cardinality(inserted[r])
             row(k) == InSheetOrder(inserted[r], k)
         IN  /\ L \in Nat /\ RowIds = 1..L
             /\ IsFiniteSet(inserted[r]) /\ c \in Nat /\ c > 0
             /\ queue' \in Seq(QueueRows) /\ RowIds' = 1..(L + c)
             /\ \A i \in 1..L : queue'[i] = queue[i]
             /\ \A k \in 1..c : queue'[L + k] = RowOf(r, row(k)) /\ row(k) \in inserted[r]
             /\ \A j, k \in 1..c : j # k => row(j) # row(k)
  <1> DEFINE L == Len(queue)
             S == inserted[r]
             c == Cardinality(S)
             new == [k \in 1..c |-> RowOf(r, InSheetOrder(S, k))]
  <1>1. L \in Nat /\ RowIds = 1..L
    BY RowShape DEF ImportInv
  <1>2. S \in SUBSET Nat /\ S \subseteq Valid(r) /\ IsFiniteSet(S)
    BY SheetRows, FS_Subset DEF ImportInv, InsertsCandidates
  <1>3. c \in Nat /\ c > 0
    BY <1>2, FS_CardinalityType, FS_EmptySet DEF Commit, QueuedSomething
  <1>4. \A k \in 1..c : InSheetOrder(S, k) \in S /\ Position(S, InSheetOrder(S, k)) = k
    BY <1>2, RowsInSheetOrder
  <1>5. \A k \in 1..c : RowOf(r, InSheetOrder(S, k)) \in QueueRows
    <2>1. \A n \in S : file[r][n] \in Messages
      BY <1>2, SheetRows DEF ImportInv
    <2>2. number[r] \in Nat
      BY DEF ImportInv, TypeOK
    <2> QED BY <1>4, <2>1, <2>2 DEF RowOf, QueueRows
  <1>6. new \in Seq(QueueRows) /\ Len(new) = c
    <2> HIDE DEF c, S
    <2>1. new \in [1..c -> QueueRows]
      BY <1>5
    <2> QED BY <1>3, <2>1, IsASeq, LenProperties
  <1>7. queue' = queue \o new
    BY DEF Commit
  <1>8. /\ queue' \in Seq(QueueRows) /\ Len(queue') = L + c
        /\ \A i \in 1..(L + c) : queue'[i] = IF i <= L THEN queue[i] ELSE new[i - L]
    <2>1. queue \in Seq(QueueRows)
      BY DEF ImportInv, TypeOK
    <2> HIDE DEF new, c
    <2> QED BY <1>6, <1>7, <2>1, ConcatProperties
  <1>9. RowIds' = 1..(L + c)
    BY <1>8, LenProperties DEF RowIds
  <1>10. \A i \in 1..L : queue'[i] = queue[i]
    <2> HIDE DEF c, new, L
    <2> QED BY <1>1, <1>3, <1>8
  <1>11. \A k \in 1..c : queue'[L + k] = RowOf(r, InSheetOrder(S, k))
    <2>1. \A k \in 1..c : queue'[L + k] = new[k]
      <3> HIDE DEF c, new, L
      <3>1. ASSUME NEW k \in 1..c PROVE queue'[L + k] = new[k]
        <4>1. L + k \in 1..(L + c) /\ ~(L + k <= L) /\ (L + k) - L = k
          BY <1>1, <1>3
        <4> QED BY <1>8, <4>1
      <3> QED BY <3>1
    <2> QED BY <2>1
  <1> QED BY <1>1, <1>2, <1>3, <1>4, <1>8, <1>9, <1>10, <1>11

LEMMA CommitKeepsImportInv ==
  ASSUME ImportInv, NEW r \in Imports, Commit(r)
  PROVE  ImportInv'
  <1> DEFINE L == Len(queue)
             S == inserted[r]
             c == Cardinality(S)
             result == Result(r, number[r], S)
  <1>1. /\ UNCHANGED <<suppressed, file, listed, sending, editing>>
        /\ pc[r] = "commit" /\ pc' = [pc EXCEPT ![r] = "done"]
        /\ report' = [report EXCEPT ![r] = result]
        /\ lock' = IF lock = r THEN None ELSE lock
        /\ number' = [number EXCEPT ![r] = 0]
        /\ inserted' = [inserted EXCEPT ![r] = {}]
        /\ batches' = [n \in DOMAIN batches \cup {number[r]} |->
                         IF n = number[r] THEN result ELSE batches[n]]
    BY DEF Commit, EndTransaction, Finish
  <1>2. /\ L \in Nat /\ RowIds = 1..L
        /\ IsFiniteSet(S) /\ c \in Nat /\ c > 0
        /\ queue' \in Seq(QueueRows) /\ RowIds' = 1..(L + c)
        /\ \A i \in 1..L : queue'[i] = queue[i]
        /\ \A k \in 1..c : queue'[L + k].batch = number[r]
    <2>1. \A k \in 1..c : queue'[L + k] = RowOf(r, InSheetOrder(S, k))
      BY CommittedRows
    <2>2. \A n : RowOf(r, n).batch = number[r]
      BY DEF RowOf
    <2>3. \A k \in 1..c : queue'[L + k].batch = number[r]
      BY <2>1, <2>2
    <2> QED BY <2>3, CommittedRows
  <1>3. PICK n \in Nat : DOMAIN batches = 1..n /\ number[r] = n + 1
    BY <1>1 DEF ImportInv, NumbersInOrder
  <1>4. DOMAIN batches' = 1..(n + 1)
    BY <1>1, <1>3
  <1>5. \A q \in Imports : pc'[q] \notin {"number", "insert", "commit"}
    <2>1. \A q \in Imports \ {r} : ~InTransaction(q)
      BY <1>1, OnlyTransaction DEF InTransaction, ImportInv
    <2> QED BY <1>1, <2>1 DEF InTransaction, ImportInv, TypeOK
  <1>6. result \in Reports /\ result.inserted = c
    <2>1. S \in SUBSET Candidates(r) /\ number[r] \in Nat
      BY DEF ImportInv, InsertsCandidates, TypeOK
    <2> QED BY <2>1, ResultAddsUp DEF ImportInv, Result
  <1>7. TypeOK'
    <2>1. \A m \in DOMAIN batches' : batches'[m] \in Reports
      BY <1>1, <1>6 DEF ImportInv, TypeOK
    <2>2. lock' \in {None} \cup {q \in Imports : pc'[q] \in {"number", "insert", "commit"}}
      <3>1. lock = r
        BY <1>1 DEF ImportInv, OneTransaction, InTransaction
      <3> QED BY <1>1, <3>1
    <2>3. \A q \in Imports : inserted'[q] \subseteq DOMAIN file'[q]
      BY <1>1 DEF ImportInv, TypeOK, InsertsCandidates
    <2>4. /\ flying' \subseteq RowIds' /\ mailed' \subseteq RowIds'
          /\ \A e \in edit' : e.row \in RowIds'
      <3>1. RowIds \subseteq RowIds'
        BY <1>2
      <3> QED BY <1>1, <3>1 DEF sending, editing, ImportInv, TypeOK
    <2>5. /\ DOMAIN batches' \subseteq Nat
          /\ pc' \in [Imports -> {"idle", "validate", "lock", "number", "insert",
                                   "commit", "done"}]
          /\ report' \in [Imports -> Reports \cup {None}]
          /\ number' \in [Imports -> Nat]
      BY <1>1, <1>4, <1>6 DEF ImportInv, TypeOK
    <2> QED BY <1>1, <1>2, <2>1, <2>2, <2>3, <2>4, <2>5 DEF ImportInv, TypeOK, editing
  <1>8. OneTransaction' /\ NumbersInOrder'
    <2>1. n + 1 \in Nat
      OBVIOUS
    <2> QED BY <1>4, <1>5, <2>1 DEF OneTransaction, InTransaction, NumbersInOrder
  <1>9. InsertsCandidates'
    <2>1. \A q \in Imports : Candidates(q)' = Candidates(q)
      BY <1>1 DEF Candidates, Valid, SuppressedRows
    <2>2. \A q \in Imports : inserted'[q] = {}
      <3>1. \A q \in Imports \ {r} : inserted[q] = {}
        BY <1>1, OnlyTransaction DEF InTransaction, ImportInv, InsertsCandidates
      <3> QED BY <1>1, <3>1 DEF ImportInv, InsertsCandidates
    <2> QED BY <1>1, <2>1, <2>2 DEF ImportInv, InsertsCandidates
  <1>10. \A i \in RowIds : queue[i].batch \in 1..n
    BY <1>3 DEF ImportInv, BatchesHoldTheirRows
  <1>11. \A i \in RowIds' : i \in 1..L \/ (i - L \in 1..c /\ i = L + (i - L))
    <2> HIDE DEF L, c
    <2> QED BY <1>2
  <1>12. \A m \in 1..n : RowsOfBatch(m)' = RowsOfBatch(m)
    <2> HIDE DEF L, c
    <2>1. \A i \in RowIds' : i \notin 1..L => queue'[i].batch = n + 1
      BY <1>2, <1>3, <1>11
    <2>2. \A m \in 1..n : m # n + 1
      OBVIOUS
    <2>3. 1..L \subseteq RowIds'
      BY <1>2
    <2> QED BY <1>2, <2>1, <2>2, <2>3 DEF RowsOfBatch
  <1>13. RowsOfBatch(n + 1)' = (L + 1)..(L + c)
    <2> HIDE DEF L, c
    <2>1. \A i \in 1..L : queue'[i].batch # n + 1
      BY <1>2, <1>10
    <2>2. \A i \in (L + 1)..(L + c) : i \in RowIds' /\ queue'[i].batch = n + 1
      <3>1. ASSUME NEW i \in (L + 1)..(L + c)
            PROVE  i \in 1..(L + c) /\ i - L \in 1..c /\ i = L + (i - L)
        BY <1>2
      <3> QED BY <1>2, <1>3, <3>1
    <2>3. \A i \in 1..(L + c) : i \in 1..L \/ i \in (L + 1)..(L + c)
      BY <1>2
    <2> QED BY <1>2, <2>1, <2>2, <2>3 DEF RowsOfBatch
  <1>14. BatchesHoldTheirRows'
    <2>1. \A i \in RowIds' : queue'[i].batch \in DOMAIN batches'
      <3>1. \A i \in 1..L : queue'[i].batch \in 1..n
        BY <1>2, <1>10
      <3>2. \A i \in RowIds' : queue'[i].batch \in 1..n \/ queue'[i].batch = n + 1
        <4> HIDE DEF L, c
        <4> QED BY <1>2, <1>3, <1>11, <3>1
      <3> QED BY <1>4, <3>2
    <2>2. ASSUME NEW m \in 1..n
          PROVE  batches'[m].inserted = Cardinality(RowsOfBatch(m)') /\ batches'[m].inserted > 0
      <3>1. batches'[m] = batches[m]
        BY <1>1, <1>3
      <3> QED BY <1>3, <1>12, <3>1 DEF ImportInv, BatchesHoldTheirRows
    <2>3. batches'[n + 1].inserted = Cardinality(RowsOfBatch(n + 1)') /\ batches'[n + 1].inserted > 0
      <3>1. batches'[n + 1].inserted = c
        BY <1>1, <1>3, <1>6
      <3>2. Cardinality((L + 1)..(L + c)) = c
        <4> HIDE DEF L, c
        <4>1. L + 1 \in Int /\ L + c \in Int /\ ~(L + 1 > L + c) /\ (L + c) - (L + 1) + 1 = c
          BY <1>2
        <4> QED BY <4>1, FS_Interval
      <3> QED BY <1>2, <1>13, <3>1, <3>2
    <2>4. \A m \in DOMAIN batches' : m \in 1..n \/ m = n + 1
      BY <1>4
    <2> QED BY <2>1, <2>2, <2>3, <2>4 DEF BatchesHoldTheirRows
  <1> QED BY <1>7, <1>8, <1>9, <1>14 DEF ImportInv

-----------------------------------------------------------------------------
(* The theorems *)

LEMMA ImportInitial == Init => ImportInv /\ ReportsAddUp
  <1> SUFFICES ASSUME Init PROVE ImportInv /\ ReportsAddUp
    OBVIOUS
  <1>1. DOMAIN queue = {} /\ DOMAIN batches = {} /\ queue \in Seq(QueueRows)
    BY EmptySeq DEF Init
  <1>2. TypeOK
    BY <1>1, ImportAssumption DEF Init, TypeOK, RowIds, NoBatch
  <1>3. OneTransaction /\ InsertsCandidates
    BY DEF Init, OneTransaction, InTransaction, InsertsCandidates
  <1>4. NumbersInOrder
    <2>1. 0 \in Nat /\ DOMAIN batches = 1..0
      BY <1>1
    <2>2. \A r \in Imports : pc[r] \notin {"insert", "commit"}
      BY DEF Init
    <2> QED BY <2>1, <2>2 DEF NumbersInOrder
  <1>5. BatchesHoldTheirRows /\ ReportsAddUp
    BY <1>1 DEF BatchesHoldTheirRows, RowIds, ReportsAddUp, Init
  <1> QED BY <1>2, <1>3, <1>4, <1>5 DEF ImportInv

(* The steps by what they do to the queue. *)
LEMMA StepKinds ==
  ASSUME Next
  PROVE  \/ (\E i \in RowIds : RowStep(i)) \/ EditStep
         \/ \E r \in Imports : \/ PreparingStep(r) \/ InsertRows(r) \/ Commit(r)
                               \/ NothingQueued(r) \/ Fails(r)
  BY DEF Next, RowStep, EditStep, PreparingStep

LEMMA ImportInvKept ==
  ASSUME ImportInv, [Next]_vars
  PROVE  ImportInv'
  <1>1. CASE Next
    BY <1>1, StepKinds, OthersKeepImportInv, PreparingKeepsImportInv,
       InsertKeepsImportInv, RollbackKeepsImportInv, CommitKeepsImportInv
  <1>2. CASE UNCHANGED vars
    <2>1. UNCHANGED <<queue, batches, suppressed, lock, pc, file, listed, number,
                      inserted, report, flying, mailed, edit, editsLeft>>
      BY <1>2 DEF vars, request, transaction, sending, editing
    <2>2. \A r \in Imports : Candidates(r)' = Candidates(r)
      BY <2>1 DEF Candidates, Valid, SuppressedRows
    <2>3. TypeOK'
      BY <2>1 DEF ImportInv, TypeOK, RowIds
    <2>4. OneTransaction' /\ InsertsCandidates' /\ NumbersInOrder'
      BY <2>1, <2>2 DEF ImportInv, OneTransaction, InTransaction,
                        InsertsCandidates, NumbersInOrder
    <2>5. BatchesHoldTheirRows'
      BY <2>1 DEF ImportInv, BatchesHoldTheirRows, RowsOfBatch, RowIds
    <2> QED BY <2>3, <2>4, <2>5 DEF ImportInv
  <1> QED BY <1>1, <1>2

LEMMA ImportInvariant == Spec => []ImportInv
  <1>1. Init => ImportInv
    BY ImportInitial
  <1>2. ImportInv /\ [Next]_vars => ImportInv'
    BY ImportInvKept
  <1> QED BY <1>1, <1>2, PTL DEF Spec

(* The rows, requests and batches are what the code takes them for; in     *)
(* particular, nobody holds the lock outside a transaction.                *)
THEOREM TypesHold == Spec => []TypeOK
  <1>1. ImportInv => TypeOK
    BY DEF ImportInv
  <1> QED BY <1>1, ImportInvariant, PTL

(* Batches are numbered 1, 2, ... without a gap and hold exactly the mail  *)
(* they report, however many imports run at once and whichever of them     *)
(* fail: the LOCK TABLE makes max + 1 safe.                                *)
THEOREM NumbersHaveNoGaps == Spec => []BatchesAreConsecutive
  <1>1. ASSUME ImportInv PROVE BatchesAreConsecutive
    <2>1. PICK n \in Nat :
            /\ DOMAIN batches = 1..n
            /\ \A r \in Imports : pc[r] \in {"insert", "commit"} => number[r] = n + 1
      BY <1>1 DEF ImportInv, NumbersInOrder
    <2>2. DOMAIN batches = 1..Cardinality(DOMAIN batches)
      BY <2>1, FS_Interval
    <2>3. \A r \in Imports : pc[r] \in {"insert", "commit"} => number[r] \notin DOMAIN batches
      BY <2>1
    <2> QED BY <1>1, <2>2, <2>3 DEF ImportInv, BatchesHoldTheirRows, RowsOfBatch,
                                   BatchesAreConsecutive
  <1>2. ImportInv => BatchesAreConsecutive
    BY <1>1
  <1> QED BY <1>2, ImportInvariant, PTL

(* A report is written once, by the step that ends the request.            *)
LEMMA ReportsKept ==
  ASSUME ImportInv, ReportsAddUp, [Next]_vars
  PROVE  ReportsAddUp'
  <1>1. ASSUME NEW r \in Imports, NEW result,
               result.totalRows = result.inserted + result.duplicates
                                    + result.suppressed + result.errors,
               Finish(r, result)
        PROVE  ReportsAddUp'
    BY <1>1 DEF Finish, ReportsAddUp, ImportInv, TypeOK
  <1>2. ASSUME NEW r \in Imports, NEW rows \in SUBSET Candidates(r), NEW b \in Nat
        PROVE  Finish(r, Result(r, b, rows)) => ReportsAddUp'
    BY <1>1, ResultAddsUp DEF ImportInv
  <1>3. ASSUME NEW r \in Imports, PreparingStep(r) PROVE ReportsAddUp'
    <2>1. NoBatch \in Nat /\ {} \in SUBSET Candidates(r)
      BY DEF NoBatch
    <2>2. CASE Finish(r, Result(r, NoBatch, {}))
      BY <1>2, <2>1, <2>2
    <2>3. CASE UNCHANGED report /\ \E to \in {"validate", "lock", "number", "insert"} :
                                     pc' = [pc EXCEPT ![r] = to]
      BY <2>3 DEF ReportsAddUp, ImportInv, TypeOK
    <2> QED BY <1>3, <2>2, <2>3 DEF PreparingStep, Start, Validate, LockBatches, TakeNumber
  <1>4. ASSUME NEW r \in Imports, InsertRows(r) PROVE ReportsAddUp'
    BY <1>4 DEF InsertRows, ReportsAddUp, ImportInv, TypeOK
  <1>5. ASSUME NEW r \in Imports, Commit(r) \/ NothingQueued(r) PROVE ReportsAddUp'
    <2>1. /\ inserted[r] \in SUBSET Candidates(r) /\ {} \in SUBSET Candidates(r)
          /\ number[r] \in Nat /\ NoBatch \in Nat
      BY DEF ImportInv, InsertsCandidates, TypeOK, NoBatch
    <2> QED BY <1>2, <1>5, <2>1 DEF Commit, NothingQueued
  <1>6. ASSUME NEW r \in Imports, Fails(r) PROVE ReportsAddUp'
    BY <1>1, <1>6, FailureAddsUp DEF Fails, ImportInv
  <1>7. ASSUME (\E i \in RowIds : RowStep(i)) \/ EditStep PROVE ReportsAddUp'
    BY <1>7, RowsStay DEF ImportInv, request, ReportsAddUp
  <1>8. CASE UNCHANGED vars
    BY <1>8 DEF vars, request, ReportsAddUp
  <1> QED BY <1>3, <1>4, <1>5, <1>6, <1>7, <1>8, StepKinds

(* The operator is told what became of every row of the sheet, whether the *)
(* import went through, found nothing new or failed.                       *)
THEOREM EveryRowIsReported == Spec => []ReportsAddUp
  <1>1. Init => ReportsAddUp
    BY ImportInitial
  <1>2. ImportInv /\ ReportsAddUp /\ [Next]_vars => ReportsAddUp'
    BY ReportsKept
  <1> QED BY <1>1, <1>2, ImportInvariant, PTL DEF Spec

-----------------------------------------------------------------------------
(* Nobody gets it twice *)

(* Acceptances are recorded, and a single-row edit does not write over a   *)
(* row that has moved since its read.                                      *)
Undisturbed == "editRace" \notin Env /\ "lostSend" \notin Env

(* An update that leaves the keys alone and makes no row live that was not *)
(* keeps live keys apart.                                                  *)
LEMMA NoNewLiveRow ==
  ASSUME LiveKeysAreUnique, SameRows, UNCHANGED <<file, inserted>>,
         \A i \in RowIds : Live(queue'[i].status) => Live(queue[i].status)
  PROVE  LiveKeysAreUnique'
  <1>1. RowIds' = RowIds /\ \A i \in RowIds : Key(i)' = Key(i)
    BY DEF SameRows, Key, dedupeKey
  <1>2. \A m : dedupeKey(m)' = dedupeKey(m)
    BY DEF dedupeKey
  <1>3. \A i \in RowIds : Live(queue[i].status)' => Live(queue[i].status)
    BY DEF Live
  <1> QED BY <1>1, <1>2, <1>3 DEF LiveKeysAreUnique, Live

(* A cancelled row is revived past the index: nobody has its key.          *)
LEMMA RevivedRow ==
  ASSUME ImportInv, LiveKeysAreUnique, NEW i \in RowIds, SetStatus(i, "pending"),
         UNCHANGED <<file, inserted>>,
         ~MustWaitForKey(i), ~KeyIsTaken(i)
  PROVE  LiveKeysAreUnique'
  <1>1. /\ SameRows /\ queue'[i].status = "pending"
        /\ \A j \in RowIds \ {i} : queue'[j] = queue[j]
    BY StatusChange DEF ImportInv, Statuses
  <1>2. CASE Live(queue[i].status)
    <2>1. \A j \in RowIds : Live(queue'[j].status) => Live(queue[j].status)
      BY <1>1, <1>2
    <2> QED BY <1>1, <2>1, NoNewLiveRow
  <1>3. CASE ~Live(queue[i].status)
    <2>1. Key(i) \notin PendingKeys /\ Key(i) \notin LiveKeys
      BY <1>3 DEF MustWaitForKey, KeyIsTaken, Key
    <2>2. \A j \in RowIds : Live(queue[j].status) => Key(j) # Key(i)
      BY <2>1 DEF LiveKeys, Key
    <2>3. \A r \in Imports : \A n \in inserted[r] : dedupeKey(file[r][n]) # Key(i)
      BY <2>1 DEF PendingKeys
    <2>4. RowIds' = RowIds /\ \A j \in RowIds : Key(j)' = Key(j)
      BY <1>1 DEF SameRows, Key, dedupeKey
    <2>5. \A j \in RowIds \ {i} : Live(queue[j].status)' <=> Live(queue[j].status)
      BY <1>1 DEF Live
    <2>6. \A m : dedupeKey(m)' = dedupeKey(m)
      BY DEF dedupeKey
    <2>7. \A j, k \in RowIds :
            j # k /\ Live(queue[j].status)' /\ Live(queue[k].status)' => Key(j) # Key(k)
      BY <2>2, <2>5 DEF LiveKeysAreUnique
    <2>8. \A j \in RowIds, r \in Imports : \A n \in inserted[r] :
            Live(queue[j].status)' => dedupeKey(file[r][n]) # Key(j)
      BY <2>3, <2>5 DEF LiveKeysAreUnique
    <2> QED BY <2>4, <2>6, <2>7, <2>8 DEF LiveKeysAreUnique, Live
  <1> QED BY <1>2, <1>3

LEMMA RowStepDelivery ==
  ASSUME DeliveryInv, Undisturbed, NEW i \in RowIds, RowStep(i)
  PROVE  MailedRowsStayLive' /\ LiveKeysAreUnique'
  <1>1. UNCHANGED <<file, inserted>> /\ TypeOK
    BY RowsStay DEF DeliveryInv, ImportInv, request, transaction
  <1>2. CASE Claim(i)
    <2>1. /\ SameRows /\ queue'[i].status = "sending"
          /\ \A j \in RowIds \ {i} : queue'[j] = queue[j]
      BY <1>1, <1>2, StatusChange DEF Claim, Statuses
    <2>2. \A j \in RowIds : Live(queue'[j].status) => Live(queue[j].status)
      BY <1>2, <2>1 DEF Claim, Live
    <2>3. MailedRowsStayLive'
      <3>1. i \notin mailed
        BY <1>2 DEF Claim, DeliveryInv, MailedRowsStayLive
      <3> QED BY <1>1, <1>2, <2>1, <3>1 DEF Claim, DeliveryInv, MailedRowsStayLive, TypeOK, editing
    <2> QED BY <1>1, <2>1, <2>2, <2>3, NoNewLiveRow DEF DeliveryInv
  <1>3. CASE Accepted(i) \/ ReviveRead(i)
    <2>1. UNCHANGED queue /\ SameRows
      BY <1>1, <1>3 DEF Accepted, ReviveRead, SameRows, TypeOK, RowIds
    <2>2. MailedRowsStayLive'
      BY <1>3, <2>1 DEF Accepted, ReviveRead, DeliveryInv, MailedRowsStayLive, sending, editing
    <2> QED BY <1>1, <2>1, <2>2, NoNewLiveRow DEF DeliveryInv
  <1>4. CASE Settle(i)
    <2>1. queue[i].status = "sending" /\ ~KeyIsTaken(i)
      BY <1>4 DEF Settle, DeliveryInv, MailedRowsStayLive, KeyIsTaken, Live
    <2>2. PICK s \in {"sent", "failed", "pending"} :
            SetStatus(i, s) /\ (i \in mailed => s = "sent")
      BY <1>4, <2>1 DEF Settle, Recorded, Undisturbed
    <2>3. /\ SameRows /\ queue'[i].status = s
          /\ \A j \in RowIds \ {i} : queue'[j] = queue[j]
      BY <1>1, <2>2, StatusChange DEF Statuses
    <2>4. \A j \in RowIds : Live(queue'[j].status) => Live(queue[j].status)
      BY <2>1, <2>3 DEF Live
    <2>5. MailedRowsStayLive'
      BY <1>1, <1>4, <2>2, <2>3 DEF Settle, DeliveryInv, MailedRowsStayLive, TypeOK, editing
    <2> QED BY <1>1, <2>3, <2>4, <2>5, NoNewLiveRow DEF DeliveryInv
  <1> QED BY <1>2, <1>3, <1>4 DEF RowStep

LEMMA EditStepDelivery ==
  ASSUME DeliveryInv, Undisturbed, EditStep
  PROVE  MailedRowsStayLive' /\ LiveKeysAreUnique'
  <1>1. UNCHANGED <<file, inserted>> /\ TypeOK
    BY RowsStay DEF DeliveryInv, ImportInv, request, transaction
  <1>2. ASSUME NEW S \in SUBSET RowIds, CancelMany(S)
        PROVE  MailedRowsStayLive' /\ LiveKeysAreUnique'
    <2>1. /\ SameRows
          /\ \A j \in RowIds : \/ queue'[j] = queue[j]
                               \/ queue[j].status = "pending" /\ queue'[j].status = "cancelled"
      BY <1>1, <1>2, CancellationChange
    <2>2. \A j \in RowIds : Live(queue'[j].status) => Live(queue[j].status)
      BY <2>1 DEF Live
    <2>3. \A j \in flying \cup mailed : queue'[j] = queue[j]
      BY <1>1, <2>1 DEF DeliveryInv, MailedRowsStayLive, TypeOK
    <2>4. MailedRowsStayLive'
      BY <1>2, <2>3 DEF CancelMany, DeliveryInv, MailedRowsStayLive, sending
    <2> QED BY <1>1, <2>1, <2>2, <2>4, NoNewLiveRow DEF DeliveryInv
  <1>3. ASSUME NEW to \in Recipients, Suppress(to)
        PROVE  MailedRowsStayLive' /\ LiveKeysAreUnique'
    <2>1. UNCHANGED queue /\ SameRows
      BY <1>1, <1>3 DEF Suppress, SameRows, TypeOK, RowIds
    <2>2. MailedRowsStayLive'
      BY <1>3 DEF Suppress, DeliveryInv, MailedRowsStayLive, sending
    <2> QED BY <1>1, <2>1, <2>2, NoNewLiveRow DEF DeliveryInv
  <1>4. ASSUME NEW e \in edit, ReviveWrite(e)
        PROVE  MailedRowsStayLive' /\ LiveKeysAreUnique'
    <2>1. /\ e.row \in RowIds /\ queue[e.row].status \in {"failed", "cancelled"}
          /\ e.row \notin flying /\ e.row \notin mailed
      BY <1>1, <1>4 DEF ReviveWrite, Undisturbed, DeliveryInv, MailedRowsStayLive, TypeOK
    <2>2. CASE KeyIsTaken(e.row)
      <3>1. UNCHANGED queue /\ SameRows
        BY <1>1, <1>4, <2>2 DEF ReviveWrite, SameRows, TypeOK, RowIds
      <3>2. MailedRowsStayLive'
        BY <1>4, <3>1 DEF ReviveWrite, DeliveryInv, MailedRowsStayLive, sending
      <3> QED BY <1>1, <3>1, <3>2, NoNewLiveRow DEF DeliveryInv
    <2>3. CASE ~KeyIsTaken(e.row)
      <3>1. SetStatus(e.row, "pending") /\ ~MustWaitForKey(e.row)
        BY <1>4, <2>3 DEF ReviveWrite
      <3>2. \A j \in RowIds \ {e.row} : queue'[j] = queue[j]
        BY <1>1, <2>1, <3>1, StatusChange DEF Statuses
      <3>3. MailedRowsStayLive'
        BY <1>1, <1>4, <2>1, <3>2 DEF ReviveWrite, DeliveryInv, MailedRowsStayLive, TypeOK, sending
      <3> QED BY <1>1, <2>1, <2>3, <3>1, <3>3, RevivedRow DEF DeliveryInv
    <2> QED BY <2>2, <2>3
  <1> QED BY <1>2, <1>3, <1>4 DEF EditStep

(* A request has the rows of its transaction only between the insert and   *)
(* the end, and the index has let them through.                            *)
LEMMA RequestDelivery ==
  ASSUME DeliveryInv, NEW r \in Imports,
         \/ PreparingStep(r) \/ InsertRows(r) \/ NothingQueued(r) \/ Fails(r)
  PROVE  MailedRowsStayLive' /\ LiveKeysAreUnique'
  <1>1. UNCHANGED <<queue, flying, mailed, edit>>
    BY DEF PreparingStep, Start, Validate, LockBatches, TakeNumber, InsertRows,
           NothingQueued, Fails, sending, editing
  <1>2. MailedRowsStayLive'
    BY <1>1 DEF DeliveryInv, MailedRowsStayLive
  <1>3. \A q \in Imports : inserted'[q] # {} =>
          /\ file'[q] = file[q]
          /\ \/ inserted'[q] = inserted[q]
             \/ q = r /\ inserted'[q] = NewRows(r)
    <2>1. inserted \in [Imports -> SUBSET Nat] /\ file \in [Imports -> Files \cup {<<>>}]
      BY DEF DeliveryInv, ImportInv, InsertsCandidates, TypeOK
    <2>2. CASE Start(r)
      <3>1. inserted[r] = {}
        BY <2>2 DEF Start, DeliveryInv, ImportInv, InsertsCandidates
      <3> QED BY <2>1, <2>2, <3>1 DEF Start, transaction
    <2>3. CASE Validate(r) \/ LockBatches(r) \/ TakeNumber(r)
      BY <2>3 DEF Validate, LockBatches, TakeNumber, transaction
    <2>4. CASE InsertRows(r)
      BY <2>1, <2>4 DEF InsertRows
    <2>5. CASE NothingQueued(r) \/ Fails(r)
      BY <2>1, <2>5 DEF NothingQueued, Fails, EndTransaction
    <2> QED BY <2>2, <2>3, <2>4, <2>5 DEF PreparingStep
  <1>4. \A n \in NewRows(r) : \A i \in RowIds :
          Live(queue[i].status) => dedupeKey(file[r][n]) # Key(i)
    BY DEF NewRows, LiveKeys, Key
  <1>5. \A q \in Imports : \A n \in inserted'[q] : \A i \in RowIds :
          Live(queue[i].status) => dedupeKey(file'[q][n]) # Key(i)
    BY <1>3, <1>4 DEF DeliveryInv, LiveKeysAreUnique
  <1>6. LiveKeysAreUnique'
    BY <1>1, <1>5 DEF DeliveryInv, LiveKeysAreUnique, Key, RowIds, dedupeKey, Live
  <1> QED BY <1>2, <1>6

(* Rows of one sheet with one key: only the first is a candidate.          *)
LEMMA CandidatesDiffer ==
  ASSUME TypeOK, NEW r \in Imports, NEW m \in Candidates(r), NEW n \in Candidates(r), m # n
  PROVE  dedupeKey(file[r][m]) # dedupeKey(file[r][n])
  <1>1. m \in Valid(r) /\ n \in Valid(r) /\ m \in Nat /\ n \in Nat
    BY SheetRows
  <1>2. m < n \/ n < m
    BY <1>1
  <1> QED BY <1>1, <1>2 DEF Candidates

LEMMA CommitDelivery ==
  ASSUME DeliveryInv, NEW r \in Imports, Commit(r)
  PROVE  MailedRowsStayLive' /\ LiveKeysAreUnique'
  <1> DEFINE L == Len(queue)
             S == inserted[r]
             c == Cardinality(S)
             row(k) == InSheetOrder(S, k)
  <1>1. /\ L \in Nat /\ RowIds = 1..L /\ c \in Nat
        /\ RowIds' = 1..(L + c)
        /\ \A i \in 1..L : queue'[i] = queue[i]
        /\ \A k \in 1..c : queue'[L + k] = RowOf(r, row(k)) /\ row(k) \in S
        /\ \A j, k \in 1..c : j # k => row(j) # row(k)
    BY CommittedRows DEF DeliveryInv
  <1>2. UNCHANGED <<flying, mailed, edit, file>>
    BY DEF Commit, sending, editing
  <1>3. MailedRowsStayLive'
    <2>1. flying \subseteq RowIds /\ mailed \subseteq RowIds
      BY DEF DeliveryInv, ImportInv, TypeOK
    <2> HIDE DEF L, c, row
    <2> QED BY <1>1, <1>2, <2>1 DEF DeliveryInv, MailedRowsStayLive
  <1>4. \A q \in Imports : inserted'[q] = {}
    <2>1. inserted' = [inserted EXCEPT ![r] = {}] /\ InTransaction(r)
      BY DEF Commit, EndTransaction, InTransaction
    <2>2. \A q \in Imports \ {r} : inserted[q] = {}
      BY <2>1, OnlyTransaction DEF DeliveryInv, ImportInv, InsertsCandidates, InTransaction
    <2> QED BY <2>1, <2>2 DEF DeliveryInv, ImportInv, InsertsCandidates
  <1>5. \A k \in 1..c : dedupeKey(queue'[L + k].msg) = dedupeKey(file[r][row(k)])
    <2>1. \A n : RowOf(r, n).msg = file[r][n]
      BY DEF RowOf
    <2> QED BY <1>1, <2>1
  <1>6. \A i \in RowIds' : i \in 1..L \/ \E k \in 1..c : i = L + k
    <2> HIDE DEF L, c
    <2>1. ASSUME NEW i \in 1..(L + c), i \notin 1..L PROVE i - L \in 1..c /\ i = L + (i - L)
      BY <1>1, <2>1
    <2> QED BY <1>1, <2>1
  <1>7. \A i \in 1..L, n \in S :
          Live(queue[i].status) => dedupeKey(file[r][n]) # dedupeKey(queue[i].msg)
    BY <1>1 DEF DeliveryInv, LiveKeysAreUnique, Key
  <1>8. \A m, n \in S : m # n => dedupeKey(file[r][m]) # dedupeKey(file[r][n])
    BY CandidatesDiffer DEF DeliveryInv, ImportInv, InsertsCandidates
  <1>9. ASSUME NEW i \in RowIds', NEW j \in RowIds', i # j,
               Live(queue'[i].status), Live(queue'[j].status)
        PROVE  dedupeKey(queue'[i].msg) # dedupeKey(queue'[j].msg)
    <2>1. ASSUME NEW x \in 1..L, NEW y \in 1..L, x # y,
                 Live(queue'[x].status), Live(queue'[y].status)
          PROVE  dedupeKey(queue'[x].msg) # dedupeKey(queue'[y].msg)
      BY <1>1, <2>1 DEF DeliveryInv, LiveKeysAreUnique, Key
    <2> HIDE DEF L, c, row, S
    <2>2. ASSUME NEW x \in 1..L, Live(queue'[x].status), NEW k \in 1..c
          PROVE  dedupeKey(queue'[x].msg) # dedupeKey(queue'[L + k].msg)
      BY <1>1, <1>5, <1>7, <2>2
    <2>3. ASSUME NEW k \in 1..c, NEW l \in 1..c, k # l
          PROVE  dedupeKey(queue'[L + k].msg) # dedupeKey(queue'[L + l].msg)
      BY <1>1, <1>5, <1>8, <2>3
    <2>4. CASE i \in 1..L /\ j \in 1..L
      BY <1>9, <2>1, <2>4
    <2>5. CASE i \notin 1..L /\ j \in 1..L
      BY <1>6, <1>9, <2>2, <2>5
    <2>6. CASE j \notin 1..L
      BY <1>6, <1>9, <2>2, <2>3, <2>6
    <2> QED BY <2>4, <2>5, <2>6
  <1>10. LiveKeysAreUnique'
    BY <1>4, <1>9 DEF LiveKeysAreUnique, Key
  <1> QED BY <1>3, <1>10

LEMMA DeliveryInvKept ==
  ASSUME DeliveryInv, Undisturbed, [Next]_vars
  PROVE  DeliveryInv'
  <1>1. ImportInv'
    BY ImportInvKept DEF DeliveryInv
  <1>2. CASE Next
    BY <1>1, <1>2, StepKinds, RowStepDelivery, EditStepDelivery, RequestDelivery,
       CommitDelivery DEF DeliveryInv
  <1>3. CASE UNCHANGED vars
    <2>1. UNCHANGED <<queue, file, inserted, flying, mailed, edit>>
      BY <1>3 DEF vars, request, transaction, sending, editing
    <2>2. MailedRowsStayLive'
      BY <2>1 DEF DeliveryInv, MailedRowsStayLive
    <2>3. LiveKeysAreUnique'
      BY <2>1 DEF DeliveryInv, LiveKeysAreUnique, Key, RowIds, dedupeKey, Live
    <2> QED BY <1>1, <2>2, <2>3 DEF DeliveryInv
  <1> QED BY <1>2, <1>3

(* The key of crypto.service.ts:126-130 and the partial index do their     *)
(* work: whatever sheets are imported at once or again, and whatever is    *)
(* retried, rescheduled or cancelled, a message is mailed to a person      *)
(* once.                                                                   *)
THEOREM TheIndexPreventsRepeats ==
  ASSUME Undisturbed
  PROVE  Spec => []NobodyGetsItTwice
  <1>1. Init => DeliveryInv
    <2> SUFFICES ASSUME Init PROVE DeliveryInv
      OBVIOUS
    <2>1. ImportInv
      BY ImportInitial
    <2>2. MailedRowsStayLive /\ LiveKeysAreUnique
      BY DEF Init, MailedRowsStayLive, LiveKeysAreUnique, RowIds
    <2> QED BY <2>1, <2>2 DEF DeliveryInv
  <1>2. DeliveryInv /\ [Next]_vars => DeliveryInv'
    BY DeliveryInvKept
  <1>3. ASSUME DeliveryInv PROVE NobodyGetsItTwice
    <2>1. \A i \in mailed : i \in RowIds /\ Live(queue[i].status)
      BY <1>3 DEF DeliveryInv, MailedRowsStayLive, Live, ImportInv, TypeOK
    <2>2. \A i, j \in mailed : i # j => Key(i) # Key(j)
      BY <1>3, <2>1 DEF DeliveryInv, LiveKeysAreUnique
    <2> QED BY <2>2 DEF NobodyGetsItTwice, Key, dedupeKey
  <1>4. DeliveryInv => NobodyGetsItTwice
    BY <1>3
  <1> QED BY <1>1, <1>2, <1>4, PTL DEF Spec
=============================================================================
