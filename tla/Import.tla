------------------------------- MODULE Import -------------------------------
(***************************************************************************)
(* ImportService: a sheet is validated against the suppression list and    *)
(* against itself, then written in one transaction that opens a numbered   *)
(* batch.  The partial unique index on the dedupe key decides which rows   *)
(* are new, next to the senders and the operators who move the same rows.  *)
(*                                                                         *)
(* Postgres runs the transaction at READ COMMITTED: a statement sees what  *)
(* was committed before it, and one that meets an uncommitted row with its *)
(* own key waits for that transaction to end.                              *)
(***************************************************************************)
EXTENDS Naturals, Sequences, FiniteSets, FiniteSetsExt

CONSTANTS
  Imports,     (* Import requests.                                          *)
  Files,       (* Sheets: sequences of messages and of Invalid rows.        *)
  Recipients,
  Invalid,     (* A row that fails validation, for whatever reason.         *)
  None,        (* Nobody, and nothing.                                      *)
  Env,         (* Which of the disturbances below may occur.                *)
  MaxEdits     (* Bound: operator edits and suppressions.                   *)

(* db        a statement of an import fails, or its process dies           *)
(* editRace  the write of a single-row edit finds the row moved since its  *)
(*           read                                                          *)
(* lostSend  a message the server accepted is not recorded as sent         *)
Disturbances == {"db", "editRace", "lostSend"}

(* A message as the recipient sees it, and when it is to go out: `pitch`   *)
(* stands for the mailbox, the subject and the group, `body` for the two   *)
(* bodies and the merge fields.                                            *)
Messages == UNION {{f[n] : n \in DOMAIN f} : f \in Files} \ {Invalid}

ASSUME ImportAssumption ==
  /\ None \notin Imports
  /\ Files \subseteq Seq(Messages \cup {Invalid})
  /\ \A m \in Messages : m.to \in Recipients
  /\ Env \subseteq Disturbances /\ MaxEdits \in Nat

VARIABLES
  queue,       (* email_queue in the order it was filled: [msg, status, batch] *)
  batches,     (* committed batches, by number                              *)
  suppressed,
  lock,        (* who holds the lock on "batches"                           *)
  pc,          (* which await of importCsv or commit() is next              *)
  file,        (* the sheet of each request                                 *)
  listed,      (* the recipients filterSuppressed returned                  *)
  number,      (* the number the transaction took                           *)
  inserted,    (* rows of the sheet the transaction inserted                *)
  report,      (* what importCsv returned                                   *)
  flying,      (* rows a worker is past the checks with                     *)
  mailed,      (* rows whose message a server has accepted                  *)
  edit,        (* single-row edits between read and write                   *)
  editsLeft

transaction == <<number, inserted>>
request     == <<pc, file, listed, transaction, report>>
sending     == <<flying, mailed>>
editing     == <<edit, editsLeft>>
vars == <<queue, batches, suppressed, lock, request, sending, editing>>

RowIds == DOMAIN queue
NoBatch == 0

-----------------------------------------------------------------------------
(* The key and the index *)

(* Mutant: the send time is part of the key. *)
KeyWithSchedule(m) == <<m.to, m.pitch, m.body, m.schedule>>

(* Everything the recipient would see; not the send time. *)
dedupeKey(m) == <<m.to, m.pitch, m.body>>

(* The index leaves cancelled rows out. *)
Live(status) == status # "cancelled"

LiveKeys == {dedupeKey(queue[i].msg) :
               i \in {j \in RowIds : Live(queue[j].status)}}

(* Keys of rows a transaction has inserted and not committed.              *)
PendingKeys ==
  UNION {{dedupeKey(file[r][n]) : n \in inserted[r]} : r \in Imports}

(* An update that makes row i live waits for a transaction with its key,   *)
(* and is rejected when another live row has it.                           *)
MustWaitForKey(i) ==
  ~Live(queue[i].status) /\ dedupeKey(queue[i].msg) \in PendingKeys

KeyIsTaken(i) ==
  ~Live(queue[i].status) /\ dedupeKey(queue[i].msg) \in LiveKeys

SetStatus(i, s) == queue' = [queue EXCEPT ![i].status = s]

-----------------------------------------------------------------------------
(* importCsv: validation, a pure function of the sheet and of the list as  *)
(* it was when the request began.                                          *)

Valid(r) == {n \in DOMAIN file[r] : file[r][n] # Invalid}

SuppressedRows(r) == {n \in Valid(r) : file[r][n].to \in listed[r]}

(* The first row of each key in the sheet. *)
Candidates(r) ==
  {n \in Valid(r) \ SuppressedRows(r) :
     \A m \in Valid(r) : m < n => dedupeKey(file[r][m]) # dedupeKey(file[r][n])}

Rejected(r)   == DOMAIN file[r] \ Valid(r)
Repeated(r)   == Valid(r) \ (SuppressedRows(r) \cup Candidates(r))

Start(r) ==
  /\ pc[r] = "idle"
  /\ \E f \in Files : file' = [file EXCEPT ![r] = f]
  /\ listed' = [listed EXCEPT ![r] = suppressed]
  /\ pc' = [pc EXCEPT ![r] = "validate"]
  /\ UNCHANGED <<queue, batches, suppressed, lock, transaction, report,
                 sending, editing>>

(* Mutant: rows the index dropped are not reported. *)
ForgetsExisting(r, rows) == {}

(* Rows that were in the queue already. *)
Existing(r, rows) == Candidates(r) \ rows

(* What the operator is told, given the rows the index let through.        *)
Result(r, batch, rows) ==
  [ batch      |-> batch,
    totalRows  |-> Len(file[r]),
    inserted   |-> Cardinality(rows),
    duplicates |-> Cardinality(Repeated(r) \cup Existing(r, rows)),
    suppressed |-> Cardinality(SuppressedRows(r)),
    errors     |-> Cardinality(Rejected(r)) ]

(* The same when the database rejected the whole sheet.                    *)
Failure(r) ==
  [ batch      |-> NoBatch,
    totalRows  |-> Len(file[r]),
    inserted   |-> 0,
    duplicates |-> Cardinality(Repeated(r)),
    suppressed |-> Cardinality(SuppressedRows(r)),
    errors     |-> Cardinality(Rejected(r) \cup Candidates(r)) ]

Finish(r, result) ==
  /\ report' = [report EXCEPT ![r] = result]
  /\ pc' = [pc EXCEPT ![r] = "done"]

(* Mutant: a transaction ends without giving back its lock. *)
KeepsTheLock(r) ==
  /\ lock' = lock
  /\ number' = [number EXCEPT ![r] = 0]
  /\ inserted' = [inserted EXCEPT ![r] = {}]

(* The transaction is over, one way or the other. *)
EndTransaction(r) ==
  /\ lock' = IF lock = r THEN None ELSE lock
  /\ number' = [number EXCEPT ![r] = 0]
  /\ inserted' = [inserted EXCEPT ![r] = {}]

Validate(r) ==
  /\ pc[r] = "validate"
  /\ IF Candidates(r) = {} THEN Finish(r, Result(r, NoBatch, {}))
     ELSE pc' = [pc EXCEPT ![r] = "lock"] /\ UNCHANGED report
  /\ UNCHANGED <<queue, batches, suppressed, lock, file, listed, transaction,
                 sending, editing>>

-----------------------------------------------------------------------------
(* commit() *)

(* Mutant: the LOCK TABLE is dropped. *)
NobodyWaits == TRUE

LockFree == lock = None

LockBatches(r) ==
  /\ pc[r] = "lock" /\ LockFree
  /\ lock' = r
  /\ pc' = [pc EXCEPT ![r] = "number"]
  /\ UNCHANGED <<queue, batches, suppressed, file, listed, transaction, report,
                 sending, editing>>

NextNumber(taken) == IF taken = {} THEN 1 ELSE Max(taken) + 1

TakeNumber(r) ==
  /\ pc[r] = "number"
  /\ number' = [number EXCEPT ![r] = NextNumber(DOMAIN batches)]
  /\ pc' = [pc EXCEPT ![r] = "insert"]
  /\ UNCHANGED <<queue, batches, suppressed, lock, file, listed, inserted,
                 report, sending, editing>>

(* skipDuplicates: the rows whose key no live row has. *)
NewRows(r) == {n \in Candidates(r) : dedupeKey(file[r][n]) \notin LiveKeys}

(* Another transaction has inserted the same number or the same key. *)
MustWait(r) ==
  \E q \in Imports \ {r} :
    /\ pc[q] = "commit"
    /\ \/ number[q] = number[r]
       \/ \E m \in inserted[q], n \in Candidates(r) :
            dedupeKey(file[q][m]) = dedupeKey(file[r][n])

InsertRows(r) ==
  /\ pc[r] = "insert" /\ ~MustWait(r) /\ number[r] \notin DOMAIN batches
  /\ inserted' = [inserted EXCEPT ![r] = NewRows(r)]
  /\ pc' = [pc EXCEPT ![r] = "commit"]
  /\ UNCHANGED <<queue, batches, suppressed, lock, file, listed, number,
                 report, sending, editing>>

(* Otherwise NothingQueued rolls the batch back. *)
QueuedSomething(r) == inserted[r] # {}

RowOf(r, n) == [msg |-> file[r][n], status |-> "pending", batch |-> number[r]]

(* The k-th of a set of rows, in the order of the sheet. *)
Position(rows, n) == Cardinality({m \in rows : m <= n})
InSheetOrder(rows, k) == CHOOSE n \in rows : Position(rows, n) = k

Commit(r) ==
  /\ pc[r] = "commit" /\ QueuedSomething(r)
  /\ queue' = queue \o [k \in 1..Cardinality(inserted[r]) |->
                          RowOf(r, InSheetOrder(inserted[r], k))]
  /\ LET result == Result(r, number[r], inserted[r]) IN
       /\ batches' = [n \in DOMAIN batches \cup {number[r]} |->
                        IF n = number[r] THEN result ELSE batches[n]]
       /\ Finish(r, result)
  /\ EndTransaction(r)
  /\ UNCHANGED <<suppressed, file, listed, sending, editing>>

NothingQueued(r) ==
  /\ pc[r] = "commit" /\ ~QueuedSomething(r)
  /\ Finish(r, Result(r, NoBatch, {}))
  /\ EndTransaction(r)
  /\ UNCHANGED <<queue, batches, suppressed, file, listed, sending, editing>>

(* A statement fails, the lock or the transaction times out, or the number *)
(* is taken: everything is rolled back and reported against every row.     *)
Fails(r) ==
  /\ \/ pc[r] \in {"lock", "number", "insert", "commit"} /\ "db" \in Env
     \/ pc[r] = "insert" /\ ~MustWait(r) /\ number[r] \in DOMAIN batches
  /\ Finish(r, Failure(r))
  /\ EndTransaction(r)
  /\ UNCHANGED <<queue, batches, suppressed, file, listed, sending, editing>>

-----------------------------------------------------------------------------
(* The senders, as the importer sees them: SendPipeline has the detail.    *)

Claim(i) ==
  /\ queue[i].status = "pending"
  /\ SetStatus(i, "sending")
  /\ flying' = flying \cup {i}
  /\ UNCHANGED <<batches, suppressed, lock, request, mailed, editing>>

Accepted(i) ==
  /\ i \in flying \ mailed
  /\ mailed' = mailed \cup {i}
  /\ UNCHANGED <<queue, batches, suppressed, lock, request, flying, editing>>

(* markSent after an acceptance, markFailed or deferTo without one: by id, *)
(* whatever the row has become.                                            *)
Recorded(i) == i \in mailed /\ "lostSend" \notin Env

Settle(i) ==
  /\ i \in flying /\ ~MustWaitForKey(i)
  /\ \E s \in IF Recorded(i) THEN {"sent"} ELSE {"failed", "pending"} :
       IF KeyIsTaken(i) THEN UNCHANGED queue ELSE SetStatus(i, s)
  /\ flying' = flying \ {i}
  /\ UNCHANGED <<batches, suppressed, lock, request, mailed, editing>>

-----------------------------------------------------------------------------
(* Operators *)

Request == editsLeft > 0 /\ editsLeft' = editsLeft - 1

(* cancelMany, and cancelPendingForRecipient: one statement. *)
CancelMany(S) ==
  /\ Request
  /\ queue' = [i \in RowIds |->
                 IF i \in S /\ queue[i].status = "pending"
                 THEN [queue[i] EXCEPT !.status = "cancelled"] ELSE queue[i]]
  /\ UNCHANGED <<batches, suppressed, lock, request, sending, edit>>

Suppress(to) ==
  /\ Request
  /\ suppressed' = suppressed \cup {to}
  /\ UNCHANGED <<queue, batches, lock, request, sending, edit>>

(* retry, and reschedule, of a row that is not going out: the read ...     *)
ReviveRead(i) ==
  /\ Request
  /\ queue[i].status \in {"failed", "cancelled"}
  /\ edit' = edit \cup {[row |-> i, seen |-> queue[i].status]}
  /\ UNCHANGED <<queue, batches, suppressed, lock, request, sending>>

(* ... and the write, by id.                                               *)
ReviveWrite(e) ==
  /\ queue[e.row].status = e.seen \/ "editRace" \in Env
  /\ ~MustWaitForKey(e.row)
  /\ IF KeyIsTaken(e.row) THEN UNCHANGED queue ELSE SetStatus(e.row, "pending")
  /\ edit' = edit \ {e}
  /\ UNCHANGED <<batches, suppressed, lock, request, sending, editsLeft>>

-----------------------------------------------------------------------------
Init ==
  /\ queue = <<>> /\ batches = <<>>
  /\ suppressed = {} /\ lock = None
  /\ pc = [r \in Imports |-> "idle"]
  /\ file = [r \in Imports |-> <<>>]
  /\ listed = [r \in Imports |-> {}]
  /\ number = [r \in Imports |-> NoBatch]
  /\ inserted = [r \in Imports |-> {}]
  /\ report = [r \in Imports |-> None]
  /\ flying = {} /\ mailed = {}
  /\ edit = {} /\ editsLeft = MaxEdits

Next ==
  \/ \E r \in Imports :
       \/ Start(r) \/ Validate(r) \/ LockBatches(r) \/ TakeNumber(r)
       \/ InsertRows(r) \/ Commit(r) \/ NothingQueued(r) \/ Fails(r)
  \/ \E i \in RowIds : Claim(i) \/ Accepted(i) \/ Settle(i) \/ ReviveRead(i)
  \/ \E S \in SUBSET RowIds : CancelMany(S)
  \/ \E to \in Recipients : Suppress(to)
  \/ \E e \in edit : ReviveWrite(e)

Spec == Init /\ [][Next]_vars

-----------------------------------------------------------------------------
Reports == [batch : Nat, totalRows : Nat, inserted : Nat, duplicates : Nat,
            suppressed : Nat, errors : Nat]

QueueRows ==
  [msg : Messages, batch : Nat,
   status : {"pending", "sending", "sent", "failed", "cancelled"}]

(* The types of the variables.  The rows a transaction inserts are rows of *)
(* its sheet, and the lock is held inside a transaction only               *)
(* (import.service.ts:341-384).                                            *)
TypeOK ==
  /\ queue \in Seq(QueueRows)
  /\ DOMAIN batches \subseteq Nat
  /\ \A n \in DOMAIN batches : batches[n] \in Reports
  /\ suppressed \subseteq Recipients
  /\ lock \in {None} \cup {r \in Imports : pc[r] \in {"number", "insert", "commit"}}
  /\ pc \in [Imports -> {"idle", "validate", "lock", "number", "insert",
                          "commit", "done"}]
  /\ file \in [Imports -> Files \cup {<<>>}]
  /\ listed \in [Imports -> SUBSET Recipients]
  /\ number \in [Imports -> Nat]
  /\ \A r \in Imports : inserted[r] \subseteq DOMAIN file[r]
  /\ report \in [Imports -> Reports \cup {None}]
  /\ flying \subseteq RowIds /\ mailed \subseteq RowIds
  /\ \A e \in edit : e.row \in RowIds
  /\ editsLeft \in Nat

(* The same message never reaches a person twice, however often its sheet  *)
(* is imported, on whatever schedule, next to retries, reschedules and     *)
(* cancellations (crypto.service.ts:126-130): as long as acceptances are   *)
(* recorded and single-row edits do not cross another write.               *)
NobodyGetsItTwice ==
  \A i, j \in mailed :
    i # j => \/ queue[i].msg.to # queue[j].msg.to
             \/ queue[i].msg.pitch # queue[j].msg.pitch
             \/ queue[i].msg.body # queue[j].msg.body

(* Batches are numbered without a gap, each has exactly the mail it says   *)
(* it queued, and none is empty, whichever imports ran at once, found      *)
(* nothing new or failed; and no two that commit at once take one number,  *)
(* of which the later would come to nothing (import.service.ts:306-309,    *)
(* 342-349).                                                               *)
BatchesAreConsecutive ==
  /\ DOMAIN batches = 1..Cardinality(DOMAIN batches)
  /\ \A n \in DOMAIN batches :
       /\ batches[n].inserted = Cardinality({i \in RowIds : queue[i].batch = n})
       /\ batches[n].inserted > 0
  /\ \A r \in Imports : pc[r] \in {"insert", "commit"} => number[r] \notin DOMAIN batches

(* Every row of a sheet is accounted for in the report: queued, duplicate, *)
(* suppressed or rejected, whatever else was imported meanwhile and        *)
(* whether or not the transaction went through.                            *)
ReportsAddUp ==
  \A r \in Imports : pc[r] = "done" =>
    report[r].totalRows = report[r].inserted + report[r].duplicates
                            + report[r].suppressed + report[r].errors
=============================================================================
