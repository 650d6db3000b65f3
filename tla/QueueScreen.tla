---------------------------- MODULE QueueScreen ----------------------------
(***************************************************************************)
(* The send queue page of the console and the endpoints under /emails it   *)
(* talks to.  The page shows one answer of GET /emails, asked every five   *)
(* seconds and after every action, and acts on the rows of that answer; in *)
(* between, the queue moves on its own and the operator changes filters.   *)
(*                                                                         *)
(* A request is read by the server, written by the server and answered in  *)
(* the browser as three steps.  Texts, colours and the mailbox table are   *)
(* left out.  Of the fields that filter by equality two stand for all:     *)
(* `accountId` for those the bulk request carries, `batchId` for the one   *)
(* the page counts besides.                                                *)
(***************************************************************************)
EXTENDS Integers, FiniteSets, FiniteSetsExt

CONSTANTS
  Messages,       (* Rows of email_queue.                                  *)
  QueueFields,    (* Fields a queue filter compares.                       *)
  RowValue,       (* The value each row has in each field.                 *)
  AnyValue,       (* A field of the filter that is left empty.             *)
  Unread,         (* No list answer on the screen yet, or none on its way. *)
  NoRow,          (* No row is busy, no dialog is open.                    *)
  RowsPerPage,
  Clicks,         (* What the operator may do.                             *)
  MaxClicks,      (* Bound: changes and actions of the operator.           *)
  MaxMoves        (* Bound: steps the queue makes on its own.              *)

EmailStatuses == {"pending", "sending", "sent", "failed", "cancelled"}

ValuesOf(f) == {RowValue[m][f] : m \in Messages}
Filter == [status : SUBSET EmailStatuses,
           on : {g \in [QueueFields -> {AnyValue} \cup UNION {ValuesOf(f) : f \in QueueFields}] :
                   \A f \in QueueFields : g[f] \in {AnyValue} \cup ValuesOf(f)}]

ClickKinds == {"cancel", "retry", "reschedule", "bulkCancel", "bulkRetry",
               "filter", "status", "page"}

ASSUME QueueScreenAssumption ==
  /\ IsFiniteSet(Messages)
  /\ \A m \in Messages : \A f \in QueueFields : RowValue[m][f] # AnyValue
  /\ QueueFields = {"accountId", "batchId"}
  /\ NoRow \notin Messages
  /\ RowsPerPage \in Nat \ {0}
  /\ Clicks \subseteq ClickKinds
  /\ MaxClicks \in Nat /\ MaxMoves \in Nat

VARIABLES
  queued,         (* status of every row, in the database                  *)
  filters,        (* the filter bar                                        *)
  pageNo,
  shown,          (* emails.data: the answer the table is drawn from       *)
  asking,         (* the latest GET /emails under way, with its answer     *)
  posts,          (* POSTs under way                                       *)
  busyId,
  rescheduling,   (* the row whose dialog is open                          *)
  clicks, moves

screenVars == <<queued, filters, pageNo, shown, asking, posts, busyId,
                rescheduling, clicks, moves>>

(* One click is one event; the page never waits for a call to come back.   *)
Click(kind) == kind \in Clicks /\ clicks < MaxClicks /\ clicks' = clicks + 1

NoFilter == [status |-> {}, on |-> [f \in QueueFields |-> AnyValue]]

-----------------------------------------------------------------------------
(* EmailsService, as the filter sees it *)

(* toWhere: every field that is set must match; an empty status list is no *)
(* condition.                                                              *)
Matches(m, f) ==
  /\ f.status # {} => queued[m] \in f.status
  /\ \A x \in QueueFields : f.on[x] # AnyValue => RowValue[m][x] = f.on[x]

Selected(f) == {m \in Messages : Matches(m, f)}

PagesOf(total) == IF total = 0 THEN 1 ELSE ((total - 1) \div RowsPerPage) + 1

(* What is left for a page once the earlier ones are full. *)
OnPage(p, total) ==
  LET rest == total - (p - 1) * RowsPerPage IN
  IF rest < 0 THEN 0 ELSE IF rest < RowsPerPage THEN rest ELSE RowsPerPage

(* list: the count and one page of the matching rows.  Which rows share a  *)
(* page depends on the order of their schedules, which is not modelled.    *)
list(f, p) ==
  LET total == Cardinality(Selected(f)) IN
  {[filters |-> f, pageNo |-> p, total |-> total,
    items |-> [m \in S |-> queued[m]]] :
      S \in kSubset(OnPage(p, total), Selected(f))}

(* The bulk statements put their own status over the filter's.             *)
CancelsMany(f) == {m \in Selected([f EXCEPT !.status = {}]) : queued[m] = "pending"}

RetriesMany(f) == {m \in Selected([f EXCEPT !.status = {}]) : queued[m] = "failed"}

assertNarrowed(f) == f.status # {} \/ \E x \in QueueFields : f.on[x] # AnyValue

-----------------------------------------------------------------------------
(* The list *)

(* filtersActive *)
filtersActive == filters.status # {} \/ \E x \in QueueFields : filters.on[x] # AnyValue

(* SWR asks when the key changes, on its timer and on mutate(); an answer  *)
(* asked for earlier is then no longer used.                               *)
Asks(f, p) == asking' \in list(f, p)

refreshAll == Asks(filters, pageNo)

(* Mutant: the page never asks again once it shows something. *)
OnlyAtFirst == asking = Unread /\ shown = Unread

(* refreshInterval: nothing has to happen for the page to ask again.       *)
PollDue == asking = Unread

Poll ==
  /\ PollDue
  /\ refreshAll
  /\ UNCHANGED <<queued, filters, pageNo, shown, posts, busyId, rescheduling,
                 clicks, moves>>

Land ==
  /\ asking # Unread
  /\ shown' = asking
  /\ asking' = Unread
  /\ UNCHANGED <<queued, filters, pageNo, posts, busyId, rescheduling, clicks,
                 moves>>

(* Every change of the filter goes back to the first page; the old rows    *)
(* stay on the screen until the answer for the new key is there.           *)
UseFilter(f) ==
  /\ filters' = f
  /\ pageNo' = 1
  /\ Asks(f, 1)
  /\ UNCHANGED <<queued, shown, posts, busyId, rescheduling, moves>>

(* The two dropdowns, the batch chip of a row and Clear filters. *)
setFilter ==
  /\ Click("filter")
  /\ \/ \E x \in QueueFields : \E v \in {AnyValue} \cup ValuesOf(x) :
          /\ v # filters.on[x]
          /\ UseFilter([filters EXCEPT !.on[x] = v])
     \/ filtersActive /\ UseFilter(NoFilter)

toggleStatus ==
  /\ Click("status")
  /\ \E s \in EmailStatuses :
       UseFilter([filters EXCEPT !.status =
                    IF s \in @ THEN @ \ {s} ELSE @ \cup {s}])

(* Mutant: Previous is not disabled on the first page. *)
AnyNeighbour == {pageNo - 1, pageNo + 1}

NextPages == {pageNo - 1, pageNo + 1} \cap 1..PagesOf(shown.total)

(* Pagination: drawn from the answer on screen, hidden when it fits.       *)
setPage ==
  /\ Click("page")
  /\ shown # Unread /\ shown.total > RowsPerPage
  /\ pageNo' \in NextPages
  /\ Asks(filters, pageNo')
  /\ UNCHANGED <<queued, filters, shown, posts, busyId, rescheduling, moves>>

-----------------------------------------------------------------------------
(* Actions on one row *)

(* Which buttons a row has, by the status it is shown with. *)
Buttons(s) == CASE s = "pending" -> {"cancel", "reschedule"}
                [] s \in {"failed", "cancelled"} -> {"retry"}
                [] OTHER -> {}

HasButton(m, kind) ==
  /\ shown # Unread /\ m \in DOMAIN shown.items
  /\ kind \in Buttons(shown.items[m])
  /\ busyId # m

Post(call) ==
  /\ call \notin posts
  /\ posts' = posts \cup {call}

act(m, kind) ==
  /\ Click(kind)
  /\ HasButton(m, kind)
  /\ Post([kind |-> kind, on |-> m, step |-> "read"])
  /\ busyId' = m
  /\ UNCHANGED <<queued, filters, pageNo, shown, asking, rescheduling, moves>>

openReschedule(m) ==
  /\ Click("reschedule")
  /\ HasButton(m, "reschedule")
  /\ rescheduling' = m
  /\ UNCHANGED <<queued, filters, pageNo, shown, asking, posts, busyId, moves>>

(* Close, or a time that cannot be read: nothing is asked of the server.   *)
closeReschedule ==
  /\ rescheduling # NoRow
  /\ rescheduling' = NoRow
  /\ UNCHANGED <<queued, filters, pageNo, shown, asking, posts, busyId, clicks,
                 moves>>

confirmReschedule ==
  /\ rescheduling # NoRow
  /\ Post([kind |-> "reschedule", on |-> rescheduling, step |-> "read"])
  /\ busyId' = rescheduling
  /\ rescheduling' = NoRow
  /\ UNCHANGED <<queued, filters, pageNo, shown, asking, clicks, moves>>

(* What the first half of each endpoint accepts. *)
Accepts(kind, s) == CASE kind = "cancel" -> s = "pending"
                      [] kind = "reschedule" -> s \notin {"sent", "sending"}
                      [] kind = "retry" -> s \in {"failed", "cancelled"}

(* findOrThrow and the status check; a refusal is answered at once. *)
ServerReads(c) ==
  /\ c \in posts /\ c.step = "read" /\ c.on \in Messages
  /\ posts' = (posts \ {c}) \cup
       {[c EXCEPT !.step = IF Accepts(c.kind, queued[c.on]) THEN "write"
                                                            ELSE "refused"]}
  /\ UNCHANGED <<queued, filters, pageNo, shown, asking, busyId, rescheduling,
                 clicks, moves>>

ServerWrites(c) ==
  /\ c \in posts /\ c.step = "write" /\ c.on \in Messages
  /\ queued' = [queued EXCEPT ![c.on] = IF c.kind = "cancel" THEN "cancelled"
                                                            ELSE "pending"]
  /\ posts' = (posts \ {c}) \cup {[c EXCEPT !.step = "done"]}
  /\ UNCHANGED <<filters, pageNo, shown, asking, busyId, rescheduling, clicks,
                 moves>>

(* Mutant: the spinner is cleared only when the call went well. *)
ClearsOnSuccess(c) == IF c.step = "done" THEN NoRow ELSE busyId

(* finally: whichever row is busy by now. *)
ClearBusy(c) == NoRow

(* The browser gets the answer: a refusal is shown, anything else refreshes.*)
Answered(c) ==
  /\ c \in posts /\ c.step \in {"done", "refused"}
  /\ posts' = posts \ {c}
  /\ busyId' = IF c.on \in Messages THEN ClearBusy(c) ELSE busyId
  /\ IF c.step = "done" THEN refreshAll ELSE UNCHANGED asking
  /\ UNCHANGED <<queued, filters, pageNo, shown, rescheduling, clicks, moves>>

-----------------------------------------------------------------------------
(* Bulk actions *)

(* The filter the request carries: every field of the bar but the batch.   *)
BulkBody(f) == [f EXCEPT !.on["batchId"] = AnyValue]

bulk(kind) ==
  /\ Click(kind)
  /\ filtersActive
  /\ Post([kind |-> kind, on |-> filters, step |-> "read"])
  /\ UNCHANGED <<queued, filters, pageNo, shown, asking, busyId, rescheduling,
                 moves>>

(* bulkCancel and bulkRetry: one statement, refused without a condition.   *)
ServerBulk(c) ==
  /\ c \in posts /\ c.step = "read" /\ c.on \notin Messages
  /\ LET body == BulkBody(c.on)
         hit == IF c.kind = "bulkCancel" THEN CancelsMany(body)
                                         ELSE RetriesMany(body)
     IN  /\ queued' = [m \in Messages |->
                         IF ~assertNarrowed(body) \/ m \notin hit THEN queued[m]
                         ELSE IF c.kind = "bulkCancel" THEN "cancelled"
                         ELSE "pending"]
         /\ posts' = (posts \ {c}) \cup
              {[c EXCEPT !.step = IF assertNarrowed(body) THEN "done"
                                                          ELSE "refused"]}
  /\ UNCHANGED <<filters, pageNo, shown, asking, busyId, rescheduling, clicks,
                 moves>>

-----------------------------------------------------------------------------
(* The pollers and workers, at the grain the page sees them. *)
QueueMoves ==
  /\ moves < MaxMoves /\ moves' = moves + 1
  /\ \E m \in Messages :
       /\ queued[m] \in {"pending", "sending"}
       /\ queued' \in {[queued EXCEPT ![m] = s] :
            s \in IF queued[m] = "pending" THEN {"sending"}
                                           ELSE {"sent", "failed", "pending"}}
  /\ UNCHANGED <<filters, pageNo, shown, asking, posts, busyId, rescheduling,
                 clicks>>

ScreenInit ==
  /\ queued \in [Messages -> {"pending", "failed"}]
  /\ filters = NoFilter /\ pageNo = 1
  /\ shown = Unread /\ asking = Unread
  /\ posts = {} /\ busyId = NoRow /\ rescheduling = NoRow
  /\ clicks = 0 /\ moves = 0

Serve(c) == ServerReads(c) \/ ServerWrites(c) \/ ServerBulk(c) \/ Answered(c)

ScreenNext ==
  \/ Poll \/ Land \/ QueueMoves
  \/ setFilter \/ toggleStatus \/ setPage
  \/ \E m \in Messages : \/ \E kind \in {"cancel", "retry"} : act(m, kind)
                         \/ openReschedule(m)
  \/ closeReschedule \/ confirmReschedule
  \/ \E kind \in {"bulkCancel", "bulkRetry"} : bulk(kind)
  \/ \E c \in posts : Serve(c)

ScreenSpec == ScreenInit /\ [][ScreenNext]_screenVars

-----------------------------------------------------------------------------
(* Properties *)

IsAnswer(a) ==
  /\ a.filters \in Filter /\ a.pageNo \in Nat \ {0} /\ a.total \in Nat
  /\ DOMAIN a.items \subseteq Messages
  /\ \A m \in DOMAIN a.items : a.items[m] \in EmailStatuses

(* Every variable keeps its type.                                          *)
ScreenTypeOK ==
  /\ queued \in [Messages -> EmailStatuses]
  /\ filters \in Filter /\ pageNo \in Nat \ {0}
  /\ shown # Unread => IsAnswer(shown)
  /\ asking # Unread => IsAnswer(asking)
  /\ \A c \in posts : /\ c.kind \in ClickKinds
                      /\ c.on \in Messages \/ c.on \in Filter
                      /\ c.step \in {"read", "write", "done", "refused"}
  /\ busyId \in Messages \cup {NoRow}
  /\ rescheduling \in Messages \cup {NoRow}

(* A row's buttons are disabled only while a call for that row is under    *)
(* way: whatever mix of refusals, answers and clicks on other rows there   *)
(* is, no row stays locked (page.tsx, busyId and the finally of act).      *)
SpinnersHaveACall ==
  busyId # NoRow => \E c \in posts : c.on = busyId

Current ==
  /\ shown # Unread /\ shown.filters = filters /\ shown.pageNo = pageNo
  /\ shown.total = Cardinality(Selected(filters))
  /\ \A m \in DOMAIN shown.items : shown.items[m] = queued[m]

(* Once the queue and the operator rest, the page shows the answer to the  *)
(* filter and the page in front of the operator, whatever answers arrived  *)
(* late or for a filter left in the meantime.                              *)
CatchesUp == <>[]Current

(* A bulk action takes "literally the filter on screen" (email.dto.ts:     *)
(* 84-88): with a batch chosen on the filter bar it leaves the rows of     *)
(* every other batch alone.                                                *)
BulkStaysInTheBatch ==
  [][\A c \in posts, m \in Messages :
       ServerBulk(c) /\ queued'[m] # queued[m]
         => c.on.on["batchId"] \in {AnyValue, RowValue[m]["batchId"]}]_screenVars
=============================================================================
