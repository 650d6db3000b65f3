---------------------------- MODULE SendPipeline ----------------------------
(***************************************************************************)
(* The send pipeline of the backend: the queue table in Postgres, the      *)
(* pollers that claim due rows and enqueue a Redis job for each claim, the *)
(* workers that run the jobs, the reaper that returns abandoned claims,    *)
(* and the requests that touch the same rows while all of that runs        *)
(* (operator edits, bulk edits, unsubscribes, the suppression list).       *)
(*                                                                         *)
(* Every `await` on the database, on Redis or on SMTP is a step boundary,  *)
(* so other processes may act between any two of them.  One SQL statement  *)
(* is one step.                                                            *)
(***************************************************************************)
EXTENDS Integers, FiniteSets, SmtpFailure

CONSTANTS
  Emails,          (* Rows of email_queue.                                  *)
  Recipients,      (* Addresses.                                            *)
  To,              (* toEmail of each row.                                  *)
  Pollers,         (* PollerService instances, one per app process.         *)
  Workers,         (* Concurrent job slots over all processes.              *)
  Refusals,        (* The errors sendMail may reject with.                  *)
  MAX_ATTEMPTS,    (* Transient failures before a row is failed.            *)
  ClaimBatchSize,  (* Claims per poll tick.                                 *)
  NoJob,           (* Value of a job slot that holds nothing.               *)
  Env,             (* Which disturbances below may occur.                   *)
  Ops,             (* Which requests below may arrive.                      *)
  MaxClaims,       (* Bound: claims per row.                                *)
  MaxEvents,       (* Bound: disturbances in a behaviour.                   *)
  MaxOps           (* Bound: requests in a behaviour.                       *)

(* gate        the mailbox refuses the slot (pace, daily limit, paused)    *)
(* reply       the server accepted the mail and the connection then broke  *)
(* enqueue     queue.add fails and stored nothing                          *)
(* enqueueAck  queue.add fails after Redis stored the job                  *)
(* db          a database statement of a poller or a worker fails          *)
(* crash       a process dies                                              *)
(* outlive     a claim gets older than the reaper's timeout while its job  *)
(*             is still waiting or running                                 *)
(* shutdown    an app process is stopped gracefully                        *)
Disturbances == {"gate", "reply", "enqueue", "enqueueAck", "db", "crash",
                 "outlive", "shutdown"}

Requests == {"cancel", "reschedule", "retry", "cancelMany", "retryMany",
             "unsubscribe", "suppress", "unsuppress"}

Stamps == 1..MaxClaims
Jobs   == [email : Emails, claim : Stamps]

ASSUME PipelineAssumption ==
  /\ IsFiniteSet(Workers)
  /\ To \in [Emails -> Recipients]
  /\ Refusals \subseteq SmtpErrors
  /\ MAX_ATTEMPTS \in Nat \ {0}
  /\ ClaimBatchSize \in Nat \ {0}
  /\ NoJob \notin Jobs
  /\ Env \subseteq Disturbances
  /\ Ops \subseteq Requests
  /\ MaxClaims \in Nat /\ MaxEvents \in Nat /\ MaxOps \in Nat

VARIABLES
  (* email_queue, one entry per row *)
  status,      (* EmailStatus                                               *)
  due,         (* scheduledAt <= now                                        *)
  claimedAt,   (* stamp of the claim, 0 for null                            *)
  aged,        (* claimedAt is older than stuckSendingTimeoutMs             *)
  attempts,
  stamp,       (* the clock as this row's claims see it: last stamp given   *)
  (* Redis: the BullMQ queue *)
  waiting,     (* jobs waiting                                              *)
  failedJobs,  (* records of failed jobs Redis keeps (removeOnFail)         *)
  (* PollerService *)
  ppc,         (* where each tick is; "idle" is ticking = false             *)
  held,        (* the claim between claimNextDue and queue.add              *)
  claimed,     (* the tick's local counter                                  *)
  stopped,
  (* SendProcessor *)
  pc,          (* which await of process() or handleFailure() is next       *)
  job,
  seen,        (* email.attempts as findById returned it                    *)
  fail,        (* the error being handled                                   *)
  (* the mailbox and the suppression list *)
  spent,       (* send slots claimed and not released                       *)
  suppressed,
  (* requests in progress *)
  op,          (* single-row operator requests between read and write       *)
  unsub,       (* UnsubscribeController.process                             *)
  (* what the outside world saw, and history used only by properties *)
  delivered,   (* times a mail server accepted each row's message           *)
  used,        (* sends the provider counts: taken, or refused with a reply *)
  misjudged,   (* sends it took that were handled as getting no reply       *)
  unrecorded,  (* acceptances that no markSent recorded                     *)
  exposure,    (* per suppressed address: sends already past the check when *)
               (* it was suppressed, less the mail delivered to it since    *)
  (* bounds *)
  eventsLeft, opsLeft

rows     == <<status, due, claimedAt, aged, attempts, stamp>>
redis    == <<waiting, failedJobs>>
polling  == <<ppc, held, claimed, stopped>>
working  == <<pc, job, seen, fail>>
requests == <<op, unsub>>
outside  == <<delivered, used, misjudged, unrecorded, exposure>>
bounds   == <<eventsLeft, opsLeft>>
vars == <<rows, redis, polling, working, spent, suppressed, requests, outside,
          bounds>>

(* What the steps of each party never touch. *)
notPolling  == <<working, spent, suppressed, requests, outside>>
notWorking  == <<polling, requests>>
notRequests == <<redis, polling, working, spent>>

Statuses == {"pending", "sending", "sent", "failed", "cancelled"}
Settled  == {"sent", "failed", "cancelled"}

PollerSteps == {"idle", "claim", "add", "defer"}
WorkerSteps == {"idle", "load", "check", "cancelSuppressed", "failSuppressed",
                "slot", "throttled", "send", "markSent", "clearError",
                "recordError", "addBounce", "cancelBounced", "failBounced",
                "failPermanent", "release", "retry"}
Edits       == [kind : {"cancel", "reschedule", "retry"}, email : Emails]

NoError == [errno |-> FALSE, code |-> 250, senderState |-> FALSE]

Event(kind)   == kind \in Env /\ eventsLeft > 0 /\ eventsLeft' = eventsLeft - 1
Request(kind) == kind \in Ops /\ opsLeft > 0 /\ opsLeft' = opsLeft - 1

(* A job, a worker or a poller still has this row in hand. *)
Held(e) ==
  \/ \E j \in waiting : j.email = e
  \/ \E w \in Workers : pc[w] # "idle" /\ job[w].email = e
  \/ \E p \in Pollers : ppc[p] \in {"add", "defer"} /\ held[p].email = e

-----------------------------------------------------------------------------
(* Statements of EmailsService.  Each is one UPDATE.                       *)

MailTo(r) == {e \in Emails : To[e] = r}

(* Mutant: the queue filter's own status overrides the one the statement    *)
(* sets (the spread of toWhere(filter) placed last).                       *)
FilterOverridesStatus(e) == status[e] \in {"pending", "sending"}

Cancellable(e) == status[e] = "pending"

cancelPending(S) ==
  /\ status' = [e \in Emails |->
                  IF e \in S /\ Cancellable(e) THEN "cancelled" ELSE status[e]]
  /\ UNCHANGED <<due, claimedAt, aged, attempts, stamp>>

cancelPendingForRecipient(r) == cancelPending(MailTo(r))

(* Mutant: the stamp of the claim is left behind. *)
KeepsClaim(e) == UNCHANGED <<claimedAt, aged>>

(* claimedAt := null, in every statement that takes a row out of `sending`.*)
unclaim(e) ==
  /\ claimedAt' = [claimedAt EXCEPT ![e] = 0]
  /\ aged'      = [aged EXCEPT ![e] = FALSE]

markSent(e) ==
  /\ status' = [status EXCEPT ![e] = "sent"]
  /\ unclaim(e)
  /\ attempts' = [attempts EXCEPT ![e] = @ + 1]
  /\ UNCHANGED <<due, stamp>>

markFailed(e) ==
  /\ status' = [status EXCEPT ![e] = "failed"]
  /\ unclaim(e)
  /\ attempts' = [attempts EXCEPT ![e] = @ + 1]
  /\ UNCHANGED <<due, stamp>>

(* Mutant: a throttle deferral gives an attempt back. *)
GivesAttemptBack(n, countsAsAttempt) == IF countsAsAttempt THEN n + 1 ELSE n - 1

afterDeferral(n, countsAsAttempt) == IF countsAsAttempt THEN n + 1 ELSE n

deferTo(e, countsAsAttempt) ==
  /\ status' = [status EXCEPT ![e] = "pending"]
  /\ due' = [due EXCEPT ![e] = FALSE]
  /\ unclaim(e)
  /\ attempts' = [attempts EXCEPT ![e] = afterDeferral(@, countsAsAttempt)]
  /\ UNCHANGED stamp

-----------------------------------------------------------------------------
(* Time *)

BecomesDue(e) ==
  /\ status[e] = "pending" /\ ~due[e]
  /\ due' = [due EXCEPT ![e] = TRUE]
  /\ UNCHANGED <<status, claimedAt, aged, attempts, stamp, redis, polling,
                 notPolling, bounds>>

Ages(e) ==
  /\ status[e] = "sending" /\ ~aged[e]
  /\ aged' = [aged EXCEPT ![e] = TRUE]
  /\ UNCHANGED <<status, due, claimedAt, attempts, stamp, redis, polling,
                 notPolling, opsLeft>>

(* The timeout passes on a claim nothing is working on any more ...        *)
AbandonedClaimAges(e) == ~Held(e) /\ Ages(e) /\ UNCHANGED eventsLeft

(* ... or on one whose job is stuck behind a backlog, a downtime or a slow *)
(* server.                                                                 *)
LiveClaimAges(e) == Held(e) /\ Ages(e) /\ Event("outlive")

-----------------------------------------------------------------------------
(* PollerService *)

TickStarts(p) ==
  /\ ppc[p] = "idle" /\ ~stopped[p]
  /\ ppc' = [ppc EXCEPT ![p] = "claim"]
  /\ claimed' = [claimed EXCEPT ![p] = 0]
  /\ UNCHANGED <<rows, redis, held, stopped, notPolling, bounds>>

MayClaim(p) == ppc[p] = "claim" /\ claimed[p] < ClaimBatchSize /\ ~stopped[p]

Claimable(e) == status[e] = "pending" /\ due[e] /\ stamp[e] < MaxClaims

(* The claim stamps the row and becomes the poller's in one statement.     *)
claimNextDue(p) ==
  /\ MayClaim(p)
  /\ \E e \in Emails :
       /\ Claimable(e)
       /\ status' = [status EXCEPT ![e] = "sending"]
       /\ stamp'     = [stamp EXCEPT ![e] = @ + 1]
       /\ claimedAt' = [claimedAt EXCEPT ![e] = stamp[e] + 1]
       /\ aged'      = [aged EXCEPT ![e] = FALSE]
       /\ held'      = [held EXCEPT ![p] = [email |-> e, claim |-> stamp[e] + 1]]
  /\ ppc' = [ppc EXCEPT ![p] = "add"]
  /\ UNCHANGED <<due, attempts, redis, claimed, stopped, notPolling, bounds>>

TickEnds(p) ==
  /\ ppc[p] = "claim"
  /\ ~(MayClaim(p) /\ \E e \in Emails : Claimable(e))
  /\ ppc' = [ppc EXCEPT ![p] = "idle"]
  /\ UNCHANGED <<rows, redis, held, claimed, stopped, notPolling, bounds>>

(* Mutant: one id per row, the collision the comment at the call warns of. *)
IdPerRow(j) == j.email

(* The id a job is added under: the row and the claim's timestamp.         *)
JobId(j) == <<j.email, j.claim>>

KnownIds == {JobId(j) : j \in waiting \cup failedJobs}
              \cup {JobId(job[w]) : w \in {x \in Workers : pc[x] # "idle"}}

(* BullMQ drops an id it still has a record of without telling the caller. *)
queueAdd(j) ==
  /\ waiting' = IF JobId(j) \in KnownIds THEN waiting ELSE waiting \cup {j}
  /\ UNCHANGED failedJobs

Enqueue(p) ==
  /\ ppc[p] = "add"
  /\ queueAdd(held[p])
  /\ held'    = [held EXCEPT ![p] = NoJob]
  /\ claimed' = [claimed EXCEPT ![p] = @ + 1]
  /\ ppc'     = [ppc EXCEPT ![p] = "claim"]
  /\ UNCHANGED <<rows, stopped, notPolling, bounds>>

EnqueueFails(p) ==
  /\ ppc[p] = "add"
  /\ \/ Event("enqueue") /\ UNCHANGED redis
     \/ Event("enqueueAck") /\ queueAdd(held[p])
  /\ ppc' = [ppc EXCEPT ![p] = "defer"]
  /\ UNCHANGED <<rows, held, claimed, stopped, notPolling, opsLeft>>

(* The row goes back for 30 seconds and the rethrown error ends the tick.  *)
DeferUnqueued(p) ==
  /\ ppc[p] = "defer"
  /\ deferTo(held[p].email, FALSE)
  /\ held' = [held EXCEPT ![p] = NoJob]
  /\ ppc'  = [ppc EXCEPT ![p] = "idle"]
  /\ UNCHANGED <<redis, claimed, stopped, notPolling, bounds>>

(* A claim or a deferral that throws, or the death of the process: either  *)
(* way the tick is over and whatever it held is left to the reaper.        *)
TickBreaks(p) ==
  /\ \/ ppc[p] \in {"claim", "defer"} /\ Event("db")
     \/ ppc[p] # "idle" /\ Event("crash")
  /\ held' = [held EXCEPT ![p] = NoJob]
  /\ ppc'  = [ppc EXCEPT ![p] = "idle"]
  /\ UNCHANGED <<rows, redis, claimed, stopped, notPolling, opsLeft>>

Shutdown(p) ==
  /\ ~stopped[p] /\ Event("shutdown")
  /\ stopped' = [stopped EXCEPT ![p] = TRUE]
  /\ UNCHANGED <<rows, redis, ppc, held, claimed, notPolling, opsLeft>>

(* The process comes back once its last tick is over. *)
Bootstrap(p) ==
  /\ stopped[p] /\ ppc[p] = "idle"
  /\ stopped' = [stopped EXCEPT ![p] = FALSE]
  /\ UNCHANGED <<rows, redis, ppc, held, claimed, notPolling, bounds>>

-----------------------------------------------------------------------------
(* ReaperService: one UPDATE over every claim past the timeout.            *)

(* Mutant: the sweep forgets the cutoff. *)
StuckWhateverItsAge(e) == status[e] = "sending" /\ claimedAt[e] # 0

Stuck(e) == status[e] = "sending" /\ claimedAt[e] # 0 /\ aged[e]

reapStuckClaims ==
  /\ \E e \in Emails : Stuck(e)
  /\ status'    = [e \in Emails |-> IF Stuck(e) THEN "pending" ELSE status[e]]
  /\ claimedAt' = [e \in Emails |-> IF Stuck(e) THEN 0 ELSE claimedAt[e]]
  /\ aged'      = [e \in Emails |-> IF Stuck(e) THEN FALSE ELSE aged[e]]
  /\ UNCHANGED <<due, attempts, stamp, redis, polling, notPolling, bounds>>

-----------------------------------------------------------------------------
(* SuppressionService.add: the first reason stays, so only the membership  *)
(* matters.  `exposure` records who is past the check at this instant.     *)

PastCheck(r) ==
  {w \in Workers : pc[w] \in {"slot", "send"} /\ To[job[w].email] = r}

addSuppression(r) ==
  /\ suppressed' = suppressed \cup {r}
  /\ exposure' = IF r \in suppressed THEN exposure
                 ELSE [exposure EXCEPT ![r] = Cardinality(PastCheck(r))]

-----------------------------------------------------------------------------
(* SendProcessor *)

Goto(w, from, to) ==
  /\ pc[w] = from
  /\ pc' = [pc EXCEPT ![w] = to]

(* process() returned, or threw: either way the slot is free.              *)
Leave(w) ==
  /\ pc'   = [pc EXCEPT ![w] = "idle"]
  /\ job'  = [job EXCEPT ![w] = NoJob]
  /\ seen' = [seen EXCEPT ![w] = 0]
  /\ fail' = [fail EXCEPT ![w] = NoError]

Mail(w) == job[w].email

TakeJob(w) ==
  /\ Goto(w, "idle", "load")
  /\ \E j \in waiting :
       /\ job' = [job EXCEPT ![w] = j]
       /\ waiting' = waiting \ {j}
  /\ UNCHANGED <<rows, failedJobs, seen, fail, spent, suppressed, outside,
                 notWorking, bounds>>

(* Mutant: only a cancellation stops a job. *)
NotCancelled(e) == status[e] # "cancelled"

(* Anything but `sending` means someone else already moved the row.        *)
StillClaimed(e) == status[e] = "sending"

Load(w) ==
  /\ Goto(w, "load", "check")
  /\ StillClaimed(Mail(w))
  /\ seen' = [seen EXCEPT ![w] = attempts[Mail(w)]]
  /\ UNCHANGED <<rows, redis, job, fail, spent, suppressed, outside,
                 notWorking, bounds>>

SkipMoved(w) ==
  /\ pc[w] = "load" /\ ~StillClaimed(Mail(w))
  /\ Leave(w)
  /\ UNCHANGED <<rows, redis, spent, suppressed, outside, notWorking, bounds>>

(* Mutant: the importer's check is trusted and the late one dropped. *)
NeverSuppressed(r) == FALSE

isSuppressed(r) == r \in suppressed

CheckSuppressed(w) ==
  /\ Goto(w, "check", IF isSuppressed(To[Mail(w)]) THEN "cancelSuppressed"
                                                   ELSE "slot")
  /\ UNCHANGED <<rows, redis, job, seen, fail, spent, suppressed, outside,
                 notWorking, bounds>>

CancelRest(w) ==
  /\ \/ Goto(w, "cancelSuppressed", "failSuppressed")
     \/ Goto(w, "cancelBounced", "failBounced")
  /\ cancelPendingForRecipient(To[Mail(w)])
  /\ UNCHANGED <<redis, job, seen, fail, spent, suppressed, outside,
                 notWorking, bounds>>

FailNow(w) ==
  /\ pc[w] \in {"failSuppressed", "failBounced", "failPermanent"}
  /\ markFailed(Mail(w))
  /\ Leave(w)
  /\ UNCHANGED <<redis, spent, suppressed, outside, notWorking, bounds>>

SlotGranted(w) ==
  /\ Goto(w, "slot", "send")
  /\ spent' = spent + 1
  /\ UNCHANGED <<rows, redis, job, seen, fail, suppressed, outside,
                 notWorking, bounds>>

SlotDenied(w) ==
  /\ Event("gate")
  /\ Goto(w, "slot", "throttled")
  /\ UNCHANGED <<rows, redis, job, seen, fail, spent, suppressed, outside,
                 notWorking, opsLeft>>

DeferThrottled(w) ==
  /\ pc[w] = "throttled"
  /\ deferTo(Mail(w), FALSE)
  /\ Leave(w)
  /\ UNCHANGED <<redis, spent, suppressed, outside, notWorking, bounds>>

(* The server takes the message.                                           *)
Accepted(w) ==
  /\ delivered' = [delivered EXCEPT ![Mail(w)] = @ + 1]
  /\ exposure'  = IF To[Mail(w)] \in suppressed
                  THEN [exposure EXCEPT ![To[Mail(w)]] = @ - 1] ELSE exposure

SendMail(w) ==
  /\ Goto(w, "send", "markSent")
  /\ Accepted(w)
  /\ used' = used + 1
  /\ UNCHANGED <<rows, redis, job, seen, fail, spent, suppressed, misjudged,
                 unrecorded, notWorking, bounds>>

(* Accepted, but the connection broke before the reply arrived.            *)
SendMailReplyLost(w) ==
  /\ Event("reply")
  /\ Goto(w, "send", "recordError")
  /\ Accepted(w)
  /\ used' = used + 1 /\ misjudged' = misjudged + 1
  /\ unrecorded' = [unrecorded EXCEPT ![Mail(w)] = @ + 1]
  /\ fail' = [fail EXCEPT ![w] = NetworkError]
  /\ UNCHANGED <<rows, redis, job, seen, spent, suppressed, notWorking, opsLeft>>

(* transports.get or sendMail rejects and no message left.                 *)
SendMailRefused(w) ==
  /\ Goto(w, "send", "recordError")
  /\ \E err \in Refusals :
       /\ fail' = [fail EXCEPT ![w] = err]
       /\ used' = IF err.code = NoCode THEN used ELSE used + 1
  /\ UNCHANGED <<rows, redis, job, seen, spent, suppressed, delivered, misjudged,
                 unrecorded, exposure, notWorking, bounds>>

MarkSent(w) ==
  /\ Goto(w, "markSent", "clearError")
  /\ markSent(Mail(w))
  /\ UNCHANGED <<redis, job, seen, fail, spent, suppressed, outside,
                 notWorking, bounds>>

ClearSendError(w) ==
  /\ pc[w] = "clearError"
  /\ Leave(w)
  /\ UNCHANGED <<rows, redis, spent, suppressed, outside, notWorking, bounds>>

(* handleFailure *)

(* Mutant: every transient failure gives the slot back. *)
ReleasesOnAnyTransient(f) ==
  IF f.isRecipientRejection THEN "addBounce"
  ELSE IF f.kind = "permanent" THEN "failPermanent"
  ELSE "release"

AfterRecordError(f) ==
  IF f.isRecipientRejection THEN "addBounce"
  ELSE IF f.kind = "permanent" THEN "failPermanent"
  ELSE IF f.code = NoCode THEN "release"
  ELSE "retry"

RecordSendError(w) ==
  /\ Goto(w, "recordError", AfterRecordError(classifySmtpFailure(fail[w])))
  /\ UNCHANGED <<rows, redis, job, seen, fail, spent, suppressed, outside,
                 notWorking, bounds>>

AddBounce(w) ==
  /\ Goto(w, "addBounce", "cancelBounced")
  /\ addSuppression(To[Mail(w)])
  /\ UNCHANGED <<rows, redis, job, seen, fail, spent, delivered, used,
                 misjudged, unrecorded, notWorking, bounds>>

ReleaseSendSlot(w) ==
  /\ Goto(w, "release", "retry")
  /\ spent' = IF spent > 0 THEN spent - 1 ELSE spent
  /\ UNCHANGED <<rows, redis, job, seen, fail, suppressed, outside,
                 notWorking, bounds>>

(* Mutant: compares the count before this attempt. *)
GivesUpOneLate(attemptsRead) == attemptsRead >= MAX_ATTEMPTS

GivesUp(attemptsRead) == attemptsRead + 1 >= MAX_ATTEMPTS

RetryOrGiveUp(w) ==
  /\ pc[w] = "retry"
  /\ IF GivesUp(seen[w]) THEN markFailed(Mail(w)) ELSE deferTo(Mail(w), TRUE)
  /\ Leave(w)
  /\ UNCHANGED <<redis, spent, suppressed, outside, notWorking, bounds>>

LosesRecord(w) ==
  unrecorded' = [unrecorded EXCEPT
                   ![Mail(w)] = IF pc[w] = "markSent" THEN @ + 1 ELSE @]

(* A statement after sendMail and inside the try: the catch block handles  *)
(* it as it would a send that got no reply.                                *)
BookkeepingFails(w) ==
  /\ pc[w] \in {"markSent", "clearError"} /\ Event("db")
  /\ pc'   = [pc EXCEPT ![w] = "recordError"]
  /\ fail' = [fail EXCEPT ![w] = DatabaseError]
  /\ misjudged' = misjudged + 1
  /\ LosesRecord(w)
  /\ UNCHANGED <<rows, redis, job, seen, spent, suppressed, delivered, used,
                 exposure, notWorking, opsLeft>>

(* Any other statement: process() throws and, with attempts: 1, the job is *)
(* a failed job.                                                           *)
JobFails(w) ==
  /\ pc[w] \notin {"idle", "send", "markSent", "clearError"} /\ Event("db")
  /\ failedJobs' = failedJobs \cup {job[w]}
  /\ Leave(w)
  /\ UNCHANGED <<rows, waiting, spent, suppressed, outside, notWorking,
                 opsLeft>>

(* BullMQ finds the dead worker's job stalled and either runs it again or, *)
(* past its limit, fails it.                                               *)
WorkerCrashes(w) ==
  /\ pc[w] # "idle" /\ Event("crash")
  /\ \/ waiting' = waiting \cup {job[w]} /\ UNCHANGED failedJobs
     \/ failedJobs' = failedJobs \cup {job[w]} /\ UNCHANGED waiting
  /\ LosesRecord(w)
  /\ Leave(w)
  /\ UNCHANGED <<rows, spent, suppressed, delivered, used, misjudged, exposure,
                 notWorking, opsLeft>>

-----------------------------------------------------------------------------
(* Requests *)

(* Which statuses the read half of each single-row request lets through.   *)
Editable(kind) ==
  CASE kind = "cancel"     -> {"pending"}
    [] kind = "reschedule" -> {"pending", "failed", "cancelled"}
    [] kind = "retry"      -> {"failed", "cancelled"}

EditRead(kind, e) ==
  /\ Request(kind)
  /\ status[e] \in Editable(kind)
  /\ op' = op \cup {[kind |-> kind, email |-> e]}
  /\ UNCHANGED <<rows, suppressed, unsub, outside, notRequests, eventsLeft>>

(* The write half: by id, whatever the row has become in the meantime.     *)
cancel(e) ==
  /\ status' = [status EXCEPT ![e] = "cancelled"]
  /\ UNCHANGED <<due, claimedAt, aged, attempts, stamp>>

reschedule(e) ==
  /\ status' = [status EXCEPT ![e] = "pending"]
  /\ \E d \in BOOLEAN : due' = [due EXCEPT ![e] = d]
  /\ unclaim(e)
  /\ UNCHANGED <<attempts, stamp>>

retry(e) ==
  /\ status' = [status EXCEPT ![e] = "pending"]
  /\ \E d \in BOOLEAN : due' = [due EXCEPT ![e] = d]
  /\ unclaim(e)
  /\ attempts' = [attempts EXCEPT ![e] = 0]
  /\ UNCHANGED stamp

EditWrite(o) ==
  /\ o \in op
  /\ op' = op \ {o}
  /\ \/ o.kind = "cancel" /\ cancel(o.email)
     \/ o.kind = "reschedule" /\ reschedule(o.email)
     \/ o.kind = "retry" /\ retry(o.email)
  /\ UNCHANGED <<suppressed, unsub, outside, notRequests, bounds>>

(* The bulk edits re-test the status in their own statement; the queue     *)
(* filter may select any set of rows.                                      *)
cancelMany(S) ==
  /\ Request("cancelMany")
  /\ cancelPending(S)
  /\ UNCHANGED <<suppressed, requests, outside, notRequests, eventsLeft>>

(* Mutant: the bulk retry takes whatever is settled. *)
RetriesSentToo(e) == status[e] \in {"failed", "sent"}

Retryable(e) == status[e] = "failed"

retryMany(S) ==
  LET hit(e) == e \in S /\ Retryable(e) IN
  /\ Request("retryMany")
  /\ status'    = [e \in Emails |-> IF hit(e) THEN "pending" ELSE status[e]]
  /\ due'       = [e \in Emails |-> IF hit(e) THEN TRUE ELSE due[e]]
  /\ claimedAt' = [e \in Emails |-> IF hit(e) THEN 0 ELSE claimedAt[e]]
  /\ aged'      = [e \in Emails |-> IF hit(e) THEN FALSE ELSE aged[e]]
  /\ attempts'  = [e \in Emails |-> IF hit(e) THEN 0 ELSE attempts[e]]
  /\ UNCHANGED <<stamp, suppressed, requests, outside, notRequests,
                 eventsLeft>>

Unsubscribe(r) ==
  /\ Request("unsubscribe")
  /\ unsub[r] # "added"
  /\ addSuppression(r)
  /\ unsub' = [unsub EXCEPT ![r] = "added"]
  /\ UNCHANGED <<rows, op, delivered, used, misjudged, unrecorded,
                 notRequests, eventsLeft>>

UnsubscribeCancels(r) ==
  /\ unsub[r] = "added"
  /\ cancelPendingForRecipient(r)
  /\ unsub' = [unsub EXCEPT ![r] = "done"]
  /\ UNCHANGED <<suppressed, op, outside, notRequests, bounds>>

(* From the suppression page: the list alone, queued mail is left as it is.*)
Suppress(r) ==
  /\ Request("suppress")
  /\ addSuppression(r)
  /\ UNCHANGED <<rows, requests, delivered, used, misjudged, unrecorded,
                 notRequests, eventsLeft>>

Unsuppress(r) ==
  /\ Request("unsuppress")
  /\ suppressed' = suppressed \ {r}
  /\ exposure' = [exposure EXCEPT ![r] = 0]
  /\ unsub' = [unsub EXCEPT ![r] = IF @ = "done" THEN "none" ELSE @]
  /\ UNCHANGED <<rows, op, delivered, used, misjudged, unrecorded,
                 notRequests, eventsLeft>>

-----------------------------------------------------------------------------
Init ==
  /\ status = [e \in Emails |-> "pending"]
  /\ due = [e \in Emails |-> FALSE]
  /\ claimedAt = [e \in Emails |-> 0]
  /\ aged = [e \in Emails |-> FALSE]
  /\ attempts = [e \in Emails |-> 0]
  /\ stamp = [e \in Emails |-> 0]
  /\ waiting = {} /\ failedJobs = {}
  /\ ppc = [p \in Pollers |-> "idle"]
  /\ held = [p \in Pollers |-> NoJob]
  /\ claimed = [p \in Pollers |-> 0]
  /\ stopped = [p \in Pollers |-> FALSE]
  /\ pc = [w \in Workers |-> "idle"]
  /\ job = [w \in Workers |-> NoJob]
  /\ seen = [w \in Workers |-> 0]
  /\ fail = [w \in Workers |-> NoError]
  /\ spent = 0
  /\ suppressed = {}
  /\ op = {}
  /\ unsub = [r \in Recipients |-> "none"]
  /\ delivered = [e \in Emails |-> 0] /\ used = 0 /\ misjudged = 0
  /\ unrecorded = [e \in Emails |-> 0]
  /\ exposure = [r \in Recipients |-> 0]
  /\ eventsLeft = MaxEvents /\ opsLeft = MaxOps

(* What the code does of itself, and what only happens to it.              *)
PollerStep(p) == \/ TickStarts(p) \/ claimNextDue(p) \/ TickEnds(p)
                 \/ Enqueue(p) \/ DeferUnqueued(p) \/ Bootstrap(p)

WorkerStep(w) == \/ TakeJob(w) \/ Load(w) \/ SkipMoved(w) \/ CheckSuppressed(w)
                 \/ CancelRest(w) \/ FailNow(w) \/ SlotGranted(w)
                 \/ DeferThrottled(w) \/ SendMail(w) \/ SendMailRefused(w)
                 \/ MarkSent(w) \/ ClearSendError(w) \/ RecordSendError(w)
                 \/ AddBounce(w) \/ ReleaseSendSlot(w) \/ RetryOrGiveUp(w)

Disturbance ==
  \/ \E p \in Pollers : EnqueueFails(p) \/ TickBreaks(p) \/ Shutdown(p)
  \/ \E w \in Workers : \/ SlotDenied(w) \/ SendMailReplyLost(w)
                        \/ BookkeepingFails(w) \/ JobFails(w)
                        \/ WorkerCrashes(w)
  \/ \E e \in Emails : LiveClaimAges(e)

RequestStep ==
  \/ \E e \in Emails, kind \in {"cancel", "reschedule", "retry"} :
       EditRead(kind, e)
  \/ \E o \in op : EditWrite(o)
  \/ \E S \in SUBSET Emails : cancelMany(S) \/ retryMany(S)
  \/ \E r \in Recipients : \/ Unsubscribe(r) \/ UnsubscribeCancels(r)
                           \/ Suppress(r) \/ Unsuppress(r)

Next ==
  \/ \E e \in Emails : BecomesDue(e) \/ AbandonedClaimAges(e)
  \/ \E p \in Pollers : PollerStep(p)
  \/ \E w \in Workers : WorkerStep(w)
  \/ reapStuckClaims
  \/ Disturbance
  \/ RequestStep

Spec == Init /\ [][Next]_vars

(* Clocks advance, setInterval and the cron job keep firing, and BullMQ    *)
(* keeps serving waiting jobs.  Nothing is assumed of requests or of the   *)
(* disturbances, nor of how a send ends.                                   *)
Fairness ==
  /\ \A e \in Emails : WF_vars(BecomesDue(e)) /\ WF_vars(AbandonedClaimAges(e))
  /\ \A p \in Pollers : WF_vars(PollerStep(p))
  /\ \A w \in Workers : WF_vars(WorkerStep(w))
  /\ WF_vars(reapStuckClaims)

FairSpec == Spec /\ Fairness
=============================================================================
