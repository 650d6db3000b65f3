------------------------- MODULE SendPipelineProps -------------------------
(***************************************************************************)
(* What the send pipeline is for, stated over the state of SendPipeline.   *)
(* Which disturbances and requests each property survives is said in the   *)
(* configuration that checks it.                                           *)
(***************************************************************************)
EXTENDS SendPipeline

RowsType ==
  /\ status \in [Emails -> Statuses]
  /\ due \in [Emails -> BOOLEAN]
  /\ claimedAt \in [Emails -> 0..MaxClaims]
  /\ aged \in [Emails -> BOOLEAN]
  /\ attempts \in [Emails -> Nat]
  /\ stamp \in [Emails -> 0..MaxClaims]

RedisType == waiting \subseteq Jobs /\ failedJobs \subseteq Jobs

PollingType ==
  /\ ppc \in [Pollers -> PollerSteps]
  /\ held \in [Pollers -> Jobs \cup {NoJob}]
  /\ \A p \in Pollers : ppc[p] \in {"add", "defer"} => held[p] \in Jobs
  /\ claimed \in [Pollers -> Nat]
  /\ stopped \in [Pollers -> BOOLEAN]

WorkingType ==
  /\ pc \in [Workers -> WorkerSteps]
  /\ job \in [Workers -> Jobs \cup {NoJob}]
  /\ \A w \in Workers : pc[w] # "idle" => job[w] \in Jobs
  /\ seen \in [Workers -> Nat]
  /\ fail \in [Workers -> SmtpErrors]

RequestsType ==
  /\ suppressed \subseteq Recipients
  /\ op \subseteq Edits
  /\ unsub \in [Recipients -> {"none", "added", "done"}]

CountersType ==
  /\ spent \in Nat /\ used \in Nat /\ misjudged \in Nat
  /\ delivered \in [Emails -> Nat]
  /\ unrecorded \in [Emails -> Nat]
  /\ exposure \in [Recipients -> Int]
  /\ eventsLeft \in Nat /\ opsLeft \in Nat

(* Every variable keeps its type; in particular a slot, an attempt and a   *)
(* claim stamp are never driven below zero, and whatever a worker or a     *)
(* poller has in hand is a claim (emails.service.ts:291-376).              *)
TypeOK == /\ RowsType /\ RedisType /\ PollingType
          /\ WorkingType /\ RequestsType /\ CountersType

-----------------------------------------------------------------------------
(* Under every disturbance and every request *)

(* The reaper looks for `sending` rows by their claimedAt, so a `sending`  *)
(* row with a null claimedAt would be stuck forever; and a queued row that *)
(* kept an old stamp would look like a claim (emails.service.ts,           *)
(* claimNextDue, reapStuckClaims and every statement that leaves sending). *)
ClaimStamped ==
  \A e \in Emails : /\ status[e] = "sending" => claimedAt[e] # 0
                    /\ status[e] = "pending" => claimedAt[e] = 0 /\ ~aged[e]

(* After an address is suppressed, the only mail it can still get is what  *)
(* a worker had already carried past the suppression check at that moment. *)
(* No deferral, retry, reap or operator edit gives it more: every route to *)
(* a later send goes through the check again (send.processor.ts, process). *)
SuppressionHolds == \A r \in Recipients : exposure[r] >= 0

(* The slots a mailbox is charged for cover what its provider counts -     *)
(* every message taken, every refusal with a reply - and the sends in      *)
(* progress, but for one slot for each send that was misjudged: the server *)
(* took the message, and then the reply was lost or a statement after it   *)
(* failed.  handleFailure finds no reply code, believes that "nothing left *)
(* the building" (send.processor.ts:178-180, architecture.md:52) and gives *)
(* back the slot of a message that did leave.  No refusal, crash, late job *)
(* or edit gives a used slot back, and none goes back twice                *)
(* (send.processor.ts, handleFailure; accounts.service.ts, releaseSendSlot)*)
UsedSendsArePaidFor ==
  used + Cardinality({w \in Workers : pc[w] = "send"}) <= spent + misjudged

-----------------------------------------------------------------------------
(* While no claim outlives the reaper's timeout, no enqueue is ambiguous   *)
(* and nobody edits a single row                                           *)

(* A row is in at most one pair of hands: one waiting job, one worker or   *)
(* one poller.  Two would both find it `sending` and both send it, because *)
(* a job does not know which claim it belongs to.                          *)
OneHolder ==
  /\ \A i, j \in waiting : i.email = j.email => i = j
  /\ \A v, w \in Workers :
       v # w /\ pc[v] # "idle" /\ pc[w] # "idle" => job[v].email # job[w].email
  /\ \A p, q \in Pollers :
       p # q /\ ppc[p] \in {"add", "defer"} /\ ppc[q] \in {"add", "defer"}
         => held[p].email # held[q].email
  /\ \A j \in waiting, w \in Workers : pc[w] # "idle" => job[w].email # j.email
  /\ \A j \in waiting, p \in Pollers :
       ppc[p] \in {"add", "defer"} => held[p].email # j.email
  /\ \A w \in Workers, p \in Pollers :
       pc[w] # "idle" /\ ppc[p] \in {"add", "defer"}
         => job[w].email # held[p].email

(* What keeps it so: a row in someone's hands is never up for claiming, and*)
(* only a row in nobody's hands gets past the timeout.                     *)
HeldRowsAreClaimed ==
  \A e \in Emails : Held(e) => status[e] \in {"sending", "sent"} /\ ~aged[e]

-----------------------------------------------------------------------------
(* If besides that the bookkeeping after a send does not fail *)

(* A recipient gets a message twice only if an acceptance was lost before  *)
(* it could be recorded: the reply never came, or the worker died between  *)
(* sendMail and markSent.  Each such loss costs at most one extra copy.    *)
DuplicatesAreLostRecords ==
  \A e \in Emails : delivered[e] <= 1 + unrecorded[e]

(* Where a row is, without the difference between the ways it was stopped. *)
Stage(s) == CASE s = "pending" -> "queued"
              [] s = "sending" -> "inHand"
              [] s = "sent" -> "recorded"
              [] s \in {"failed", "cancelled"} -> "stopped"

Life == INSTANCE MessageLifecycle WITH
          Messages <- Emails,
          stage    <- [e \in Emails |-> Stage(status[e])],
          copies   <- delivered,
          lost     <- unrecorded

(* The pipeline implements the life of a message.  In particular no copy   *)
(* leaves while an earlier one may still be recorded, no row goes back to  *)
(* the queue or is given up with a copy on its way to being recorded, and  *)
(* only a row in hand is ever recorded as sent.                            *)
ImplementsLifecycle == Life!LifeSpec

(* No queued or claimed row has used up its retries: handleFailure fails   *)
(* it at MAX_ATTEMPTS although it counts from the value it read at the     *)
(* start of the job.                                                       *)
QueuedRowsHaveRetriesLeft ==
  \A e \in Emails : status[e] \in {"pending", "sending"} => attempts[e] < MAX_ATTEMPTS

-----------------------------------------------------------------------------
(* Liveness *)

(* Whatever the disturbances were, once they stop every queued row ends up *)
(* sent or failed.  After a crash or a lost job only the reaper makes this *)
(* true.                                                                   *)
EventuallySettled ==
  \A e \in Emails : status[e] \in {"pending", "sending"} ~> status[e] \in Settled

-----------------------------------------------------------------------------
(* What the code's comments and texts say of it, checked where they fail   *)

(* send.processor.ts:62-64: a job whose row was returned by the reaper and *)
(* claimed again is skipped, so the check at the start of a job passes only*)
(* for the claim the job was made for.                                     *)
SupersededJobsAreSkipped ==
  [][\A w \in Workers : pc[w] = "load" /\ pc'[w] = "check"
                         => claimedAt[Mail(w)] = job[w].claim]_vars

(* emails.service.ts:183, 206 and 210: an operator's edit never takes      *)
(* effect on a message that is being sent or was sent.                     *)
EditsLeaveClaimsAlone ==
  [][\A e \in Emails : op' # op /\ status[e] \in {"sending", "sent"}
                         => status'[e] = status[e]]_vars
=============================================================================
