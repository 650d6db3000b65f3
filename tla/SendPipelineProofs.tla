------------------------- MODULE SendPipelineProofs -------------------------
(***************************************************************************)
(* Theorems about SendPipeline, for any number of rows, addresses, workers *)
(* and app processes, and any retry limit, batch size and bounds.          *)
(***************************************************************************)
EXTENDS SendPipelineProps, FiniteSetTheorems, TLAPS

-----------------------------------------------------------------------------
(* Type correctness *)

(* The initial state is well typed.                                        *)
LEMMA InitTypeOK == Init => TypeOK
  BY PipelineAssumption
  DEF Init, TypeOK, RowsType, RedisType, PollingType, WorkingType, RequestsType,
      CountersType, Statuses, PollerSteps, WorkerSteps, SmtpErrors, NoError

(* What a worker has in hand is a row, with an address.                    *)
LEMMA MailIsARow ==
  ASSUME TypeOK, NEW w \in Workers, pc[w] # "idle"
  PROVE  job[w] \in Jobs /\ Mail(w) \in Emails /\ To[Mail(w)] \in Recipients
  BY PipelineAssumption DEF TypeOK, WorkingType, Mail, Jobs

(* So is what a poller is about to add or to put back.                     *)
LEMMA HeldIsARow ==
  ASSUME TypeOK, NEW p \in Pollers, ppc[p] \in {"add", "defer"}
  PROVE  held[p] \in Jobs /\ held[p].email \in Emails
  BY DEF TypeOK, PollingType, Jobs

(* What a step does not touch keeps its type.                              *)
LEMMA FrameTypes ==
  ASSUME TypeOK
  PROVE  /\ UNCHANGED rows => RowsType'
         /\ UNCHANGED redis => RedisType'
         /\ UNCHANGED polling => PollingType'
         /\ UNCHANGED working => WorkingType'
         /\ UNCHANGED <<suppressed, requests>> => RequestsType'
         /\ UNCHANGED <<spent, outside, bounds>> => CountersType'
  BY DEF TypeOK, RowsType, RedisType, PollingType, WorkingType, RequestsType,
         CountersType, rows, redis, polling, working, requests, outside, bounds

(* Each statement of EmailsService keeps the rows well typed.              *)
LEMMA StatementTypes ==
  ASSUME TypeOK, NEW e \in Emails
  PROVE  /\ markSent(e) => RowsType'
         /\ markFailed(e) => RowsType'
         /\ deferTo(e, TRUE) => RowsType'
         /\ deferTo(e, FALSE) => RowsType'
         /\ cancel(e) => RowsType'
         /\ reschedule(e) => RowsType'
         /\ retry(e) => RowsType'
  <1> USE PipelineAssumption DEF TypeOK, RowsType, Statuses, unclaim
  <1>1. ASSUME markSent(e) PROVE RowsType'
    BY <1>1 DEF markSent
  <1>2. ASSUME markFailed(e) PROVE RowsType'
    BY <1>2 DEF markFailed
  <1>3. ASSUME deferTo(e, TRUE) PROVE RowsType'
    BY <1>3 DEF deferTo, afterDeferral
  <1>4. ASSUME deferTo(e, FALSE) PROVE RowsType'
    BY <1>4 DEF deferTo, afterDeferral
  <1>5. ASSUME cancel(e) PROVE RowsType'
    BY <1>5 DEF cancel
  <1>6. ASSUME reschedule(e) PROVE RowsType'
    BY <1>6 DEF reschedule
  <1>7. ASSUME retry(e) PROVE RowsType'
    BY <1>7 DEF retry
  <1> QED BY <1>1, <1>2, <1>3, <1>4, <1>5, <1>6, <1>7

(* The bulk cancellation keeps the types of the rows.                      *)
LEMMA CancelPendingType ==
  ASSUME TypeOK, NEW S, cancelPending(S)
  PROVE  RowsType'
  BY DEF cancelPending, TypeOK, RowsType, Statuses

(* Suppressing an address keeps its exposure a number: finitely many       *)
(* workers are past the check.                                             *)
LEMMA AddSuppressionType ==
  ASSUME TypeOK, NEW r \in Recipients, addSuppression(r)
  PROVE  suppressed' \subseteq Recipients /\ exposure' \in [Recipients -> Int]
  <1>1. Cardinality(PastCheck(r)) \in Nat
    <2>1. PastCheck(r) \subseteq Workers
      BY DEF PastCheck
    <2> QED BY <2>1, PipelineAssumption, FS_Subset, FS_CardinalityType
  <1> QED BY <1>1 DEF addSuppression, TypeOK, RequestsType, CountersType

(* The passing of time and the reaper.                                     *)
LEMMA TimeTypes ==
  ASSUME TypeOK, NEW e \in Emails
  PROVE  /\ BecomesDue(e) => TypeOK'
         /\ Ages(e) /\ (UNCHANGED eventsLeft \/ Event("outlive")) => TypeOK'
         /\ reapStuckClaims => TypeOK'
  <1>1. ASSUME BecomesDue(e) PROVE TypeOK'
    <2>1. RowsType'
      BY <1>1 DEF BecomesDue, TypeOK, RowsType
    <2> QED BY <1>1, <2>1, FrameTypes DEF BecomesDue, notPolling, TypeOK
  <1>2. ASSUME Ages(e), UNCHANGED eventsLeft \/ Event("outlive") PROVE TypeOK'
    <2>1. RowsType'
      BY <1>2 DEF Ages, TypeOK, RowsType
    <2>2. eventsLeft' \in Nat
      BY <1>2 DEF Event, TypeOK, CountersType
    <2>3. CountersType'
      BY <1>2, <2>2 DEF Ages, notPolling, outside, TypeOK, CountersType
    <2> QED BY <1>2, <2>1, <2>3, FrameTypes DEF Ages, notPolling, TypeOK
  <1>3. ASSUME reapStuckClaims PROVE TypeOK'
    <2>1. status' \in [Emails -> Statuses] /\ aged' \in [Emails -> BOOLEAN]
      BY <1>3 DEF reapStuckClaims, TypeOK, RowsType, Statuses, Stuck
    <2>2. claimedAt' \in [Emails -> 0..MaxClaims]
      BY <1>3, PipelineAssumption DEF reapStuckClaims, TypeOK, RowsType
    <2>3. RowsType'
      BY <1>3, <2>1, <2>2 DEF reapStuckClaims, TypeOK, RowsType
    <2> QED BY <1>3, <2>3, FrameTypes DEF reapStuckClaims, notPolling, TypeOK
  <1> QED BY <1>1, <1>2, <1>3

(* The poller's own steps.                                                 *)
LEMMA PollerStepType ==
  ASSUME TypeOK, NEW p \in Pollers, PollerStep(p)
  PROVE  TypeOK'
  <1>1. CASE TickStarts(p)
    <2>1. PollingType'
      BY <1>1 DEF TickStarts, TypeOK, PollingType, PollerSteps
    <2> QED BY <1>1, <2>1, FrameTypes DEF TickStarts, notPolling, TypeOK
  <1>2. CASE claimNextDue(p)
    <2>1. PICK e \in Emails :
            /\ stamp[e] < MaxClaims
            /\ status' = [status EXCEPT ![e] = "sending"]
            /\ stamp'     = [stamp EXCEPT ![e] = @ + 1]
            /\ claimedAt' = [claimedAt EXCEPT ![e] = stamp[e] + 1]
            /\ aged'      = [aged EXCEPT ![e] = FALSE]
            /\ held' = [held EXCEPT ![p] = [email |-> e, claim |-> stamp[e] + 1]]
      BY <1>2 DEF claimNextDue, Claimable
    <2>2. stamp[e] + 1 \in Stamps
      BY <2>1, PipelineAssumption DEF TypeOK, RowsType, Stamps
    <2>3. RowsType'
      BY <1>2, <2>1, <2>2 DEF claimNextDue, TypeOK, RowsType, Statuses, Stamps
    <2>4. [email |-> e, claim |-> stamp[e] + 1] \in Jobs
      BY <2>2 DEF Jobs
    <2>5. PollingType'
      BY <1>2, <2>1, <2>4 DEF claimNextDue, TypeOK, PollingType, PollerSteps
    <2> QED BY <1>2, <2>3, <2>5, FrameTypes DEF claimNextDue, notPolling, TypeOK
  <1>3. CASE TickEnds(p)
    <2>1. PollingType'
      BY <1>3 DEF TickEnds, TypeOK, PollingType, PollerSteps
    <2> QED BY <1>3, <2>1, FrameTypes DEF TickEnds, notPolling, TypeOK
  <1>4. CASE Enqueue(p)
    <2>1. RedisType'
      BY <1>4, HeldIsARow DEF Enqueue, queueAdd, TypeOK, RedisType
    <2>2. PollingType'
      BY <1>4 DEF Enqueue, TypeOK, PollingType, PollerSteps
    <2> QED BY <1>4, <2>1, <2>2, FrameTypes DEF Enqueue, notPolling, TypeOK
  <1>5. CASE DeferUnqueued(p)
    <2>1. RowsType'
      BY <1>5, HeldIsARow, StatementTypes DEF DeferUnqueued
    <2>2. PollingType'
      BY <1>5 DEF DeferUnqueued, TypeOK, PollingType, PollerSteps
    <2> QED BY <1>5, <2>1, <2>2, FrameTypes DEF DeferUnqueued, notPolling, TypeOK
  <1>6. CASE Bootstrap(p)
    <2>1. PollingType'
      BY <1>6 DEF Bootstrap, TypeOK, PollingType
    <2> QED BY <1>6, <2>1, FrameTypes DEF Bootstrap, notPolling, TypeOK
  <1> QED BY <1>1, <1>2, <1>3, <1>4, <1>5, <1>6 DEF PollerStep

(* What happens to a poller.                                               *)
LEMMA PollerDisturbanceType ==
  ASSUME TypeOK, NEW p \in Pollers,
         EnqueueFails(p) \/ TickBreaks(p) \/ Shutdown(p)
  PROVE  TypeOK'
  <1>1. CASE EnqueueFails(p)
    <2>1. RedisType'
      BY <1>1, HeldIsARow
      DEF EnqueueFails, queueAdd, redis, TypeOK, RedisType
    <2>2. PollingType'
      BY <1>1 DEF EnqueueFails, TypeOK, PollingType, PollerSteps
    <2>3. CountersType'
      BY <1>1 DEF EnqueueFails, Event, notPolling, outside, TypeOK, CountersType
    <2> QED BY <1>1, <2>1, <2>2, <2>3, FrameTypes
            DEF EnqueueFails, notPolling, TypeOK
  <1>2. CASE TickBreaks(p)
    <2>1. PollingType'
      BY <1>2 DEF TickBreaks, TypeOK, PollingType, PollerSteps
    <2>2. CountersType'
      BY <1>2 DEF TickBreaks, Event, notPolling, outside, TypeOK, CountersType
    <2> QED BY <1>2, <2>1, <2>2, FrameTypes DEF TickBreaks, notPolling, TypeOK
  <1>3. CASE Shutdown(p)
    <2>1. PollingType'
      BY <1>3 DEF Shutdown, TypeOK, PollingType
    <2>2. CountersType'
      BY <1>3 DEF Shutdown, Event, notPolling, outside, TypeOK, CountersType
    <2> QED BY <1>3, <2>1, <2>2, FrameTypes DEF Shutdown, notPolling, TypeOK
  <1> QED BY <1>1, <1>2, <1>3

(* The worker's own steps.  Only the routes through the steps of process() *)
(* and handleFailure differ; what each writes is covered above.            *)
LEMMA LeaveType ==
  ASSUME TypeOK, NEW w \in Workers, Leave(w)
  PROVE  WorkingType'
  BY DEF Leave, TypeOK, WorkingType, WorkerSteps, SmtpErrors, NoError

(* Every step of a job, and every disturbance of one, keeps the types.     *)
LEMMA WorkerStepType ==
  ASSUME TypeOK, NEW w \in Workers, WorkerStep(w)
  PROVE  TypeOK'
  <1> USE MailIsARow, FrameTypes DEF TypeOK, notWorking
  <1>1. CASE TakeJob(w)
    <2>1. WorkingType' /\ RedisType'
      BY <1>1 DEF TakeJob, Goto, WorkingType, RedisType, WorkerSteps
    <2> QED BY <1>1, <2>1 DEF TakeJob
  <1>2. CASE Load(w)
    <2>1. WorkingType'
      BY <1>2 DEF Load, Goto, WorkingType, RowsType, WorkerSteps
    <2> QED BY <1>2, <2>1 DEF Load
  <1>3. CASE SkipMoved(w)
    BY <1>3, LeaveType DEF SkipMoved
  <1>4. CASE CheckSuppressed(w)
    <2>1. WorkingType'
      BY <1>4 DEF CheckSuppressed, Goto, WorkingType, WorkerSteps
    <2> QED BY <1>4, <2>1 DEF CheckSuppressed
  <1>5. CASE CancelRest(w)
    <2>1. WorkingType'
      BY <1>5 DEF CancelRest, Goto, WorkingType, WorkerSteps
    <2>2. RowsType'
      BY <1>5, CancelPendingType DEF CancelRest, cancelPendingForRecipient
    <2> QED BY <1>5, <2>1, <2>2 DEF CancelRest
  <1>6. CASE FailNow(w)
    <2>1. RowsType'
      BY <1>6, StatementTypes DEF FailNow
    <2> QED BY <1>6, <2>1, LeaveType DEF FailNow
  <1>7. CASE SlotGranted(w)
    <2>1. WorkingType'
      BY <1>7 DEF SlotGranted, Goto, WorkingType, WorkerSteps
    <2>2. CountersType'
      BY <1>7 DEF SlotGranted, CountersType, outside, bounds
    <2> QED BY <1>7, <2>1, <2>2 DEF SlotGranted
  <1>8. CASE DeferThrottled(w)
    <2>1. RowsType'
      BY <1>8, StatementTypes DEF DeferThrottled
    <2> QED BY <1>8, <2>1, LeaveType DEF DeferThrottled
  <1>9. CASE SendMail(w)
    <2>1. WorkingType'
      BY <1>9 DEF SendMail, Goto, WorkingType, WorkerSteps
    <2>2. Mail(w) \in Emails /\ To[Mail(w)] \in Recipients
      BY <1>9 DEF SendMail, Goto
    <2>3. CountersType'
      BY <1>9, <2>2 DEF SendMail, Accepted, CountersType, bounds
    <2> QED BY <1>9, <2>1, <2>3 DEF SendMail
  <1>10. CASE SendMailRefused(w)
    <2>1. WorkingType'
      BY <1>10, PipelineAssumption
      DEF SendMailRefused, Goto, WorkingType, WorkerSteps
    <2>2. CountersType'
      BY <1>10 DEF SendMailRefused, CountersType, bounds
    <2> QED BY <1>10, <2>1, <2>2 DEF SendMailRefused
  <1>11. CASE MarkSent(w)
    <2>1. WorkingType'
      BY <1>11 DEF MarkSent, Goto, WorkingType, WorkerSteps
    <2>2. RowsType'
      BY <1>11, StatementTypes DEF MarkSent, Goto
    <2> QED BY <1>11, <2>1, <2>2 DEF MarkSent
  <1>12. CASE ClearSendError(w)
    BY <1>12, LeaveType DEF ClearSendError
  <1>13. CASE RecordSendError(w)
    <2>1. WorkingType'
      BY <1>13 DEF RecordSendError, Goto, WorkingType, WorkerSteps, AfterRecordError
    <2> QED BY <1>13, <2>1 DEF RecordSendError
  <1>14. CASE AddBounce(w)
    <2>1. WorkingType'
      BY <1>14 DEF AddBounce, Goto, WorkingType, WorkerSteps
    <2>2. suppressed' \subseteq Recipients /\ exposure' \in [Recipients -> Int]
      BY <1>14, AddSuppressionType DEF AddBounce, Goto
    <2>3. RequestsType' /\ CountersType'
      BY <1>14, <2>2
      DEF AddBounce, requests, bounds, RequestsType, CountersType
    <2> QED BY <1>14, <2>1, <2>3 DEF AddBounce
  <1>15. CASE ReleaseSendSlot(w)
    <2>1. WorkingType'
      BY <1>15 DEF ReleaseSendSlot, Goto, WorkingType, WorkerSteps
    <2>2. CountersType'
      BY <1>15 DEF ReleaseSendSlot, CountersType, outside, bounds
    <2> QED BY <1>15, <2>1, <2>2 DEF ReleaseSendSlot
  <1>16. CASE RetryOrGiveUp(w)
    <2>1. RowsType'
      BY <1>16, StatementTypes DEF RetryOrGiveUp
    <2> QED BY <1>16, <2>1, LeaveType DEF RetryOrGiveUp
  <1> QED BY <1>1, <1>2, <1>3, <1>4, <1>5, <1>6, <1>7, <1>8, <1>9, <1>10, <1>11,
             <1>12, <1>13, <1>14, <1>15, <1>16 DEF WorkerStep

(* What happens to a worker.                                               *)
LEMMA WorkerDisturbanceType ==
  ASSUME TypeOK, NEW w \in Workers,
         \/ SlotDenied(w) \/ SendMailReplyLost(w) \/ BookkeepingFails(w)
         \/ JobFails(w) \/ WorkerCrashes(w)
  PROVE  TypeOK'
  <1> USE MailIsARow, FrameTypes DEF TypeOK, notWorking, Event
  <1>1. CASE SlotDenied(w)
    <2>1. WorkingType'
      BY <1>1 DEF SlotDenied, Goto, WorkingType, WorkerSteps
    <2>2. CountersType'
      BY <1>1 DEF SlotDenied, CountersType, outside
    <2> QED BY <1>1, <2>1, <2>2 DEF SlotDenied
  <1>2. CASE SendMailReplyLost(w)
    <2>1. WorkingType'
      BY <1>2 DEF SendMailReplyLost, Goto, WorkingType, WorkerSteps, SmtpErrors,
                  NetworkError, NoCode
    <2>2. Mail(w) \in Emails /\ To[Mail(w)] \in Recipients
      BY <1>2 DEF SendMailReplyLost, Goto
    <2>3. CountersType'
      BY <1>2, <2>2 DEF SendMailReplyLost, Accepted, CountersType
    <2> QED BY <1>2, <2>1, <2>3 DEF SendMailReplyLost
  <1>3. CASE BookkeepingFails(w)
    <2>1. WorkingType'
      BY <1>3 DEF BookkeepingFails, WorkingType, WorkerSteps, SmtpErrors,
                  DatabaseError, NoCode
    <2>2. CountersType'
      BY <1>3 DEF BookkeepingFails, LosesRecord, CountersType
    <2> QED BY <1>3, <2>1, <2>2 DEF BookkeepingFails
  <1>4. CASE JobFails(w)
    <2>1. RedisType'
      BY <1>4 DEF JobFails, RedisType
    <2>2. CountersType'
      BY <1>4 DEF JobFails, CountersType, outside
    <2> QED BY <1>4, <2>1, <2>2, LeaveType DEF JobFails
  <1>5. CASE WorkerCrashes(w)
    <2>1. RedisType'
      BY <1>5 DEF WorkerCrashes, RedisType
    <2>2. CountersType'
      BY <1>5 DEF WorkerCrashes, LosesRecord, CountersType
    <2> QED BY <1>5, <2>1, <2>2, LeaveType DEF WorkerCrashes
  <1> QED BY <1>1, <1>2, <1>3, <1>4, <1>5

(* Requests.                                                               *)
LEMMA RequestStepType ==
  ASSUME TypeOK, RequestStep
  PROVE  TypeOK'
  <1> USE FrameTypes DEF TypeOK, notRequests, Request
  <1>1. ASSUME NEW e \in Emails, NEW kind \in {"cancel", "reschedule", "retry"},
               EditRead(kind, e)
        PROVE  TypeOK'
    <2>1. RequestsType'
      BY <1>1 DEF EditRead, RequestsType, Edits
    <2>2. CountersType'
      BY <1>1 DEF EditRead, CountersType, outside
    <2> QED BY <1>1, <2>1, <2>2 DEF EditRead
  <1>2. ASSUME NEW o \in op, EditWrite(o) PROVE TypeOK'
    <2>1. o.email \in Emails
      BY DEF RequestsType, Edits
    <2>2. RowsType'
      BY <1>2, <2>1, StatementTypes DEF EditWrite
    <2>3. RequestsType'
      BY <1>2 DEF EditWrite, RequestsType
    <2> QED BY <1>2, <2>2, <2>3 DEF EditWrite
  <1>3. ASSUME NEW S \in SUBSET Emails, cancelMany(S) PROVE TypeOK'
    <2>1. RowsType'
      BY <1>3, CancelPendingType DEF cancelMany
    <2>2. CountersType'
      BY <1>3 DEF cancelMany, CountersType, outside
    <2> QED BY <1>3, <2>1, <2>2 DEF cancelMany
  <1>4. ASSUME NEW S \in SUBSET Emails, retryMany(S) PROVE TypeOK'
    <2>1. status' \in [Emails -> Statuses]
      BY <1>4 DEF retryMany, RowsType, Statuses
    <2>2. claimedAt' \in [Emails -> 0..MaxClaims] /\ attempts' \in [Emails -> Nat]
      BY <1>4, PipelineAssumption DEF retryMany, RowsType
    <2>3. due' \in [Emails -> BOOLEAN]
      BY <1>4 DEF retryMany, RowsType, Retryable
    <2>4. aged' \in [Emails -> BOOLEAN]
      BY <1>4 DEF retryMany, RowsType, Retryable
    <2>5. RowsType'
      BY <1>4, <2>1, <2>2, <2>3, <2>4 DEF retryMany, RowsType
    <2>6. CountersType'
      BY <1>4 DEF retryMany, CountersType, outside
    <2> QED BY <1>4, <2>5, <2>6 DEF retryMany
  <1>5. ASSUME NEW r \in Recipients, Unsubscribe(r) PROVE TypeOK'
    <2>1. suppressed' \subseteq Recipients /\ exposure' \in [Recipients -> Int]
      BY <1>5, AddSuppressionType DEF Unsubscribe
    <2>2. RequestsType'
      BY <1>5, <2>1 DEF Unsubscribe, RequestsType
    <2>3. CountersType'
      BY <1>5, <2>1 DEF Unsubscribe, CountersType
    <2> QED BY <1>5, <2>2, <2>3 DEF Unsubscribe
  <1>6. ASSUME NEW r \in Recipients, UnsubscribeCancels(r) PROVE TypeOK'
    <2>1. RowsType'
      BY <1>6, CancelPendingType DEF UnsubscribeCancels, cancelPendingForRecipient
    <2>2. RequestsType'
      BY <1>6 DEF UnsubscribeCancels, RequestsType
    <2> QED BY <1>6, <2>1, <2>2 DEF UnsubscribeCancels
  <1>7. ASSUME NEW r \in Recipients, Suppress(r) PROVE TypeOK'
    <2>1. suppressed' \subseteq Recipients /\ exposure' \in [Recipients -> Int]
      BY <1>7, AddSuppressionType DEF Suppress
    <2>2. RequestsType' /\ CountersType'
      BY <1>7, <2>1 DEF Suppress, requests, RequestsType, CountersType
    <2> QED BY <1>7, <2>2 DEF Suppress
  <1>8. ASSUME NEW r \in Recipients, Unsuppress(r) PROVE TypeOK'
    <2>1. RequestsType' /\ CountersType'
      BY <1>8 DEF Unsuppress, RequestsType, CountersType
    <2> QED BY <1>8, <2>1 DEF Unsuppress
  <1> QED BY <1>1, <1>2, <1>3, <1>4, <1>5, <1>6, <1>7, <1>8 DEF RequestStep

(* So does every step of the pipeline.                                     *)
LEMMA NextTypeOK == TypeOK /\ [Next]_vars => TypeOK'
  <1> SUFFICES ASSUME TypeOK, [Next]_vars PROVE TypeOK'
    OBVIOUS
  <1>1. CASE \E e \in Emails :
               BecomesDue(e) \/ AbandonedClaimAges(e) \/ LiveClaimAges(e)
    BY <1>1, TimeTypes DEF AbandonedClaimAges, LiveClaimAges
  <1>2. CASE \E p \in Pollers : PollerStep(p)
    BY <1>2, PollerStepType
  <1>3. CASE \E w \in Workers : WorkerStep(w)
    BY <1>3, WorkerStepType
  <1>4. CASE reapStuckClaims
    <2>1. PICK e \in Emails : Stuck(e)
      BY <1>4 DEF reapStuckClaims
    <2> QED BY <1>4, <2>1, TimeTypes
  <1>5. CASE Disturbance
    BY <1>1, <1>5, PollerDisturbanceType, WorkerDisturbanceType DEF Disturbance
  <1>6. CASE RequestStep
    BY <1>6, RequestStepType
  <1>7. CASE UNCHANGED vars
    BY <1>7, FrameTypes DEF vars, TypeOK
  <1> QED BY <1>1, <1>2, <1>3, <1>4, <1>5, <1>6, <1>7 DEF Next

(* Every variable keeps its type, whatever happens to the processes and    *)
(* whatever the operators ask for: in particular no statement takes a slot *)
(* or an attempt below zero.                                               *)
THEOREM TypeCorrect == Spec => []TypeOK
  BY InitTypeOK, NextTypeOK, PTL DEF Spec

-----------------------------------------------------------------------------
(* Claims and their stamps *)

(* The statements a step may make on the rows.                             *)
RowStatement(e) ==
  \/ BecomesDue(e) \/ Ages(e)
  \/ markSent(e) \/ markFailed(e) \/ deferTo(e, TRUE) \/ deferTo(e, FALSE)
  \/ cancel(e) \/ reschedule(e) \/ retry(e)

(* A step makes at most one statement on the rows.                         *)
LEMMA RowSteps ==
  ASSUME TypeOK, Next
  PROVE  \/ UNCHANGED rows
         \/ \E p \in Pollers : claimNextDue(p)
         \/ \E S : cancelPending(S)
         \/ \E S \in SUBSET Emails : retryMany(S)
         \/ \E e \in Emails : RowStatement(e)
         \/ reapStuckClaims
  <1> DEFINE Goal == \/ UNCHANGED rows
                     \/ \E p \in Pollers : claimNextDue(p)
                     \/ \E S : cancelPending(S)
                     \/ \E S \in SUBSET Emails : retryMany(S)
                     \/ \E e \in Emails : RowStatement(e)
                     \/ reapStuckClaims
  <1> SUFFICES Goal
    OBVIOUS
  <1>1. CASE \E e \in Emails :
               BecomesDue(e) \/ AbandonedClaimAges(e) \/ LiveClaimAges(e)
    BY <1>1 DEF AbandonedClaimAges, LiveClaimAges, RowStatement
  <1>2. ASSUME NEW p \in Pollers, PollerStep(p) PROVE Goal
    <2>1. CASE DeferUnqueued(p)
      BY <2>1, HeldIsARow DEF DeferUnqueued, RowStatement
    <2>2. CASE ~claimNextDue(p) /\ ~DeferUnqueued(p)
      BY <1>2, <2>2 DEF PollerStep, TickStarts, TickEnds, Enqueue, Bootstrap
    <2> QED BY <2>1, <2>2
  <1>3. ASSUME NEW w \in Workers, WorkerStep(w) PROVE Goal
    <2>1. CASE FailNow(w) \/ DeferThrottled(w) \/ MarkSent(w) \/ RetryOrGiveUp(w)
      <3>1. Mail(w) \in Emails
        BY <2>1, MailIsARow
        DEF FailNow, DeferThrottled, MarkSent, RetryOrGiveUp, Goto
      <3>2. \/ markSent(Mail(w)) \/ markFailed(Mail(w))
            \/ deferTo(Mail(w), TRUE) \/ deferTo(Mail(w), FALSE)
        BY <2>1 DEF FailNow, DeferThrottled, MarkSent, RetryOrGiveUp
      <3> QED BY <3>1, <3>2 DEF RowStatement
    <2>2. CASE CancelRest(w)
      BY <2>2 DEF CancelRest, cancelPendingForRecipient
    <2>3. CASE TakeJob(w) \/ Load(w) \/ SkipMoved(w) \/ CheckSuppressed(w)
      BY <2>3 DEF TakeJob, Load, SkipMoved, CheckSuppressed
    <2>4. CASE SlotGranted(w) \/ SendMail(w) \/ SendMailRefused(w)
      BY <2>4 DEF SlotGranted, SendMail, SendMailRefused
    <2>5. CASE ClearSendError(w) \/ RecordSendError(w) \/ AddBounce(w)
                 \/ ReleaseSendSlot(w)
      BY <2>5 DEF ClearSendError, RecordSendError, AddBounce, ReleaseSendSlot
    <2> QED BY <1>3, <2>1, <2>2, <2>3, <2>4, <2>5 DEF WorkerStep
  <1>4. CASE reapStuckClaims
    BY <1>4
  <1>5. ASSUME NEW p \in Pollers, EnqueueFails(p) \/ TickBreaks(p) \/ Shutdown(p)
        PROVE  Goal
    BY <1>5 DEF EnqueueFails, TickBreaks, Shutdown
  <1>6. ASSUME NEW w \in Workers,
               \/ SlotDenied(w) \/ SendMailReplyLost(w) \/ BookkeepingFails(w)
               \/ JobFails(w) \/ WorkerCrashes(w)
        PROVE  Goal
    BY <1>6 DEF SlotDenied, SendMailReplyLost, BookkeepingFails, JobFails,
                WorkerCrashes
  <1>7. CASE Disturbance
    BY <1>1, <1>5, <1>6, <1>7 DEF Disturbance
  <1>8. ASSUME NEW o \in op, EditWrite(o) PROVE Goal
    <2>1. o.email \in Emails
      BY DEF TypeOK, RequestsType, Edits
    <2> QED BY <1>8, <2>1 DEF EditWrite, RowStatement
  <1>9. CASE RequestStep
    BY <1>8, <1>9 DEF RequestStep, EditRead, cancelMany, Unsubscribe,
      UnsubscribeCancels, cancelPendingForRecipient, Suppress, Unsuppress
  <1> QED BY <1>1, <1>2, <1>3, <1>4, <1>7, <1>9 DEF Next

(* Every step keeps the stamp and the status of a row in step.             *)
LEMMA NextClaimStamped == TypeOK /\ ClaimStamped /\ [Next]_vars => ClaimStamped'
  <1> SUFFICES ASSUME TypeOK, ClaimStamped, [Next]_vars PROVE ClaimStamped'
    OBVIOUS
  <1> USE DEF TypeOK, RowsType, ClaimStamped, unclaim
  <1>1. CASE UNCHANGED rows
    BY <1>1 DEF rows
  <1>2. ASSUME NEW p \in Pollers, claimNextDue(p) PROVE ClaimStamped'
    BY <1>2 DEF claimNextDue
  <1>3. ASSUME NEW S, cancelPending(S) PROVE ClaimStamped'
    BY <1>3 DEF cancelPending
  <1>4. ASSUME NEW S \in SUBSET Emails, retryMany(S) PROVE ClaimStamped'
    BY <1>4 DEF retryMany
  <1>5. ASSUME NEW e \in Emails, RowStatement(e) PROVE ClaimStamped'
    <2>1. CASE BecomesDue(e)
      BY <2>1 DEF BecomesDue
    <2>2. CASE Ages(e)
      BY <2>2 DEF Ages
    <2>3. CASE markSent(e)
      BY <2>3 DEF markSent
    <2>4. CASE markFailed(e)
      BY <2>4 DEF markFailed
    <2>5. CASE deferTo(e, TRUE)
      BY <2>5 DEF deferTo
    <2>6. CASE deferTo(e, FALSE)
      BY <2>6 DEF deferTo
    <2>7. CASE cancel(e)
      BY <2>7 DEF cancel
    <2>8. CASE reschedule(e)
      BY <2>8 DEF reschedule
    <2>9. CASE retry(e)
      BY <2>9 DEF retry
    <2> QED BY <1>5, <2>1, <2>2, <2>3, <2>4, <2>5, <2>6, <2>7, <2>8, <2>9
            DEF RowStatement
  <1>6. CASE reapStuckClaims
    BY <1>6 DEF reapStuckClaims, Stuck
  <1>7. CASE UNCHANGED vars
    BY <1>1, <1>7 DEF vars
  <1> QED BY <1>1, <1>2, <1>3, <1>4, <1>5, <1>6, <1>7, RowSteps

(* A claimed row always carries the stamp the reaper looks for, and a      *)
(* queued one never does: no row is lost to the reaper, whatever races or  *)
(* fails.                                                                  *)
THEOREM ClaimsAreStamped == Spec => []ClaimStamped
  <1>1. Init => ClaimStamped
    BY DEF Init, ClaimStamped
  <1> QED BY <1>1, InitTypeOK, NextTypeOK, NextClaimStamped, PTL DEF Spec

-----------------------------------------------------------------------------
(* One holder per row.                                                     *)
(*                                                                         *)
(* While no claim outlives the timeout, no enqueue is ambiguous and nobody *)
(* edits a single row, what is in someone's hands is `sending`, or `sent`  *)
(* when its worker is about to finish, and fresh; so a claim, the reaper   *)
(* and the bulk edits never reach it, and it only passes from one pair of  *)
(* hands to the next.                                                      *)

Undisturbed ==
  /\ Env \cap {"outlive", "enqueueAck"} = {}
  /\ Ops \cap {"cancel", "reschedule", "retry"} = {}

HolderInv == TypeOK /\ OneHolder /\ HeldRowsAreClaimed /\ op = {}

PHolds(p) == ppc[p] \in {"add", "defer"}
WHolds(w) == pc[w] # "idle"

(* Nobody takes anything in hand. *)
OnlyLetsGo ==
  /\ waiting' \subseteq waiting
  /\ \A w \in Workers : pc'[w] # "idle" => pc[w] # "idle" /\ job'[w] = job[w]
  /\ \A p \in Pollers : ppc'[p] \in {"add", "defer"} =>
                          ppc[p] \in {"add", "defer"} /\ held'[p] = held[p]

(* Nobody takes a row: rows that had one holder at most still do.          *)
LEMMA LettingGo ==
  ASSUME OneHolder, OnlyLetsGo
  PROVE  OneHolder' /\ \A e \in Emails : Held(e)' => Held(e)
  <1>1. OneHolder'
    BY DEF OneHolder, OnlyLetsGo
  <1>2. ASSUME NEW e \in Emails, Held(e)' PROVE Held(e)
    BY <1>2 DEF Held, OnlyLetsGo
  <1> QED BY <1>1, <1>2

(* A worker that leaves, and a poller that puts its claim back, was the    *)
(* only holder.                                                            *)
LEMMA WorkerLetsGo ==
  ASSUME TypeOK, OneHolder, NEW w \in Workers, pc[w] # "idle", Leave(w),
         UNCHANGED <<waiting, polling>>, NEW e, e = Mail(w)
  PROVE  OnlyLetsGo /\ ~Held(e)'
  <1>1. pc'[w] = "idle" /\ \A v \in Workers \ {w} : pc'[v] = pc[v] /\ job'[v] = job[v]
    BY DEF Leave, TypeOK, WorkingType
  <1>2. OnlyLetsGo
    BY <1>1 DEF OnlyLetsGo, polling
  <1>3. ~Held(e)'
    BY <1>1 DEF Held, OneHolder, Mail, polling
  <1> QED BY <1>2, <1>3

(* A poller whose tick is over no longer holds its row, nor does anyone    *)
(* else.                                                                   *)
LEMMA PollerLetsGo ==
  ASSUME TypeOK, OneHolder, NEW p \in Pollers, PHolds(p),
         ppc' = [ppc EXCEPT ![p] = "idle"], held' = [held EXCEPT ![p] = NoJob],
         UNCHANGED <<waiting, working>>, NEW e, e = held[p].email
  PROVE  OnlyLetsGo /\ ~Held(e)'
  <1>1. ppc'[p] = "idle" /\ \A q \in Pollers \ {p} : ppc'[q] = ppc[q] /\ held'[q] = held[q]
    BY DEF TypeOK, PollingType
  <1>2. OnlyLetsGo
    BY <1>1 DEF OnlyLetsGo, working
  <1>3. ~Held(e)'
    BY <1>1 DEF Held, OneHolder, PHolds, working
  <1> QED BY <1>2, <1>3

(* Statements that write the row of the one who lets go.                   *)
LEMMA OtherRows ==
  ASSUME TypeOK, NEW e \in Emails, NEW x \in Emails, x # e,
         \/ markFailed(e) \/ deferTo(e, TRUE) \/ deferTo(e, FALSE)
  PROVE  status'[x] = status[x] /\ aged'[x] = aged[x]
  BY DEF TypeOK, RowsType, markFailed, deferTo, unclaim

(* Letting go of a row and writing it in the same step.                    *)
LEMMA WriteAndLetGo ==
  ASSUME HolderInv, OnlyLetsGo, NEW e \in Emails, ~Held(e)',
         markFailed(e) \/ deferTo(e, TRUE) \/ deferTo(e, FALSE)
  PROVE  OneHolder' /\ HeldRowsAreClaimed'
  <1>1. OneHolder' /\ \A x \in Emails : Held(x)' => Held(x)
    BY LettingGo DEF HolderInv
  <1>2. ASSUME NEW x \in Emails, Held(x)'
        PROVE  status'[x] \in {"sending", "sent"} /\ ~aged'[x]
    <2>1. x # e
      BY <1>2
    <2> QED BY <1>1, <1>2, <2>1, OtherRows DEF HolderInv, HeldRowsAreClaimed
  <1> QED BY <1>1, <1>2 DEF HeldRowsAreClaimed

(* Statements that cannot reach a row in hand.                             *)
LEMMA HeldRowsUntouched ==
  ASSUME HolderInv, NEW e \in Emails, Held(e),
         \/ UNCHANGED rows
         \/ \E S : cancelPending(S)
         \/ \E S \in SUBSET Emails : retryMany(S)
         \/ reapStuckClaims
         \/ \E x \in Emails : BecomesDue(x) \/ AbandonedClaimAges(x)
  PROVE  status'[e] \in {"sending", "sent"} /\ ~aged'[e]
  <1> USE DEF HolderInv, HeldRowsAreClaimed, TypeOK, RowsType
  <1>0. status[e] \in {"sending", "sent"} /\ ~aged[e]
    OBVIOUS
  <1>1. CASE UNCHANGED rows
    BY <1>0, <1>1 DEF rows
  <1>2. ASSUME NEW S, cancelPending(S)
        PROVE  status'[e] \in {"sending", "sent"} /\ ~aged'[e]
    BY <1>0, <1>2 DEF cancelPending, Cancellable
  <1>3. ASSUME NEW S \in SUBSET Emails, retryMany(S)
        PROVE  status'[e] \in {"sending", "sent"} /\ ~aged'[e]
    BY <1>0, <1>3 DEF retryMany, Retryable
  <1>4. CASE reapStuckClaims
    BY <1>0, <1>4 DEF reapStuckClaims, Stuck
  <1>5. ASSUME NEW x \in Emails, BecomesDue(x)
        PROVE  status'[e] \in {"sending", "sent"} /\ ~aged'[e]
    BY <1>0, <1>5 DEF BecomesDue
  <1>6. ASSUME NEW x \in Emails, AbandonedClaimAges(x)
        PROVE  status'[e] \in {"sending", "sent"} /\ ~aged'[e]
    BY <1>0, <1>6 DEF AbandonedClaimAges, Ages
  <1> QED BY <1>1, <1>2, <1>3, <1>4, <1>5, <1>6

(* So a step that takes nothing in hand and makes no other statement is    *)
(* harmless.                                                               *)
LEMMA HarmlessStep ==
  ASSUME HolderInv, OnlyLetsGo,
         \/ UNCHANGED rows
         \/ \E S : cancelPending(S)
         \/ \E S \in SUBSET Emails : retryMany(S)
         \/ reapStuckClaims
         \/ \E x \in Emails : BecomesDue(x) \/ AbandonedClaimAges(x)
  PROVE  OneHolder' /\ HeldRowsAreClaimed'
  <1>1. OneHolder' /\ \A x \in Emails : Held(x)' => Held(x)
    BY LettingGo DEF HolderInv
  <1>2. ASSUME NEW x \in Emails, Held(x)'
        PROVE  status'[x] \in {"sending", "sent"} /\ ~aged'[x]
    BY <1>1, <1>2, HeldRowsUntouched
  <1> QED BY <1>1, <1>2 DEF HeldRowsAreClaimed

(* The four ways a row changes hands: claimed by a poller, added to Redis, *)
(* taken by a worker, put back by BullMQ when the worker dies.             *)
LEMMA ClaimTakesAFreeRow ==
  ASSUME HolderInv, NEW p \in Pollers, claimNextDue(p)
  PROVE  OneHolder' /\ HeldRowsAreClaimed'
  <1> USE DEF HolderInv
  <1>1. PICK e \in Emails :
          /\ Claimable(e)
          /\ status' = [status EXCEPT ![e] = "sending"]
          /\ aged'   = [aged EXCEPT ![e] = FALSE]
          /\ held' = [held EXCEPT ![p] = [email |-> e, claim |-> stamp[e] + 1]]
    BY DEF claimNextDue
  <1>2. ~Held(e)
    BY <1>1 DEF HeldRowsAreClaimed, Claimable
  <1>3. ppc[p] = "claim" /\ ppc'[p] = "add" /\ held'[p].email = e
    BY <1>1 DEF claimNextDue, MayClaim, TypeOK, PollingType
  <1>4. \A q \in Pollers \ {p} : ppc'[q] = ppc[q] /\ held'[q] = held[q]
    BY <1>1 DEF claimNextDue, TypeOK, PollingType
  <1>5. UNCHANGED <<waiting, pc, job>>
    BY DEF claimNextDue, redis, notPolling, working
  <1>6. OneHolder'
    BY <1>2, <1>3, <1>4, <1>5 DEF OneHolder, Held
  <1>7. ASSUME NEW x \in Emails, Held(x)'
        PROVE  status'[x] \in {"sending", "sent"} /\ ~aged'[x]
    <2>1. CASE x = e
      BY <1>1, <2>1 DEF TypeOK, RowsType
    <2>2. CASE x # e
      <3>1. Held(x)
        BY <1>3, <1>4, <1>5, <1>7, <2>2 DEF Held
      <3> QED BY <1>1, <2>2, <3>1 DEF HeldRowsAreClaimed, TypeOK, RowsType
    <2> QED BY <2>1, <2>2
  <1> QED BY <1>6, <1>7 DEF HeldRowsAreClaimed

(* queue.add passes a row from the poller to the waiting job.              *)
LEMMA EnqueueHandsOver ==
  ASSUME HolderInv, NEW p \in Pollers, Enqueue(p)
  PROVE  OneHolder' /\ HeldRowsAreClaimed'
  <1> USE DEF HolderInv
  <1>1. ppc[p] = "add" /\ ppc'[p] = "claim"
    BY DEF Enqueue, TypeOK, PollingType
  <1>2. \A q \in Pollers \ {p} : ppc'[q] = ppc[q] /\ held'[q] = held[q]
    BY DEF Enqueue, TypeOK, PollingType
  <1>3. waiting' \subseteq waiting \cup {held[p]}
    BY DEF Enqueue, queueAdd
  <1>4. UNCHANGED <<pc, job, status, aged>>
    BY DEF Enqueue, notPolling, working, rows
  <1>5. OneHolder'
    BY <1>1, <1>2, <1>3, <1>4 DEF OneHolder
  <1>6. ASSUME NEW x \in Emails, Held(x)' PROVE Held(x)
    BY <1>1, <1>2, <1>3, <1>4, <1>6 DEF Held
  <1> QED BY <1>4, <1>5, <1>6 DEF HeldRowsAreClaimed

(* A worker takes a waiting job, and the row with it.                      *)
LEMMA TakeJobHandsOver ==
  ASSUME HolderInv, NEW w \in Workers, TakeJob(w)
  PROVE  OneHolder' /\ HeldRowsAreClaimed'
  <1> USE DEF HolderInv
  <1>1. PICK j \in waiting : /\ job' = [job EXCEPT ![w] = j]
                             /\ waiting' = waiting \ {j}
    BY DEF TakeJob
  <1>2. pc[w] = "idle" /\ job'[w] = j
    BY <1>1 DEF TakeJob, Goto, TypeOK, WorkingType
  <1>3. \A v \in Workers \ {w} : pc'[v] = pc[v] /\ job'[v] = job[v]
    BY <1>1 DEF TakeJob, Goto, TypeOK, WorkingType
  <1>4. UNCHANGED <<ppc, held, status, aged>>
    BY DEF TakeJob, notWorking, polling, rows
  <1>5. OneHolder'
    BY <1>1, <1>2, <1>3, <1>4 DEF OneHolder
  <1>6. ASSUME NEW x \in Emails, Held(x)' PROVE Held(x)
    BY <1>1, <1>2, <1>3, <1>4, <1>6 DEF Held
  <1> QED BY <1>4, <1>5, <1>6 DEF HeldRowsAreClaimed

(* A stalled job that is run again passes the row back to the queue.       *)
LEMMA CrashHandsOver ==
  ASSUME HolderInv, NEW w \in Workers, WorkerCrashes(w)
  PROVE  OneHolder' /\ HeldRowsAreClaimed'
  <1> USE DEF HolderInv
  <1>1. pc[w] # "idle" /\ pc'[w] = "idle"
    BY DEF WorkerCrashes, Leave, TypeOK, WorkingType
  <1>2. \A v \in Workers \ {w} : pc'[v] = pc[v] /\ job'[v] = job[v]
    BY DEF WorkerCrashes, Leave, TypeOK, WorkingType
  <1>3. waiting' \subseteq waiting \cup {job[w]}
    BY DEF WorkerCrashes
  <1>4. UNCHANGED <<ppc, held, status, aged>>
    BY DEF WorkerCrashes, notWorking, polling, rows
  <1>5. OneHolder'
    BY <1>1, <1>2, <1>3, <1>4 DEF OneHolder
  <1>6. ASSUME NEW x \in Emails, Held(x)' PROVE Held(x)
    BY <1>1, <1>2, <1>3, <1>4, <1>6 DEF Held
  <1> QED BY <1>4, <1>5, <1>6 DEF HeldRowsAreClaimed

(* A worker that records its send keeps the row in hand.                   *)
LEMMA MarkSentKeepsHold ==
  ASSUME HolderInv, NEW w \in Workers, MarkSent(w)
  PROVE  OneHolder' /\ HeldRowsAreClaimed'
  <1> USE DEF HolderInv
  <1>1. OnlyLetsGo
    BY DEF MarkSent, Goto, OnlyLetsGo, redis, notWorking, polling, TypeOK, WorkingType
  <1>2. OneHolder' /\ \A x \in Emails : Held(x)' => Held(x)
    BY <1>1, LettingGo
  <1>3. \A x \in Emails : /\ status'[x] \in {status[x], "sent"}
                          /\ aged'[x] => aged[x]
    BY DEF MarkSent, markSent, unclaim, TypeOK, RowsType
  <1> QED BY <1>2, <1>3 DEF HeldRowsAreClaimed

(* Every step of a tick keeps one holder per row.                          *)
LEMMA PollerHolder ==
  ASSUME Undisturbed, HolderInv, NEW p \in Pollers,
         PollerStep(p) \/ EnqueueFails(p) \/ TickBreaks(p) \/ Shutdown(p)
  PROVE  OneHolder' /\ HeldRowsAreClaimed'
  <1> USE DEF HolderInv, TypeOK, PollingType
  <1>1. CASE claimNextDue(p)
    BY <1>1, ClaimTakesAFreeRow
  <1>2. CASE Enqueue(p)
    BY <1>2, EnqueueHandsOver
  <1>3. CASE DeferUnqueued(p)
    <2>1. UNCHANGED <<waiting, working>>
      BY <1>3 DEF DeferUnqueued, redis, notPolling
    <2>2. PICK e \in Emails : e = held[p].email
      BY <1>3, HeldIsARow DEF DeferUnqueued
    <2>3. OnlyLetsGo /\ ~Held(e)'
      <3>1. ppc' = [ppc EXCEPT ![p] = "idle"] /\ held' = [held EXCEPT ![p] = NoJob]
        BY <1>3 DEF DeferUnqueued
      <3> QED BY <1>3, <2>1, <2>2, <3>1, PollerLetsGo DEF DeferUnqueued, PHolds
    <2>4. deferTo(e, FALSE)
      BY <1>3, <2>2 DEF DeferUnqueued
    <2> QED BY <2>3, <2>4, WriteAndLetGo
  <1>4. CASE TickStarts(p) \/ TickEnds(p) \/ Bootstrap(p) \/ Shutdown(p)
    <2>1. OnlyLetsGo /\ UNCHANGED rows
      BY <1>4 DEF TickStarts, TickEnds, Bootstrap, Shutdown, OnlyLetsGo,
                  redis, notPolling, working
    <2> QED BY <2>1, HarmlessStep
  <1>5. CASE EnqueueFails(p)
    <2>1. UNCHANGED redis
      BY <1>5 DEF EnqueueFails, Event, Undisturbed
    <2>2. OnlyLetsGo /\ UNCHANGED rows
      BY <1>5, <2>1 DEF EnqueueFails, OnlyLetsGo, redis, notPolling, working
    <2> QED BY <2>2, HarmlessStep
  <1>6. CASE TickBreaks(p)
    <2>1. OnlyLetsGo /\ UNCHANGED rows
      BY <1>6 DEF TickBreaks, OnlyLetsGo, redis, notPolling, working
    <2> QED BY <2>1, HarmlessStep
  <1> QED BY <1>1, <1>2, <1>3, <1>4, <1>5, <1>6 DEF PollerStep

(* A step between two awaits of the same job.                              *)
LEMMA GotoKeepsHold ==
  ASSUME HolderInv, NEW w \in Workers, pc[w] # "idle", NEW to,
         pc' = [pc EXCEPT ![w] = to],
         UNCHANGED <<waiting, polling, job>>
  PROVE  OnlyLetsGo
  BY DEF OnlyLetsGo, polling, HolderInv, TypeOK, WorkingType

(* A job that ends with a write of its row.                                *)
LEMMA LeaveHolder ==
  ASSUME HolderInv, NEW w \in Workers, pc[w] # "idle", Leave(w),
         UNCHANGED <<waiting, polling>>,
         \/ markFailed(Mail(w))
         \/ deferTo(Mail(w), TRUE) \/ deferTo(Mail(w), FALSE)
  PROVE  OneHolder' /\ HeldRowsAreClaimed'
  <1>1. PICK e \in Emails : e = Mail(w)
    BY MailIsARow DEF HolderInv
  <1>2. OnlyLetsGo /\ ~Held(e)'
    BY <1>1, WorkerLetsGo DEF HolderInv
  <1>3. markFailed(e) \/ deferTo(e, TRUE) \/ deferTo(e, FALSE)
    BY <1>1
  <1> QED BY <1>2, <1>3, WriteAndLetGo

(* Every step of a job keeps one holder per row.                           *)
LEMMA WorkerHolder ==
  ASSUME HolderInv, NEW w \in Workers,
         \/ WorkerStep(w)
         \/ SlotDenied(w) \/ SendMailReplyLost(w) \/ BookkeepingFails(w)
         \/ JobFails(w) \/ WorkerCrashes(w)
  PROVE  OneHolder' /\ HeldRowsAreClaimed'
  <1> USE DEF redis, notWorking
  <1>1. CASE TakeJob(w)
    BY <1>1, TakeJobHandsOver
  <1>2. CASE WorkerCrashes(w)
    BY <1>2, CrashHandsOver
  <1>3. CASE MarkSent(w)
    BY <1>3, MarkSentKeepsHold
  <1>4. CASE FailNow(w) \/ DeferThrottled(w) \/ RetryOrGiveUp(w)
    BY <1>4, LeaveHolder DEF FailNow, DeferThrottled, RetryOrGiveUp
  <1>5. CASE SkipMoved(w) \/ ClearSendError(w) \/ JobFails(w)
    <2>1. OnlyLetsGo
      <3>1. pc[w] # "idle" /\ Leave(w) /\ UNCHANGED <<waiting, polling>>
        BY <1>5 DEF SkipMoved, ClearSendError, JobFails
      <3>2. PICK e : e = Mail(w)
        OBVIOUS
      <3> QED BY <3>1, <3>2, WorkerLetsGo DEF HolderInv
    <2> QED BY <1>5, <2>1, HarmlessStep DEF SkipMoved, ClearSendError, JobFails
  <1>6. CASE CancelRest(w)
    <2>1. OnlyLetsGo
      BY <1>6, GotoKeepsHold DEF CancelRest, Goto
    <2> QED BY <1>6, <2>1, HarmlessStep DEF CancelRest, cancelPendingForRecipient
  <1>7. CASE \/ Load(w) \/ CheckSuppressed(w) \/ SlotGranted(w) \/ SlotDenied(w)
             \/ SendMail(w) \/ SendMailReplyLost(w) \/ SendMailRefused(w)
             \/ RecordSendError(w) \/ AddBounce(w) \/ ReleaseSendSlot(w)
             \/ BookkeepingFails(w)
    <2>1. /\ pc[w] # "idle"
          /\ \E to : pc' = [pc EXCEPT ![w] = to]
          /\ UNCHANGED <<waiting, polling, job>>
      BY <1>7 DEF Load, CheckSuppressed, SlotGranted, SlotDenied, SendMail,
           SendMailReplyLost, SendMailRefused, RecordSendError, AddBounce,
           ReleaseSendSlot, BookkeepingFails, Goto
    <2>2. OnlyLetsGo
      BY <2>1, GotoKeepsHold
    <2>3. UNCHANGED rows
      BY <1>7 DEF Load, CheckSuppressed, SlotGranted, SlotDenied, SendMail,
           SendMailReplyLost, SendMailRefused, RecordSendError, AddBounce,
           ReleaseSendSlot, BookkeepingFails
    <2> QED BY <2>2, <2>3, HarmlessStep
  <1> QED BY <1>1, <1>2, <1>3, <1>4, <1>5, <1>6, <1>7 DEF WorkerStep

(* Of the requests only the bulk edits and the list are left.              *)
LEMMA RequestHolder ==
  ASSUME Undisturbed, HolderInv, RequestStep
  PROVE  OneHolder' /\ HeldRowsAreClaimed' /\ op' = {}
  <1>1. ~\E e \in Emails, kind \in {"cancel", "reschedule", "retry"} :
           EditRead(kind, e)
    BY DEF EditRead, Request, Undisturbed
  <1>2. OnlyLetsGo
    BY <1>1 DEF RequestStep, cancelMany, retryMany, Unsubscribe,
      UnsubscribeCancels, Suppress, Unsuppress, notRequests, redis, polling,
      working, OnlyLetsGo, HolderInv
  <1>3. \/ UNCHANGED rows
        \/ \E S : cancelPending(S)
        \/ \E S \in SUBSET Emails : retryMany(S)
    BY <1>1 DEF RequestStep, cancelMany, Unsubscribe, UnsubscribeCancels,
      cancelPendingForRecipient, Suppress, Unsuppress, HolderInv
  <1>4. op' = {}
    BY <1>1 DEF RequestStep, cancelMany, retryMany, Unsubscribe,
      UnsubscribeCancels, Suppress, Unsuppress, requests, HolderInv
  <1> QED BY <1>2, <1>3, <1>4, HarmlessStep

(* At first nobody holds a row.                                            *)
LEMMA InitHolderInv == Init => HolderInv
  <1> SUFFICES ASSUME Init PROVE HolderInv
    OBVIOUS
  <1>1. OneHolder
    BY DEF Init, OneHolder
  <1>2. HeldRowsAreClaimed
    BY DEF Init, HeldRowsAreClaimed, Held
  <1> QED BY <1>1, <1>2, InitTypeOK DEF Init, HolderInv

(* While undisturbed, every step keeps one holder per row.                 *)
LEMMA NextHolderInv ==
  ASSUME Undisturbed
  PROVE  HolderInv /\ [Next]_vars => HolderInv'
  <1> SUFFICES ASSUME HolderInv, [Next]_vars PROVE HolderInv'
    OBVIOUS
  <1>1. TypeOK'
    BY NextTypeOK DEF HolderInv
  <1>2. CASE RequestStep
    BY <1>1, <1>2, RequestHolder DEF HolderInv
  <1>3. CASE \/ \E e \in Emails : BecomesDue(e) \/ AbandonedClaimAges(e)
             \/ reapStuckClaims
    <2>1. OnlyLetsGo /\ op' = op
      BY <1>3 DEF BecomesDue, AbandonedClaimAges, Ages, reapStuckClaims, redis,
                  polling, notPolling, working, requests, OnlyLetsGo
    <2> QED BY <1>1, <1>3, <2>1, HarmlessStep DEF HolderInv
  <1>4. ASSUME NEW p \in Pollers,
               PollerStep(p) \/ EnqueueFails(p) \/ TickBreaks(p) \/ Shutdown(p)
        PROVE  HolderInv'
    <2>1. op' = op
      BY <1>4 DEF PollerStep, TickStarts, claimNextDue, TickEnds, Enqueue,
           DeferUnqueued, Bootstrap, EnqueueFails, TickBreaks, Shutdown,
           notPolling, requests
    <2> QED BY <1>1, <1>4, <2>1, PollerHolder DEF HolderInv
  <1>5. ASSUME NEW w \in Workers,
               \/ WorkerStep(w)
               \/ SlotDenied(w) \/ SendMailReplyLost(w) \/ BookkeepingFails(w)
               \/ JobFails(w) \/ WorkerCrashes(w)
        PROVE  HolderInv'
    <2>1. op' = op
      BY <1>5 DEF WorkerStep, TakeJob, Load, SkipMoved, CheckSuppressed,
           CancelRest, FailNow, SlotGranted, DeferThrottled, SendMail,
           SendMailRefused, MarkSent, ClearSendError, RecordSendError,
           AddBounce, ReleaseSendSlot, RetryOrGiveUp, SlotDenied,
           SendMailReplyLost, BookkeepingFails, JobFails, WorkerCrashes,
           notWorking, requests
    <2> QED BY <1>1, <1>5, <2>1, WorkerHolder DEF HolderInv
  <1>6. ASSUME NEW e \in Emails PROVE ~LiveClaimAges(e)
    BY DEF LiveClaimAges, Event, Undisturbed
  <1>7. CASE Disturbance
    BY <1>4, <1>5, <1>6, <1>7 DEF Disturbance
  <1>8. CASE UNCHANGED vars
    <2>1. OnlyLetsGo /\ UNCHANGED rows /\ op' = op
      BY <1>8 DEF vars, redis, polling, working, requests, OnlyLetsGo
    <2> QED BY <1>1, <2>1, HarmlessStep DEF HolderInv
  <1> QED BY <1>2, <1>3, <1>4, <1>5, <1>7, <1>8 DEF Next

(* While no claim outlives the reaper's timeout, no enqueue is ambiguous   *)
(* and nobody edits a single row, no row is ever in two pairs of hands,    *)
(* whatever crashes, fails, is deferred, retried or cancelled in bulk, and *)
(* however many processes poll and send: this is what lets a job trust     *)
(* `status = 'sending'` (send.processor.ts:62-65).                         *)
THEOREM RowsHaveOneHolder ==
  ASSUME Undisturbed
  PROVE  Spec => []OneHolder
  <1>1. HolderInv => OneHolder
    BY DEF HolderInv
  <1> QED BY <1>1, InitHolderInv, NextHolderInv, PTL DEF Spec

(* Under the same conditions nothing but the holder of a row moves it: it  *)
(* stays claimed, and too fresh for the reaper, for as long as it is held. *)
THEOREM HeldRowsStayClaimed ==
  ASSUME Undisturbed
  PROVE  Spec => []HeldRowsAreClaimed
  <1>1. HolderInv => HeldRowsAreClaimed
    BY DEF HolderInv
  <1> QED BY <1>1, InitHolderInv, NextHolderInv, PTL DEF Spec
=============================================================================
