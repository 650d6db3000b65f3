-------------------------- MODULE SendLedgerProofs --------------------------
(***************************************************************************)
(* The two ledgers of the send pipeline balance, for any number of rows,   *)
(* workers and app processes: the slots a mailbox is charged for cover the *)
(* sends its provider counts, but for the misjudged, and the mail a suppressed address still gets is *)
(* what was past the check when it was suppressed.                         *)
(*                                                                         *)
(* Both count workers that are between two steps of a job, so both proofs  *)
(* follow a set of workers that each step changes by at most one member.   *)
(***************************************************************************)
EXTENDS SendPipelineProofs

(* Counting a set of workers before and after a step in which only w may   *)
(* have joined or left it.                                                 *)
LEMMA CountOneMore ==
  ASSUME NEW S \in SUBSET Workers, NEW T \in SUBSET Workers, NEW w \in Workers
  PROVE  /\ Cardinality(S) \in Nat /\ Cardinality(T) \in Nat
         /\ T \subseteq S => Cardinality(T) <= Cardinality(S)
         /\ T \subseteq S \cup {w} => Cardinality(T) <= Cardinality(S) + 1
         /\ w \in S /\ T \subseteq S \ {w} => Cardinality(T) <= Cardinality(S) - 1
  <1>1. IsFiniteSet(S) /\ IsFiniteSet(T)
    BY PipelineAssumption, FS_Subset
  <1>2. /\ Cardinality(S) \in Nat /\ Cardinality(T) \in Nat
        /\ IsFiniteSet(S \cup {w}) /\ Cardinality(S \cup {w}) <= Cardinality(S) + 1
        /\ IsFiniteSet(S \ {w})
        /\ w \in S => Cardinality(S \ {w}) = Cardinality(S) - 1
    <2>1. Cardinality(S) \in Nat /\ Cardinality(T) \in Nat
      BY <1>1, FS_CardinalityType
    <2>2. /\ IsFiniteSet(S \cup {w})
          /\ Cardinality(S \cup {w}) =
               IF w \in S THEN Cardinality(S) ELSE Cardinality(S) + 1
      BY <1>1, FS_AddElement
    <2>3. /\ IsFiniteSet(S \ {w})
          /\ Cardinality(S \ {w}) =
               IF w \in S THEN Cardinality(S) - 1 ELSE Cardinality(S)
      BY <1>1, FS_RemoveElement
    <2> QED BY <2>1, <2>2, <2>3
  <1>3. T \subseteq S => Cardinality(T) <= Cardinality(S)
    BY <1>1, FS_Subset
  <1>4. ASSUME T \subseteq S \cup {w} PROVE Cardinality(T) <= Cardinality(S) + 1
    <2>1. Cardinality(T) <= Cardinality(S \cup {w})
      BY <1>2, <1>4, FS_Subset
    <2>2. Cardinality(S \cup {w}) \in Nat
      BY <1>2, FS_CardinalityType
    <2> QED BY <1>2, <2>1, <2>2
  <1>5. ASSUME w \in S, T \subseteq S \ {w} PROVE Cardinality(T) <= Cardinality(S) - 1
    BY <1>2, <1>5, FS_Subset
  <1> QED BY <1>2, <1>3, <1>4, <1>5

(* What the steps of pollers, clocks and the reaper, and the requests that *)
(* are not about the list, have in common.                                 *)
LEMMA StepsOfOthers ==
  ASSUME TypeOK,
         \/ \E e \in Emails : \/ BecomesDue(e) \/ AbandonedClaimAges(e)
                              \/ LiveClaimAges(e)
         \/ reapStuckClaims
         \/ \E p \in Pollers : \/ PollerStep(p) \/ EnqueueFails(p)
                               \/ TickBreaks(p) \/ Shutdown(p)
  PROVE  UNCHANGED <<working, spent, suppressed, outside>>
  BY DEF BecomesDue, AbandonedClaimAges, LiveClaimAges, Ages, reapStuckClaims,
         PollerStep, TickStarts, claimNextDue, TickEnds, Enqueue, DeferUnqueued,
         Bootstrap, EnqueueFails, TickBreaks, Shutdown, notPolling

-----------------------------------------------------------------------------
(* Slots and sends *)

(* A slot was taken for this job's send and may still be given back: the   *)
(* send is in progress, or it ended without a reply as far as handleFailure*)
(* can tell.                                                               *)
Unsettled(w) ==
  \/ pc[w] \in {"send", "release"}
  \/ pc[w] = "recordError" /\ AfterRecordError(classifySmtpFailure(fail[w])) = "release"

SlotsCoverUse ==
  used + Cardinality({w \in Workers : Unsettled(w)}) <= spent + misjudged

(* The slot is only given back for an error without a reply code.          *)
LEMMA ReleaseNeedsNoReply ==
  ASSUME NEW err, AfterRecordError(classifySmtpFailure(err)) = "release"
  PROVE  err.code = NoCode
  BY DEF AfterRecordError, classifySmtpFailure

(* A step after which no more jobs are unsettled, and which leaves the     *)
(* counters alone.                                                         *)
LEMMA NobodyNewUnsettled ==
  ASSUME TypeOK, SlotsCoverUse, UNCHANGED <<spent, used, misjudged>>,
         \A v \in Workers : Unsettled(v)' => Unsettled(v)
  PROVE  SlotsCoverUse'
  <1> DEFINE S == {v \in Workers : Unsettled(v)}
             T == {v \in Workers : Unsettled(v)'}
  <1>1. T \subseteq S /\ S \in SUBSET Workers /\ T \in SUBSET Workers
    OBVIOUS
  <1>2. Cardinality(S) \in Nat /\ Cardinality(T) \in Nat /\ Cardinality(T) <= Cardinality(S)
    <2>1. CASE Workers = {}
      BY <2>1, FS_EmptySet
    <2>2. CASE Workers # {}
      <3>1. PICK w : w \in Workers
        BY <2>2
      <3> QED BY <1>1, <3>1, CountOneMore
    <2> QED BY <2>1, <2>2
  <1>3. spent \in Nat /\ used \in Nat /\ misjudged \in Nat
    BY DEF TypeOK, CountersType
  <1> QED BY <1>2, <1>3 DEF SlotsCoverUse

(* The job's own step: every other job is where it was.                    *)
LEMMA OtherJobsUnsettled ==
  ASSUME TypeOK, NEW w \in Workers, NEW to,
         pc' = [pc EXCEPT ![w] = to],
         \/ fail' = fail
         \/ \E err : fail' = [fail EXCEPT ![w] = err]
  PROVE  \A v \in Workers \ {w} : Unsettled(v)' <=> Unsettled(v)
  BY DEF TypeOK, WorkingType, Unsettled

(* A job that ends, fails or crashes keeps its slot.                       *)
LEMMA LeavingJobIsSettled ==
  ASSUME TypeOK, NEW w \in Workers, Leave(w)
  PROVE  \A v \in Workers : Unsettled(v)' => Unsettled(v)
  BY DEF TypeOK, WorkingType, Unsettled, Leave

(* A send takes a slot before it begins; its reply settles it.  A misjudged*)
(* send may give its slot back and is counted as misjudged.                *)
LEMMA SlotSteps ==
  ASSUME TypeOK, SlotsCoverUse, NEW w \in Workers,
         \/ SlotGranted(w) \/ SendMail(w) \/ SendMailReplyLost(w)
         \/ SendMailRefused(w) \/ ReleaseSendSlot(w) \/ BookkeepingFails(w)
  PROVE  SlotsCoverUse'
  <1> DEFINE S == {v \in Workers : Unsettled(v)}
             T == {v \in Workers : Unsettled(v)'}
  <1>1. /\ Cardinality(S) \in Nat /\ Cardinality(T) \in Nat
        /\ T \subseteq S => Cardinality(T) <= Cardinality(S)
        /\ T \subseteq S \cup {w} => Cardinality(T) <= Cardinality(S) + 1
        /\ w \in S /\ T \subseteq S \ {w} => Cardinality(T) <= Cardinality(S) - 1
    <2>1. S \in SUBSET Workers /\ T \in SUBSET Workers
      OBVIOUS
    <2> HIDE DEF S, T
    <2> QED BY <2>1, CountOneMore
  <1>2. /\ spent \in Nat /\ used \in Nat /\ misjudged \in Nat
        /\ used + Cardinality(S) <= spent + misjudged
    BY DEF TypeOK, CountersType, SlotsCoverUse
  <1>3. SUFFICES used' + Cardinality(T) <= spent' + misjudged'
    BY DEF SlotsCoverUse
  <1>4. \A v \in Workers \ {w} : Unsettled(v)' <=> Unsettled(v)
    BY OtherJobsUnsettled
    DEF SlotGranted, SendMail, SendMailReplyLost, SendMailRefused, ReleaseSendSlot,
        BookkeepingFails, Goto
  <1>5. T \subseteq S \cup {w} /\ (~Unsettled(w)' => T \subseteq S \ {w})
    BY <1>4
  <1>6. CASE SlotGranted(w)
    <2>1. spent' = spent + 1 /\ used' = used /\ misjudged' = misjudged
      BY <1>6 DEF SlotGranted, outside
    <2> QED BY <1>1, <1>2, <1>5, <2>1
  <1>7. CASE SendMail(w)
    <2>1. spent' = spent /\ used' = used + 1 /\ misjudged' = misjudged
      BY <1>7 DEF SendMail
    <2>2. w \in S /\ ~Unsettled(w)'
      BY <1>7 DEF SendMail, Goto, Unsettled, TypeOK, WorkingType
    <2> QED BY <1>1, <1>2, <1>5, <2>1, <2>2
  <1>8. CASE SendMailReplyLost(w)
    <2>1. spent' = spent /\ used' = used + 1 /\ misjudged' = misjudged + 1
      BY <1>8 DEF SendMailReplyLost
    <2>2. w \in S
      BY <1>8 DEF SendMailReplyLost, Goto, Unsettled
    <2> QED BY <1>1, <1>2, <1>5, <2>1, <2>2
  <1>9. CASE SendMailRefused(w)
    <2>1. PICK err \in Refusals :
            /\ fail' = [fail EXCEPT ![w] = err]
            /\ used' = IF err.code = NoCode THEN used ELSE used + 1
      BY <1>9 DEF SendMailRefused
    <2>2. w \in S /\ spent' = spent /\ misjudged' = misjudged
      BY <1>9 DEF SendMailRefused, Goto, Unsettled
    <2>3. CASE err.code = NoCode
      BY <1>1, <1>2, <1>5, <2>1, <2>2, <2>3
    <2>4. CASE err.code # NoCode
      <3>1. ~Unsettled(w)'
        BY <1>9, <2>1, <2>4, ReleaseNeedsNoReply
        DEF SendMailRefused, Goto, Unsettled, TypeOK, WorkingType
      <3> QED BY <1>1, <1>2, <1>5, <2>1, <2>2, <2>4, <3>1
    <2> QED BY <2>3, <2>4
  <1>10. CASE ReleaseSendSlot(w)
    <2>1. w \in S /\ ~Unsettled(w)'
      BY <1>10 DEF ReleaseSendSlot, Goto, Unsettled, TypeOK, WorkingType
    <2>2. /\ used' = used /\ misjudged' = misjudged
          /\ spent' = IF spent > 0 THEN spent - 1 ELSE spent
      BY <1>10 DEF ReleaseSendSlot, outside
    <2> QED BY <1>1, <1>2, <1>5, <2>1, <2>2
  <1>11. CASE BookkeepingFails(w)
    <2>1. spent' = spent /\ used' = used /\ misjudged' = misjudged + 1
      BY <1>11 DEF BookkeepingFails
    <2> QED BY <1>1, <1>2, <1>5, <2>1
  <1> QED BY <1>6, <1>7, <1>8, <1>9, <1>10, <1>11

(* The other steps of a job neither send nor touch the counters.           *)
LEMMA QuietSteps ==
  ASSUME TypeOK, SlotsCoverUse, NEW w \in Workers,
         \/ TakeJob(w) \/ Load(w) \/ SkipMoved(w) \/ CheckSuppressed(w)
         \/ CancelRest(w) \/ FailNow(w) \/ DeferThrottled(w) \/ MarkSent(w)
         \/ ClearSendError(w) \/ RecordSendError(w) \/ AddBounce(w)
         \/ RetryOrGiveUp(w) \/ SlotDenied(w) \/ JobFails(w) \/ WorkerCrashes(w)
  PROVE  SlotsCoverUse'
  <1>1. UNCHANGED <<spent, used, misjudged>>
    BY DEF TakeJob, Load, SkipMoved, CheckSuppressed, CancelRest, FailNow,
           DeferThrottled, MarkSent, ClearSendError, RecordSendError, AddBounce,
           RetryOrGiveUp, SlotDenied, JobFails, WorkerCrashes, outside
  <1>2. CASE \/ SkipMoved(w) \/ FailNow(w) \/ DeferThrottled(w) \/ ClearSendError(w)
             \/ RetryOrGiveUp(w) \/ JobFails(w) \/ WorkerCrashes(w)
    BY <1>1, <1>2, LeavingJobIsSettled, NobodyNewUnsettled
    DEF SkipMoved, FailNow, DeferThrottled, ClearSendError, RetryOrGiveUp,
        JobFails, WorkerCrashes
  <1>3. CASE \/ TakeJob(w) \/ Load(w) \/ CheckSuppressed(w) \/ CancelRest(w)
             \/ MarkSent(w) \/ RecordSendError(w) \/ AddBounce(w) \/ SlotDenied(w)
    <2>1. \A v \in Workers \ {w} : Unsettled(v)' <=> Unsettled(v)
      BY <1>3, OtherJobsUnsettled
      DEF TakeJob, Load, CheckSuppressed, CancelRest, MarkSent, RecordSendError,
          AddBounce, SlotDenied, Goto
    <2>2. Unsettled(w)' => Unsettled(w)
      <3>1. CASE RecordSendError(w)
        BY <3>1
        DEF RecordSendError, Goto, Unsettled, AfterRecordError, TypeOK, WorkingType
      <3>2. CASE ~RecordSendError(w)
        BY <1>3, <3>2
        DEF TakeJob, Load, CheckSuppressed, CancelRest, MarkSent, AddBounce,
            SlotDenied, Goto, Unsettled, TypeOK, WorkingType
      <3> QED BY <3>1, <3>2
    <2> QED BY <1>1, <2>1, <2>2, NobodyNewUnsettled
  <1> QED BY <1>2, <1>3

(* No step leaves a used slot uncharged that is not counted as misjudged.  *)
LEMMA NextSlotsCoverUse ==
  TypeOK /\ SlotsCoverUse /\ [Next]_vars => SlotsCoverUse'
  <1> SUFFICES ASSUME TypeOK, SlotsCoverUse, [Next]_vars PROVE SlotsCoverUse'
    OBVIOUS
  <1>1. ASSUME UNCHANGED <<working, spent, outside>> PROVE SlotsCoverUse'
    <2>1. UNCHANGED <<spent, used, misjudged>> /\ \A v \in Workers : Unsettled(v)' <=> Unsettled(v)
      BY <1>1 DEF working, outside, Unsettled
    <2> QED BY <2>1, NobodyNewUnsettled
  <1>2. CASE RequestStep
    <2>1. UNCHANGED <<working, spent, used, misjudged>>
      BY <1>2 DEF RequestStep, EditRead, EditWrite, cancelMany, retryMany, Unsubscribe,
                  UnsubscribeCancels, Suppress, Unsuppress, notRequests, outside
    <2>2. \A v \in Workers : Unsettled(v)' <=> Unsettled(v)
      BY <2>1 DEF working, Unsettled
    <2> QED BY <2>1, <2>2, NobodyNewUnsettled
  <1>3. ASSUME NEW w \in Workers,
               \/ WorkerStep(w) \/ SlotDenied(w) \/ SendMailReplyLost(w)
               \/ BookkeepingFails(w) \/ JobFails(w) \/ WorkerCrashes(w)
        PROVE  SlotsCoverUse'
    BY <1>3, SlotSteps, QuietSteps DEF WorkerStep
  <1>4. CASE UNCHANGED vars
    BY <1>1, <1>4 DEF vars
  <1> QED BY <1>1, <1>2, <1>3, <1>4, StepsOfOthers DEF Next, Disturbance

(* Whatever fails, crashes, outlives its claim or is edited, and however   *)
(* often slots are given back, a mailbox is charged for every send its     *)
(* provider counts and for every send in progress, but for the messages    *)
(* that left and were handled as if they had not (send.processor.ts,       *)
(* handleFailure).                                                         *)
THEOREM MailboxesPayForUse == Spec => []UsedSendsArePaidFor
  <1>1. Init => SlotsCoverUse
    <2> SUFFICES ASSUME Init PROVE SlotsCoverUse
      OBVIOUS
    <2>1. {w \in Workers : Unsettled(w)} = {}
      BY DEF Init, Unsettled
    <2>2. Cardinality({w \in Workers : Unsettled(w)}) = 0
      BY <2>1, FS_EmptySet
    <2> QED BY <2>2 DEF Init, SlotsCoverUse
  <1>2. TypeOK /\ SlotsCoverUse => UsedSendsArePaidFor
    <2> SUFFICES ASSUME TypeOK, SlotsCoverUse PROVE UsedSendsArePaidFor
      OBVIOUS
    <2> DEFINE S == {w \in Workers : Unsettled(w)}
               T == {w \in Workers : pc[w] = "send"}
    <2>1. T \subseteq S
      BY DEF Unsettled
    <2>2. IsFiniteSet(S) /\ IsFiniteSet(T)
      BY PipelineAssumption, FS_Subset
    <2>3. Cardinality(S) \in Nat /\ Cardinality(T) \in Nat /\ Cardinality(T) <= Cardinality(S)
      BY <2>1, <2>2, FS_Subset, FS_CardinalityType
    <2>4. spent \in Nat /\ used \in Nat /\ misjudged \in Nat
      BY DEF TypeOK, CountersType
    <2> QED BY <2>3, <2>4 DEF SlotsCoverUse, UsedSendsArePaidFor
  <1> QED BY <1>1, <1>2, InitTypeOK, NextTypeOK, NextSlotsCoverUse, PTL DEF Spec

-----------------------------------------------------------------------------
(* Suppression *)

(* What a suppressed address may still get covers what is on its way to it *)
(* past the check.                                                         *)
ExposureCoversSends ==
  \A r \in Recipients : IF r \in suppressed
                        THEN Cardinality(PastCheck(r)) <= exposure[r]
                        ELSE exposure[r] = 0

(* This job is past the check with mail to r. *)
OnItsWay(w, r) == pc[w] \in {"slot", "send"} /\ To[job[w].email] = r

(* Counting the mail on its way to r before and after a step of w.         *)
LEMMA CountOnItsWay ==
  ASSUME NEW r \in Recipients,
         NEW w \in Workers, \A v \in Workers \ {w} : OnItsWay(v, r)' => OnItsWay(v, r)
  PROVE  /\ Cardinality(PastCheck(r)) \in Nat /\ Cardinality(PastCheck(r)') \in Nat
         /\ (OnItsWay(w, r)' => OnItsWay(w, r))
              => Cardinality(PastCheck(r)') <= Cardinality(PastCheck(r))
         /\ OnItsWay(w, r) /\ ~OnItsWay(w, r)'
              => Cardinality(PastCheck(r)') <= Cardinality(PastCheck(r)) - 1
  <1> DEFINE S == {v \in Workers : OnItsWay(v, r)}
             T == {v \in Workers : OnItsWay(v, r)'}
  <1>1. PastCheck(r) = S /\ PastCheck(r)' = T
    BY DEF PastCheck, OnItsWay
  <1>2. /\ Cardinality(S) \in Nat /\ Cardinality(T) \in Nat
        /\ T \subseteq S => Cardinality(T) <= Cardinality(S)
        /\ w \in S /\ T \subseteq S \ {w} => Cardinality(T) <= Cardinality(S) - 1
    <2>1. S \in SUBSET Workers /\ T \in SUBSET Workers
      OBVIOUS
    <2> HIDE DEF S, T
    <2> QED BY <2>1, CountOneMore
  <1> QED BY <1>1, <1>2

(* A step that puts no mail to a suppressed address on its way, and leaves *)
(* the list alone.                                                         *)
LEMMA NoNewExposure ==
  ASSUME TypeOK, ExposureCoversSends, UNCHANGED <<suppressed, exposure>>,
         \A v \in Workers, r \in suppressed : OnItsWay(v, r)' => OnItsWay(v, r)
  PROVE  ExposureCoversSends'
  <1> SUFFICES ASSUME NEW r \in suppressed
               PROVE  Cardinality(PastCheck(r)') <= exposure[r]
    BY DEF ExposureCoversSends
  <1>1. r \in Recipients /\ exposure[r] \in Int /\ Cardinality(PastCheck(r)) <= exposure[r]
    BY DEF ExposureCoversSends, TypeOK, RequestsType, CountersType
  <1>2. CASE Workers = {}
    <2>1. PastCheck(r)' = PastCheck(r)
      BY <1>2 DEF PastCheck
    <2> QED BY <1>1, <2>1
  <1>3. CASE Workers # {}
    <2>1. PICK w : w \in Workers
      BY <1>3
    <2> QED BY <1>1, <2>1, CountOnItsWay
  <1> QED BY <1>2, <1>3

(* Suppressing an address records what is on its way to it.                *)
LEMMA SuppressingCountsSends ==
  ASSUME TypeOK, ExposureCoversSends, NEW r \in Recipients, addSuppression(r),
         \A v \in Workers, x \in Recipients : OnItsWay(v, x)' <=> OnItsWay(v, x)
  PROVE  ExposureCoversSends'
  <1> SUFFICES ASSUME NEW x \in Recipients
               PROVE  IF x \in suppressed' THEN Cardinality(PastCheck(x)') <= exposure'[x]
                                           ELSE exposure'[x] = 0
    BY DEF ExposureCoversSends
  <1>1. PastCheck(x)' = PastCheck(x)
    BY DEF PastCheck, OnItsWay
  <1>2. Cardinality(PastCheck(x)) \in Nat
    <2>1. PastCheck(x) \in SUBSET Workers
      BY DEF PastCheck
    <2> QED BY <2>1, PipelineAssumption, FS_Subset, FS_CardinalityType
  <1> QED BY <1>1, <1>2 DEF addSuppression, ExposureCoversSends, TypeOK, CountersType

(* A job's own step, seen from the other jobs.                             *)
LEMMA OtherJobsOnTheirWay ==
  ASSUME TypeOK, NEW w \in Workers, NEW to,
         pc' = [pc EXCEPT ![w] = to],
         job' = job \/ \E j : job' = [job EXCEPT ![w] = j]
  PROVE  \A v \in Workers \ {w}, r \in Recipients : OnItsWay(v, r)' <=> OnItsWay(v, r)
  BY DEF TypeOK, WorkingType, OnItsWay

(* The message a suppressed address still gets was counted.                *)
LEMMA AcceptedWasCounted ==
  ASSUME TypeOK, ExposureCoversSends, NEW w \in Workers, NEW to,
         Goto(w, "send", to), to \notin {"slot", "send"}, Accepted(w),
         UNCHANGED <<job, suppressed>>
  PROVE  ExposureCoversSends'
  <1> SUFFICES ASSUME NEW r \in Recipients
               PROVE  IF r \in suppressed THEN Cardinality(PastCheck(r)') <= exposure'[r]
                                          ELSE exposure'[r] = 0
    BY DEF ExposureCoversSends
  <1>1. /\ exposure \in [Recipients -> Int]
        /\ IF r \in suppressed THEN Cardinality(PastCheck(r)) <= exposure[r]
                               ELSE exposure[r] = 0
    BY DEF ExposureCoversSends, TypeOK, CountersType
  <1>2. To[Mail(w)] \in Recipients
    BY MailIsARow DEF Goto
  <1>3. exposure'[r] = IF r = To[Mail(w)] /\ r \in suppressed THEN exposure[r] - 1
                                                           ELSE exposure[r]
    BY <1>1, <1>2 DEF Accepted
  <1>4. \A v \in Workers \ {w} : OnItsWay(v, r)' => OnItsWay(v, r)
    BY OtherJobsOnTheirWay DEF Goto
  <1>5. ~OnItsWay(w, r)' /\ (r = To[Mail(w)] => OnItsWay(w, r))
    BY DEF Goto, OnItsWay, Mail, TypeOK, WorkingType
  <1> QED BY <1>1, <1>3, <1>4, <1>5, CountOnItsWay

(* Only the check itself lets a job past it, and then for an address that  *)
(* is not suppressed.                                                      *)
LEMMA JobsPassTheCheckOnly ==
  ASSUME TypeOK, NEW w \in Workers,
         \/ TakeJob(w) \/ Load(w) \/ SkipMoved(w) \/ CheckSuppressed(w)
         \/ CancelRest(w) \/ FailNow(w) \/ SlotGranted(w) \/ DeferThrottled(w)
         \/ SendMailRefused(w) \/ MarkSent(w) \/ ClearSendError(w)
         \/ RecordSendError(w) \/ ReleaseSendSlot(w) \/ RetryOrGiveUp(w)
         \/ SlotDenied(w) \/ BookkeepingFails(w) \/ JobFails(w) \/ WorkerCrashes(w)
  PROVE  \A v \in Workers, r \in suppressed : OnItsWay(v, r)' => OnItsWay(v, r)
  <1>1. CASE \/ SkipMoved(w) \/ FailNow(w) \/ DeferThrottled(w) \/ ClearSendError(w)
             \/ RetryOrGiveUp(w) \/ JobFails(w) \/ WorkerCrashes(w)
    <2>1. Leave(w)
      BY <1>1 DEF SkipMoved, FailNow, DeferThrottled, ClearSendError, RetryOrGiveUp,
                  JobFails, WorkerCrashes
    <2> QED BY <2>1 DEF Leave, OnItsWay, TypeOK, WorkingType
  <1>2. CASE TakeJob(w)
    BY <1>2 DEF TakeJob, Goto, OnItsWay, TypeOK, WorkingType
  <1>3. CASE CheckSuppressed(w)
    BY <1>3 DEF CheckSuppressed, isSuppressed, Goto, OnItsWay, Mail, TypeOK, WorkingType
  <1>4. CASE RecordSendError(w)
    BY <1>4 DEF RecordSendError, AfterRecordError, Goto, OnItsWay, TypeOK, WorkingType
  <1>5. CASE \/ Load(w) \/ CancelRest(w) \/ SlotGranted(w) \/ SendMailRefused(w)
             \/ MarkSent(w) \/ ReleaseSendSlot(w) \/ SlotDenied(w) \/ BookkeepingFails(w)
    BY <1>5 DEF Load, CancelRest, SlotGranted, SendMailRefused, MarkSent,
      ReleaseSendSlot, SlotDenied, BookkeepingFails, Goto, OnItsWay, TypeOK, WorkingType
  <1> QED BY <1>1, <1>2, <1>3, <1>4, <1>5

(* The steps of a job.                                                     *)
LEMMA WorkerExposure ==
  ASSUME TypeOK, ExposureCoversSends, NEW w \in Workers,
         \/ WorkerStep(w) \/ SlotDenied(w) \/ SendMailReplyLost(w)
         \/ BookkeepingFails(w) \/ JobFails(w) \/ WorkerCrashes(w)
  PROVE  ExposureCoversSends'
  <1>1. CASE SendMail(w) \/ SendMailReplyLost(w)
    BY <1>1, AcceptedWasCounted DEF SendMail, SendMailReplyLost
  <1>2. CASE AddBounce(w)
    <2>1. To[Mail(w)] \in Recipients /\ addSuppression(To[Mail(w)])
      BY <1>2, MailIsARow DEF AddBounce, Goto
    <2>2. \A v \in Workers, x \in Recipients : OnItsWay(v, x)' <=> OnItsWay(v, x)
      BY <1>2 DEF AddBounce, Goto, OnItsWay, TypeOK, WorkingType
    <2> QED BY <2>1, <2>2, SuppressingCountsSends
  <1>3. CASE \/ TakeJob(w) \/ Load(w) \/ SkipMoved(w) \/ CheckSuppressed(w)
             \/ CancelRest(w) \/ FailNow(w) \/ SlotGranted(w) \/ DeferThrottled(w)
             \/ SendMailRefused(w) \/ MarkSent(w) \/ ClearSendError(w)
             \/ RecordSendError(w) \/ ReleaseSendSlot(w) \/ RetryOrGiveUp(w)
             \/ SlotDenied(w) \/ BookkeepingFails(w) \/ JobFails(w) \/ WorkerCrashes(w)
    <2>1. UNCHANGED <<suppressed, exposure>>
      BY <1>3 DEF TakeJob, Load, SkipMoved, CheckSuppressed, CancelRest, FailNow,
        SlotGranted, DeferThrottled, SendMailRefused, MarkSent, ClearSendError,
        RecordSendError, ReleaseSendSlot, RetryOrGiveUp, SlotDenied,
        BookkeepingFails, JobFails, WorkerCrashes, outside
    <2> QED BY <1>3, <2>1, JobsPassTheCheckOnly, NoNewExposure
  <1> QED BY <1>1, <1>2, <1>3 DEF WorkerStep

(* The requests that are about the list, and those that are not.           *)
LEMMA RequestExposure ==
  ASSUME TypeOK, ExposureCoversSends, RequestStep
  PROVE  ExposureCoversSends'
  <1>0. UNCHANGED working
    BY DEF RequestStep, EditRead, EditWrite, cancelMany, retryMany, Unsubscribe,
           UnsubscribeCancels, Suppress, Unsuppress, notRequests
  <1>1. \A v \in Workers : \A x : OnItsWay(v, x)' <=> OnItsWay(v, x)
    BY <1>0 DEF working, OnItsWay
  <1>2. ASSUME NEW r \in Recipients, Unsubscribe(r) \/ Suppress(r)
        PROVE  ExposureCoversSends'
    BY <1>1, <1>2, SuppressingCountsSends DEF Unsubscribe, Suppress
  <1>3. ASSUME NEW r \in Recipients, Unsuppress(r) PROVE ExposureCoversSends'
    <2>1. \A x \in Recipients : PastCheck(x)' = PastCheck(x)
      BY <1>0 DEF PastCheck, working
    <2> QED BY <1>3, <2>1 DEF Unsuppress, ExposureCoversSends, TypeOK, CountersType
  <1>4. CASE ~\E r \in Recipients : Unsubscribe(r) \/ Suppress(r) \/ Unsuppress(r)
    <2>1. UNCHANGED <<suppressed, exposure>>
      BY <1>4 DEF RequestStep, EditRead, EditWrite, cancelMany, retryMany,
                  UnsubscribeCancels, outside
    <2> QED BY <1>1, <2>1, NoNewExposure
  <1> QED BY <1>2, <1>3, <1>4

LEMMA NextExposureCoversSends ==
  TypeOK /\ ExposureCoversSends /\ [Next]_vars => ExposureCoversSends'
  <1> SUFFICES ASSUME TypeOK, ExposureCoversSends, [Next]_vars PROVE ExposureCoversSends'
    OBVIOUS
  <1>1. ASSUME UNCHANGED <<working, suppressed, outside>> PROVE ExposureCoversSends'
    <2>1. /\ UNCHANGED <<suppressed, exposure>>
          /\ \A v \in Workers : \A x : OnItsWay(v, x)' <=> OnItsWay(v, x)
      BY <1>1 DEF working, outside, OnItsWay
    <2> QED BY <2>1, NoNewExposure
  <1>2. CASE RequestStep
    BY <1>2, RequestExposure
  <1>3. ASSUME NEW w \in Workers,
               \/ WorkerStep(w) \/ SlotDenied(w) \/ SendMailReplyLost(w)
               \/ BookkeepingFails(w) \/ JobFails(w) \/ WorkerCrashes(w)
        PROVE  ExposureCoversSends'
    BY <1>3, WorkerExposure
  <1>4. CASE UNCHANGED vars
    BY <1>1, <1>4 DEF vars
  <1> QED BY <1>1, <1>2, <1>3, <1>4, StepsOfOthers DEF Next, Disturbance

(* Whatever fails, is retried, reaped or edited, and however often an      *)
(* address is suppressed and released again: once it is suppressed it gets *)
(* no more mail than was past the check at that moment (send.processor.ts, *)
(* process).                                                               *)
THEOREM SuppressedAddressesGetNoMore == Spec => []SuppressionHolds
  <1>1. Init => ExposureCoversSends
    BY DEF Init, ExposureCoversSends
  <1>2. TypeOK /\ ExposureCoversSends => SuppressionHolds
    <2> SUFFICES ASSUME TypeOK, ExposureCoversSends, NEW r \in Recipients
                 PROVE  exposure[r] >= 0
      BY DEF SuppressionHolds
    <2>1. PastCheck(r) \in SUBSET Workers
      BY DEF PastCheck
    <2>2. Cardinality(PastCheck(r)) \in Nat /\ exposure[r] \in Int
      BY <2>1, PipelineAssumption, FS_Subset, FS_CardinalityType DEF TypeOK, CountersType
    <2> QED BY <2>2 DEF ExposureCoversSends
  <1> QED BY <1>1, <1>2, InitTypeOK, NextTypeOK, NextExposureCoversSends, PTL DEF Spec
=============================================================================
