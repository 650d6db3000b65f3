--------------------------- MODULE LifecycleProofs ---------------------------
(***************************************************************************)
(* The send pipeline implements the life of a message, for any number of   *)
(* rows, workers and app processes: every step moves every message as      *)
(* MessageLifecycle allows, or leaves it where it is.                      *)
(***************************************************************************)
EXTENDS SendPipelineProofs

(* What it takes: besides what keeps one holder per row, that no statement *)
(* of the bookkeeping fails.                                               *)
Recorded == Undisturbed /\ "db" \notin Env

Recording == {Mail(w) : w \in {x \in Workers : pc[x] = "markSent"}}

(* A job past its first look has its row in hand, and one that is through  *)
(* has recorded it.                                                        *)
JobsFollowRows ==
  /\ \A w \in Workers :
       /\ pc[w] \notin {"idle", "load", "clearError"} => status[Mail(w)] = "sending"
       /\ pc[w] = "clearError" => status[Mail(w)] = "sent"
  /\ \A p \in Pollers :
       ppc[p] \in {"add", "defer"} => status[held[p].email] = "sending"

(* Every copy but one is lost, and that one is recorded or about to be.    *)
CopiesAreAccounted ==
  \A e \in Emails :
    delivered[e] = unrecorded[e]
                     + (IF status[e] = "sent" \/ e \in Recording THEN 1 ELSE 0)

LifeInv == HolderInv /\ JobsFollowRows /\ CopiesAreAccounted

-----------------------------------------------------------------------------
(* The steps of a row                                                      *)

(* A row keeps its place, its copies and its losses.                       *)
Kept(e) ==
  /\ status'[e] = status[e]
  /\ delivered'[e] = delivered[e] /\ unrecorded'[e] = unrecorded[e]
  /\ e \in Recording' <=> e \in Recording

Moves == {<<"pending", "sending">>, <<"pending", "cancelled">>,
          <<"sending", "pending">>, <<"sending", "failed">>, <<"failed", "pending">>}

(* It is claimed, put back, stopped or queued again.                       *)
MovesOn(e) ==
  /\ <<status[e], status'[e]>> \in Moves
  /\ delivered'[e] = delivered[e] /\ unrecorded'[e] = unrecorded[e]
  /\ e \notin Recording /\ e \notin Recording'

(* A copy leaves, with its reply in hand or lost.                          *)
CopyLeaves(e) ==
  /\ status[e] = "sending" /\ status'[e] = "sending"
  /\ delivered'[e] = delivered[e] + 1 /\ e \notin Recording
  /\ \/ unrecorded'[e] = unrecorded[e] /\ e \in Recording'
     \/ unrecorded'[e] = unrecorded[e] + 1 /\ e \notin Recording'

RecordIsLost(e) ==
  /\ status[e] = "sending" /\ status'[e] = "sending"
  /\ delivered'[e] = delivered[e] /\ unrecorded'[e] = unrecorded[e] + 1
  /\ e \in Recording /\ e \notin Recording'

GetsRecorded(e) ==
  /\ status[e] = "sending" /\ status'[e] = "sent"
  /\ delivered'[e] = delivered[e] /\ unrecorded'[e] = unrecorded[e]
  /\ e \in Recording

RowStep(e) == Kept(e) \/ MovesOn(e) \/ CopyLeaves(e) \/ RecordIsLost(e) \/ GetsRecorded(e)

(* Such steps are steps of the life of a message.                          *)
LEMMA RowStepsAreLifeSteps ==
  ASSUME TypeOK, CopiesAreAccounted, NEW e \in Emails, RowStep(e)
  PROVE  Life!LifeStep(e)
  <1>1. delivered[e] \in Nat /\ unrecorded[e] \in Nat
    BY DEF TypeOK, CountersType
  <1>2. delivered[e] = unrecorded[e]
          + (IF status[e] = "sent" \/ e \in Recording THEN 1 ELSE 0)
    BY DEF CopiesAreAccounted
  <1>3. /\ [x \in Emails |-> Stage(status[x])][e] = Stage(status[e])
        /\ [x \in Emails |-> Stage(status[x])]'[e] = Stage(status'[e])
    OBVIOUS
  <1>4. /\ Stage("pending") = "queued" /\ Stage("sending") = "inHand"
        /\ Stage("sent") = "recorded"
        /\ Stage("failed") = "stopped" /\ Stage("cancelled") = "stopped"
    BY DEF Stage
  <1>5. CASE Kept(e)
    BY <1>3, <1>5 DEF Kept, Life!LifeStep, Life!Stays
  <1>6. CASE MovesOn(e)
    <2>1. Life!Unsent(e)
      BY <1>1, <1>2, <1>6 DEF Life!Unsent, MovesOn, Moves
    <2>2. \/ Stage(status[e]) = "queued" /\ Stage(status'[e]) \in {"inHand", "stopped"}
          \/ Stage(status[e]) = "inHand" /\ Stage(status'[e]) \in {"queued", "stopped"}
          \/ Stage(status[e]) = "stopped" /\ Stage(status'[e]) = "queued"
      BY <1>4, <1>6 DEF MovesOn, Moves
    <2> QED BY <1>3, <1>6, <2>1, <2>2
            DEF MovesOn, Life!LifeStep, Life!TakeInHand, Life!PutBack, Life!Stop,
                Life!Revive, Life!Moves
  <1>7. CASE CopyLeaves(e)
    <2>1. Life!Unsent(e) /\ unrecorded'[e] \in {unrecorded[e], delivered'[e]}
      BY <1>1, <1>2, <1>7 DEF Life!Unsent, CopyLeaves
    <2> QED BY <1>3, <1>4, <1>7, <2>1 DEF CopyLeaves, Life!LifeStep, Life!Deliver
  <1>8. CASE RecordIsLost(e)
    <2>1. ~Life!Unsent(e) /\ unrecorded'[e] = delivered[e]
      BY <1>1, <1>2, <1>8 DEF Life!Unsent, RecordIsLost
    <2> QED BY <1>3, <1>4, <1>8, <2>1 DEF RecordIsLost, Life!LifeStep, Life!Lose
  <1>9. CASE GetsRecorded(e)
    <2>1. ~Life!Unsent(e)
      BY <1>1, <1>2, <1>9 DEF Life!Unsent, GetsRecorded
    <2> QED BY <1>3, <1>4, <1>9, <2>1
            DEF GetsRecorded, Life!LifeStep, Life!Record, Life!Moves
  <1> QED BY <1>5, <1>6, <1>7, <1>8, <1>9 DEF RowStep

(* They keep the account of the copies.                                    *)
LEMMA RowStepsKeepAccounts ==
  ASSUME TypeOK, TypeOK', CopiesAreAccounted, \A e \in Emails : RowStep(e)
  PROVE  CopiesAreAccounted'
  <1>1. SUFFICES ASSUME NEW e \in Emails
        PROVE  delivered'[e] = unrecorded'[e]
                 + (IF status'[e] = "sent" \/ e \in Recording' THEN 1 ELSE 0)
    BY DEF CopiesAreAccounted
  <1>2. /\ delivered[e] \in Nat /\ unrecorded[e] \in Nat
        /\ delivered'[e] \in Nat /\ unrecorded'[e] \in Nat
    BY DEF TypeOK, CountersType
  <1>3. delivered[e] = unrecorded[e]
          + (IF status[e] = "sent" \/ e \in Recording THEN 1 ELSE 0)
    BY DEF CopiesAreAccounted
  <1> QED BY <1>2, <1>3 DEF RowStep, Kept, MovesOn, Moves, CopyLeaves, RecordIsLost,
             GetsRecorded

-----------------------------------------------------------------------------
(* Steps that leave every row in hand alone                                *)

AtWork(step) == step \notin {"idle", "load", "clearError"}

(* No worker takes up work, or begins or ends the recording of a send.     *)
WorksOn(w) ==
  \/ pc'[w] = pc[w] /\ job'[w] = job[w]
  \/ pc'[w] \in {"idle", "load"} /\ pc[w] # "markSent"
  \/ /\ AtWork(pc[w]) /\ AtWork(pc'[w]) /\ job'[w] = job[w]
     /\ "markSent" \notin {pc[w], pc'[w]}

PollsOn(p) == ppc'[p] \in {"add", "defer"} => PHolds(p) /\ held'[p] = held[p]

(* What is recorded is in hand.                                            *)
LEMMA RecordedRowsAreHeld ==
  ASSUME NEW e \in Emails, e \in Recording
  PROVE  Held(e)
  BY DEF Recording, Held, Mail

(* If only rows in nobody's hands move, and workers and pollers go on with *)
(* what they have or let go of it, the jobs still follow their rows.       *)
LEMMA HandsOff ==
  ASSUME TypeOK, JobsFollowRows, UNCHANGED <<delivered, unrecorded>>,
         \A w \in Workers : WorksOn(w), \A p \in Pollers : PollsOn(p),
         \A e \in Emails : \/ status'[e] = status[e]
                           \/ ~Held(e) /\ <<status[e], status'[e]>> \in Moves
  PROVE  JobsFollowRows' /\ \A e \in Emails : RowStep(e)
  <1>1. ASSUME NEW e \in Emails PROVE e \in Recording' <=> e \in Recording
    BY DEF Recording, WorksOn, Mail
  <1>2. ASSUME NEW e \in Emails PROVE RowStep(e)
    <2>1. CASE status'[e] = status[e]
      BY <1>1, <2>1 DEF RowStep, Kept
    <2>2. CASE ~Held(e) /\ <<status[e], status'[e]>> \in Moves
      BY <1>1, <2>2, RecordedRowsAreHeld DEF RowStep, MovesOn
    <2> QED BY <2>1, <2>2
  <1>3. ASSUME NEW w \in Workers, pc[w] # "idle", job'[w] = job[w]
        PROVE  status'[Mail(w)] = status[Mail(w)] /\ Mail(w)' = Mail(w)
    BY <1>3, MailIsARow DEF Held, Mail
  <1>4. ASSUME NEW p \in Pollers, PHolds(p), held'[p] = held[p]
        PROVE  status'[held[p].email] = status[held[p].email]
    BY <1>4, HeldIsARow DEF Held, PHolds
  <1>5. ASSUME NEW w \in Workers
        PROVE  /\ pc'[w] \notin {"idle", "load", "clearError"} => status'[Mail(w)'] = "sending"
               /\ pc'[w] = "clearError" => status'[Mail(w)'] = "sent"
    BY <1>3, <1>5 DEF WorksOn, AtWork, JobsFollowRows
  <1>6. ASSUME NEW p \in Pollers, ppc'[p] \in {"add", "defer"}
        PROVE  status'[held'[p].email] = "sending"
    BY <1>4, <1>6 DEF PollsOn, PHolds, JobsFollowRows
  <1> QED BY <1>2, <1>5, <1>6 DEF JobsFollowRows

-----------------------------------------------------------------------------
(* Every step of the pipeline                                              *)

(* A step of a tick moves the row the poller claims or puts back, and      *)
(* nobody else has that one in hand.                                       *)
LEMMA PollerRowSteps ==
  ASSUME LifeInv, NEW p \in Pollers,
         PollerStep(p) \/ EnqueueFails(p) \/ TickBreaks(p) \/ Shutdown(p)
  PROVE  JobsFollowRows' /\ \A e \in Emails : RowStep(e)
  <1> USE DEF LifeInv, HolderInv, notPolling, working, outside
  <1>1. CASE \/ TickStarts(p) \/ TickEnds(p) \/ Bootstrap(p) \/ Enqueue(p)
             \/ EnqueueFails(p) \/ TickBreaks(p) \/ Shutdown(p)
    <2>1. UNCHANGED <<status, pc, job, delivered, unrecorded>>
      BY <1>1 DEF TickStarts, TickEnds, Bootstrap, Enqueue, EnqueueFails,
                  TickBreaks, Shutdown, rows
    <2>2. ASSUME NEW q \in Pollers PROVE PollsOn(q)
      BY <1>1 DEF TickStarts, TickEnds, Bootstrap, Enqueue, EnqueueFails,
                  TickBreaks, Shutdown, PollsOn, PHolds, TypeOK, PollingType
    <2>3. \A w \in Workers : WorksOn(w)
      BY <2>1 DEF WorksOn
    <2> QED BY <2>1, <2>2, <2>3, HandsOff
  <1>2. CASE claimNextDue(p)
    <2>1. PICK e \in Emails :
            /\ Claimable(e)
            /\ status' = [status EXCEPT ![e] = "sending"]
            /\ held' = [held EXCEPT ![p] = [email |-> e, claim |-> stamp[e] + 1]]
      BY <1>2 DEF claimNextDue
    <2>2. ~Held(e) /\ status[e] = "pending"
      BY <2>1 DEF HeldRowsAreClaimed, Claimable
    <2>3. UNCHANGED <<pc, job, delivered, unrecorded>>
      BY <1>2 DEF claimNextDue
    <2>4. \A x \in Emails : x \in Recording' <=> x \in Recording
      BY <2>3 DEF Recording, Mail
    <2>5. ASSUME NEW x \in Emails PROVE RowStep(x)
      <3>1. CASE x = e
        BY <2>1, <2>2, <2>3, <2>4, <3>1, RecordedRowsAreHeld
        DEF RowStep, MovesOn, Moves, TypeOK, RowsType
      <3>2. CASE x # e
        BY <2>1, <2>3, <2>4, <3>2 DEF RowStep, Kept, TypeOK, RowsType
      <3> QED BY <3>1, <3>2
    <2>6. ASSUME NEW w \in Workers
          PROVE  /\ pc'[w] \notin {"idle", "load", "clearError"} => status'[Mail(w)'] = "sending"
                 /\ pc'[w] = "clearError" => status'[Mail(w)'] = "sent"
      <3>1. pc[w] # "idle" => Mail(w) # e /\ Mail(w) \in Emails
        BY <2>2, MailIsARow DEF Held, Mail
      <3> QED BY <2>1, <2>3, <3>1 DEF JobsFollowRows, Mail, TypeOK, RowsType
    <2>7. ASSUME NEW q \in Pollers, ppc'[q] \in {"add", "defer"}
          PROVE  status'[held'[q].email] = "sending"
      <3>1. CASE q = p
        BY <2>1, <3>1 DEF TypeOK, RowsType, PollingType
      <3>2. CASE q # p
        <4>1. ppc[q] \in {"add", "defer"} /\ held'[q] = held[q]
          BY <1>2, <2>1, <2>7, <3>2 DEF claimNextDue, TypeOK, PollingType
        <4> QED BY <2>1, <4>1, HeldIsARow DEF JobsFollowRows, TypeOK, RowsType
      <3> QED BY <3>1, <3>2
    <2> QED BY <2>5, <2>6, <2>7 DEF JobsFollowRows
  <1>3. CASE DeferUnqueued(p)
    <2>1. PICK e \in Emails : e = held[p].email
      BY <1>3, HeldIsARow DEF DeferUnqueued
    <2>2. status' = [status EXCEPT ![e] = "pending"]
      BY <1>3, <2>1 DEF DeferUnqueued, deferTo
    <2>3. UNCHANGED <<pc, job, delivered, unrecorded>>
      BY <1>3 DEF DeferUnqueued
    <2>4. \A w \in Workers : pc[w] # "idle" => Mail(w) # e /\ Mail(w) \in Emails
      BY <1>3, <2>1, MailIsARow DEF DeferUnqueued, OneHolder, Mail
    <2>5. e \notin Recording /\ \A x \in Emails : x \in Recording' <=> x \in Recording
      BY <2>3, <2>4 DEF Recording, Mail
    <2>6. status[e] = "sending"
      BY <1>3, <2>1 DEF DeferUnqueued, JobsFollowRows
    <2>7. ASSUME NEW x \in Emails PROVE RowStep(x)
      <3>1. CASE x = e
        BY <2>2, <2>3, <2>5, <2>6, <3>1 DEF RowStep, MovesOn, Moves, TypeOK, RowsType
      <3>2. CASE x # e
        BY <2>2, <2>3, <2>5, <3>2 DEF RowStep, Kept, TypeOK, RowsType
      <3> QED BY <3>1, <3>2
    <2>8. ASSUME NEW w \in Workers
          PROVE  /\ pc'[w] \notin {"idle", "load", "clearError"} => status'[Mail(w)'] = "sending"
                 /\ pc'[w] = "clearError" => status'[Mail(w)'] = "sent"
      BY <2>2, <2>3, <2>4 DEF JobsFollowRows, Mail, TypeOK, RowsType
    <2>9. ASSUME NEW q \in Pollers, ppc'[q] \in {"add", "defer"}
          PROVE  status'[held'[q].email] = "sending"
      <3>1. q # p /\ ppc[q] \in {"add", "defer"} /\ held'[q] = held[q]
        BY <1>3, <2>9 DEF DeferUnqueued, TypeOK, PollingType
      <3>2. held[q].email # e /\ held[q].email \in Emails
        BY <1>3, <2>1, <3>1, HeldIsARow DEF DeferUnqueued, OneHolder
      <3> QED BY <2>2, <3>1, <3>2 DEF JobsFollowRows, TypeOK, RowsType
    <2> QED BY <2>7, <2>8, <2>9 DEF JobsFollowRows
  <1> QED BY <1>1, <1>2, <1>3 DEF PollerStep

(* A bulk edit, the list, a clock or the reaper never reaches a row in     *)
(* hand.                                                                   *)
LEMMA OthersRowSteps ==
  ASSUME LifeInv, UNCHANGED <<pc, job, ppc, held, delivered, unrecorded>>,
         \/ UNCHANGED rows
         \/ \E S : cancelPending(S)
         \/ \E S \in SUBSET Emails : retryMany(S)
         \/ reapStuckClaims
         \/ \E x \in Emails : BecomesDue(x) \/ AbandonedClaimAges(x)
  PROVE  JobsFollowRows' /\ \A e \in Emails : RowStep(e)
  <1>0. TypeOK /\ JobsFollowRows /\ HeldRowsAreClaimed
    BY DEF LifeInv, HolderInv
  <1>1. ASSUME NEW e \in Emails
        PROVE  \/ status'[e] = status[e]
               \/ ~Held(e) /\ <<status[e], status'[e]>> \in Moves
    <2>1. CASE UNCHANGED rows
      BY <2>1 DEF rows
    <2>2. ASSUME NEW S, cancelPending(S)
          PROVE  \/ status'[e] = status[e]
                 \/ ~Held(e) /\ <<status[e], status'[e]>> \in Moves
      BY <1>0, <2>2 DEF HeldRowsAreClaimed, cancelPending, Cancellable, Moves
    <2>3. ASSUME NEW S \in SUBSET Emails, retryMany(S)
          PROVE  \/ status'[e] = status[e]
                 \/ ~Held(e) /\ <<status[e], status'[e]>> \in Moves
      BY <1>0, <2>3 DEF HeldRowsAreClaimed, retryMany, Retryable, Moves
    <2>4. CASE reapStuckClaims
      BY <1>0, <2>4 DEF HeldRowsAreClaimed, reapStuckClaims, Stuck, Moves
    <2>5. ASSUME NEW x \in Emails, BecomesDue(x) \/ AbandonedClaimAges(x)
          PROVE  status'[e] = status[e]
      BY <2>5 DEF BecomesDue, AbandonedClaimAges, Ages
    <2> QED BY <2>1, <2>2, <2>3, <2>4, <2>5
  <1>2. (\A w \in Workers : WorksOn(w)) /\ (\A p \in Pollers : PollsOn(p))
    BY DEF WorksOn, PollsOn, PHolds
  <1>3. UNCHANGED <<delivered, unrecorded>>
    OBVIOUS
  <1> QED
    BY <1>0, <1>1, <1>2, <1>3, HandsOff

(* A job that goes from one await to the next without writing its row or   *)
(* touching the copies.                                                    *)
LEMMA QuietWorkerSteps ==
  ASSUME LifeInv, NEW w \in Workers,
         \/ TakeJob(w) \/ SkipMoved(w) \/ CheckSuppressed(w) \/ CancelRest(w)
         \/ SlotGranted(w) \/ SlotDenied(w) \/ SendMailRefused(w)
         \/ RecordSendError(w) \/ AddBounce(w) \/ ReleaseSendSlot(w)
         \/ ClearSendError(w)
  PROVE  JobsFollowRows' /\ \A e \in Emails : RowStep(e)
  <1>0. TypeOK /\ JobsFollowRows /\ HeldRowsAreClaimed
    BY DEF LifeInv, HolderInv
  <1>1. UNCHANGED <<delivered, unrecorded, ppc, held>>
    BY DEF TakeJob, SkipMoved, CheckSuppressed, CancelRest, SlotGranted, SlotDenied,
           SendMailRefused, RecordSendError, AddBounce, ReleaseSendSlot,
           ClearSendError, outside, notWorking, polling
  <1>2. ASSUME NEW e \in Emails
        PROVE  \/ status'[e] = status[e]
               \/ ~Held(e) /\ <<status[e], status'[e]>> \in Moves
    <2>1. CASE CancelRest(w)
      BY <1>0, <2>1 DEF HeldRowsAreClaimed, CancelRest, cancelPendingForRecipient,
                        cancelPending, Cancellable, Moves
    <2>2. CASE ~CancelRest(w)
      BY <2>2 DEF TakeJob, SkipMoved, CheckSuppressed, SlotGranted, SlotDenied,
           SendMailRefused, RecordSendError, AddBounce, ReleaseSendSlot,
           ClearSendError, rows
    <2> QED BY <2>1, <2>2
  <1>3. \A v \in Workers \ {w} : pc'[v] = pc[v] /\ job'[v] = job[v]
    BY <1>0 DEF TakeJob, SkipMoved, CheckSuppressed, CancelRest, SlotGranted,
           SlotDenied, SendMailRefused, RecordSendError, AddBounce,
           ReleaseSendSlot, ClearSendError, Goto, Leave, TypeOK, WorkingType
  <1>4. WorksOn(w)
    <2> USE <1>0 DEF WorksOn, AtWork, Goto, TypeOK, WorkingType
    <2>1. CASE TakeJob(w) \/ SkipMoved(w) \/ ClearSendError(w)
      BY <2>1 DEF TakeJob, SkipMoved, ClearSendError, Leave
    <2>2. CASE CheckSuppressed(w) \/ CancelRest(w) \/ SlotGranted(w) \/ SlotDenied(w)
      BY <2>2 DEF CheckSuppressed, CancelRest, SlotGranted, SlotDenied
    <2>3. CASE SendMailRefused(w) \/ AddBounce(w) \/ ReleaseSendSlot(w)
      BY <2>3 DEF SendMailRefused, AddBounce, ReleaseSendSlot
    <2>4. CASE RecordSendError(w)
      BY <2>4 DEF RecordSendError, AfterRecordError
    <2> QED BY <2>1, <2>2, <2>3, <2>4
  <1>5. (\A v \in Workers : WorksOn(v)) /\ (\A p \in Pollers : PollsOn(p))
    BY <1>1, <1>3, <1>4 DEF WorksOn, PollsOn, PHolds
  <1> QED BY <1>0, <1>1, <1>2, <1>5, HandsOff

(* Of two jobs at work, and of a job and a poller, each has a row of its   *)
(* own.                                                                    *)
LEMMA OtherHands ==
  ASSUME LifeInv, NEW w \in Workers, pc[w] # "idle"
  PROVE  /\ \A v \in Workers \ {w} : pc[v] # "idle" => Mail(v) # Mail(w)
         /\ \A p \in Pollers : PHolds(p) => held[p].email # Mail(w)
  BY DEF LifeInv, HolderInv, OneHolder, Mail, PHolds

(* A job in a step that may write its own row, and no other: what the rest *)
(* have in hand stays as it is.                                            *)
LEMMA OwnRow ==
  ASSUME LifeInv, NEW w \in Workers, pc[w] # "idle",
         UNCHANGED <<ppc, held>>,
         \A v \in Workers \ {w} : pc'[v] = pc[v] /\ job'[v] = job[v],
         \A e \in Emails : e # Mail(w) =>
            /\ status'[e] = status[e]
            /\ delivered'[e] = delivered[e] /\ unrecorded'[e] = unrecorded[e],
         pc'[w] # "idle" => job'[w] = job[w],
         pc'[w] \notin {"idle", "load", "clearError"} => status'[Mail(w)] = "sending",
         pc'[w] = "clearError" => status'[Mail(w)] = "sent"
  PROVE  /\ JobsFollowRows'
         /\ \A e \in Emails : e # Mail(w) => RowStep(e)
         /\ Mail(w) \in Recording <=> pc[w] = "markSent"
         /\ Mail(w) \in Recording' <=> pc'[w] = "markSent"
  <1>0. TypeOK /\ JobsFollowRows
    BY DEF LifeInv, HolderInv
  <1>1. ASSUME NEW v \in Workers, v # w, pc[v] # "idle"
        PROVE  /\ Mail(v) # Mail(w) /\ Mail(v) \in Emails
               /\ Mail(v)' = Mail(v) /\ status'[Mail(v)] = status[Mail(v)]
    <2>1. Mail(v) # Mail(w) /\ Mail(v) \in Emails
      BY <1>0, <1>1, OtherHands, MailIsARow
    <2>2. job'[v] = job[v]
      BY <1>1
    <2> QED BY <2>1, <2>2 DEF Mail
  <1>2. ASSUME NEW v \in Workers
        PROVE  /\ pc'[v] \notin {"idle", "load", "clearError"} => status'[Mail(v)'] = "sending"
               /\ pc'[v] = "clearError" => status'[Mail(v)'] = "sent"
    <2>1. CASE v = w
      BY <2>1 DEF Mail
    <2>2. CASE v # w
      BY <1>0, <1>1, <2>2 DEF JobsFollowRows
    <2> QED BY <2>1, <2>2
  <1>3. ASSUME NEW p \in Pollers, ppc'[p] \in {"add", "defer"}
        PROVE  status'[held'[p].email] = "sending"
    <2>1. held[p].email # Mail(w) /\ held[p].email \in Emails
      BY <1>0, <1>3, OtherHands, HeldIsARow DEF PHolds
    <2> QED BY <1>0, <1>3, <2>1 DEF JobsFollowRows
  <1>4. ASSUME NEW e \in Emails, e # Mail(w)
        PROVE  e \in Recording' <=> e \in Recording
    BY <1>1, <1>4 DEF Recording, Mail
  <1>5. Mail(w) \in Recording <=> pc[w] = "markSent"
    BY <1>1 DEF Recording
  <1>6. Mail(w) \in Recording' <=> pc'[w] = "markSent"
    BY <1>1 DEF Recording, Mail
  <1>7. ASSUME NEW e \in Emails, e # Mail(w) PROVE RowStep(e)
    BY <1>4, <1>7 DEF RowStep, Kept
  <1> QED BY <1>2, <1>3, <1>5, <1>6, <1>7 DEF JobsFollowRows

(* A job that takes up its row, puts it down, mails it, records it or      *)
(* dies with it.                                                           *)
LEMMA BusyWorkerSteps ==
  ASSUME LifeInv, NEW w \in Workers,
         \/ Load(w) \/ FailNow(w) \/ DeferThrottled(w) \/ RetryOrGiveUp(w)
         \/ SendMail(w) \/ SendMailReplyLost(w) \/ MarkSent(w) \/ WorkerCrashes(w)
  PROVE  JobsFollowRows' /\ \A e \in Emails : RowStep(e)
  <1>0. TypeOK /\ JobsFollowRows
    BY DEF LifeInv, HolderInv
  <1>1. pc[w] # "idle" /\ UNCHANGED <<ppc, held>>
    BY DEF Load, FailNow, DeferThrottled, RetryOrGiveUp, SendMail, SendMailReplyLost,
           MarkSent, WorkerCrashes, Goto, notWorking, polling
  <1>2. PICK m \in Emails : m = Mail(w)
    BY <1>0, <1>1, MailIsARow
  <1>3. \A v \in Workers \ {w} : pc'[v] = pc[v] /\ job'[v] = job[v]
    BY <1>0 DEF Load, FailNow, DeferThrottled, RetryOrGiveUp, SendMail,
           SendMailReplyLost, MarkSent, WorkerCrashes, Goto, Leave, TypeOK, WorkingType
  <1> DEFINE Others == \A e \in Emails : e # m =>
               /\ status'[e] = status[e]
               /\ delivered'[e] = delivered[e] /\ unrecorded'[e] = unrecorded[e]
             Own == /\ pc'[w] # "idle" => job'[w] = job[w]
                    /\ pc'[w] \notin {"idle", "load", "clearError"} => status'[m] = "sending"
                    /\ pc'[w] = "clearError" => status'[m] = "sent"
             Rec == /\ m \in Recording <=> pc[w] = "markSent"
                    /\ m \in Recording' <=> pc'[w] = "markSent"
  <1>4. SUFFICES Others /\ Own /\ (Rec => RowStep(m))
    <2>1. ASSUME Others, Own PROVE Rec /\ JobsFollowRows' /\ \A e \in Emails : e # m => RowStep(e)
      BY <1>1, <1>2, <1>3, <2>1, OwnRow
    <2> QED BY <2>1
  <1>5. pc[w] \notin {"idle", "load", "clearError"} => status[m] = "sending"
    BY <1>0, <1>2 DEF JobsFollowRows
  <1>6. CASE Load(w)
    <2>1. pc[w] = "load" /\ pc'[w] = "check" /\ job' = job /\ status[m] = "sending"
      BY <1>0, <1>2, <1>6 DEF Load, Goto, StillClaimed, TypeOK, WorkingType
    <2>2. status' = status /\ delivered' = delivered /\ unrecorded' = unrecorded
      BY <1>6 DEF Load, rows, outside
    <2> QED BY <2>1, <2>2 DEF RowStep, Kept
  <1>7. CASE FailNow(w) \/ DeferThrottled(w) \/ RetryOrGiveUp(w)
    <2>1. pc[w] \notin {"idle", "load", "clearError", "markSent"} /\ pc'[w] = "idle"
      BY <1>0, <1>7 DEF FailNow, DeferThrottled, RetryOrGiveUp, Leave, TypeOK, WorkingType
    <2>2. \/ status' = [status EXCEPT ![m] = "failed"]
          \/ status' = [status EXCEPT ![m] = "pending"]
      BY <1>2, <1>7 DEF FailNow, DeferThrottled, RetryOrGiveUp, markFailed, deferTo
    <2>3. delivered' = delivered /\ unrecorded' = unrecorded
      BY <1>7 DEF FailNow, DeferThrottled, RetryOrGiveUp, outside
    <2>4. Others /\ status'[m] \in {"failed", "pending"}
      BY <1>0, <2>2, <2>3 DEF TypeOK, RowsType
    <2> QED BY <1>5, <2>1, <2>3, <2>4 DEF RowStep, MovesOn, Moves
  <1>8. CASE SendMail(w) \/ SendMailReplyLost(w)
    <2>1. pc[w] = "send" /\ job' = job /\ status' = status
      BY <1>8 DEF SendMail, SendMailReplyLost, Goto, rows
    <2>2. delivered' = [delivered EXCEPT ![m] = @ + 1]
      BY <1>2, <1>8 DEF SendMail, SendMailReplyLost, Accepted
    <2>3. \/ pc'[w] = "markSent" /\ unrecorded' = unrecorded
          \/ pc'[w] = "recordError" /\ unrecorded' = [unrecorded EXCEPT ![m] = @ + 1]
      BY <1>0, <1>2, <1>8 DEF SendMail, SendMailReplyLost, Goto, TypeOK, WorkingType
    <2> QED BY <1>0, <1>5, <2>1, <2>2, <2>3 DEF RowStep, CopyLeaves, TypeOK, CountersType
  <1>9. CASE MarkSent(w)
    <2>1. pc[w] = "markSent" /\ pc'[w] = "clearError" /\ job' = job
      BY <1>0, <1>9 DEF MarkSent, Goto, TypeOK, WorkingType
    <2>2. status' = [status EXCEPT ![m] = "sent"]
      BY <1>2, <1>9 DEF MarkSent, markSent
    <2>3. delivered' = delivered /\ unrecorded' = unrecorded
      BY <1>9 DEF MarkSent, outside
    <2> QED BY <1>0, <1>5, <2>1, <2>2, <2>3 DEF RowStep, GetsRecorded, TypeOK, RowsType
  <1>10. CASE WorkerCrashes(w)
    <2>1. pc'[w] = "idle" /\ status' = status /\ delivered' = delivered
      BY <1>0, <1>10 DEF WorkerCrashes, Leave, rows, TypeOK, WorkingType
    <2>2. unrecorded' = [unrecorded EXCEPT ![m] = IF pc[w] = "markSent" THEN @ + 1 ELSE @]
      BY <1>2, <1>10 DEF WorkerCrashes, LosesRecord
    <2> QED BY <1>0, <1>5, <2>1, <2>2 DEF RowStep, Kept, RecordIsLost, TypeOK, CountersType
  <1> QED BY <1>6, <1>7, <1>8, <1>9, <1>10

(* At first no copy has left and nobody has a row in hand.                 *)
LEMMA InitLifeInv == Init => LifeInv
  <1> SUFFICES ASSUME Init PROVE LifeInv
    OBVIOUS
  <1>1. JobsFollowRows
    BY DEF Init, JobsFollowRows
  <1>2. CopiesAreAccounted
    BY DEF Init, CopiesAreAccounted, Recording
  <1> QED BY <1>1, <1>2, InitHolderInv DEF LifeInv

(* No step of the pipeline moves a row otherwise than as above.            *)
LEMMA NextRowSteps ==
  ASSUME Recorded, LifeInv, [Next]_vars
  PROVE  JobsFollowRows' /\ \A e \in Emails : RowStep(e)
  <1> DEFINE Goal == JobsFollowRows' /\ \A e \in Emails : RowStep(e)
  <1>1. CASE reapStuckClaims \/ \E e \in Emails : BecomesDue(e) \/ AbandonedClaimAges(e)
    <2>1. UNCHANGED <<pc, job, ppc, held, delivered, unrecorded>>
      BY <1>1 DEF reapStuckClaims, BecomesDue, AbandonedClaimAges, Ages, polling,
                  notPolling, working, outside
    <2> QED BY <1>1, <2>1, OthersRowSteps
  <1>2. ASSUME NEW p \in Pollers,
               PollerStep(p) \/ EnqueueFails(p) \/ TickBreaks(p) \/ Shutdown(p)
        PROVE  Goal
    BY <1>2, PollerRowSteps
  <1>3. ASSUME NEW w \in Workers,
               \/ WorkerStep(w)
               \/ SlotDenied(w) \/ SendMailReplyLost(w) \/ BookkeepingFails(w)
               \/ JobFails(w) \/ WorkerCrashes(w)
        PROVE  Goal
    <2>1. ~BookkeepingFails(w) /\ ~JobFails(w)
      BY DEF BookkeepingFails, JobFails, Event, Recorded
    <2> QED BY <1>3, <2>1, QuietWorkerSteps, BusyWorkerSteps DEF WorkerStep
  <1>4. \A e \in Emails : ~LiveClaimAges(e)
    BY DEF LiveClaimAges, Event, Recorded, Undisturbed
  <1>5. CASE RequestStep
    <2>1. op = {} /\ ~\E e \in Emails, kind \in {"cancel", "reschedule", "retry"} :
                       EditRead(kind, e)
      BY DEF EditRead, Request, Recorded, Undisturbed, LifeInv, HolderInv
    <2>2. UNCHANGED <<pc, job, ppc, held, delivered, unrecorded>>
      BY <1>5, <2>1 DEF RequestStep, cancelMany, retryMany, Unsubscribe,
           UnsubscribeCancels, Suppress, Unsuppress, notRequests, polling,
           working, outside
    <2>3. \/ UNCHANGED rows
          \/ \E S : cancelPending(S)
          \/ \E S \in SUBSET Emails : retryMany(S)
      BY <1>5, <2>1 DEF RequestStep, cancelMany, Unsubscribe, UnsubscribeCancels,
           cancelPendingForRecipient, Suppress, Unsuppress
    <2> QED BY <2>2, <2>3, OthersRowSteps
  <1>6. CASE UNCHANGED vars
    <2>1. UNCHANGED <<pc, job, ppc, held, delivered, unrecorded>> /\ UNCHANGED rows
      BY <1>6 DEF vars, polling, working, outside
    <2> QED BY <2>1, OthersRowSteps
  <1>7. CASE Disturbance
    BY <1>2, <1>3, <1>4, <1>7 DEF Disturbance
  <1> QED BY <1>1, <1>2, <1>3, <1>5, <1>6, <1>7 DEF Next

(* So every step keeps the jobs with their rows and the account of copies. *)
LEMMA NextLifeInv ==
  ASSUME Recorded
  PROVE  LifeInv /\ [Next]_vars => LifeInv'
  <1> SUFFICES ASSUME LifeInv, [Next]_vars PROVE LifeInv'
    OBVIOUS
  <1>1. HolderInv'
    BY NextHolderInv DEF Recorded, LifeInv
  <1>2. JobsFollowRows' /\ \A e \in Emails : RowStep(e)
    BY NextRowSteps
  <1>3. CopiesAreAccounted'
    BY <1>1, <1>2, RowStepsKeepAccounts DEF LifeInv, HolderInv
  <1> QED BY <1>1, <1>2, <1>3 DEF LifeInv

-----------------------------------------------------------------------------
(* If no claim outlives the reaper's timeout, no enqueue is ambiguous,     *)
(* nobody edits a single row and no statement of the bookkeeping fails,    *)
(* the pipeline implements the life of a message, however many rows,       *)
(* processes and workers there are and whatever else crashes, fails, is    *)
(* cancelled or retried: no copy leaves while an earlier one may still be  *)
(* recorded, and no row leaves `sending` with a copy about to be recorded. *)
THEOREM PipelineImplementsLifecycle ==
  ASSUME Recorded
  PROVE  Spec => ImplementsLifecycle
  <1>1. Init => Life!LifeInit
    BY DEF Init, Life!LifeInit, Stage
  <1>2. LifeInv /\ [Next]_vars => [Life!LifeNext]_(Life!lifecycle)
    <2> SUFFICES ASSUME LifeInv, [Next]_vars PROVE Life!LifeNext
      OBVIOUS
    <2>1. \A e \in Emails : Life!LifeStep(e)
      BY NextRowSteps, RowStepsAreLifeSteps DEF LifeInv, HolderInv
    <2> QED BY <2>1 DEF Life!LifeNext
  <1> QED BY <1>1, <1>2, InitLifeInv, NextLifeInv, PTL
          DEF Spec, ImplementsLifecycle, Life!LifeSpec

(* Under the same conditions a recipient gets a message twice only if an   *)
(* acceptance was lost before it could be recorded, and every loss costs   *)
(* at most one copy.                                                       *)
THEOREM DuplicatesHaveLostRecords ==
  ASSUME Recorded
  PROVE  Spec => []DuplicatesAreLostRecords
  <1>1. LifeInv => DuplicatesAreLostRecords
    <2> SUFFICES ASSUME LifeInv, NEW e \in Emails
                 PROVE  delivered[e] <= 1 + unrecorded[e]
      BY DEF DuplicatesAreLostRecords
    <2>1. delivered[e] \in Nat /\ unrecorded[e] \in Nat
      BY DEF LifeInv, HolderInv, TypeOK, CountersType
    <2>2. delivered[e] = unrecorded[e]
            + (IF status[e] = "sent" \/ e \in Recording THEN 1 ELSE 0)
      BY DEF LifeInv, CopiesAreAccounted
    <2> QED BY <2>1, <2>2
  <1> QED BY <1>1, InitLifeInv, NextLifeInv, PTL DEF Spec

-----------------------------------------------------------------------------
(* Retries                                                                 *)
(*                                                                         *)
(* A job counts from the attempts it read when it began; while the row is  *)
(* in its hands nobody else counts, so the number it read is still the     *)
(* row's when it gives up or defers.                                       *)

Queued(e) == status[e] \in {"pending", "sending"}

JobsCountFromTheRow ==
  \A w \in Workers : AtWork(pc[w]) => seen[w] = attempts[Mail(w)]

RetriesInv == QueuedRowsHaveRetriesLeft /\ JobsCountFromTheRow

(* A step that counts nothing, queues no row that was settled and hands no *)
(* job a row.                                                              *)
LEMMA AttemptsKept ==
  ASSUME TypeOK, RetriesInv, UNCHANGED attempts,
         \A e \in Emails : Queued(e)' => Queued(e),
         \A w \in Workers : AtWork(pc'[w]) =>
            AtWork(pc[w]) /\ job'[w] = job[w] /\ seen'[w] = seen[w]
  PROVE  RetriesInv'
  BY DEF RetriesInv, QueuedRowsHaveRetriesLeft, JobsCountFromTheRow, Queued, Mail

(* The statements that count nothing. *)
LEMMA UncountedStatements ==
  ASSUME TypeOK,
         \/ UNCHANGED rows
         \/ \E p \in Pollers : claimNextDue(p)
         \/ \E S : cancelPending(S)
         \/ reapStuckClaims
         \/ \E e \in Emails : \/ BecomesDue(e) \/ Ages(e)
                              \/ status[e] = "sending" /\ deferTo(e, FALSE)
  PROVE  UNCHANGED attempts /\ \A e \in Emails : Queued(e)' => Queued(e)
  <1> USE DEF TypeOK, RowsType, Queued
  <1>1. CASE UNCHANGED rows
    BY <1>1 DEF rows
  <1>2. CASE \E p \in Pollers : claimNextDue(p)
    BY <1>2 DEF claimNextDue, Claimable
  <1>3. CASE \E S : cancelPending(S)
    BY <1>3 DEF cancelPending
  <1>4. CASE reapStuckClaims
    BY <1>4 DEF reapStuckClaims, Stuck
  <1>5. ASSUME NEW e \in Emails, BecomesDue(e) \/ Ages(e)
        PROVE  UNCHANGED attempts /\ \A x \in Emails : Queued(x)' => Queued(x)
    BY <1>5 DEF BecomesDue, Ages
  <1>6. ASSUME NEW e \in Emails, status[e] = "sending", deferTo(e, FALSE)
        PROVE  UNCHANGED attempts /\ \A x \in Emails : Queued(x)' => Queued(x)
    <2>1. attempts' = [attempts EXCEPT ![e] = attempts[e]]
      BY <1>6 DEF deferTo, afterDeferral
    <2> QED BY <1>6, <2>1 DEF deferTo
  <1> QED BY <1>1, <1>2, <1>3, <1>4, <1>5, <1>6

(* A job that finishes with its row: the others count from their own rows, *)
(* and the row is settled or, deferred, has a retry left.                  *)
LEMMA FinishingSteps ==
  ASSUME LifeInv, RetriesInv, NEW w \in Workers,
         FailNow(w) \/ MarkSent(w) \/ RetryOrGiveUp(w)
  PROVE  RetriesInv'
  <1>0. TypeOK /\ JobsFollowRows
    BY DEF LifeInv, HolderInv
  <1>1. pc[w] # "idle" /\ pc'[w] \in {"idle", "clearError"}
    BY <1>0 DEF FailNow, MarkSent, RetryOrGiveUp, Leave, Goto, TypeOK, WorkingType
  <1>2. PICK e \in Emails : e = Mail(w)
    BY <1>0, <1>1, MailIsARow
  <1>3. \A v \in Workers \ {w} : pc'[v] = pc[v] /\ job'[v] = job[v] /\ seen'[v] = seen[v]
    BY <1>0 DEF FailNow, MarkSent, RetryOrGiveUp, Leave, Goto, TypeOK, WorkingType
  <1>4. /\ markFailed(e) \/ markSent(e) \/ deferTo(e, TRUE)
        /\ deferTo(e, TRUE) /\ ~markFailed(e) /\ ~markSent(e)
             => pc[w] = "retry" /\ ~GivesUp(seen[w])
    BY <1>2 DEF FailNow, MarkSent, RetryOrGiveUp
  <1>5. \A x \in Emails \ {e} : attempts'[x] = attempts[x] /\ status'[x] = status[x]
    BY <1>0, <1>4 DEF markFailed, markSent, deferTo, TypeOK, RowsType
  <1>6. JobsCountFromTheRow'
    <2> SUFFICES ASSUME NEW v \in Workers, AtWork(pc'[v])
                 PROVE  seen'[v] = attempts'[Mail(v)']
      BY DEF JobsCountFromTheRow
    <2>1. v # w
      BY <1>1 DEF AtWork
    <2>2. AtWork(pc[v]) /\ pc[v] # "idle" /\ Mail(v)' = Mail(v)
      BY <1>3, <2>1 DEF AtWork, Mail
    <2>3. Mail(v) \in Emails \ {e}
      BY <1>0, <1>1, <1>2, <2>1, <2>2, MailIsARow, OtherHands
    <2> QED BY <1>3, <1>5, <2>1, <2>2, <2>3 DEF RetriesInv, JobsCountFromTheRow
  <1>7. QueuedRowsHaveRetriesLeft'
    <2> SUFFICES ASSUME NEW x \in Emails, Queued(x)' PROVE attempts'[x] < MAX_ATTEMPTS
      BY DEF QueuedRowsHaveRetriesLeft, Queued
    <2>1. CASE x # e
      BY <1>5, <2>1 DEF RetriesInv, QueuedRowsHaveRetriesLeft, Queued
    <2>2. CASE x = e
      <3>1. deferTo(e, TRUE) /\ pc[w] = "retry" /\ ~GivesUp(seen[w])
        BY <1>0, <1>4, <2>2 DEF markFailed, markSent, Queued, TypeOK, RowsType
      <3>2. seen[w] = attempts[e] /\ attempts[e] \in Nat
        BY <1>0, <1>2, <3>1 DEF RetriesInv, JobsCountFromTheRow, AtWork, TypeOK, RowsType
      <3>3. attempts'[e] = attempts[e] + 1
        BY <1>0, <3>1 DEF deferTo, afterDeferral, TypeOK, RowsType
      <3> QED BY <2>2, <3>1, <3>2, <3>3, PipelineAssumption DEF GivesUp
    <2> QED BY <2>1, <2>2
  <1> QED BY <1>6, <1>7 DEF RetriesInv

(* The steps of a job. *)
LEMMA WorkerRetries ==
  ASSUME LifeInv, RetriesInv, "db" \notin Env, NEW w \in Workers,
         \/ WorkerStep(w) \/ SlotDenied(w) \/ SendMailReplyLost(w)
         \/ BookkeepingFails(w) \/ JobFails(w) \/ WorkerCrashes(w)
  PROVE  RetriesInv'
  <1>0. TypeOK /\ JobsFollowRows /\ ~BookkeepingFails(w) /\ ~JobFails(w)
    BY DEF LifeInv, HolderInv, BookkeepingFails, JobFails, Event
  <1>1. CASE FailNow(w) \/ MarkSent(w) \/ RetryOrGiveUp(w)
    BY <1>1, FinishingSteps
  <1>2. CASE Load(w)
    <2>1. UNCHANGED <<attempts, status, job>> /\ pc[w] = "load"
      BY <1>2 DEF Load, Goto, rows
    <2>2. seen' = [seen EXCEPT ![w] = attempts[Mail(w)]] /\ pc' = [pc EXCEPT ![w] = "check"]
      BY <1>2 DEF Load, Goto
    <2> QED BY <1>0, <2>1, <2>2 DEF RetriesInv, QueuedRowsHaveRetriesLeft,
               JobsCountFromTheRow, AtWork, Mail, TypeOK, WorkingType
  <1>3. CASE SkipMoved(w) \/ ClearSendError(w) \/ WorkerCrashes(w) \/ DeferThrottled(w)
    <2>1. Leave(w)
      BY <1>3 DEF SkipMoved, ClearSendError, WorkerCrashes, DeferThrottled
    <2>2. \A v \in Workers : AtWork(pc'[v]) =>
             AtWork(pc[v]) /\ job'[v] = job[v] /\ seen'[v] = seen[v]
      BY <1>0, <2>1 DEF Leave, AtWork, TypeOK, WorkingType
    <2>3. UNCHANGED rows \/ \E e \in Emails : status[e] = "sending" /\ deferTo(e, FALSE)
      <3>1. CASE DeferThrottled(w)
        <4>1. pc[w] = "throttled" /\ Mail(w) \in Emails
          BY <1>0, <3>1, MailIsARow DEF DeferThrottled
        <4> QED BY <1>0, <3>1, <4>1 DEF DeferThrottled, JobsFollowRows
      <3>2. CASE ~DeferThrottled(w)
        BY <1>3, <3>2 DEF SkipMoved, ClearSendError, WorkerCrashes
      <3> QED BY <3>1, <3>2
    <2> QED BY <1>0, <2>2, <2>3, UncountedStatements, AttemptsKept
  <1>4. CASE \/ TakeJob(w) \/ CheckSuppressed(w) \/ CancelRest(w) \/ SlotGranted(w)
             \/ SlotDenied(w) \/ SendMail(w) \/ SendMailReplyLost(w)
             \/ SendMailRefused(w) \/ RecordSendError(w) \/ AddBounce(w)
             \/ ReleaseSendSlot(w)
    <2>1. \A v \in Workers : AtWork(pc'[v]) =>
             AtWork(pc[v]) /\ job'[v] = job[v] /\ seen'[v] = seen[v]
      BY <1>0, <1>4 DEF TakeJob, CheckSuppressed, CancelRest, SlotGranted, SlotDenied,
        SendMail, SendMailReplyLost, SendMailRefused, RecordSendError, AddBounce,
        ReleaseSendSlot, Goto, AtWork, TypeOK, WorkingType
    <2>2. UNCHANGED rows \/ \E S : cancelPending(S)
      BY <1>4 DEF TakeJob, CheckSuppressed, CancelRest, cancelPendingForRecipient,
        SlotGranted, SlotDenied, SendMail, SendMailReplyLost, SendMailRefused,
        RecordSendError, AddBounce, ReleaseSendSlot
    <2> QED BY <1>0, <2>1, <2>2, UncountedStatements, AttemptsKept
  <1> QED BY <1>0, <1>1, <1>2, <1>3, <1>4 DEF WorkerStep

(* A poller counts nothing: a claim it could not enqueue is no attempt.    *)
LEMMA PollerRetries ==
  ASSUME LifeInv, RetriesInv, NEW p \in Pollers,
         PollerStep(p) \/ EnqueueFails(p) \/ TickBreaks(p) \/ Shutdown(p)
  PROVE  RetriesInv'
  <1>0. TypeOK /\ JobsFollowRows
    BY DEF LifeInv, HolderInv
  <1>1. UNCHANGED working
    BY DEF PollerStep, TickStarts, claimNextDue, TickEnds, Enqueue, DeferUnqueued,
           Bootstrap, EnqueueFails, TickBreaks, Shutdown, notPolling
  <1>2. \/ UNCHANGED rows
        \/ claimNextDue(p)
        \/ \E e \in Emails : status[e] = "sending" /\ deferTo(e, FALSE)
    <2>1. CASE DeferUnqueued(p)
      <3>1. held[p].email \in Emails /\ status[held[p].email] = "sending"
        BY <1>0, <2>1, HeldIsARow DEF DeferUnqueued, JobsFollowRows
      <3> QED BY <2>1, <3>1 DEF DeferUnqueued
    <2>2. CASE ~DeferUnqueued(p)
      BY <2>2 DEF PollerStep, TickStarts, TickEnds, Enqueue, Bootstrap, EnqueueFails,
                  TickBreaks, Shutdown
    <2> QED BY <2>1, <2>2
  <1>3. UNCHANGED attempts /\ \A e \in Emails : Queued(e)' => Queued(e)
    BY <1>0, <1>2, UncountedStatements
  <1> QED BY <1>0, <1>1, <1>3, AttemptsKept DEF working

(* A bulk retry starts a failed row from zero; nobody has it in hand.      *)
LEMMA RetryManyStartsOver ==
  ASSUME LifeInv, RetriesInv, NEW S \in SUBSET Emails, retryMany(S)
  PROVE  RetriesInv'
  <1>0. TypeOK /\ JobsFollowRows /\ UNCHANGED working
    BY DEF LifeInv, HolderInv, retryMany, notRequests
  <1>1. \A e \in Emails :
          \/ attempts'[e] = attempts[e] /\ (Queued(e)' => Queued(e)) /\ status'[e] = status[e]
          \/ attempts'[e] = 0 /\ status[e] = "failed"
    BY DEF retryMany, Retryable, Queued
  <1>2. ASSUME NEW w \in Workers, AtWork(pc[w])
        PROVE  Mail(w) \in Emails /\ status[Mail(w)] = "sending"
    BY <1>0, <1>2, MailIsARow DEF AtWork, JobsFollowRows
  <1>3. JobsCountFromTheRow'
    BY <1>0, <1>1, <1>2 DEF RetriesInv, JobsCountFromTheRow, working, Mail
  <1> QED BY <1>1, <1>3, PipelineAssumption
          DEF RetriesInv, QueuedRowsHaveRetriesLeft, Queued

LEMMA NextRetriesInv ==
  ASSUME Recorded
  PROVE  LifeInv /\ RetriesInv /\ [Next]_vars => RetriesInv'
  <1> SUFFICES ASSUME LifeInv, RetriesInv, [Next]_vars PROVE RetriesInv'
    OBVIOUS
  <1>0. TypeOK /\ op = {} /\ "db" \notin Env
    BY DEF LifeInv, HolderInv, Recorded
  <1>1. ASSUME UNCHANGED <<working, attempts>>, \A e \in Emails : Queued(e)' => Queued(e)
        PROVE  RetriesInv'
    BY <1>0, <1>1, AttemptsKept DEF working
  <1>2. CASE \/ reapStuckClaims
             \/ \E e \in Emails : \/ BecomesDue(e) \/ AbandonedClaimAges(e)
                                  \/ LiveClaimAges(e)
    <2>1. UNCHANGED working
      BY <1>2 DEF reapStuckClaims, BecomesDue, AbandonedClaimAges, LiveClaimAges, Ages,
                  notPolling
    <2> QED BY <1>0, <1>1, <1>2, <2>1, UncountedStatements
            DEF AbandonedClaimAges, LiveClaimAges
  <1>3. CASE \E p \in Pollers : \/ PollerStep(p) \/ EnqueueFails(p)
                                \/ TickBreaks(p) \/ Shutdown(p)
    BY <1>3, PollerRetries
  <1>4. CASE \E w \in Workers :
               \/ WorkerStep(w) \/ SlotDenied(w) \/ SendMailReplyLost(w)
               \/ BookkeepingFails(w) \/ JobFails(w) \/ WorkerCrashes(w)
    BY <1>0, <1>4, WorkerRetries
  <1>5. CASE RequestStep
    <2>1. CASE \E S \in SUBSET Emails : retryMany(S)
      BY <2>1, RetryManyStartsOver
    <2>2. CASE ~\E S \in SUBSET Emails : retryMany(S)
      <3>1. UNCHANGED working
        BY <1>5 DEF RequestStep, EditRead, EditWrite, cancelMany, retryMany,
          Unsubscribe, UnsubscribeCancels, Suppress, Unsuppress, notRequests
      <3>2. UNCHANGED rows \/ \E S : cancelPending(S)
        BY <1>0, <1>5, <2>2 DEF RequestStep, EditRead, cancelMany, Unsubscribe,
          UnsubscribeCancels, cancelPendingForRecipient, Suppress, Unsuppress
      <3> QED BY <1>0, <1>1, <3>1, <3>2, UncountedStatements
    <2> QED BY <2>1, <2>2
  <1>6. CASE UNCHANGED vars
    BY <1>1, <1>6 DEF vars, rows, Queued
  <1> QED BY <1>2, <1>3, <1>4, <1>5, <1>6 DEF Next, Disturbance

(* Under the same conditions a row that waits or is being sent always has  *)
(* a retry left: the row is failed at MAX_ATTEMPTS and not one later,      *)
(* although the job compares the number it read before the send            *)
(* (send.processor.ts, handleFailure).                                     *)
THEOREM RetriesEndInTime ==
  ASSUME Recorded
  PROVE  Spec => []QueuedRowsHaveRetriesLeft
  <1>1. Init => RetriesInv
    BY PipelineAssumption
    DEF Init, RetriesInv, QueuedRowsHaveRetriesLeft, JobsCountFromTheRow, AtWork
  <1>2. RetriesInv => QueuedRowsHaveRetriesLeft
    BY DEF RetriesInv
  <1> QED BY <1>1, <1>2, InitLifeInv, NextLifeInv, NextRetriesInv, PTL DEF Spec
=============================================================================
