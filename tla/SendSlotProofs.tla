--------------------------- MODULE SendSlotProofs ---------------------------
(***************************************************************************)
(* Theorems about SendSlot, for any number of workers, any limits and gaps *)
(* and any calendar whose send days only move forward; and, last, about    *)
(* Calendar, for every instant and every zone whose clocks are moved by at *)
(* most an hour, which justifies what SendSlot assumes of its calendar.    *)
(***************************************************************************)
EXTENDS SendSlot, Calendar, FiniteSetTheorems, TLAPS

-----------------------------------------------------------------------------
(* Type correctness *)

(* What the assumptions on the constants come to.                          *)
LEMMA ConstantFacts ==
  /\ Null \notin Nat /\ Limits \subseteq Nat \ {0} /\ Gaps \subseteq Nat
  /\ Times \subseteq Nat /\ 0 \in Times
  /\ Days \subseteq Nat /\ \A t \in Times : LocalDate[t] \in Days
  BY SlotAssumption DEF Times, Days

(* A new account has the types.                                            *)
LEMMA InitTypeOK == Init => TypeOK
  BY SlotAssumption, ConstantFacts DEF Init, TypeOK, Rows, Calls, Idle

(* Which of the four shapes a claimer's locals have.                       *)
LEMMA CallShapes ==
  ASSUME TypeOK, NEW c \in Claimers
  PROVE  /\ call[c].pc = "clock" => call[c].read \in Rows
         /\ call[c].pc = "update" => call[c].read \in Rows /\ call[c].at \in Times
         /\ call[c].pc = "sending" => call[c].day \in Days
         /\ call[c].pc = "refused" => call[c].until \in Nat
  BY DEF TypeOK, Calls

(* The constructors build what Calls holds.                                *)
LEMMA ShapesAreCalls ==
  /\ Idle \in Calls
  /\ \A r \in Rows : Clock(r) \in Calls
  /\ \A r \in Rows, t \in Times : Update(r, t) \in Calls
  /\ \A d \in Days : Sending(d) \in Calls
  /\ \A t \in Nat : Refused(t) \in Calls
  BY DEF Idle, Clock, Update, Sending, Refused, Calls

(* A granted claim (the UPDATE of claimSendSlot) keeps the types.          *)
LEMMA ClaimType ==
  ASSUME TypeOK, NEW c \in Claimers, claimSendSlot(c)
  PROVE  TypeOK'
  <1>1. call[c].at \in Times /\ LocalDate[call[c].at] \in Days
    BY CallShapes, ConstantFacts DEF claimSendSlot
  <1>2. Counted(row, LocalDate[call[c].at]) \in Nat
    BY DEF Counted, TypeOK, Rows
  <1>3. row' \in Rows
    BY <1>1, <1>2 DEF claimSendSlot, TypeOK, Rows
  <1>4. call' \in [Claimers -> Calls]
    BY <1>1, ShapesAreCalls DEF claimSendSlot, TypeOK
  <1>5. used' \in [Days -> Int]
    BY <1>1 DEF claimSendSlot, TypeOK
  <1> QED BY <1>1, <1>3, <1>4, <1>5 DEF claimSendSlot, TypeOK, editing

(* What is left of the gap is a duration, and the gap has passed after it. *)
LEMMA RemainingGap ==
  ASSUME NEW r \in Rows, NEW t \in Times
  PROVE  /\ Remaining(r, t) \in Nat
         /\ r.lastSentAt # Null => t + Remaining(r, t) >= r.lastSentAt + r.minGap
  <1>1. /\ t \in Nat /\ r.minGap \in Nat
        /\ r.lastSentAt # Null => r.lastSentAt \in Nat
    BY ConstantFacts DEF Rows
  <1>2. CASE r.lastSentAt = Null \/ t - r.lastSentAt >= r.minGap
    BY <1>1, <1>2 DEF Remaining
  <1>3. CASE ~(r.lastSentAt = Null \/ t - r.lastSentAt >= r.minGap)
    <2>1. Remaining(r, t) = r.minGap - (t - r.lastSentAt)
      BY <1>3 DEF Remaining
    <2> QED BY <1>1, <1>3, <2>1
  <1> QED BY <1>2, <1>3

(* The retry time of either gate is later than the claim, and past a gap   *)
(* that was seen closed (claimSendSlot, nextGapOpening).                   *)
LEMMA RetryTimes ==
  ASSUME NEW r \in Rows, NEW t \in Times, NEW u \in retryAt(r, t)
  PROVE  /\ u \in Nat /\ u > t
         /\ r.lastSentAt # Null /\ ~AtLimit(r, LocalDate[t])
              => r.lastSentAt + r.minGap <= u
  <1>1. CASE AtLimit(r, LocalDate[t])
    BY <1>1, SlotAssumption DEF retryAt
  <1>2. CASE ~AtLimit(r, LocalDate[t])
    <2>1. PICK jitter \in 0..(r.minGap \div 4) : u = t + Remaining(r, t) + jitter + 1
      BY <1>2 DEF retryAt, nextGapOpening
    <2>2. jitter \in Nat /\ t \in Nat /\ Remaining(r, t) \in Nat
      BY RemainingGap, ConstantFacts
    <2>3. u \in Nat /\ u > t /\ u >= t + Remaining(r, t)
      BY <2>1, <2>2
    <2>4. r.lastSentAt # Null => r.lastSentAt \in Nat /\ r.minGap \in Nat
      BY ConstantFacts DEF Rows
    <2> QED BY <2>2, <2>3, <2>4, RemainingGap
  <1> QED BY <1>1, <1>2

(* Every step of a claimer keeps the types.                                *)
LEMMA ClaimerStepType ==
  ASSUME TypeOK, NEW c \in Claimers, ClaimerStep(c)
  PROVE  TypeOK'
  <1> USE CallShapes, ShapesAreCalls, ConstantFacts DEF TypeOK, editing, history
  <1>1. CASE ReadAccount(c)
    BY <1>1 DEF ReadAccount
  <1>8. CASE TakeTime(c)
    BY <1>8 DEF TakeTime
  <1>2. CASE RefuseInactive(c)
    <2>1. now \in Nat
      OBVIOUS
    <2>2. Refused(now + Hour) \in Calls
      BY <2>1, SlotAssumption
    <2> QED BY <1>2, <2>2 DEF RefuseInactive
  <1>3. CASE claimSendSlot(c)
    BY <1>3, ClaimType
  <1>4. CASE RefuseGated(c)
    <2>1. PICK u \in retryAt(call[c].read, call[c].at) :
            call' = [call EXCEPT ![c] = Refused(u)]
      BY <1>4 DEF RefuseGated
    <2>2. Refused(u) \in Calls
      BY <1>4, RetryTimes DEF RefuseGated
    <2> QED BY <1>4, <2>1, <2>2 DEF RefuseGated
  <1>5. CASE Retry(c)
    BY <1>5 DEF Retry
  <1>6. CASE Spend(c)
    BY <1>6 DEF Spend
  <1>7. CASE releaseSendSlot(c)
    <2>1. row' \in Rows
      BY <1>7 DEF releaseSendSlot, Released, Rows
    <2>2. call' \in [Claimers -> Calls]
      BY <1>7 DEF releaseSendSlot
    <2>3. used' \in [Days -> Int]
      BY <1>7 DEF releaseSendSlot
    <2>4. strayed' \in [Days -> Nat]
      BY <1>7 DEF releaseSendSlot
    <2> QED BY <1>7, <2>1, <2>2, <2>3, <2>4 DEF releaseSendSlot
  <1> QED BY <1>1, <1>2, <1>3, <1>4, <1>5, <1>6, <1>7, <1>8 DEF ClaimerStep

(* So does every step.                                                     *)
LEMMA NextTypeOK == TypeOK /\ [Next]_vars => TypeOK'
  <1> SUFFICES ASSUME TypeOK, [Next]_vars PROVE TypeOK'
    OBVIOUS
  <1> USE DEF TypeOK, editing, history
  <1>1. CASE Tick
    BY <1>1, SlotAssumption DEF Tick, Times
  <1>2. ASSUME NEW c \in Claimers, ClaimerStep(c) PROVE TypeOK'
    BY <1>2, ClaimerStepType
  <1>3. CASE OpenForm
    BY <1>3 DEF OpenForm
  <1>4. CASE SaveForm
    <2>1. row' \in Rows
      BY <1>4 DEF SaveForm, Rows
    <2> QED BY <1>4, <2>1 DEF SaveForm
  <1>5. CASE AbandonForm
    BY <1>5 DEF AbandonForm
  <1>6. CASE Remove
    BY <1>6 DEF Remove
  <1>7. CASE UNCHANGED vars
    BY <1>7 DEF vars
  <1> QED BY <1>1, <1>2, <1>3, <1>4, <1>5, <1>6, <1>7 DEF Next

(* Every variable keeps its type: in particular the counter of a mailbox   *)
(* never goes below zero, whatever is given back to it and when.           *)
THEOREM TypeCorrect == Spec => []TypeOK
  BY InitTypeOK, NextTypeOK, PTL DEF Spec

-----------------------------------------------------------------------------
(* Refusals *)

(* A refused message is put off to a later instant, and past the gap that  *)
(* was seen closed: the queue and the gate cannot spin on each other.      *)
THEOREM RefusalsAreDeferred == Spec => RefusalsWait
  <1>1. TypeOK /\ [Next]_vars =>
          [\A c \in Claimers :
             call[c].pc = "update" /\ call'[c].pc = "refused" =>
               LET read == call[c].read IN
               /\ call'[c].until > call[c].at
               /\ read.lastSentAt # Null /\ ~AtLimit(read, LocalDate[call[c].at])
                    => read.lastSentAt + read.minGap <= call'[c].until]_vars
    <2> SUFFICES ASSUME TypeOK, Next, NEW c \in Claimers,
                        call[c].pc = "update", call'[c].pc = "refused"
                 PROVE  LET read == call[c].read IN
                        /\ call'[c].until > call[c].at
                        /\ read.lastSentAt # Null
                             /\ ~AtLimit(read, LocalDate[call[c].at])
                             => read.lastSentAt + read.minGap <= call'[c].until
      OBVIOUS
    <2>0. PICK b \in Claimers : ClaimerStep(b)
      BY DEF Next, Tick, OpenForm, SaveForm, AbandonForm, Remove
    <2>1. RefuseGated(c)
      <3>1. \E x : call' = [call EXCEPT ![b] = x]
        BY <2>0 DEF ClaimerStep, ReadAccount, TakeTime, RefuseInactive, claimSendSlot,
          RefuseGated, Retry, Spend, releaseSendSlot
      <3>2. b = c
        BY <3>1 DEF TypeOK
      <3> QED BY <2>0, <3>2 DEF ClaimerStep, ReadAccount, TakeTime, RefuseInactive,
              claimSendSlot, Retry, Spend, releaseSendSlot, TypeOK, Sending
    <2>2. PICK u \in retryAt(call[c].read, call[c].at) : call'[c] = Refused(u)
      BY <2>1 DEF RefuseGated, TypeOK
    <2> QED BY <2>2, CallShapes, RetryTimes DEF Refused
  <1> QED BY <1>1, InitTypeOK, NextTypeOK, PTL DEF Spec, RefusalsWait

-----------------------------------------------------------------------------
(* The two gates                                                           *)
(*                                                                         *)
(* Why the pacing gate also protects the counter: the UPDATE compares      *)
(* lastSentAt with an instant no later than the claim's own, so a claim    *)
(* granted late, with a day long past, would have to be older than the     *)
(* last one and is refused.  The day the counter names is thus the day of  *)
(* the last grant and only moves forward.                                  *)

NoEditRace == "editRace" \notin Env

(* No later day than the one the counter names has a slot in use. *)
LaterDaysAreUnused ==
  \A d \in Days :
    (row.sentTodayDate # Null => d > row.sentTodayDate) => used[d] = 0

(* A slot in use was counted on a day that has been reached. *)
SlotsAreOfPastDays ==
  \A c \in Claimers :
    call[c].pc = "sending" =>
      row.sentTodayDate # Null /\ call[c].day <= row.sentTodayDate

SlotInv ==
  /\ TypeOK
  /\ lastGrant = row.lastSentAt
  /\ row.sentTodayDate = IF row.lastSentAt = Null THEN Null
                         ELSE LocalDate[row.lastSentAt]
  /\ row.sentTodayDate # Null =>
       used[row.sentTodayDate] <= row.sentToday + strayed[row.sentTodayDate]
  /\ LaterDaysAreUnused
  /\ SlotsAreOfPastDays
  /\ "lateRelease" \notin Env => \A d \in Days : strayed[d] = 0

(* A new account has no slot in use.                                       *)
LEMMA InitSlotInv == Init => SlotInv
  <1> SUFFICES ASSUME Init PROVE SlotInv
    OBVIOUS
  <1>1. TypeOK
    BY InitTypeOK
  <1> QED BY <1>1 DEF Init, SlotInv, LaterDaysAreUnused, SlotsAreOfPastDays, Idle

(* A granted claim is not older than the last one, and its day not earlier.*)
LEMMA GrantedClaimsAdvance ==
  ASSUME SlotInv, NEW c \in Claimers, claimSendSlot(c)
  PROVE  /\ call[c].at \in Times /\ LocalDate[call[c].at] \in Days
         /\ row.lastSentAt # Null =>
              /\ row.lastSentAt + call[c].read.minGap <= call[c].at
              /\ row.sentTodayDate <= LocalDate[call[c].at]
  <1>1. call[c].at \in Times /\ LocalDate[call[c].at] \in Days /\ call[c].read \in Rows
    BY CallShapes, ConstantFacts DEF SlotInv, claimSendSlot
  <1>2. ASSUME row.lastSentAt # Null
        PROVE  /\ row.lastSentAt + call[c].read.minGap <= call[c].at
               /\ row.sentTodayDate <= LocalDate[call[c].at]
    <2>1. row.lastSentAt \in Times /\ call[c].read.minGap \in Nat
      BY <1>1, <1>2, ConstantFacts DEF SlotInv, TypeOK, Rows
    <2>2. row.lastSentAt <= call[c].at - call[c].read.minGap
      BY <1>2 DEF claimSendSlot, GatesOpen, GapGate
    <2>3. /\ row.lastSentAt + call[c].read.minGap <= call[c].at
          /\ row.lastSentAt <= call[c].at
      <3>1. row.lastSentAt \in Nat /\ call[c].at \in Nat
        BY <1>1, <2>1, ConstantFacts
      <3> QED BY <2>1, <2>2, <3>1
    <2>4. LocalDate[row.lastSentAt] <= LocalDate[call[c].at]
      BY <1>1, <2>1, <2>3, SlotAssumption
    <2> QED BY <1>2, <2>3, <2>4 DEF SlotInv
  <1> QED BY <1>1, <1>2

(* What a granted claim does to the counter.                               *)
LEMMA GrantedClaimsCount ==
  ASSUME SlotInv, NEW c \in Claimers, claimSendSlot(c)
  PROVE  LET today == LocalDate[call[c].at] IN
         /\ row'.sentTodayDate = today
         /\ used' = [used EXCEPT ![today] = @ + 1]
         /\ used'[today] <= row'.sentToday + strayed[today]
         /\ used'[today] <= row.dailyLimit + strayed[today]
  <1> DEFINE today == LocalDate[call[c].at]
  <1>1. today \in Days /\ today \in Nat
    BY GrantedClaimsAdvance, ConstantFacts
  <1> HIDE DEF today
  <1>2. /\ row'.sentTodayDate = today
        /\ row'.sentToday = Counted(row, today)
        /\ used' = [used EXCEPT ![today] = @ + 1]
    BY DEF claimSendSlot, today, SlotInv, TypeOK, Rows
  <1>3. /\ used[today] \in Int /\ strayed[today] \in Nat
        /\ used'[today] = used[today] + 1
        /\ row.dailyLimit \in Nat \ {0} /\ row.sentToday \in Nat
    BY <1>1, <1>2, ConstantFacts DEF SlotInv, TypeOK, Rows
  <1>4. CASE row.sentTodayDate = today
    <2>1. row.sentToday < row.dailyLimit
      BY <1>4 DEF claimSendSlot, GatesOpen, DailyGate, today
    <2>2. used[today] <= row.sentToday + strayed[today]
      BY <1>1, <1>4, ConstantFacts DEF SlotInv
    <2>3. row'.sentToday = row.sentToday + 1
      BY <1>2, <1>4 DEF Counted
    <2> QED BY <1>2, <1>3, <2>1, <2>2, <2>3 DEF today
  <1>5. CASE row.sentTodayDate # today
    <2>1. row.sentTodayDate # Null => today > row.sentTodayDate
      <3>1. ASSUME row.sentTodayDate # Null PROVE today > row.sentTodayDate
        <4>1. row.sentTodayDate <= today
          BY <3>1, GrantedClaimsAdvance DEF SlotInv, today
        <4>2. row.sentTodayDate \in Nat
          BY <3>1, ConstantFacts DEF SlotInv, TypeOK, Rows
        <4> QED BY <1>1, <1>5, <4>1, <4>2
      <3> QED BY <3>1
    <2>2. used[today] = 0
      BY <1>1, <2>1 DEF SlotInv, LaterDaysAreUnused
    <2>3. row'.sentToday = 1
      BY <1>2, <1>5 DEF Counted
    <2> QED BY <1>2, <1>3, <2>2, <2>3 DEF today
  <1> QED BY <1>4, <1>5

(* A granted claim keeps the counter an account of the slots in use.       *)
LEMMA ClaimSlotInv ==
  ASSUME SlotInv, NEW c \in Claimers, claimSendSlot(c), TypeOK'
  PROVE  SlotInv'
  <1> DEFINE today == LocalDate[call[c].at]
  <1>1. today \in Days /\ today \in Nat /\ Null \notin Nat /\ Days \subseteq Nat
        /\ Times \subseteq Nat
    BY GrantedClaimsAdvance, ConstantFacts
  <1>2. /\ lastGrant' = row'.lastSentAt
        /\ row'.lastSentAt \in Times /\ LocalDate[row'.lastSentAt] = today
        /\ row'.sentTodayDate = today
    BY GrantedClaimsAdvance DEF claimSendSlot, SlotInv, TypeOK, Rows
  <1>3. /\ used' = [used EXCEPT ![today] = @ + 1]
        /\ used'[today] <= row'.sentToday + strayed[today]
        /\ strayed' = strayed
    BY GrantedClaimsCount DEF claimSendSlot
  <1>4. row.sentTodayDate # Null =>
          row.sentTodayDate \in Nat /\ row.sentTodayDate <= today
    BY GrantedClaimsAdvance, ConstantFacts DEF SlotInv, TypeOK, Rows
  <1>5. call' = [call EXCEPT ![c] = Sending(today)]
    BY DEF claimSendSlot
  <1> HIDE DEF today
  <1>6. LaterDaysAreUnused'
    <2> SUFFICES ASSUME NEW d \in Days, d > today PROVE used'[d] = 0
      BY <1>1, <1>2 DEF LaterDaysAreUnused
    <2>1. d # today /\ (row.sentTodayDate # Null => d > row.sentTodayDate)
      BY <1>1, <1>4
    <2> QED BY <1>3, <2>1 DEF SlotInv, LaterDaysAreUnused, TypeOK
  <1>7. SlotsAreOfPastDays'
    <2> SUFFICES ASSUME NEW b \in Claimers, call'[b].pc = "sending"
                 PROVE  call'[b].day <= today
      BY <1>1, <1>2 DEF SlotsAreOfPastDays
    <2>1. CASE b = c
      BY <1>1, <1>5, <2>1 DEF Sending, SlotInv, TypeOK
    <2>2. CASE b # c
      <3>1. call'[b] = call[b]
        BY <1>5, <2>2 DEF SlotInv, TypeOK
      <3>2. call[b].day \in Nat
        BY <1>1, <3>1, CallShapes DEF SlotInv
      <3>3. row.sentTodayDate # Null /\ call[b].day <= row.sentTodayDate
        BY <3>1 DEF SlotInv, SlotsAreOfPastDays
      <3> QED BY <1>1, <1>4, <3>1, <3>2, <3>3
    <2> QED BY <2>1, <2>2
  <1>8. row'.lastSentAt # Null
    BY <1>1, <1>2
  <1> QED BY <1>2, <1>3, <1>6, <1>7, <1>8 DEF SlotInv

(* So does a slot given back (releaseSendSlot), to whichever day.          *)
LEMMA ReleaseSlotInv ==
  ASSUME SlotInv, NEW c \in Claimers, releaseSendSlot(c), TypeOK'
  PROVE  SlotInv'
  <1> DEFINE day == call[c].day
             date == row.sentTodayDate
  <1>1. day \in Days /\ date \in Days /\ day \in Nat /\ date \in Nat /\ day <= date
    BY CallShapes, ConstantFacts
    DEF releaseSendSlot, SlotInv, SlotsAreOfPastDays, TypeOK, Rows
  <1>2. /\ row'.sentTodayDate = date /\ row'.lastSentAt = row.lastSentAt
        /\ row'.sentToday \in {row.sentToday, Released(row.sentToday)}
    BY DEF releaseSendSlot, SlotInv, TypeOK, Rows
  <1>3. used' = [used EXCEPT ![day] = @ - 1] /\ lastGrant' = lastGrant
    BY DEF releaseSendSlot
  <1>4. call' = [call EXCEPT ![c] = Idle]
    BY DEF releaseSendSlot
  <1>5. \/ day = date /\ strayed' = strayed
        \/ /\ day # date /\ "lateRelease" \in Env
           /\ strayed' = [strayed EXCEPT ![date] = @ + 1]
    BY DEF releaseSendSlot
  <1> HIDE DEF day, date
  <1>6. used'[date] <= row'.sentToday + strayed'[date]
    <2>1. /\ row.sentToday \in Nat /\ row'.sentToday \in Nat
          /\ row'.sentToday >= row.sentToday - 1
      BY <1>2 DEF SlotInv, TypeOK, Rows, Released
    <2>2. /\ used[date] \in Int /\ strayed[date] \in Nat
          /\ used[date] <= row.sentToday + strayed[date]
      BY <1>1, ConstantFacts DEF SlotInv, TypeOK, date
    <2>3. CASE day = date
      <3>1. used'[date] = used[date] - 1 /\ strayed'[date] = strayed[date]
        BY <1>1, <1>3, <1>5, <2>3 DEF SlotInv, TypeOK
      <3> QED BY <2>1, <2>2, <3>1
    <2>4. CASE day # date
      <3>1. used'[date] = used[date] /\ strayed'[date] = strayed[date] + 1
        BY <1>1, <1>3, <1>5, <2>4 DEF SlotInv, TypeOK
      <3> QED BY <2>1, <2>2, <3>1
    <2> QED BY <2>3, <2>4
  <1>7. LaterDaysAreUnused'
    <2> SUFFICES ASSUME NEW d \in Days, d > date PROVE used'[d] = 0
      BY <1>1, <1>2, ConstantFacts DEF LaterDaysAreUnused
    <2>1. d # day /\ used[d] = 0
      BY <1>1, ConstantFacts DEF SlotInv, LaterDaysAreUnused, date
    <2> QED BY <1>3, <2>1 DEF SlotInv, TypeOK
  <1>8. SlotsAreOfPastDays'
    BY <1>2, <1>4 DEF SlotInv, SlotsAreOfPastDays, TypeOK, Idle, date
  <1>9. "lateRelease" \notin Env => \A d \in Days : strayed'[d] = 0
    BY <1>5 DEF SlotInv
  <1> QED BY <1>2, <1>3, <1>6, <1>7, <1>8, <1>9 DEF SlotInv, date

(* What the rest of the invariant reads besides the claimers. *)
Counter == <<row.sentToday, row.sentTodayDate, row.lastSentAt>>

(* Steps that touch neither the counter nor the history, and let no        *)
(* claimer start sending, keep the invariant.                              *)
LEMMA CounterFrame ==
  ASSUME SlotInv, TypeOK', UNCHANGED <<Counter, history>>,
         \A c \in Claimers : call'[c].pc = "sending" => call'[c] = call[c]
  PROVE  SlotInv'
  <1>1. /\ row'.sentToday = row.sentToday
        /\ row'.sentTodayDate = row.sentTodayDate
        /\ row'.lastSentAt = row.lastSentAt
    BY DEF Counter
  <1>2. UNCHANGED <<used, strayed, lastGrant>>
    BY DEF history
  <1>3. LaterDaysAreUnused' /\ SlotsAreOfPastDays'
    BY <1>1, <1>2 DEF SlotInv, LaterDaysAreUnused, SlotsAreOfPastDays
  <1> QED BY <1>1, <1>2, <1>3 DEF SlotInv

(* Without a form submission overlapping a claim, every step keeps the     *)
(* invariant.                                                              *)
LEMMA NextSlotInv ==
  ASSUME NoEditRace
  PROVE  SlotInv /\ [Next]_vars => SlotInv'
  <1> SUFFICES ASSUME SlotInv, [Next]_vars PROVE SlotInv'
    OBVIOUS
  <1>1. TypeOK'
    BY NextTypeOK DEF SlotInv
  <1>2. ASSUME NEW c \in Claimers, claimSendSlot(c) PROVE SlotInv'
    BY <1>1, <1>2, ClaimSlotInv
  <1>3. ASSUME NEW c \in Claimers, releaseSendSlot(c) PROVE SlotInv'
    BY <1>1, <1>3, ReleaseSlotInv
  <1>4. ASSUME NEW c \in Claimers,
               \/ ReadAccount(c) \/ TakeTime(c) \/ RefuseInactive(c) \/ RefuseGated(c)
               \/ Retry(c) \/ Spend(c)
        PROVE  SlotInv'
    <2>1. UNCHANGED <<Counter, history>>
      BY <1>4 DEF ReadAccount, TakeTime, RefuseInactive, RefuseGated, Retry, Spend, Counter
    <2>2. \E x : x.pc # "sending" /\ call' = [call EXCEPT ![c] = x]
      BY <1>4 DEF ReadAccount, TakeTime, RefuseInactive, RefuseGated, Retry, Spend, Update,
                  Clock, Refused, Idle
    <2>3. \A b \in Claimers : call'[b].pc = "sending" => call'[b] = call[b]
      BY <2>2 DEF SlotInv, TypeOK
    <2> QED BY <1>1, <2>1, <2>3, CounterFrame
  <1>5. CASE SaveForm
    <2>1. form = row
      BY <1>5 DEF SaveForm, NoEditRace
    <2>2. UNCHANGED <<Counter, history>> /\ call' = call
      BY <1>5, <2>1 DEF SaveForm, Counter, SlotInv, TypeOK, Rows
    <2> QED BY <1>1, <2>2, CounterFrame
  <1>6. CASE Tick \/ OpenForm \/ AbandonForm \/ Remove \/ UNCHANGED vars
    <2>1. UNCHANGED <<Counter, history>> /\ call' = call
      BY <1>6 DEF Tick, OpenForm, AbandonForm, Remove, vars, Counter
    <2> QED BY <1>1, <2>1, CounterFrame
  <1> QED BY <1>2, <1>3, <1>4, <1>5, <1>6 DEF Next, ClaimerStep

(* The only step that uses a slot of a day is a granted claim, and of the  *)
(* day it was granted on.                                                  *)
LEMMA OnlyClaimsUseSlots ==
  ASSUME SlotInv, Next, NEW d \in Days, used'[d] > used[d]
  PROVE  used'[d] <= row.dailyLimit + strayed[d]
  <1> USE DEF SlotInv, TypeOK
  <1>1. used[d] \in Int
    OBVIOUS
  <1>0. used' # used
    BY <1>1
  <1>2. PICK c \in Claimers : ClaimerStep(c)
    BY <1>0 DEF Next, Tick, OpenForm, SaveForm, AbandonForm, Remove, history
  <1>3. ~releaseSendSlot(c)
    <2> SUFFICES ASSUME releaseSendSlot(c) PROVE FALSE
      OBVIOUS
    <2>1. used' = [used EXCEPT ![call[c].day] = @ - 1] /\ call[c].day \in Days
      BY CallShapes DEF releaseSendSlot
    <2>2. used'[d] = IF d = call[c].day THEN used[d] - 1 ELSE used[d]
      BY <2>1
    <2> QED BY <1>1, <2>2
  <1>4. claimSendSlot(c)
    BY <1>0, <1>2, <1>3 DEF ClaimerStep, ReadAccount, TakeTime, RefuseInactive, RefuseGated,
      Retry, Spend, history
  <1>5. d = LocalDate[call[c].at]
    <2>1. used' = [used EXCEPT ![LocalDate[call[c].at]] = @ + 1]
      BY <1>4 DEF claimSendSlot
    <2>2. d # LocalDate[call[c].at] => used'[d] = used[d]
      BY <2>1
    <2> QED BY <1>1, <2>2
  <1> QED BY <1>4, <1>5, GrantedClaimsCount

(* With any number of workers on any number of instances, each computing   *)
(* its instant and its cutoff from a row that may be stale, a mailbox      *)
(* sends no more in a day than its limit and the slots of other days given *)
(* back to it.                                                             *)
THEOREM OvershootOnlyByStrayedSlots ==
  ASSUME NoEditRace
  PROVE  Spec => OvershootIsStrayed
  <1>1. SlotInv /\ [Next]_vars =>
          [\A d \in Days : used'[d] > used[d]
              => used'[d] <= row.dailyLimit + strayed[d]]_vars
    <2> SUFFICES ASSUME SlotInv, Next, NEW d \in Days, used'[d] > used[d]
                 PROVE  used'[d] <= row.dailyLimit + strayed[d]
      OBVIOUS
    <2> QED BY OnlyClaimsUseSlots
  <1> QED BY <1>1, InitSlotInv, NextSlotInv, PTL DEF Spec, OvershootIsStrayed

(* The daily limit itself, when slots are given back on the day they were  *)
(* claimed on and no form submission overlaps a claim.                     *)
THEOREM DailyLimitIsKept ==
  ASSUME NoEditRace, "lateRelease" \notin Env
  PROVE  Spec => DailyLimitHolds
  <1>1. SlotInv /\ [Next]_vars =>
          [\A d \in Days : used'[d] > used[d] => used'[d] <= row.dailyLimit]_vars
    <2> SUFFICES ASSUME SlotInv, Next, NEW d \in Days, used'[d] > used[d]
                 PROVE  used'[d] <= row.dailyLimit
      OBVIOUS
    <2>1. strayed[d] = 0 /\ row.dailyLimit \in Nat
      BY ConstantFacts DEF SlotInv, TypeOK, Rows
    <2> QED BY <2>1, OnlyClaimsUseSlots
  <1> QED BY <1>1, InitSlotInv, NextSlotInv, PTL DEF Spec, DailyLimitHolds

(* Granted claims keep the pacing gap, however late their UPDATE runs and  *)
(* whatever is given back to the counter.                                  *)
THEOREM PacingIsKept ==
  ASSUME NoEditRace
  PROVE  Spec => PacingHolds
  <1>1. SlotInv /\ [Next]_vars =>
          [\A c \in Claimers :
             call[c].pc = "update" /\ call'[c].pc = "sending" /\ lastGrant # Null
               => lastGrant + call[c].read.minGap <= call[c].at]_vars
    <2> SUFFICES ASSUME SlotInv, Next, NEW c \in Claimers, lastGrant # Null,
                        call[c].pc = "update", call'[c].pc = "sending"
                 PROVE  lastGrant + call[c].read.minGap <= call[c].at
      OBVIOUS
    <2>1. PICK b \in Claimers : ClaimerStep(b)
      BY DEF Next, Tick, OpenForm, SaveForm, AbandonForm, Remove
    <2>2. \E x : call' = [call EXCEPT ![b] = x]
      BY <2>1 DEF ClaimerStep, ReadAccount, TakeTime, RefuseInactive, claimSendSlot,
        RefuseGated, Retry, Spend, releaseSendSlot
    <2>3. b = c
      BY <2>2 DEF SlotInv, TypeOK
    <2>4. claimSendSlot(c)
      BY <2>1, <2>3 DEF ClaimerStep, ReadAccount, TakeTime, RefuseInactive, RefuseGated,
        Retry, Spend, releaseSendSlot, SlotInv, TypeOK, Refused
    <2> QED BY <2>4, GrantedClaimsAdvance DEF SlotInv
  <1> QED BY <1>1, InitSlotInv, NextSlotInv, PTL DEF Spec, PacingHolds

-----------------------------------------------------------------------------
(* What the counter counts                                                 *)
(*                                                                         *)
(* A release finds the counter at zero only when no slot of its day is in  *)
(* use any more, so the guard of releaseSendSlot never swallows one: each  *)
(* job in mid-send still has its slot among those used.                    *)

SendersOf(d) == {c \in Claimers : call[c].pc = "sending" /\ call[c].day = d}

UsageInv ==
  /\ \A d \in Days : Cardinality(SendersOf(d)) <= used[d]
  /\ exists /\ row.sentTodayDate # Null => row.sentToday <= used[row.sentTodayDate]

(* Counting the jobs that send before and after c's step.                  *)
LEMMA CountSenders ==
  ASSUME NEW d \in Days, NEW c \in Claimers,
         \A b \in Claimers \ {c} : call'[b] = call[b]
  PROVE  /\ Cardinality(SendersOf(d)) \in Nat /\ Cardinality(SendersOf(d)') \in Nat
         /\ Cardinality(SendersOf(d)') <= Cardinality(SendersOf(d)) + 1
         /\ c \notin SendersOf(d)' => Cardinality(SendersOf(d)') <= Cardinality(SendersOf(d))
         /\ c \in SendersOf(d) /\ c \notin SendersOf(d)' =>
              Cardinality(SendersOf(d)') = Cardinality(SendersOf(d)) - 1
  <1> DEFINE S == SendersOf(d)
             T == SendersOf(d)'
  <1>1. S \in SUBSET Claimers /\ T \in SUBSET Claimers
    BY DEF SendersOf
  <1>2. /\ T \subseteq S \cup {c}
        /\ c \notin T => T \subseteq S
        /\ c \in S /\ c \notin T => T = S \ {c}
    BY DEF SendersOf
  <1> HIDE DEF S, T
  <1>3. IsFiniteSet(S) /\ IsFiniteSet(T)
    BY <1>1, SlotAssumption, FS_Subset
  <1>4. /\ Cardinality(S) \in Nat /\ Cardinality(T) \in Nat
        /\ c \in S => Cardinality(S \ {c}) = Cardinality(S) - 1
        /\ IsFiniteSet(S \cup {c})
        /\ Cardinality(S \cup {c}) \in {Cardinality(S), Cardinality(S) + 1}
    BY <1>3, FS_CardinalityType, FS_RemoveElement, FS_AddElement
  <1>5. Cardinality(T) <= Cardinality(S \cup {c})
    BY <1>2, <1>4, FS_Subset
  <1>6. c \notin T => Cardinality(T) <= Cardinality(S)
    BY <1>2, <1>3, FS_Subset
  <1>7. /\ Cardinality(T) <= Cardinality(S) + 1
        /\ c \in S /\ c \notin T => Cardinality(T) = Cardinality(S) - 1
    BY <1>2, <1>4, <1>5
  <1> QED BY <1>4, <1>6, <1>7 DEF S, T

(* A granted claim is counted on its own day, from zero if the counter had *)
(* been on an earlier one.                                                 *)
LEMMA ClaimUsageInv ==
  ASSUME SlotInv, UsageInv, NEW c \in Claimers, claimSendSlot(c)
  PROVE  UsageInv'
  <1> DEFINE today == LocalDate[call[c].at]
  <1>1. today \in Days /\ row' = [row EXCEPT !.sentToday = Counted(row, today),
                                 !.sentTodayDate = today, !.lastSentAt = call[c].at]
    BY GrantedClaimsAdvance DEF claimSendSlot
  <1>2. used' = [used EXCEPT ![today] = @ + 1] /\ call' = [call EXCEPT ![c] = Sending(today)]
    BY DEF claimSendSlot
  <1>3. exists /\ exists' = exists /\ call[c].pc = "update"
    BY DEF claimSendSlot, GatesOpen
  <1> HIDE DEF today
  <1>4. ASSUME NEW d \in Days PROVE Cardinality(SendersOf(d)') <= used'[d] /\ used[d] \in Nat
    <2>1. \A b \in Claimers \ {c} : call'[b] = call[b]
      BY <1>2 DEF SlotInv, TypeOK
    <2>2. d # today => c \notin SendersOf(d)'
      BY <1>2 DEF SendersOf, Sending, SlotInv, TypeOK
    <2>3. used[d] \in Int /\ used'[d] = IF d = today THEN used[d] + 1 ELSE used[d]
      BY <1>2 DEF SlotInv, TypeOK
    <2> QED BY <2>1, <2>2, <2>3, CountSenders DEF UsageInv
  <1>5. row'.sentToday <= used'[today]
    <2>1. row'.sentToday = Counted(row, today) /\ used'[today] = used[today] + 1
      BY <1>1, <1>2 DEF SlotInv, TypeOK, Rows
    <2>2. row.sentToday \in Nat
      BY DEF SlotInv, TypeOK, Rows
    <2>3. today # Null
      BY <1>1, ConstantFacts
    <2> QED BY <1>1, <1>3, <1>4, <2>1, <2>2, <2>3 DEF Counted, UsageInv
  <1> QED BY <1>1, <1>4, <1>5 DEF UsageInv, SlotInv, TypeOK, Rows

(* A slot given back was in use, and so was still counted if it was of the *)
(* counter's day.                                                          *)
LEMMA ReleaseUsageInv ==
  ASSUME SlotInv, UsageInv, NEW c \in Claimers, releaseSendSlot(c)
  PROVE  UsageInv'
  <1> DEFINE day == call[c].day
  <1>1. day \in Days /\ c \in SendersOf(day)
    BY CallShapes DEF SlotInv, releaseSendSlot, SendersOf
  <1>2. used' = [used EXCEPT ![day] = @ - 1] /\ call' = [call EXCEPT ![c] = Idle]
    BY DEF releaseSendSlot
  <1>3. row' = (IF exists THEN [row EXCEPT !.sentToday = Released(@)] ELSE row)
        /\ exists' = exists
    BY DEF releaseSendSlot
  <1> HIDE DEF day
  <1>4. ASSUME NEW d \in Days
        PROVE  /\ Cardinality(SendersOf(d)') <= used'[d] /\ Cardinality(SendersOf(d)') \in Nat
               /\ used[d] \in Int /\ used'[d] = IF d = day THEN used[d] - 1 ELSE used[d]
    <2>1. \A b \in Claimers \ {c} : call'[b] = call[b]
      BY <1>2 DEF SlotInv, TypeOK
    <2>2. c \notin SendersOf(d)'
      BY <1>2 DEF SendersOf, Idle, SlotInv, TypeOK
    <2>3. used[d] \in Int /\ used'[d] = IF d = day THEN used[d] - 1 ELSE used[d]
      BY <1>2 DEF SlotInv, TypeOK
    <2> QED BY <1>1, <2>1, <2>2, <2>3, CountSenders DEF UsageInv
  <1>5. ASSUME exists, row.sentTodayDate # Null
        PROVE  row'.sentToday <= used'[row.sentTodayDate] /\ row'.sentTodayDate = row.sentTodayDate
    <2>1. row.sentTodayDate \in Days /\ row.sentToday \in Nat
      BY <1>5 DEF SlotInv, TypeOK, Rows
    <2>2. row'.sentToday = Released(row.sentToday) /\ row'.sentTodayDate = row.sentTodayDate
      BY <1>3, <1>5 DEF SlotInv, TypeOK, Rows
    <2>3. row.sentToday <= used[row.sentTodayDate]
      BY <1>5 DEF UsageInv
    <2> QED BY <1>4, <2>1, <2>2, <2>3 DEF Released
  <1> QED BY <1>3, <1>4, <1>5 DEF UsageInv

(* Steps that leave the counter and its history alone and let no claimer   *)
(* start sending.                                                          *)
LEMMA UsageFrame ==
  ASSUME SlotInv, UsageInv, UNCHANGED <<Counter, used>>, exists' => exists,
         \A c \in Claimers : call'[c].pc = "sending" => call'[c] = call[c]
  PROVE  UsageInv'
  <1>1. ASSUME NEW d \in Days PROVE Cardinality(SendersOf(d)') <= used[d]
    <2>1. SendersOf(d)' \subseteq SendersOf(d) /\ SendersOf(d) \in SUBSET Claimers
      BY DEF SendersOf
    <2>2. IsFiniteSet(SendersOf(d))
      BY <2>1, SlotAssumption, FS_Subset
    <2>3. /\ Cardinality(SendersOf(d)) \in Nat /\ Cardinality(SendersOf(d)') \in Nat
          /\ Cardinality(SendersOf(d)') <= Cardinality(SendersOf(d))
      BY <2>1, <2>2, FS_Subset, FS_CardinalityType
    <2> QED BY <2>3 DEF UsageInv, SlotInv, TypeOK
  <1> QED BY <1>1 DEF UsageInv, Counter

LEMMA NextUsageInv ==
  ASSUME NoEditRace
  PROVE  SlotInv /\ UsageInv /\ [Next]_vars => UsageInv'
  <1> SUFFICES ASSUME SlotInv, UsageInv, [Next]_vars PROVE UsageInv'
    OBVIOUS
  <1>1. ASSUME NEW c \in Claimers, claimSendSlot(c) PROVE UsageInv'
    BY <1>1, ClaimUsageInv
  <1>2. ASSUME NEW c \in Claimers, releaseSendSlot(c) PROVE UsageInv'
    BY <1>2, ReleaseUsageInv
  <1>3. ASSUME NEW c \in Claimers,
               \/ ReadAccount(c) \/ TakeTime(c) \/ RefuseInactive(c) \/ RefuseGated(c)
               \/ Retry(c) \/ Spend(c)
        PROVE  UsageInv'
    <2>1. UNCHANGED <<Counter, used, exists>>
      BY <1>3 DEF ReadAccount, TakeTime, RefuseInactive, RefuseGated, Retry, Spend,
                  Counter, history
    <2>2. \E x : x.pc # "sending" /\ call' = [call EXCEPT ![c] = x]
      BY <1>3 DEF ReadAccount, TakeTime, RefuseInactive, RefuseGated, Retry, Spend, Update,
                  Clock, Refused, Idle
    <2>3. \A b \in Claimers : call'[b].pc = "sending" => call'[b] = call[b]
      BY <2>2 DEF SlotInv, TypeOK
    <2> QED BY <2>1, <2>3, UsageFrame
  <1>4. CASE SaveForm
    <2>1. form = row
      BY <1>4 DEF SaveForm, NoEditRace
    <2>2. UNCHANGED <<Counter, used, exists, call>>
      BY <1>4, <2>1 DEF SaveForm, Counter, SlotInv, TypeOK, Rows, history
    <2> QED BY <2>2, UsageFrame
  <1>5. CASE Tick \/ OpenForm \/ AbandonForm \/ Remove \/ UNCHANGED vars
    <2>1. UNCHANGED <<Counter, used, call>> /\ (exists' => exists)
      BY <1>5 DEF Tick, OpenForm, AbandonForm, Remove, vars, Counter, history
    <2> QED BY <2>1, UsageFrame
  <1> QED BY <1>1, <1>2, <1>3, <1>4, <1>5 DEF Next, ClaimerStep

(* Without such an overlap the counter of a mailbox is the number of slots *)
(* in use on the day it names, less at most those of another day that were *)
(* given back to it; it is never above, and a later day has none           *)
(* (accounts.service.ts:235-242, 319-330; daily-counter.ts:6-13).          *)
THEOREM CounterCountsUsage ==
  ASSUME NoEditRace
  PROVE  Spec => []CounterIsUsage
  <1>1. Init => UsageInv
    <2> SUFFICES ASSUME Init PROVE UsageInv
      OBVIOUS
    <2>1. \A d \in Days : SendersOf(d) = {}
      BY DEF Init, SendersOf, Idle
    <2>2. \A d \in Days : Cardinality(SendersOf(d)) = 0
      BY <2>1, FS_EmptySet
    <2> QED BY <2>2 DEF Init, UsageInv
  <1>2. SlotInv /\ UsageInv => CounterIsUsage
    <2> SUFFICES ASSUME SlotInv, UsageInv PROVE CounterIsUsage
      OBVIOUS
    <2>1. row.sentTodayDate # Null =>
            /\ used[row.sentTodayDate] \in Int /\ strayed[row.sentTodayDate] \in Nat
            /\ row.sentToday \in Nat
      BY DEF SlotInv, TypeOK, Rows
    <2> QED BY <2>1 DEF SlotInv, UsageInv, CounterIsUsage, LaterDaysAreUnused
  <1> QED BY <1>1, <1>2, InitSlotInv, NextSlotInv, NextUsageInv, PTL DEF Spec

-----------------------------------------------------------------------------
(* The send day *)

(* The start of a day is not after any instant of it, nor a day before.    *)
LEMMA DateBounds ==
  ASSUME NEW r \in Int
  PROVE  /\ DateOf(r) \in Int
         /\ DateOf(r) * DAY <= r /\ r < DateOf(r) * DAY + DAY
  BY DEF DateOf, DAY

(* There is one whole number of days below an hour.                        *)
LEMMA Quotient ==
  ASSUME NEW q \in Int, NEW x \in Int, q * 24 <= x, x < q * 24 + 24
  PROVE  x \div 24 = q
  OBVIOUS

(* The offset of a zone is one of two neighbours.                          *)
LEMMA OffsetBounds ==
  ASSUME NEW z \in Timezone, NEW t \in Int
  PROVE  /\ OffsetAt(z, t) \in Int
         /\ z.ahead - 1 <= OffsetAt(z, t) /\ OffsetAt(z, t) <= z.ahead + 1
  BY DEF Timezone, OffsetAt

(* The instant found shows the reading asked for, or the clocks moved      *)
(* within a few hours of it and it is at most an hour off.                  *)
LEMMA InstantsShowTheirReading ==
  ASSUME NEW z \in Timezone, NEW r \in Int, NEW g \in Int,
         z.ahead - 1 <= g, g <= z.ahead + 1
  PROVE  /\ InstantOf(z, r, g) \in Int
         /\ Reading(z, InstantOf(z, r, g)) \in r..(r + 1)
  BY DEF InstantOf, Reading, OffsetAt, Least, Timezone

(* Nine o'clock on a date, as startOfNextDay sets it.                      *)
LEMMA ResetBounds ==
  ASSUME NEW z \in Timezone, NEW t \in Int, NEW days \in {0, 1}
  PROVE  /\ ResetOf(z, t, days) \in Int
         /\ Reading(z, ResetOf(z, t, days))
              \in (DateOf(Reading(z, t)) * DAY + DAY_RESET_HOUR + days * DAY) ..
                  (DateOf(Reading(z, t)) * DAY + DAY_RESET_HOUR + days * DAY + 1)
  <1> DEFINE date == DateOf(Reading(z, t))
             midnight == date * DAY
             begins == InstantOf(z, midnight, OffsetAt(z, t))
             reset == InstantOf(z, midnight + DAY_RESET_HOUR, OffsetAt(z, begins))
             goal == midnight + DAY_RESET_HOUR + days * DAY
  <1>1. date \in Int
    BY OffsetBounds, DateBounds DEF Reading
  <1>2. midnight \in Int /\ midnight + DAY_RESET_HOUR \in Int /\ goal \in Int
    BY <1>1 DEF DAY, DAY_RESET_HOUR
  <1>3. begins \in Int
    BY <1>2, OffsetBounds, InstantsShowTheirReading
  <1>4. reset \in Int
    BY <1>2, <1>3, OffsetBounds, InstantsShowTheirReading
  <1>5. /\ InstantOf(z, goal, OffsetAt(z, reset)) \in Int
        /\ Reading(z, InstantOf(z, goal, OffsetAt(z, reset))) \in goal..(goal + 1)
    BY <1>2, <1>4, OffsetBounds, InstantsShowTheirReading
  <1> QED BY <1>5 DEF ResetOf

(* A message held back by a daily limit always waits for a later instant,  *)
(* whatever the zone and however its clocks change meanwhile: it is not    *)
(* claimed and refused again at once (daily-counter.ts:33-46).             *)
THEOREM NextDayIsAhead ==
  ASSUME NEW z \in Timezone, NEW t \in Int
  PROVE  startOfNextDay(z, t) > t
  <1>1. CASE t < ResetOf(z, t, 0)
    BY <1>1, ResetBounds DEF startOfNextDay
  <1>2. CASE ~(t < ResetOf(z, t, 0))
    <2> DEFINE m == DateOf(Reading(z, t)) * DAY
               next == ResetOf(z, t, 1)
    <2>1. Reading(z, t) \in Int /\ m \in Int /\ Reading(z, t) < m + 24
      BY OffsetBounds, DateBounds DEF Reading, DAY
    <2>2. /\ next \in Int
          /\ Reading(z, next) \in (m + DAY_RESET_HOUR + 1 * DAY)..(m + DAY_RESET_HOUR + 1 * DAY + 1)
      BY ResetBounds
    <2>3. Reading(z, next) >= m + 33
      BY <2>1, <2>2 DEF DAY, DAY_RESET_HOUR
    <2>4. next + OffsetAt(z, next) > t + OffsetAt(z, t) + 9
      BY <2>1, <2>2, <2>3, OffsetBounds DEF Reading
    <2>5. z.ahead \in Int
      BY DEF Timezone
    <2>6. next > t
      BY <2>2, <2>4, <2>5, OffsetBounds
    <2> QED BY <1>2, <2>6 DEF startOfNextDay
  <1> QED BY <1>1, <1>2

(* The send day of a mailbox never goes back, not even while the clocks    *)
(* do: a counter is reset once for every day, and no day is met twice      *)
(* (daily-counter.ts:29-38).  With NextDayIsAhead, this is what SendSlot   *)
(* assumes of its calendar.                                                *)
THEOREM SendDaysMoveForward ==
  ASSUME NEW z \in Timezone, NEW s \in Int, NEW t \in Int, s <= t
  PROVE  localDate(z, s) <= localDate(z, t)
  <1> DEFINE early == Reading(z, s - DAY_RESET_HOUR)
             late == Reading(z, t - DAY_RESET_HOUR)
  <1>1. early \in Int /\ late \in Int /\ early <= late
    BY DEF Reading, OffsetAt, Timezone, DAY_RESET_HOUR
  <1> HIDE DEF early, late
  <1>2. DateOf(early) <= DateOf(late)
    <2>1. /\ DateOf(early) \in Int /\ DateOf(late) \in Int
          /\ DateOf(early) * 24 <= early /\ late < DateOf(late) * 24 + 24
      BY <1>1, DateBounds DEF DAY
    <2> QED BY <1>1, <2>1
  <1> QED BY <1>2 DEF localDate, early, late

(* Where the clocks do not change that instant is the first of the next    *)
(* send day: the deferred message meets a full allowance, and no hour of   *)
(* it is lost.  With a change nearby this fails (SendSlot's                *)
(* DeferralsReachANewDay).                                                 *)
THEOREM NextDayIsTheNextSendDay ==
  ASSUME NEW z \in Timezone, z.by = 0, NEW t \in Int
  PROVE  /\ localDate(z, startOfNextDay(z, t)) = localDate(z, t) + 1
         /\ localDate(z, startOfNextDay(z, t) - 1) = localDate(z, t)
  <1> DEFINE a == z.ahead
             d == (t + a) \div 24
  <1>1. a \in Int /\ \A x \in Int : OffsetAt(z, x) = a
    BY DEF Timezone, OffsetAt
  <1>2. \A r \in Int : InstantOf(z, r, a) = r - a
    BY <1>1 DEF InstantOf
  <1>3. d \in Int /\ d * 24 \in Int /\ d * 24 <= t + a /\ t + a < d * 24 + 24
    BY <1>1
  <1>4. ResetOf(z, t, 0) = d * 24 + 9 - a /\ ResetOf(z, t, 1) = d * 24 + 33 - a
    <2>1. DateOf(Reading(z, t)) = d
      BY <1>1 DEF DateOf, Reading, DAY
    <2>2. InstantOf(z, d * 24, a) \in Int /\ InstantOf(z, d * 24 + 9, a) \in Int
      BY <1>1, <1>2, <1>3
    <2>3. ASSUME NEW days \in {0, 1}
          PROVE  ResetOf(z, t, days) = d * 24 + 9 + days * 24 - a
      BY <1>1, <1>2, <1>3, <2>1, <2>2, <2>3 DEF ResetOf, DAY, DAY_RESET_HOUR
    <2> QED BY <1>1, <1>3, <2>3
  <1>5. \A x \in Int : localDate(z, x) = (x - 9 + a) \div 24
    BY <1>1 DEF localDate, Reading, DateOf, DAY, DAY_RESET_HOUR
  <1>6. CASE t < d * 24 + 9 - a
    <2>1. startOfNextDay(z, t) = d * 24 + 9 - a
      BY <1>4, <1>6 DEF startOfNextDay
    <2>2. (d * 24 + 9 - a) - 9 + a = d * 24 /\ (d * 24 + 9 - a) - 1 - 9 + a = d * 24 - 1
      BY <1>1, <1>3
    <2>3. (d * 24) \div 24 = d /\ (d * 24 - 1) \div 24 = d - 1 /\ (t - 9 + a) \div 24 = d - 1
      BY <1>1, <1>3, <1>6
    <2> QED BY <1>1, <1>3, <1>5, <2>1, <2>2, <2>3
  <1>7. CASE ~(t < d * 24 + 9 - a)
    <2>1. startOfNextDay(z, t) = d * 24 + 33 - a
      BY <1>4, <1>7 DEF startOfNextDay
    <2>2. (d * 24 + 33 - a) - 9 + a = d * 24 + 24 /\ (d * 24 + 33 - a) - 1 - 9 + a = d * 24 + 23
      BY <1>1, <1>3
    <2>3. (d * 24 + 24) \div 24 = d + 1 /\ (d * 24 + 23) \div 24 = d
      BY <1>3
    <2>4. (t - 9 + a) \div 24 = d
      <3>1. t - 9 + a \in Int /\ d * 24 <= t - 9 + a /\ t - 9 + a < d * 24 + 24
        BY <1>1, <1>3, <1>7
      <3>2. d \in Int
        BY <1>3
      <3> HIDE DEF d
      <3> QED BY <3>1, <3>2, Quotient
    <2> QED BY <1>1, <1>3, <1>5, <2>1, <2>2, <2>3, <2>4
  <1> QED BY <1>6, <1>7
=============================================================================
