------------------------------ MODULE SendSlot ------------------------------
(***************************************************************************)
(* One mailbox and the throttle on it: AccountsService.claimSendSlot and   *)
(* releaseSendSlot, run by any number of workers on any number of          *)
(* instances, next to the account form, which reads the whole row, awaits  *)
(* an SMTP login and writes the whole row back.                            *)
(*                                                                         *)
(* A claim is two statements: a SELECT of the row, then one UPDATE whose   *)
(* WHERE is both gates.  The instant and the gap the UPDATE compares with  *)
(* are computed between the two, from a row that may already be stale, and *)
(* may be stale themselves when it runs.                                   *)
(***************************************************************************)
EXTENDS Integers, FiniteSets

CONSTANTS
  Claimers,        (* Jobs in process() for this mailbox.                   *)
  Null,
  Limits, Gaps,    (* Values dailyLimit and minGapSeconds may be given.     *)
  LocalDate,       (* The send day of each instant, in the mailbox's zone.  *)
  StartOfNextDay,  (* The instant a mailbox at its limit is deferred to.    *)
  Hour,            (* The pause before a paused mailbox is tried again.     *)
  Env,             (* Which of the disturbances below may occur.            *)
  MaxTime,         (* Bound: the clock.                                     *)
  MaxEdits         (* Bound: submissions of the account form.               *)

(* editRace     a slot is claimed or given back while a form submission is *)
(*              between its read and its write                             *)
(* lateRelease  a slot is given back after the next send day has started   *)
(*              counting                                                   *)
Disturbances == {"editRace", "lateRelease"}

Times == 0..MaxTime
Days  == {LocalDate[t] : t \in Times}

ASSUME SlotAssumption ==
  /\ IsFiniteSet(Claimers)
  /\ MaxTime \in Nat /\ MaxEdits \in Nat /\ Hour \in Nat \ {0}
  /\ Null \notin Nat
  /\ Limits \subseteq Nat \ {0} /\ Gaps \subseteq Nat
  /\ LocalDate \in [Times -> Nat]
  /\ \A s, t \in Times : s <= t => LocalDate[s] <= LocalDate[t]
  /\ StartOfNextDay \in [Times -> Nat]
  /\ \A t \in Times : StartOfNextDay[t] > t
  /\ Env \subseteq Disturbances

VARIABLES
  exists,      (* the accounts row has not been deleted                     *)
  row,         (* the columns of it the throttle reads or writes            *)
  now,
  call,        (* each claimer, with the locals it still needs              *)
  form,        (* the row as an open form submission read it                *)
  editsLeft,
  used,        (* history: slots of each day claimed and not given back     *)
  strayed,     (* history: slots of another day given back to each day      *)
  lastGrant    (* history: the instant of the last granted claim            *)

editing == <<form, editsLeft>>
history == <<used, strayed, lastGrant>>

vars == <<exists, row, now, call, editing, history>>

Rows == [active : BOOLEAN, dailyLimit : Limits, minGap : Gaps,
         sentToday : Nat, sentTodayDate : Days \cup {Null},
         lastSentAt : Times \cup {Null}]

Calls == [pc : {"idle"}]
           \cup [pc : {"clock"}, read : Rows]
           \cup [pc : {"update"}, read : Rows, at : Times]
           \cup [pc : {"sending"}, day : Days]
           \cup [pc : {"refused"}, until : Nat]

Idle         == [pc |-> "idle"]
Clock(r)     == [pc |-> "clock", read |-> r]
Update(r, t) == [pc |-> "update", read |-> r, at |-> t]
Sending(d)   == [pc |-> "sending", day |-> d]
Refused(t)   == [pc |-> "refused", until |-> t]

-----------------------------------------------------------------------------
Tick ==
  /\ now < MaxTime /\ now' = now + 1
  /\ UNCHANGED <<exists, row, call, editing, history>>

(* The SELECT of claimSendSlot on a mailbox that can send.                 *)
ReadAccount(c) ==
  /\ call[c].pc = "idle" /\ exists /\ row.active
  /\ call' = [call EXCEPT ![c] = Clock(row)]
  /\ UNCHANGED <<exists, row, now, editing, history>>

(* Its result is back: the instant of the claim is taken now.              *)
TakeTime(c) ==
  /\ call[c].pc = "clock"
  /\ call' = [call EXCEPT ![c] = Update(call[c].read, now)]
  /\ UNCHANGED <<exists, row, now, editing, history>>

(* A deleted or a paused mailbox is refused on the read alone.             *)
RefuseInactive(c) ==
  /\ call[c].pc = "idle" /\ ~(exists /\ row.active)
  /\ call' = [call EXCEPT ![c] = Refused(now + Hour)]
  /\ UNCHANGED <<exists, row, now, editing, history>>

(* Mutant of DailyGate: one send too many. *)
LetsOneMorePass(r, today) ==
  r.sentTodayDate # today \/ r.sentToday <= r.dailyLimit

DailyGate(r, today) == r.sentTodayDate # today \/ r.sentToday < r.dailyLimit

(* Mutant of GapGate: the cutoff is rounded up. *)
RoundsTheCutoff(r, cutoff) ==
  r.lastSentAt # Null => r.lastSentAt <= cutoff + 1

GapGate(r, cutoff) == r.lastSentAt # Null => r.lastSentAt <= cutoff

(* The WHERE of the UPDATE, on the row it locks: the instant and the gap   *)
(* come from the earlier read, everything else is current.                 *)
GatesOpen(c) ==
  /\ exists /\ row.active
  /\ DailyGate(row, LocalDate[call[c].at])
  /\ GapGate(row, call[c].at - call[c].read.minGap)

(* Mutant of Counted: no reset on a day boundary. *)
NeverResets(r, today) == r.sentToday + 1

(* Its CASE.                                                               *)
Counted(r, today) == IF r.sentTodayDate = today THEN r.sentToday + 1 ELSE 1

claimSendSlot(c) ==
  LET today == LocalDate[call[c].at] IN
  /\ call[c].pc = "update" /\ GatesOpen(c)
  /\ row' = [row EXCEPT !.sentToday = Counted(row, today),
                        !.sentTodayDate = today,
                        !.lastSentAt = call[c].at]
  /\ call' = [call EXCEPT ![c] = Sending(today)]
  /\ used' = [used EXCEPT ![today] = @ + 1]
  /\ lastGrant' = call[c].at
  /\ UNCHANGED <<exists, now, editing, strayed>>

(* No row came back.  Which gate it was is worked out from the SELECT.     *)
AtLimit(r, today) == r.sentTodayDate = today /\ r.sentToday >= r.dailyLimit

(* Mutant of Remaining: waits for as long as has already passed. *)
WaitsTheElapsed(r, t) ==
  IF r.lastSentAt = Null \/ t - r.lastSentAt >= r.minGap THEN 0
  ELSE t - r.lastSentAt

(* What is left of the gap.                                                *)
Remaining(r, t) ==
  IF r.lastSentAt = Null \/ t - r.lastSentAt >= r.minGap THEN 0
  ELSE r.minGap - (t - r.lastSentAt)

(* Up to a quarter of the gap of jitter, and a second. *)
nextGapOpening(r, t) ==
  {t + Remaining(r, t) + jitter + 1 : jitter \in 0..(r.minGap \div 4)}

retryAt(r, t) ==
  IF AtLimit(r, LocalDate[t]) THEN {StartOfNextDay[t]} ELSE nextGapOpening(r, t)

RefuseGated(c) ==
  /\ call[c].pc = "update" /\ ~GatesOpen(c)
  /\ \E t \in retryAt(call[c].read, call[c].at) :
       call' = [call EXCEPT ![c] = Refused(t)]
  /\ UNCHANGED <<exists, row, now, editing, history>>

(* The message is deferred and claimed again once its time has come.       *)
Retry(c) ==
  /\ call[c].pc = "refused" /\ call[c].until <= now
  /\ call' = [call EXCEPT ![c] = Idle]
  /\ UNCHANGED <<exists, row, now, editing, history>>

(* The send got an SMTP reply: the slot stays spent.                       *)
Spend(c) ==
  /\ call[c].pc = "sending"
  /\ call' = [call EXCEPT ![c] = Idle]
  /\ UNCHANGED <<exists, row, now, editing, history>>

(* Mutant of Released: without the guard on a counter at zero. *)
ReleasesBelowZero(n) == n - 1

(* The connection failed: the counter goes down by one, whichever day it   *)
(* is counting by then.                                                    *)
Released(n) == IF n > 0 THEN n - 1 ELSE n

releaseSendSlot(c) ==
  /\ call[c].pc = "sending"
  /\ row' = IF exists THEN [row EXCEPT !.sentToday = Released(@)] ELSE row
  /\ used' = [used EXCEPT ![call[c].day] = @ - 1]
  /\ \/ call[c].day = row.sentTodayDate /\ strayed' = strayed
     \/ /\ call[c].day # row.sentTodayDate /\ "lateRelease" \in Env
        /\ strayed' = [strayed EXCEPT ![row.sentTodayDate] = @ + 1]
  /\ call' = [call EXCEPT ![c] = Idle]
  /\ UNCHANGED <<exists, now, editing, lastGrant>>

(* AccountsService.update: findOrThrow ...                                 *)
OpenForm ==
  /\ exists /\ form = Null /\ editsLeft > 0
  /\ form' = row
  /\ editsLeft' = editsLeft - 1
  /\ UNCHANGED <<exists, row, now, call, history>>

(* ... then, after transports.verify, every column of what it read, with   *)
(* the submitted fields changed.                                           *)
SaveForm ==
  /\ form # Null /\ exists
  /\ form = row \/ "editRace" \in Env
  /\ \E limit \in Limits, gap \in Gaps, active \in BOOLEAN :
       row' = [form EXCEPT !.dailyLimit = limit, !.minGap = gap,
                           !.active = active]
  /\ form' = Null
  /\ UNCHANGED <<exists, now, call, editsLeft, history>>

(* The login was rejected, or the row is gone: nothing is written.         *)
AbandonForm ==
  /\ form # Null
  /\ form' = Null
  /\ UNCHANGED <<exists, row, now, call, editsLeft, history>>

Remove ==
  /\ exists /\ exists' = FALSE
  /\ UNCHANGED <<row, now, call, editing, history>>

-----------------------------------------------------------------------------
(* An account as AccountsService.create leaves it. *)
Init ==
  /\ exists = TRUE
  /\ \E limit \in Limits, gap \in Gaps :
       row = [active |-> TRUE, dailyLimit |-> limit, minGap |-> gap,
              sentToday |-> 0, sentTodayDate |-> Null, lastSentAt |-> Null]
  /\ now = 0
  /\ call = [c \in Claimers |-> Idle]
  /\ form = Null /\ editsLeft = MaxEdits
  /\ used = [d \in Days |-> 0] /\ strayed = [d \in Days |-> 0]
  /\ lastGrant = Null

ClaimerStep(c) == \/ ReadAccount(c) \/ TakeTime(c) \/ RefuseInactive(c)
                  \/ claimSendSlot(c) \/ RefuseGated(c) \/ Retry(c)
                  \/ Spend(c) \/ releaseSendSlot(c)

Next ==
  \/ Tick
  \/ \E c \in Claimers : ClaimerStep(c)
  \/ OpenForm \/ SaveForm \/ AbandonForm \/ Remove

Spec == Init /\ [][Next]_vars

-----------------------------------------------------------------------------
(* The types of the variables: the counter never goes below zero           *)
(* (accounts.service.ts:328), and a claimer is idle or in one call.        *)
TypeOK ==
  /\ exists \in BOOLEAN
  /\ row \in Rows
  /\ now \in Times
  /\ call \in [Claimers -> Calls]
  /\ form \in Rows \cup {Null}
  /\ editsLeft \in Nat
  /\ used \in [Days -> Int] /\ strayed \in [Days -> Nat]
  /\ lastGrant \in Times \cup {Null}

(* However many workers claim at once, a claim is granted only while the   *)
(* day it is counted on has slots left under the limit then in force       *)
(* (accounts.service.ts:235-242).                                          *)
DailyLimitHolds ==
  [][\A d \in Days : used'[d] > used[d] => used'[d] <= row.dailyLimit]_vars

(* The same, with slots given back on a later day than they were claimed   *)
(* allowed for: a day overshoots its limit by no more sends than there     *)
(* were slots of another day given back to it, whatever instants and rows  *)
(* the claims were computed from.                                          *)
OvershootIsStrayed ==
  [][\A d \in Days : used'[d] > used[d]
                       => used'[d] <= row.dailyLimit + strayed[d]]_vars

(* Two granted claims are at least the pacing gap apart, the gap being the *)
(* one the later claim read, although its UPDATE may run long after it     *)
(* took the time (accounts.service.ts:269-284).                            *)
PacingHolds ==
  [][\A c \in Claimers :
       call[c].pc = "update" /\ call'[c].pc = "sending" /\ lastGrant # Null
         => lastGrant + call[c].read.minGap <= call[c].at]_vars

(* A refused message comes back later than the instant it was refused at,  *)
(* and not before the pacing gap it saw closed has passed: no busy loop    *)
(* between the queue and the gate (accounts.service.ts:297-316, 353-366).  *)
RefusalsWait ==
  [][\A c \in Claimers :
       call[c].pc = "update" /\ call'[c].pc = "refused" =>
         LET read == call[c].read IN
         /\ call'[c].until > call[c].at
         /\ read.lastSentAt # Null /\ ~AtLimit(read, LocalDate[call[c].at])
              => read.lastSentAt + read.minGap <= call'[c].until]_vars

(* A message refused because its mailbox is at its limit comes back on     *)
(* another send day, when it can go out: claimSendSlot looks for "a time   *)
(* that will actually succeed" (accounts.service.ts:295-296).              *)
DeferralsReachANewDay ==
  [][\A c \in Claimers :
       call[c].pc = "update" /\ call'[c].pc = "refused" =>
         LET at == call[c].at  until == call'[c].until IN
         AtLimit(call[c].read, LocalDate[at]) /\ until \in Times
           => LocalDate[until] > LocalDate[at]]_vars

(* The counter is the number of slots in use on the day it names, but for  *)
(* the slots that strayed to it, and no later day has a slot in use: what  *)
(* makes the lazy reset of the CASE right (daily-counter.ts:6-13).         *)
CounterIsUsage ==
  /\ exists /\ row.sentTodayDate # Null =>
       LET d == row.sentTodayDate IN
         used[d] - strayed[d] <= row.sentToday /\ row.sentToday <= used[d]
  /\ \A d \in Days :
       (row.sentTodayDate # Null => d > row.sentTodayDate) => used[d] = 0
=============================================================================
