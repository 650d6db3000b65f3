------------------------------ MODULE Tracking ------------------------------
(***************************************************************************)
(* Open and click tracking: TrackingService.record runs once per hit, after *)
(* the recipient was answered, with an await between its statements; the   *)
(* send worker records the send next to it, after the server accepted the  *)
(* message.                                                                *)
(***************************************************************************)
EXTENDS Naturals, FiniteSets, Classify

CONSTANTS
  Hits,        (* Requests to the pixel or a tracked link.                  *)
  Messages, Links,
  Null,
  Second,      (* Ticks of the clock in a second.                           *)
  BurstWindow, (* BURST_WINDOW_MS in ticks.                                 *)
  MinDelay,    (* minDelaySeconds of the rules in force.                    *)
  Env,         (* Which of the disturbances below may occur.                *)
  MaxTime,     (* Bound: the clock.                                         *)
  MaxCopies    (* Bound: copies of a message a server accepts.              *)

(* db      a statement of record() fails                                   *)
(* resend  an acceptance is not recorded and the message goes out again    *)
Disturbances == {"db", "resend"}

Kinds == {"open", "click"}
Times == 0..MaxTime

(* What a hit asks for: the pixel has no destination. *)
Requests == [kind : {"open"}, msg : Messages, url : {Null}]
              \cup [kind : {"click"}, msg : Messages, url : Links]

ASSUME TrackingAssumption ==
  /\ Null \notin Links \cup Times /\ IsFiniteSet(Links)
  /\ Second \in Nat \ {0} /\ BurstWindow \in Nat /\ MinDelay \in Nat
  /\ Env \subseteq Disturbances
  /\ MaxTime \in Nat /\ MaxCopies \in Nat

VARIABLES
  now,
  sentAt,      (* email_queue.sentAt                                        *)
  first,       (* firstOpenAt and firstClickAt, by kind                     *)
  event,       (* email_event: the row each hit inserted, or Null           *)
  pc,          (* which await of record() is next                           *)
  hit,         (* the request                                               *)
  row,         (* what findUnique returned                                  *)
  at,          (* new Date()                                                *)
  burst,       (* burstSize                                                 *)
  copies,      (* copies the mail server has accepted                       *)
  (* history used only by properties *)
  acceptedAt,  (* when the server accepted the first copy                   *)
  closedAt     (* when each hit last wrote to email_event                   *)

log     == <<event, closedAt>>
request == <<pc, hit, row, at, burst>>
sending == <<sentAt, copies, acceptedAt>>
vars == <<now, sending, first, log, request>>

Steps == {"idle", "load", "clock", "recent", "create", "backfill", "first",
          "recorded", "lost"}

NoRow == [sentAt |-> Null, first |-> Null]

Goto(h, step) == pc' = [pc EXCEPT ![h] = step]

(* record() returns, one way or the other, and its locals are gone. *)
Return(h, step) ==
  /\ Goto(h, step)
  /\ row' = [row EXCEPT ![h] = NoRow]
  /\ at' = [at EXCEPT ![h] = 0]
  /\ burst' = [burst EXCEPT ![h] = 1]

Tick ==
  /\ now < MaxTime
  /\ now' = now + 1
  /\ UNCHANGED <<sending, first, log, request>>

-----------------------------------------------------------------------------
(* The send worker, as far as tracking sees it                             *)

(* sendMail: the message is out, and may be hit, before markSent. *)
Accept(m) ==
  /\ copies[m] < MaxCopies
  /\ copies[m] > 0 => "resend" \in Env
  /\ copies' = [copies EXCEPT ![m] = @ + 1]
  /\ acceptedAt' = [acceptedAt EXCEPT ![m] = IF @ = Null THEN now ELSE @]
  /\ UNCHANGED <<now, sentAt, first, log, request>>

MarkSent(m) ==
  /\ copies[m] > 0
  /\ sentAt[m] # Null => copies[m] > 1
  /\ sentAt' = [sentAt EXCEPT ![m] = now]
  /\ UNCHANGED <<now, copies, acceptedAt, first, log, request>>

-----------------------------------------------------------------------------
(* TrackingController and record()                                         *)

(* A request whose signature holds; the message was sent with the link. *)
Arrive(h) ==
  /\ pc[h] = "idle"
  /\ \E r \in Requests :
       copies[r.msg] > 0 /\ hit' = [hit EXCEPT ![h] = r]
  /\ Goto(h, "load")
  /\ UNCHANGED <<now, sending, first, log, row, at, burst>>

(* findUnique of the message. *)
Load(h) ==
  /\ pc[h] = "load"
  /\ LET r == hit[h] IN
       row' = [row EXCEPT ![h] =
                 [sentAt |-> sentAt[r.msg], first |-> first[r.msg][r.kind]]]
  /\ Goto(h, "clock")
  /\ UNCHANGED <<now, sending, first, log, hit, at, burst>>

(* The answer arrives and the handler reads the clock. *)
Clock(h) ==
  /\ pc[h] = "clock"
  /\ at' = [at EXCEPT ![h] = now]
  /\ Goto(h, "recent")
  /\ UNCHANGED <<now, sending, first, log, hit, row, burst>>

(* Math.round of the time since the send, in seconds. *)
Round(ticks) == (2 * ticks + Second) \div (2 * Second)

(* Mutant: a message not yet recorded as sent counts from its schedule.    *)
DelayFromSchedule(h) ==
  Round(at[h] - (IF row[h].sentAt = Null THEN 0 ELSE row[h].sentAt))

(* `sentAt ?? now`. *)
Delay(h) ==
  Round(at[h] - (IF row[h].sentAt = Null THEN at[h] ELSE row[h].sentAt))

(* Mutant: the start of the window is compared the wrong way round.        *)
BeforeTheWindow(e, h) ==
  /\ event[e] # Null
  /\ event[e].msg = hit[h].msg /\ event[e].kind = hit[h].kind
  /\ event[e].at + BurstWindow <= at[h]

(* Event e is of the same message and kind as hit h and not older than its *)
(* window; nothing bounds it from above.                                   *)
InWindow(e, h) ==
  /\ event[e] # Null
  /\ event[e].msg = hit[h].msg /\ event[e].kind = hit[h].kind
  /\ event[e].at + BurstWindow >= at[h]

(* The distinct destinations of the window, this hit's included. *)
LinksSeen(h) ==
  ({event[e].url : e \in {x \in Hits : InWindow(x, h)}} \cup {hit[h].url})
    \ {Null}

(* Mutant: the lower bound is lost. *)
LinkCount(h) == Cardinality(LinksSeen(h))

BurstSize(h) == IF LinksSeen(h) = {} THEN 1 ELSE Cardinality(LinksSeen(h))

Recent(h) ==
  /\ pc[h] = "recent"
  /\ burst' = [burst EXCEPT ![h] = BurstSize(h)]
  /\ Goto(h, "create")
  /\ UNCHANGED <<now, sending, first, log, hit, row, at>>

(* After the reverse lookup, which only takes time. *)
Create(h) ==
  /\ pc[h] = "create"
  /\ event' = [event EXCEPT ![h] =
                 [msg |-> hit[h].msg, kind |-> hit[h].kind, url |-> hit[h].url,
                  at |-> at[h], delay |-> Delay(h), burst |-> burst[h]]]
  /\ closedAt' = [closedAt EXCEPT ![h] = now]
  /\ Goto(h, IF burst[h] > 1 THEN "backfill" ELSE "first")
  /\ UNCHANGED <<now, sending, first, hit, row, at, burst>>

Backfill(h) ==
  /\ pc[h] = "backfill"
  /\ event' = [e \in Hits |-> IF InWindow(e, h)
                              THEN [event[e] EXCEPT !.burst = burst[h]]
                              ELSE event[e]]
  /\ closedAt' = [closedAt EXCEPT ![h] = now]
  /\ Goto(h, "first")
  /\ UNCHANGED <<now, sending, first, hit, row, at, burst>>

(* Mutant: only a hit on its own is engagement. *)
FirstUnlessSweep(h) == row[h].first = Null /\ burst[h] = 1

NotSeenBefore(h) == row[h].first = Null

(* Mutant: the touch is stamped when it is written.                        *)
TimeOfWriting(h) == now

TouchTime(h) == at[h]

(* The first touch is written once, as far as this handler knows.          *)
FirstTouch(h) ==
  /\ pc[h] = "first"
  /\ first' = IF NotSeenBefore(h)
              THEN [first EXCEPT ![hit[h].msg][hit[h].kind] = TouchTime(h)]
              ELSE first
  /\ Return(h, "recorded")
  /\ UNCHANGED <<now, sending, log, hit>>

(* A statement fails, or the process dies: nothing is retried. *)
Fails(h) ==
  /\ "db" \in Env
  /\ pc[h] \in {"load", "recent", "create", "backfill", "first"}
  /\ Return(h, "lost")
  /\ UNCHANGED <<now, sending, first, log, hit>>

-----------------------------------------------------------------------------
Init ==
  /\ now = 0
  /\ sentAt = [m \in Messages |-> Null]
  /\ first = [m \in Messages |-> [k \in Kinds |-> Null]]
  /\ event = [h \in Hits |-> Null] /\ closedAt = [h \in Hits |-> 0]
  /\ pc = [h \in Hits |-> "idle"]
  /\ hit = [h \in Hits |-> Null]
  /\ row = [h \in Hits |-> NoRow]
  /\ at = [h \in Hits |-> 0]
  /\ burst = [h \in Hits |-> 1]
  /\ copies = [m \in Messages |-> 0]
  /\ acceptedAt = [m \in Messages |-> Null]

Next ==
  \/ Tick
  \/ \E m \in Messages : Accept(m) \/ MarkSent(m)
  \/ \E h \in Hits :
       \/ Arrive(h) \/ Load(h) \/ Clock(h) \/ Recent(h) \/ Create(h)
       \/ Backfill(h) \/ FirstTouch(h) \/ Fails(h)

Spec == Init /\ [][Next]_vars

-----------------------------------------------------------------------------
MaybeTime == Times \cup {Null}

EventRows ==
  [msg : Messages, kind : Kinds, url : Links \cup {Null}, at : Times,
   delay : Nat, burst : Nat \ {0}]

ASSUME NullAssumption == Null \notin EventRows

(* The types of the variables; a delay is never negative and a burst holds *)
(* at least the hit itself (tracking.service.ts:152-175).                  *)
TypeOK ==
  /\ now \in Times
  /\ sentAt \in [Messages -> MaybeTime]
  /\ first \in [Messages -> [Kinds -> MaybeTime]]
  /\ event \in [Hits -> EventRows \cup {Null}]
  /\ pc \in [Hits -> Steps]
  /\ hit \in [Hits -> Requests \cup {Null}]
  /\ \A h \in Hits : pc[h] # "idle" => hit[h] \in Requests
  /\ row \in [Hits -> [sentAt : MaybeTime, first : MaybeTime]]
  /\ at \in [Hits -> Times]
  /\ burst \in [Hits -> Nat \ {0}]
  /\ copies \in [Messages -> Nat]
  /\ acceptedAt \in [Messages -> MaybeTime] /\ closedAt \in [Hits -> Times]

(* A first open or click always has the event it was taken from in the log, *)
(* at every moment and after a failure anywhere: the batch report takes a  *)
(* stamp without events for a pruned log and counts it as a person         *)
(* (batches.service.ts:126-129).                                           *)
FirstTouchHasEvidence ==
  \A m \in Messages, k \in Kinds :
    first[m][k] # Null =>
      \E h \in Hits : /\ event[h] # Null
                      /\ event[h].msg = m /\ event[h].kind = k
                      /\ event[h].at = first[m][k]

(* A hit recorded to the end shows on the queue: whatever other hits did   *)
(* meanwhile, its message has a first open or click                        *)
(* (tracking.service.ts:202-212).                                          *)
RecordedHitsAreSeen ==
  \A h \in Hits :
    pc[h] = "recorded" => first[hit[h].msg][hit[h].kind] # Null

(* No message is taken for swept that was not: when an event says that n   *)
(* links were fetched at once, some hit on its message found n distinct    *)
(* links between the start of its window and its own last write, this      *)
(* event among them (tracking.service.ts:154-169, 190-199).                *)
BurstsAreReal ==
  \A h \in Hits : event[h] # Null /\ event[h].burst > 1 =>
    \E g \in Hits :
      LET seen == {x \in Hits : /\ event[x] # Null
                                /\ event[x].msg = event[g].msg
                                /\ event[x].kind = event[g].kind
                                /\ event[x].at + BurstWindow >= event[g].at
                                /\ event[x].at <= closedAt[g]}
      IN  /\ event[g] # Null
          /\ h \in seen
          /\ event[h].burst <= Cardinality({event[x].url : x \in seen})

(* A hit that came sooner after the mail server took the message than a    *)
(* person could have read it is judged a machine, even when the send was   *)
(* not recorded yet, was recorded late, or had to be repeated              *)
(* (tracking.service.ts:146-151, classify.ts:158-163).                     *)
EarlyHitsAreNotPeople ==
  \A h \in Hits :
    LET e == event[h] IN
      e # Null /\ Round(e.at - acceptedAt[e.msg]) < MinDelay =>
        judge([delaySeconds |-> e.delay, burstSize |-> e.burst,
               agent |-> "browser", datacenter |-> FALSE,
               openedBefore |-> "unknown", networkReach |-> {}],
              [minDelaySeconds |-> MinDelay, burstLinks |-> Cardinality(Links) + 1,
               noOpenWindowSeconds |-> 0, networkReach |-> 0]) = "machine"
=============================================================================
