--------------------------- MODULE TrackingProofs ---------------------------
(***************************************************************************)
(* Theorems about Tracking and Classify, for every number of hits, messages *)
(* and links, every clock and every choice of disturbances.                *)
(***************************************************************************)
EXTENDS Tracking, Integers, FiniteSetTheorems, TLAPS

(* The steps at which a handler has read the message, those at which it    *)
(* has also read the clock, and those at which its event is in the log.    *)
Logged  == {"backfill", "first"}
Clocked == {"recent", "create"} \cup Logged
Loaded  == {"clock"} \cup Clocked

(* A message is accepted before it is recorded as sent and before it is    *)
(* hit, and nothing on record is in the future.                            *)
Chronology ==
  /\ \A m \in Messages :
       /\ copies[m] > 0 => acceptedAt[m] # Null
       /\ acceptedAt[m] # Null => acceptedAt[m] <= now
       /\ sentAt[m] # Null => /\ acceptedAt[m] # Null
                              /\ acceptedAt[m] <= sentAt[m]
                              /\ sentAt[m] <= now
  /\ \A h \in Hits :
       /\ pc[h] # "idle" => acceptedAt[hit[h].msg] # Null
       /\ pc[h] \in Loaded /\ row[h].sentAt # Null =>
            acceptedAt[hit[h].msg] <= row[h].sentAt /\ row[h].sentAt <= now
       /\ pc[h] \in Clocked =>
            /\ acceptedAt[hit[h].msg] <= at[h]
            /\ row[h].sentAt # Null => row[h].sentAt <= at[h]

(* A handler has no event before its insert, and the one it inserted after. *)
LoggedHitsHaveEvents ==
  \A h \in Hits :
    /\ pc[h] \notin Logged \cup {"recorded", "lost"} => event[h] = Null
    /\ pc[h] \in Logged =>
         /\ event[h] # Null
         /\ event[h].msg = hit[h].msg /\ event[h].kind = hit[h].kind
         /\ event[h].at = at[h]

(* A first touch that a handler has read is still there. *)
TouchesStay ==
  \A h \in Hits : pc[h] \in Loaded /\ row[h].first # Null =>
    first[hit[h].msg][hit[h].kind] # Null

(* The delay of an event is never longer than the true one. *)
DelaysAreFair ==
  \A h \in Hits : event[h] # Null =>
    LET accepted == acceptedAt[event[h].msg] IN
      /\ accepted # Null /\ accepted <= event[h].at
      /\ event[h].delay <= Round(event[h].at - accepted)

-----------------------------------------------------------------------------
(* Arithmetic of Math.round *)

(* Rounding a duration to seconds gives a natural number.                  *)
LEMMA RoundIsNat == ASSUME NEW t \in Nat PROVE Round(t) \in Nat
<1>1. Second \in Nat \ {0}
  BY TrackingAssumption
<1>2. 2 * t + Second \in Nat /\ 2 * Second \in Nat \ {0}
  BY <1>1
<1>3. ASSUME NEW a \in Nat, NEW d \in Nat \ {0} PROVE a \div d \in Nat
  OBVIOUS
<1> QED
  BY <1>2, <1>3 DEF Round

(* A longer duration is not rounded to fewer seconds.                      *)
LEMMA RoundIsMonotone ==
  ASSUME NEW s \in Nat, NEW t \in Nat, s <= t PROVE Round(s) <= Round(t)
<1> DEFINE d == 2 * Second
           a == 2 * s + Second
           b == 2 * t + Second
<1>1. Second \in Nat \ {0}
  BY TrackingAssumption
<1>2. a \in Nat /\ b \in Nat /\ d \in Nat \ {0} /\ a <= b
  BY <1>1
<1>3. ASSUME NEW x \in Nat, NEW y \in Nat, NEW e \in Nat \ {0}, x <= y
      PROVE  x \div e <= y \div e
  <2>1. PICK p \in Int, q \in Int :
          /\ p = x \div e /\ q = y \div e
          /\ e * p <= x /\ y < e * (q + 1)
    OBVIOUS
  <2>2. e * p \in Int /\ e * (q + 1) \in Int
    OBVIOUS
  <2>3. e * p < e * (q + 1)
    BY <1>3, <2>1, <2>2
  <2>4. p < q + 1
    BY <2>3
  <2> QED
    BY <2>1, <2>4
<1> QED
  BY <1>2, <1>3 DEF Round

-----------------------------------------------------------------------------
(* Types                                                                   *)

(* The delay of a handler that has read the clock is a number.             *)
LEMMA DelayIsNat ==
  ASSUME TypeOK, Chronology, NEW h \in Hits, pc[h] \in Clocked
  PROVE  Delay(h) \in Nat
<1>1. at[h] \in Nat /\ row[h].sentAt \in MaybeTime
  BY TrackingAssumption DEF TypeOK, Times
<1>2. CASE row[h].sentAt = Null
  <2>1. at[h] - at[h] \in Nat
    BY <1>1
  <2> QED
    BY <1>2, <2>1, RoundIsNat DEF Delay
<1>3. CASE row[h].sentAt # Null
  <2>1. row[h].sentAt \in Nat /\ row[h].sentAt <= at[h]
    BY <1>1, <1>3, TrackingAssumption DEF Chronology, MaybeTime, Times
  <2>2. at[h] - row[h].sentAt \in Nat
    BY <1>1, <2>1
  <2> QED
    BY <1>3, <2>2, RoundIsNat DEF Delay
<1> QED
  BY <1>2, <1>3

(* The burst size of a hit is a positive number.                           *)
LEMMA BurstSizeIsPositive ==
  ASSUME TypeOK, NEW h \in Hits, hit[h] \in Requests
  PROVE  BurstSize(h) \in Nat \ {0}
<1>1. LinksSeen(h) \subseteq Links
  <2>1. hit[h].url \in Links \cup {Null}
    BY DEF Requests
  <2>2. ASSUME NEW e \in Hits, InWindow(e, h) PROVE event[e].url \in Links \cup {Null}
    BY <2>2 DEF TypeOK, InWindow, EventRows
  <2> QED
    BY <2>1, <2>2 DEF LinksSeen
<1>2. IsFiniteSet(LinksSeen(h))
  BY <1>1, FS_Subset, TrackingAssumption
<1>3. CASE LinksSeen(h) = {}
  BY <1>3 DEF BurstSize
<1>4. CASE LinksSeen(h) # {}
  BY <1>2, <1>4, FS_CardinalityType, FS_EmptySet DEF BurstSize
<1> QED
  BY <1>3, <1>4

(* What a handler inserts is a row of the log.                             *)
LEMMA NewEventIsRow ==
  ASSUME TypeOK, Chronology, NEW h \in Hits, pc[h] = "create"
  PROVE  [msg |-> hit[h].msg, kind |-> hit[h].kind, url |-> hit[h].url,
          at |-> at[h], delay |-> Delay(h), burst |-> burst[h]] \in EventRows
<1>1. Delay(h) \in Nat
  BY DelayIsNat DEF Clocked
<1>2. hit[h] \in Requests /\ at[h] \in Times /\ burst[h] \in Nat \ {0}
  BY DEF TypeOK
<1> QED
  BY <1>1, <1>2 DEF EventRows, Requests, Kinds

(* Every step keeps the types. *)
LEMMA TypesKept ==
  ASSUME TypeOK, Chronology, [Next]_vars PROVE TypeOK'
<1> USE DEF TypeOK, MaybeTime
<1>1. CASE Tick
  BY <1>1, TrackingAssumption DEF Tick, sending, log, request, Times
<1>2. ASSUME NEW m \in Messages, Accept(m) PROVE TypeOK'
  BY <1>2 DEF Accept, log, request
<1>3. ASSUME NEW m \in Messages, MarkSent(m) PROVE TypeOK'
  BY <1>3 DEF MarkSent, log, request
<1>4. ASSUME NEW h \in Hits, Arrive(h) PROVE TypeOK'
  BY <1>4 DEF Arrive, Goto, Steps, sending, log
<1>5. ASSUME NEW h \in Hits, Load(h) PROVE TypeOK'
  <2>1. hit[h] \in Requests /\ hit[h].msg \in Messages /\ hit[h].kind \in Kinds
    BY <1>5 DEF Load, Requests, Kinds
  <2>2. row' \in [Hits -> [sentAt : MaybeTime, first : MaybeTime]]
    BY <1>5, <2>1 DEF Load
  <2> QED
    BY <1>5, <2>2 DEF Load, Goto, Steps, sending, log
<1>6. ASSUME NEW h \in Hits, Clock(h) PROVE TypeOK'
  BY <1>6 DEF Clock, Goto, Steps, sending, log
<1>7. ASSUME NEW h \in Hits, Recent(h) PROVE TypeOK'
  <2>1. BurstSize(h) \in Nat \ {0}
    BY <1>7, BurstSizeIsPositive DEF Recent
  <2> QED
    BY <1>7, <2>1 DEF Recent, Goto, Steps, sending, log
<1>8. ASSUME NEW h \in Hits, Create(h) PROVE TypeOK'
  <2>1. [msg |-> hit[h].msg, kind |-> hit[h].kind, url |-> hit[h].url,
         at |-> at[h], delay |-> Delay(h), burst |-> burst[h]] \in EventRows
    BY <1>8, NewEventIsRow DEF Create
  <2> QED
    BY <1>8, <2>1, TrackingAssumption DEF Create, Goto, Steps, sending
<1>9. ASSUME NEW h \in Hits, Backfill(h) PROVE TypeOK'
  <2>1. ASSUME NEW e \in Hits, InWindow(e, h)
        PROVE  [event[e] EXCEPT !.burst = burst[h]] \in EventRows
    <3>1. event[e] \in EventRows /\ burst[h] \in Nat \ {0}
      BY <2>1 DEF InWindow
    <3> QED
      BY <3>1 DEF EventRows
  <2>2. event' \in [Hits -> EventRows \cup {Null}]
    BY <1>9, <2>1 DEF Backfill
  <2> QED
    BY <1>9, <2>2 DEF Backfill, Goto, Steps, sending
<1>10. ASSUME NEW h \in Hits, FirstTouch(h) PROVE TypeOK'
  <2>1. hit[h] \in Requests /\ hit[h].msg \in Messages /\ hit[h].kind \in Kinds
    BY <1>10 DEF FirstTouch, Requests, Kinds
  <2>2. first' \in [Messages -> [Kinds -> MaybeTime]]
    BY <1>10, <2>1 DEF FirstTouch, TouchTime
  <2>3. 0 \in Times
    BY TrackingAssumption DEF Times
  <2> QED
    BY <1>10, <2>2, <2>3 DEF FirstTouch, Return, Goto, NoRow, Steps, sending, log
<1>11. ASSUME NEW h \in Hits, Fails(h) PROVE TypeOK'
  <2>1. 0 \in Times
    BY TrackingAssumption DEF Times
  <2> QED
    BY <1>11, <2>1 DEF Fails, Return, Goto, NoRow, Steps, sending, log
<1>12. CASE UNCHANGED vars
  BY <1>12 DEF vars, sending, log, request
<1> QED
  BY <1>1, <1>2, <1>3, <1>4, <1>5, <1>6, <1>7, <1>8, <1>9, <1>10, <1>11, <1>12
     DEF Next

-----------------------------------------------------------------------------
(* The order of times                                                      *)

(* Every step keeps the chronology. *)
LEMMA ChronologyKept ==
  ASSUME TypeOK, Chronology, [Next]_vars PROVE Chronology'
<1> USE DEF TypeOK, Chronology, MaybeTime, Times, Loaded, Clocked, Logged
<1>1. CASE Tick
  BY <1>1, TrackingAssumption DEF Tick, sending, log, request
<1>2. ASSUME NEW m \in Messages, Accept(m) PROVE Chronology'
  BY <1>2, TrackingAssumption DEF Accept, log, request, Requests
<1>3. ASSUME NEW m \in Messages, MarkSent(m) PROVE Chronology'
  BY <1>3, TrackingAssumption DEF MarkSent, log, request
<1>4. ASSUME NEW h \in Hits, Arrive(h) PROVE Chronology'
  BY <1>4 DEF Arrive, Goto, sending, log, Requests
<1>5. ASSUME NEW h \in Hits, Load(h) PROVE Chronology'
  BY <1>5 DEF Load, Goto, sending, log, Requests
<1>6. ASSUME NEW h \in Hits, Clock(h) PROVE Chronology'
  BY <1>6 DEF Clock, Goto, sending, log, Requests
<1>7. ASSUME NEW h \in Hits, Recent(h) PROVE Chronology'
  BY <1>7 DEF Recent, Goto, sending, log
<1>8. ASSUME NEW h \in Hits, Create(h) PROVE Chronology'
  BY <1>8 DEF Create, Goto, sending
<1>9. ASSUME NEW h \in Hits, Backfill(h) PROVE Chronology'
  BY <1>9 DEF Backfill, Goto, sending
<1>10. ASSUME NEW h \in Hits, FirstTouch(h) PROVE Chronology'
  BY <1>10 DEF FirstTouch, Return, Goto, sending, log
<1>11. ASSUME NEW h \in Hits, Fails(h) PROVE Chronology'
  BY <1>11 DEF Fails, Return, Goto, sending, log
<1>12. CASE UNCHANGED vars
  BY <1>12 DEF vars, sending, log, request
<1> QED
  BY <1>1, <1>2, <1>3, <1>4, <1>5, <1>6, <1>7, <1>8, <1>9, <1>10, <1>11, <1>12
     DEF Next

-----------------------------------------------------------------------------
(* The log and the first touches                                           *)

EvidenceInv == LoggedHitsHaveEvents /\ TouchesStay
                 /\ FirstTouchHasEvidence /\ RecordedHitsAreSeen

(* Every step keeps the log in order. *)
LEMMA EvidenceKept ==
  ASSUME TypeOK, Chronology, EvidenceInv, [Next]_vars PROVE EvidenceInv'
<1> USE DEF EvidenceInv, LoggedHitsHaveEvents, TouchesStay, RecordedHitsAreSeen,
            FirstTouchHasEvidence
<1>1. CASE Tick
  BY <1>1 DEF Tick, sending, log, request
<1>2. ASSUME NEW m \in Messages, Accept(m) PROVE EvidenceInv'
  BY <1>2 DEF Accept, log, request
<1>3. ASSUME NEW m \in Messages, MarkSent(m) PROVE EvidenceInv'
  BY <1>3 DEF MarkSent, log, request
<1>4. ASSUME NEW h \in Hits, Arrive(h) PROVE EvidenceInv'
  <2>1. /\ UNCHANGED <<event, first, row, at>>
        /\ pc' = [pc EXCEPT ![h] = "load"] /\ pc[h] = "idle"
        /\ \A g \in Hits \ {h} : hit'[g] = hit[g]
    BY <1>4 DEF TypeOK, Arrive, Goto, log
  <2>2. pc'[h] = "load" /\ \A g \in Hits \ {h} : pc'[g] = pc[g]
    BY <2>1 DEF TypeOK
  <2>3. event[h] = Null
    BY <2>1 DEF Logged
  <2>4. LoggedHitsHaveEvents'
    BY <2>1, <2>2, <2>3 DEF Logged
  <2>5. TouchesStay'
    BY <2>1, <2>2 DEF Loaded, Clocked, Logged
  <2>6. FirstTouchHasEvidence'
    BY <2>1
  <2>7. RecordedHitsAreSeen'
    BY <2>1, <2>2
  <2> QED
    BY <2>4, <2>5, <2>6, <2>7
<1>5. ASSUME NEW h \in Hits, Load(h) PROVE EvidenceInv'
  BY <1>5 DEF TypeOK, Load, Goto, log, Loaded, Clocked, Logged
<1>6. ASSUME NEW h \in Hits, Clock(h) PROVE EvidenceInv'
  BY <1>6 DEF TypeOK, Clock, Goto, log, Loaded, Clocked, Logged
<1>7. ASSUME NEW h \in Hits, Recent(h) PROVE EvidenceInv'
  BY <1>7 DEF TypeOK, Recent, Goto, log, Loaded, Clocked, Logged
<1>8. ASSUME NEW h \in Hits, Create(h) PROVE EvidenceInv'
  <2> DEFINE new == [msg |-> hit[h].msg, kind |-> hit[h].kind,
                     url |-> hit[h].url, at |-> at[h],
                     delay |-> Delay(h), burst |-> burst[h]]
  <2>1. event[h] = Null
    BY <1>8 DEF Create, Logged
  <2>2. new \in EventRows /\ new # Null
    BY <1>8, NewEventIsRow, NullAssumption DEF Create
  <2>3. /\ event' = [event EXCEPT ![h] = new]
        /\ UNCHANGED <<first, hit, row, at>>
        /\ pc' = [pc EXCEPT ![h] = IF burst[h] > 1 THEN "backfill" ELSE "first"]
    BY <1>8 DEF Create, Goto
  <2>4. event'[h] = new /\ \A g \in Hits \ {h} : event'[g] = event[g]
    BY <2>3 DEF TypeOK
  <2>5. /\ pc'[h] \in Logged /\ pc[h] \in Loaded
        /\ \A g \in Hits \ {h} : pc'[g] = pc[g]
    BY <1>8, <2>3 DEF TypeOK, Create, Logged, Clocked, Loaded
  <2>6. LoggedHitsHaveEvents'
    <3>1. ASSUME NEW g \in Hits, g # h
          PROVE  /\ pc'[g] \notin Logged \cup {"recorded", "lost"} => event'[g] = Null
                 /\ pc'[g] \in Logged =>
                      /\ event'[g] # Null
                      /\ event'[g].msg = hit'[g].msg /\ event'[g].kind = hit'[g].kind
                      /\ event'[g].at = at'[g]
      BY <2>3, <2>4, <2>5, <3>1
    <3>2. /\ event'[h] # Null
          /\ event'[h].msg = hit'[h].msg /\ event'[h].kind = hit'[h].kind
          /\ event'[h].at = at'[h]
      BY <2>2, <2>3, <2>4
    <3> QED
      BY <2>5, <3>1, <3>2
  <2>7. TouchesStay'
    BY <2>3, <2>5
  <2>8. FirstTouchHasEvidence'
    BY <2>1, <2>3, <2>4
  <2>9. RecordedHitsAreSeen'
    BY <2>3, <2>5 DEF Logged
  <2> QED
    BY <2>6, <2>7, <2>8, <2>9
<1>9. ASSUME NEW h \in Hits, Backfill(h) PROVE EvidenceInv'
  <2>1. ASSUME NEW g \in Hits
        PROVE  /\ event'[g] = Null <=> event[g] = Null
               /\ event[g] # Null => /\ event'[g].msg = event[g].msg
                                     /\ event'[g].kind = event[g].kind
                                     /\ event'[g].at = event[g].at
    <3>1. CASE InWindow(g, h)
      <4>1. event[g] \in EventRows /\ burst[h] \in Nat \ {0}
        BY <3>1 DEF TypeOK, InWindow
      <4>2. event'[g] = [event[g] EXCEPT !.burst = burst[h]]
        BY <1>9, <3>1 DEF Backfill
      <4>3. event'[g] \in EventRows
        BY <4>1, <4>2 DEF EventRows
      <4>4. event[g] # Null /\ event'[g] # Null
        BY <4>1, <4>3, NullAssumption
      <4> QED
        BY <4>1, <4>2, <4>4 DEF EventRows
    <3>2. CASE ~InWindow(g, h)
      BY <1>9, <3>2 DEF Backfill
    <3> QED
      BY <3>1, <3>2
  <2>2. /\ UNCHANGED <<first, hit, row, at>>
        /\ pc'[h] \in Logged /\ pc[h] \in Logged
        /\ \A g \in Hits \ {h} : pc'[g] = pc[g]
    BY <1>9 DEF TypeOK, Backfill, Goto, Logged
  <2>3. LoggedHitsHaveEvents'
    BY <2>1, <2>2
  <2>4. TouchesStay'
    BY <2>2 DEF Loaded, Clocked
  <2>5. FirstTouchHasEvidence'
    BY <2>1, <2>2
  <2>6. RecordedHitsAreSeen'
    BY <2>2 DEF Logged
  <2> QED
    BY <2>3, <2>4, <2>5, <2>6
<1>10. ASSUME NEW h \in Hits, FirstTouch(h) PROVE EvidenceInv'
  <2> DEFINE m0 == hit[h].msg
             k0 == hit[h].kind
  <2>1. m0 \in Messages /\ k0 \in Kinds
    BY <1>10 DEF TypeOK, FirstTouch, Requests, Kinds
  <2>2. /\ UNCHANGED <<event, hit>>
        /\ pc' = [pc EXCEPT ![h] = "recorded"]
        /\ \A g \in Hits \ {h} : row'[g] = row[g] /\ at'[g] = at[g]
    BY <1>10 DEF TypeOK, FirstTouch, Return, Goto, log
  <2>3. at[h] # Null
    BY TrackingAssumption DEF TypeOK
  <2>4. first'[m0][k0] = IF row[h].first = Null THEN at[h] ELSE first[m0][k0]
    BY <1>10, <2>1 DEF TypeOK, FirstTouch, NotSeenBefore, TouchTime
  <2>5. \A m \in Messages, k \in Kinds :
          m # m0 \/ k # k0 => first'[m][k] = first[m][k]
    BY <1>10, <2>1 DEF TypeOK, FirstTouch, NotSeenBefore, TouchTime
  <2>6. first'[m0][k0] # Null
    BY <1>10, <2>3, <2>4 DEF FirstTouch, Loaded, Clocked, Logged
  <2>7. \A m \in Messages, k \in Kinds :
          first[m][k] # Null => first'[m][k] # Null
    BY <2>5, <2>6
  <2>8. LoggedHitsHaveEvents'
    BY <2>2 DEF TypeOK, Logged
  <2>9. TouchesStay'
    <3>1. ASSUME NEW g \in Hits, pc[g] \in Loaded
          PROVE  hit[g].msg \in Messages /\ hit[g].kind \in Kinds
      BY <3>1 DEF TypeOK, Requests, Kinds, Loaded, Clocked, Logged
    <3> QED
      BY <2>2, <2>7, <3>1 DEF TypeOK, Loaded, Clocked, Logged
  <2>10. FirstTouchHasEvidence'
    <3>1. /\ event[h] # Null /\ event[h].msg = m0
          /\ event[h].kind = k0 /\ event[h].at = at[h]
      BY <1>10 DEF FirstTouch, Logged
    <3> QED
      BY <2>2, <2>4, <2>5, <3>1
  <2>11. RecordedHitsAreSeen'
    <3>1. ASSUME NEW g \in Hits, pc[g] = "recorded"
          PROVE  hit[g].msg \in Messages /\ hit[g].kind \in Kinds
      BY <3>1 DEF TypeOK, Requests, Kinds
    <3> QED
      BY <2>2, <2>6, <2>7, <3>1 DEF TypeOK
  <2> QED
    BY <2>8, <2>9, <2>10, <2>11
<1>11. ASSUME NEW h \in Hits, Fails(h) PROVE EvidenceInv'
  BY <1>11 DEF TypeOK, Fails, Return, Goto, log, Loaded, Clocked, Logged
<1>12. CASE UNCHANGED vars
  BY <1>12 DEF vars, sending, log, request
<1> QED
  BY <1>1, <1>2, <1>3, <1>4, <1>5, <1>6, <1>7, <1>8, <1>9, <1>10, <1>11, <1>12
     DEF Next

-----------------------------------------------------------------------------
(* Delays                                                                  *)

(* The delay a handler computes is never longer than the true one.         *)
LEMMA DelayIsFair ==
  ASSUME TypeOK, Chronology, NEW h \in Hits, pc[h] \in Clocked
  PROVE  LET accepted == acceptedAt[hit[h].msg] IN
           /\ accepted # Null /\ accepted <= at[h]
           /\ Delay(h) <= Round(at[h] - accepted)
<1> DEFINE accepted == acceptedAt[hit[h].msg]
<1>1. at[h] \in Nat
  BY TrackingAssumption DEF TypeOK, Times
<1>2. accepted # Null /\ accepted <= at[h]
  BY DEF Chronology, Clocked, Logged
<1>3. hit[h] \in Requests /\ hit[h].msg \in Messages
  BY DEF TypeOK, Clocked, Logged, Requests
<1>4. accepted \in Nat
  BY <1>2, <1>3 DEF TypeOK, MaybeTime, Times
<1>5. at[h] - accepted \in Nat
  BY <1>1, <1>2, <1>4
<1>6. CASE row[h].sentAt = Null
  <2>1. at[h] - at[h] \in Nat /\ at[h] - at[h] <= at[h] - accepted
    BY <1>1, <1>5
  <2>2. Round(at[h] - at[h]) <= Round(at[h] - accepted)
    BY <1>5, <2>1, RoundIsMonotone
  <2> QED
    BY <1>2, <1>6, <2>2 DEF Delay
<1>7. CASE row[h].sentAt # Null
  <2>1. row[h].sentAt \in Nat
    BY <1>7 DEF TypeOK, MaybeTime, Times
  <2>2. accepted <= row[h].sentAt /\ row[h].sentAt <= at[h]
    BY <1>7 DEF Chronology, Clocked, Logged, Loaded
  <2>3. /\ at[h] - row[h].sentAt \in Nat
        /\ at[h] - row[h].sentAt <= at[h] - accepted
    BY <1>1, <1>4, <2>1, <2>2
  <2>4. Round(at[h] - row[h].sentAt) <= Round(at[h] - accepted)
    BY <1>5, <2>3, RoundIsMonotone
  <2> QED
    BY <1>2, <1>7, <2>4 DEF Delay
<1> QED
  BY <1>6, <1>7

(* Every step keeps the delays fair. *)
LEMMA DelaysKept ==
  ASSUME TypeOK, Chronology, DelaysAreFair, [Next]_vars PROVE DelaysAreFair'
<1>1. ASSUME NEW h \in Hits, Create(h) PROVE DelaysAreFair'
  <2> DEFINE new == [msg |-> hit[h].msg, kind |-> hit[h].kind,
                     url |-> hit[h].url, at |-> at[h],
                     delay |-> Delay(h), burst |-> burst[h]]
  <2>1. UNCHANGED acceptedAt /\ event' = [event EXCEPT ![h] = new]
    BY <1>1 DEF Create, sending
  <2>2. event'[h] = new /\ \A g \in Hits \ {h} : event'[g] = event[g]
    BY <2>1 DEF TypeOK
  <2>3. LET accepted == acceptedAt[new.msg] IN
          /\ accepted # Null /\ accepted <= new.at
          /\ new.delay <= Round(new.at - accepted)
    BY <1>1, DelayIsFair DEF Create, Clocked
  <2> QED
    BY <2>1, <2>2, <2>3 DEF DelaysAreFair
<1>2. ASSUME NEW h \in Hits, Backfill(h) PROVE DelaysAreFair'
  <2>1. ASSUME NEW g \in Hits, event'[g] # Null
        PROVE  /\ event[g] # Null
               /\ event'[g].msg = event[g].msg /\ event'[g].at = event[g].at
               /\ event'[g].delay = event[g].delay
    <3>1. CASE InWindow(g, h)
      <4>1. event[g] \in EventRows /\ event[g] # Null
        BY <3>1 DEF TypeOK, InWindow
      <4>2. event'[g] = [event[g] EXCEPT !.burst = burst[h]]
        BY <1>2, <3>1 DEF Backfill
      <4> QED
        BY <4>1, <4>2 DEF EventRows
    <3>2. CASE ~InWindow(g, h)
      BY <1>2, <2>1, <3>2 DEF Backfill
    <3> QED
      BY <3>1, <3>2
  <2>2. UNCHANGED acceptedAt
    BY <1>2 DEF Backfill, sending
  <2> QED
    BY <2>1, <2>2 DEF DelaysAreFair
<1>3. ASSUME NEW m \in Messages, Accept(m) PROVE DelaysAreFair'
  <2>1. UNCHANGED event
    BY <1>3 DEF Accept, log
  <2>2. \A n \in Messages : acceptedAt[n] # Null => acceptedAt'[n] = acceptedAt[n]
    BY <1>3 DEF Accept, TypeOK
  <2>3. \A h \in Hits : event[h] # Null => event[h].msg \in Messages
    BY DEF TypeOK, EventRows
  <2> QED
    BY <2>1, <2>2, <2>3 DEF DelaysAreFair
<1>4. CASE UNCHANGED <<event, acceptedAt>>
  BY <1>4 DEF DelaysAreFair
<1>5. ASSUME NEW h \in Hits,
             \/ Arrive(h) \/ Load(h) \/ Clock(h) \/ Recent(h)
             \/ FirstTouch(h) \/ Fails(h)
      PROVE  DelaysAreFair'
  BY <1>4, <1>5 DEF Arrive, Load, Clock, Recent, FirstTouch, Fails, sending, log
<1>6. CASE Tick \/ UNCHANGED vars \/ \E m \in Messages : MarkSent(m)
  BY <1>4, <1>6 DEF Tick, vars, MarkSent, sending, log
<1> QED
  BY <1>1, <1>2, <1>3, <1>5, <1>6 DEF Next

-----------------------------------------------------------------------------
(* Bursts                                                                  *)

(* Nothing in the log is of the future; what a handler is about to write   *)
(* of a burst it has seen, and the log still shows; and so it does for     *)
(* every burst written.                                                    *)
BurstInv ==
  /\ \A h \in Hits : /\ at[h] <= now /\ closedAt[h] <= now
                     /\ event[h] # Null => event[h].at <= now
  /\ \A h \in Hits : pc[h] = "backfill" => event[h] # Null /\ event[h].url = hit[h].url
  /\ \A h \in Hits : pc[h] \in {"create", "backfill"} /\ burst[h] > 1 =>
       burst[h] <= Cardinality(LinksSeen(h))
  /\ BurstsAreReal

(* The events between the start of the window of event g and the last      *)
(* write of its handler, as BurstsAreReal counts them.                     *)
Seen(g) == {x \in Hits : /\ event[x] # Null
                         /\ event[x].msg = event[g].msg
                         /\ event[x].kind = event[g].kind
                         /\ event[x].at + BurstWindow >= event[g].at
                         /\ event[x].at <= closedAt[g]}
SeenUrls(g) == {event[x].url : x \in Seen(g)}

(* The log only grows: an event stays as it was inserted, but for its burst. *)
LogGrows ==
  /\ \A x \in Hits : event[x] # Null =>
       /\ event'[x] # Null
       /\ event'[x].msg = event[x].msg /\ event'[x].kind = event[x].kind
       /\ event'[x].url = event[x].url /\ event'[x].at = event[x].at
  /\ \A x \in Hits : closedAt[x] <= closedAt'[x]

(* What the log holds of a burst can be counted.                           *)
UrlsCanBeCounted ==
  /\ \A g \in Hits : IsFiniteSet(SeenUrls(g)) /\ Cardinality(SeenUrls(g)) \in Nat
  /\ \A h \in Hits : hit[h] \in Requests =>
       IsFiniteSet(LinksSeen(h)) /\ Cardinality(LinksSeen(h)) \in Nat

LEMMA UrlsAreFinite == TypeOK => UrlsCanBeCounted
<1> SUFFICES ASSUME TypeOK PROVE UrlsCanBeCounted
  OBVIOUS
<1>1. IsFiniteSet(Links \cup {Null})
  BY TrackingAssumption, FS_Singleton, FS_Union
<1>2. \A g \in Hits : SeenUrls(g) \subseteq Links \cup {Null}
  BY DEF SeenUrls, Seen, TypeOK, EventRows
<1>3. ASSUME NEW h \in Hits, hit[h] \in Requests PROVE LinksSeen(h) \subseteq Links \cup {Null}
  <2>1. hit[h].url \in Links \cup {Null}
    BY <1>3 DEF Requests
  <2>2. \A e \in Hits : InWindow(e, h) => event[e].url \in Links \cup {Null}
    BY DEF TypeOK, InWindow, EventRows
  <2> QED
    BY <2>1, <2>2 DEF LinksSeen
<1> QED
  BY <1>1, <1>2, <1>3, FS_Subset, FS_CardinalityType DEF UrlsCanBeCounted

LEMMA UrlsStayFinite == TypeOK' => UrlsCanBeCounted'
BY UrlsAreFinite, PTL

LEMMA SeenGrows ==
  ASSUME TypeOK, TypeOK', LogGrows, NEW g \in Hits, event[g] # Null
  PROVE  /\ Seen(g) \subseteq Seen(g)'
         /\ Cardinality(SeenUrls(g)) <= Cardinality(SeenUrls(g)')
<1>1. /\ closedAt[g] \in Nat /\ closedAt'[g] \in Nat /\ BurstWindow \in Nat
      /\ \A x \in Hits : event[x] # Null => event[x].at \in Nat
  BY TrackingAssumption DEF TypeOK, EventRows, Times
<1>2. Seen(g) \subseteq Seen(g)'
  BY <1>1 DEF Seen, LogGrows
<1>3. SeenUrls(g) \subseteq SeenUrls(g)'
  BY <1>2 DEF SeenUrls, Seen, LogGrows
<1>4. IsFiniteSet(SeenUrls(g)')
  BY UrlsStayFinite DEF UrlsCanBeCounted
<1> QED
  BY <1>2, <1>3, <1>4, FS_Subset

LEMMA LinksSeenGrow ==
  ASSUME TypeOK, TypeOK', LogGrows, NEW h \in Hits, hit[h] \in Requests,
         hit'[h] = hit[h], at'[h] = at[h]
  PROVE  Cardinality(LinksSeen(h)) <= Cardinality(LinksSeen(h)')
<1>1. \A e \in Hits : InWindow(e, h) => InWindow(e, h)' /\ event'[e].url = event[e].url
  BY DEF InWindow, LogGrows
<1>2. LinksSeen(h) \subseteq LinksSeen(h)'
  BY <1>1 DEF LinksSeen
<1>3. IsFiniteSet(LinksSeen(h)')
  BY UrlsStayFinite DEF UrlsCanBeCounted
<1> QED
  BY <1>2, <1>3, FS_Subset

(* A burst is real if its event is one some handler saw.                   *)
BurstsAreSeen ==
  \A h \in Hits : event[h] # Null /\ event[h].burst > 1 =>
    \E g \in Hits : /\ event[g] # Null /\ h \in Seen(g)
                    /\ event[h].burst <= Cardinality(SeenUrls(g))

LEMMA RealBursts == BurstsAreReal <=> BurstsAreSeen
BY DEF BurstsAreReal, BurstsAreSeen, Seen, SeenUrls

(* Bursts stay real in a step that writes none.                            *)
LEMMA BurstsStayReal ==
  ASSUME TypeOK, TypeOK', LogGrows, BurstsAreReal, NEW h \in Hits,
         event[h] # Null, event'[h].burst = event[h].burst, event[h].burst > 1
  PROVE  \E g \in Hits : /\ event'[g] # Null /\ h \in Seen(g)'
                         /\ event'[h].burst <= Cardinality(SeenUrls(g)')
<1>1. PICK g \in Hits : /\ event[g] # Null /\ h \in Seen(g)
                        /\ event[h].burst <= Cardinality(SeenUrls(g))
  BY RealBursts DEF BurstsAreSeen
<1>2. h \in Seen(g)' /\ Cardinality(SeenUrls(g)) <= Cardinality(SeenUrls(g)')
  BY <1>1, SeenGrows
<1>3. event'[g] # Null
  BY <1>1 DEF LogGrows
<1>4. Cardinality(SeenUrls(g)) \in Nat /\ Cardinality(SeenUrls(g)') \in Nat
      /\ event[h].burst \in Nat
  BY UrlsAreFinite, UrlsStayFinite DEF UrlsCanBeCounted, TypeOK, EventRows
<1> QED
  BY <1>1, <1>2, <1>3, <1>4

(* What a step must show to keep the bursts real.                          *)
LEMMA BurstStep ==
  ASSUME TypeOK, TypeOK', BurstInv, LogGrows,
         \A h \in Hits : /\ at'[h] <= now' /\ closedAt'[h] <= now'
                         /\ event'[h] # Null => event'[h].at <= now',
         \A h \in Hits : pc'[h] = "backfill" => event'[h] # Null /\ event'[h].url = hit'[h].url,
         \A h \in Hits : pc'[h] \in {"create", "backfill"} /\ burst'[h] > 1 =>
           \/ /\ pc[h] \in {"create", "backfill"} /\ hit'[h] = hit[h]
              /\ at'[h] = at[h] /\ burst'[h] = burst[h]
           \/ burst'[h] <= Cardinality(LinksSeen(h)'),
         \A h \in Hits : event'[h] # Null /\ event'[h].burst > 1 =>
           \/ event[h] # Null /\ event'[h].burst = event[h].burst
           \/ \E g \in Hits : /\ event'[g] # Null /\ h \in Seen(g)'
                              /\ event'[h].burst <= Cardinality(SeenUrls(g)')
  PROVE  BurstInv'
<1>1. ASSUME NEW h \in Hits, pc'[h] \in {"create", "backfill"}, burst'[h] > 1
      PROVE  burst'[h] <= Cardinality(LinksSeen(h)')
  <2>1. CASE /\ pc[h] \in {"create", "backfill"} /\ hit'[h] = hit[h]
             /\ at'[h] = at[h] /\ burst'[h] = burst[h]
    <3>1. hit[h] \in Requests /\ hit'[h] \in Requests
      BY <1>1, <2>1 DEF TypeOK
    <3>2. Cardinality(LinksSeen(h)) <= Cardinality(LinksSeen(h)')
      BY <2>1, <3>1, LinksSeenGrow
    <3>3. burst[h] <= Cardinality(LinksSeen(h))
      BY <1>1, <2>1 DEF BurstInv
    <3>4. Cardinality(LinksSeen(h)) \in Nat /\ Cardinality(LinksSeen(h)') \in Nat
          /\ burst[h] \in Nat
      BY <3>1, UrlsAreFinite, UrlsStayFinite DEF UrlsCanBeCounted, TypeOK
    <3> QED
      BY <2>1, <3>2, <3>3, <3>4
  <2> QED
    BY <1>1, <2>1
<1>2. ASSUME NEW h \in Hits, event'[h] # Null, event'[h].burst > 1
      PROVE  \E g \in Hits : /\ event'[g] # Null /\ h \in Seen(g)'
                             /\ event'[h].burst <= Cardinality(SeenUrls(g)')
  <2>1. CASE event[h] # Null /\ event'[h].burst = event[h].burst
    BY <1>2, <2>1, BurstsStayReal DEF BurstInv
  <2> QED
    BY <1>2, <2>1
<1>3. BurstsAreReal'
  <2>1. BurstsAreReal' <=> BurstsAreSeen'
    BY RealBursts, PTL
  <2>2. BurstsAreSeen'
    BY <1>2 DEF BurstsAreSeen
  <2> QED
    BY <2>1, <2>2
<1>4. \A h \in Hits : pc'[h] \in {"create", "backfill"} /\ burst'[h] > 1 =>
        burst'[h] <= Cardinality(LinksSeen(h)')
  BY <1>1
<1> QED
  BY <1>3, <1>4 DEF BurstInv

(* A handler has seen, when it writes, what its window held when it looked.*)
LEMMA LooksAreSeen ==
  ASSUME TypeOK, TypeOK', LogGrows, BurstInv, NEW h \in Hits, hit[h] \in Requests,
         event'[h] # Null, closedAt'[h] = now,
         event'[h].msg = hit[h].msg, event'[h].kind = hit[h].kind,
         event'[h].url = hit[h].url, event'[h].at = at[h]
  PROVE  /\ h \in Seen(h)'
         /\ \A e \in Hits : InWindow(e, h) => e \in Seen(h)'
         /\ Cardinality(LinksSeen(h)) <= Cardinality(SeenUrls(h)')
<1>1. /\ at[h] \in Nat /\ now \in Nat /\ BurstWindow \in Nat /\ at[h] <= now
      /\ \A e \in Hits : event[e] # Null => event[e].at \in Nat /\ event[e].at <= now
  BY TrackingAssumption DEF TypeOK, EventRows, Times, BurstInv
<1>2. h \in Seen(h)'
  BY <1>1 DEF Seen
<1>3. ASSUME NEW e \in Hits, InWindow(e, h) PROVE e \in Seen(h)' /\ event'[e].url = event[e].url
  BY <1>1, <1>3 DEF InWindow, Seen, LogGrows
<1>4. LinksSeen(h) \subseteq SeenUrls(h)'
  BY <1>2, <1>3 DEF LinksSeen, SeenUrls
<1>5. IsFiniteSet(SeenUrls(h)')
  BY UrlsStayFinite DEF UrlsCanBeCounted
<1> QED
  BY <1>2, <1>3, <1>4, <1>5, FS_Subset

(* Every step keeps the bursts real. *)
LEMMA BurstsKept ==
  ASSUME TypeOK, Chronology, EvidenceInv, BurstInv, [Next]_vars PROVE BurstInv'
<1>1. TypeOK'
  BY TypesKept
<1>2. /\ now \in Nat /\ \A h \in Hits : closedAt[h] \in Nat /\ at[h] \in Nat /\ at[h] <= now
                                        /\ closedAt[h] <= now
      /\ \A h \in Hits : event[h] # Null => event[h].at \in Nat /\ event[h].at <= now
      /\ now' \in Nat
  BY <1>1, TrackingAssumption DEF TypeOK, EventRows, Times, BurstInv
<1>3. UNCHANGED log => LogGrows
  BY <1>2 DEF log, LogGrows
<1>4. ASSUME UNCHANGED log, UNCHANGED <<hit, burst>>, now <= now',
             \A h \in Hits : at'[h] <= now',
             \A h \in Hits : pc'[h] \in {"create", "backfill"} => pc'[h] = pc[h] /\ at'[h] = at[h]
      PROVE  BurstInv'
  <2>1. event' = event /\ closedAt' = closedAt
    BY <1>4 DEF log
  <2>2. \A h \in Hits : /\ at'[h] <= now' /\ closedAt'[h] <= now'
                        /\ event'[h] # Null => event'[h].at <= now'
    BY <1>2, <1>4, <2>1
  <2>3. \A h \in Hits : pc'[h] = "backfill" => event'[h] # Null /\ event'[h].url = hit'[h].url
    BY <1>4, <2>1 DEF BurstInv
  <2> QED
    BY <1>1, <1>3, <1>4, <2>1, <2>2, <2>3, BurstStep
<1>5. CASE Tick
  BY <1>2, <1>4, <1>5 DEF Tick, sending, request, log
<1>6. ASSUME NEW m \in Messages, Accept(m) \/ MarkSent(m) PROVE BurstInv'
  BY <1>2, <1>4, <1>6 DEF Accept, MarkSent, request, log
<1>7. ASSUME NEW h \in Hits, Arrive(h) PROVE BurstInv'
  <2>1. /\ pc' = [pc EXCEPT ![h] = "load"] /\ pc[h] = "idle" /\ UNCHANGED <<now, log, at, burst>>
        /\ \A g \in Hits \ {h} : hit'[g] = hit[g]
    BY <1>7 DEF Arrive, Goto, TypeOK
  <2>2. pc'[h] = "load" /\ \A g \in Hits \ {h} : pc'[g] = pc[g]
    BY <2>1 DEF TypeOK
  <2>3. event' = event /\ closedAt' = closedAt
    BY <2>1 DEF log
  <2>4. \A g \in Hits : pc'[g] \in {"create", "backfill"} => g # h
    BY <2>2
  <2>5. \A g \in Hits : pc'[g] = "backfill" => event'[g] # Null /\ event'[g].url = hit'[g].url
    BY <2>1, <2>2, <2>3, <2>4 DEF BurstInv
  <2>6. \A g \in Hits : /\ at'[g] <= now' /\ closedAt'[g] <= now'
                        /\ event'[g] # Null => event'[g].at <= now'
    BY <1>2, <2>1, <2>3
  <2> QED
    BY <1>1, <1>3, <2>1, <2>2, <2>3, <2>4, <2>5, <2>6, BurstStep
<1>8. ASSUME NEW h \in Hits, Load(h) PROVE BurstInv'
  <2>1. /\ pc' = [pc EXCEPT ![h] = "clock"] /\ UNCHANGED <<now, log, hit, at, burst>>
    BY <1>8 DEF Load, Goto
  <2> QED
    BY <1>2, <1>4, <2>1 DEF TypeOK
<1>9. ASSUME NEW h \in Hits, Clock(h) PROVE BurstInv'
  <2>1. /\ pc' = [pc EXCEPT ![h] = "recent"] /\ UNCHANGED <<now, log, hit, burst>>
        /\ at' = [at EXCEPT ![h] = now]
    BY <1>9 DEF Clock, Goto
  <2> QED
    BY <1>2, <1>4, <2>1 DEF TypeOK
<1>10. ASSUME NEW h \in Hits, Recent(h) PROVE BurstInv'
  <2>1. /\ pc' = [pc EXCEPT ![h] = "create"] /\ UNCHANGED <<now, log, hit, at>>
        /\ burst' = [burst EXCEPT ![h] = BurstSize(h)] /\ pc[h] = "recent"
    BY <1>10 DEF Recent, Goto
  <2>2. /\ pc'[h] = "create" /\ burst'[h] = BurstSize(h)
        /\ \A g \in Hits \ {h} : pc'[g] = pc[g] /\ burst'[g] = burst[g]
    BY <2>1 DEF TypeOK
  <2>3. event' = event /\ closedAt' = closedAt
    BY <2>1 DEF log
  <2>4. LinksSeen(h)' = LinksSeen(h)
    BY <2>1, <2>3 DEF LinksSeen, InWindow
  <2>5. burst'[h] > 1 => burst'[h] <= Cardinality(LinksSeen(h)')
    <3>1. BurstSize(h) > 1 => BurstSize(h) = Cardinality(LinksSeen(h))
      BY DEF BurstSize
    <3>2. BurstSize(h) \in Nat
      BY <2>1, BurstSizeIsPositive DEF TypeOK
    <3> QED
      BY <2>2, <2>4, <3>1, <3>2
  <2>6. \A g \in Hits : pc'[g] = "backfill" => event'[g] # Null /\ event'[g].url = hit'[g].url
    BY <2>1, <2>2, <2>3 DEF BurstInv
  <2>7. \A g \in Hits : /\ at'[g] <= now' /\ closedAt'[g] <= now'
                        /\ event'[g] # Null => event'[g].at <= now'
    BY <1>2, <2>1, <2>3
  <2> QED
    BY <1>1, <1>3, <2>1, <2>2, <2>3, <2>5, <2>6, <2>7, BurstStep
<1>11. ASSUME NEW h \in Hits, Create(h) PROVE BurstInv'
  <2> DEFINE new == [msg |-> hit[h].msg, kind |-> hit[h].kind, url |-> hit[h].url,
                     at |-> at[h], delay |-> Delay(h), burst |-> burst[h]]
  <2>1. /\ event' = [event EXCEPT ![h] = new] /\ closedAt' = [closedAt EXCEPT ![h] = now]
        /\ pc[h] = "create" /\ UNCHANGED <<now, hit, at, burst>>
        /\ pc' = [pc EXCEPT ![h] = IF burst[h] > 1 THEN "backfill" ELSE "first"]
    BY <1>11 DEF Create, Goto
  <2>2. event[h] = Null /\ hit[h] \in Requests
    BY <2>1 DEF EvidenceInv, LoggedHitsHaveEvents, Logged, TypeOK
  <2>3. new \in EventRows /\ new # Null
    BY <2>1, NewEventIsRow, NullAssumption
  <2>4. /\ event'[h] # Null /\ event'[h].msg = hit[h].msg /\ event'[h].kind = hit[h].kind
        /\ event'[h].url = hit[h].url /\ event'[h].at = at[h] /\ event'[h].burst = burst[h]
        /\ closedAt'[h] = now
        /\ \A g \in Hits \ {h} : event'[g] = event[g] /\ closedAt'[g] = closedAt[g]
                                  /\ pc'[g] = pc[g]
    BY <2>1, <2>3 DEF TypeOK
  <2> HIDE DEF new
  <2>5. LogGrows
    BY <1>2, <2>2, <2>4 DEF LogGrows
  <2>6. /\ h \in Seen(h)' /\ Cardinality(LinksSeen(h)) <= Cardinality(SeenUrls(h)')
    BY <1>1, <2>2, <2>4, <2>5, LooksAreSeen
  <2>7. burst[h] > 1 => burst[h] <= Cardinality(SeenUrls(h)')
    <3>1. burst[h] > 1 => burst[h] <= Cardinality(LinksSeen(h))
      BY <2>1 DEF BurstInv
    <3>2. /\ Cardinality(LinksSeen(h)) \in Nat /\ Cardinality(SeenUrls(h)') \in Nat
          /\ burst[h] \in Nat
      BY <1>1, <2>2, UrlsAreFinite, UrlsStayFinite DEF UrlsCanBeCounted, TypeOK
    <3> QED
      BY <2>6, <3>1, <3>2
  <2>8. \A g \in Hits : event'[g] # Null /\ event'[g].burst > 1 =>
          \/ event[g] # Null /\ event'[g].burst = event[g].burst
          \/ \E k \in Hits : /\ event'[k] # Null /\ g \in Seen(k)'
                             /\ event'[g].burst <= Cardinality(SeenUrls(k)')
    BY <2>4, <2>6, <2>7
  <2>9. \A g \in Hits : /\ at'[g] <= now' /\ closedAt'[g] <= now'
                        /\ event'[g] # Null => event'[g].at <= now'
    BY <1>2, <2>1, <2>4
  <2>10. \A g \in Hits : pc'[g] = "backfill" => event'[g] # Null /\ event'[g].url = hit'[g].url
    BY <2>1, <2>4 DEF BurstInv
  <2>11. \A g \in Hits : pc'[g] \in {"create", "backfill"} =>
           pc[g] \in {"create", "backfill"} /\ hit'[g] = hit[g] /\ at'[g] = at[g]
             /\ burst'[g] = burst[g]
    BY <2>1, <2>4
  <2> QED
    BY <1>1, <2>5, <2>8, <2>9, <2>10, <2>11, BurstStep
<1>12. ASSUME NEW h \in Hits, Backfill(h) PROVE BurstInv'
  <2>1. /\ event' = [e \in Hits |-> IF InWindow(e, h) THEN [event[e] EXCEPT !.burst = burst[h]]
                                    ELSE event[e]]
        /\ closedAt' = [closedAt EXCEPT ![h] = now]
        /\ pc[h] = "backfill" /\ UNCHANGED <<now, hit, at, burst>>
        /\ pc' = [pc EXCEPT ![h] = "first"]
    BY <1>12 DEF Backfill, Goto
  <2>2. /\ hit[h] \in Requests /\ event[h] # Null
        /\ event[h].msg = hit[h].msg /\ event[h].kind = hit[h].kind
        /\ event[h].url = hit[h].url /\ event[h].at = at[h]
    BY <2>1 DEF EvidenceInv, LoggedHitsHaveEvents, Logged, TypeOK, BurstInv
  <2>3. ASSUME NEW e \in Hits, event[e] # Null
        PROVE  /\ event'[e] # Null
               /\ event'[e].msg = event[e].msg /\ event'[e].kind = event[e].kind
               /\ event'[e].url = event[e].url /\ event'[e].at = event[e].at
               /\ event'[e].burst = IF InWindow(e, h) THEN burst[h] ELSE event[e].burst
    <3>1. event[e] \in EventRows /\ burst[h] \in Nat \ {0}
      BY <2>3 DEF TypeOK
    <3>2. event'[e] = IF InWindow(e, h) THEN [event[e] EXCEPT !.burst = burst[h]] ELSE event[e]
      BY <2>1
    <3>3. CASE InWindow(e, h)
      <4>1. /\ event'[e] \in EventRows
            /\ event'[e].msg = event[e].msg /\ event'[e].kind = event[e].kind
            /\ event'[e].url = event[e].url /\ event'[e].at = event[e].at
            /\ event'[e].burst = burst[h]
        BY <3>1, <3>2, <3>3 DEF EventRows
      <4> QED
        BY <3>3, <4>1, NullAssumption
    <3>4. CASE ~InWindow(e, h)
      BY <2>3, <3>2, <3>4
    <3> QED
      BY <3>3, <3>4
  <2>4. \A e \in Hits : event[e] = Null => event'[e] = Null
    BY <2>1 DEF InWindow
  <2>5. closedAt'[h] = now /\ \A g \in Hits \ {h} : closedAt'[g] = closedAt[g]
    BY <2>1 DEF TypeOK
  <2>6. LogGrows
    BY <1>2, <2>3, <2>5 DEF LogGrows
  <2>7. /\ \A e \in Hits : InWindow(e, h) => e \in Seen(h)'
        /\ Cardinality(LinksSeen(h)) <= Cardinality(SeenUrls(h)')
    BY <1>1, <2>2, <2>3, <2>5, <2>6, LooksAreSeen
  <2>8. burst[h] > 1 => burst[h] <= Cardinality(SeenUrls(h)')
    <3>1. burst[h] > 1 => burst[h] <= Cardinality(LinksSeen(h))
      BY <2>1 DEF BurstInv
    <3>2. /\ Cardinality(LinksSeen(h)) \in Nat /\ Cardinality(SeenUrls(h)') \in Nat
          /\ burst[h] \in Nat
      BY <1>1, <2>2, UrlsAreFinite, UrlsStayFinite DEF UrlsCanBeCounted, TypeOK
    <3> QED
      BY <2>7, <3>1, <3>2
  <2>9. \A g \in Hits : event'[g] # Null /\ event'[g].burst > 1 =>
          \/ event[g] # Null /\ event'[g].burst = event[g].burst
          \/ \E k \in Hits : /\ event'[k] # Null /\ g \in Seen(k)'
                             /\ event'[g].burst <= Cardinality(SeenUrls(k)')
    BY <2>2, <2>3, <2>4, <2>7, <2>8
  <2>10. \A g \in Hits : /\ at'[g] <= now' /\ closedAt'[g] <= now'
                         /\ event'[g] # Null => event'[g].at <= now'
    BY <1>2, <2>1, <2>3, <2>4, <2>5
  <2>11. \A g \in Hits : pc'[g] \in {"create", "backfill"} =>
           pc[g] \in {"create", "backfill"} /\ hit'[g] = hit[g] /\ at'[g] = at[g]
             /\ burst'[g] = burst[g] /\ pc'[g] = pc[g]
    BY <2>1 DEF TypeOK
  <2>12. \A g \in Hits : pc'[g] = "backfill" => event'[g] # Null /\ event'[g].url = hit'[g].url
    BY <2>1, <2>3, <2>11 DEF BurstInv
  <2> QED
    BY <1>1, <2>6, <2>9, <2>10, <2>11, <2>12, BurstStep
<1>13. ASSUME NEW h \in Hits, FirstTouch(h) \/ Fails(h) PROVE BurstInv'
  <2>1. PICK step \in {"recorded", "lost"} :
          /\ pc' = [pc EXCEPT ![h] = step] /\ at' = [at EXCEPT ![h] = 0]
          /\ burst' = [burst EXCEPT ![h] = 1] /\ UNCHANGED <<now, log, hit>>
    BY <1>13 DEF FirstTouch, Fails, Return, Goto
  <2>2. /\ pc'[h] = step /\ at'[h] = 0
        /\ \A g \in Hits \ {h} : pc'[g] = pc[g] /\ at'[g] = at[g] /\ burst'[g] = burst[g]
    BY <2>1 DEF TypeOK
  <2>3. event' = event /\ closedAt' = closedAt
    BY <2>1 DEF log
  <2>4. \A g \in Hits : pc'[g] \in {"create", "backfill"} => g # h
    BY <2>1, <2>2
  <2>5. \A g \in Hits : pc'[g] = "backfill" => event'[g] # Null /\ event'[g].url = hit'[g].url
    BY <2>1, <2>2, <2>3, <2>4 DEF BurstInv
  <2>6. \A g \in Hits : /\ at'[g] <= now' /\ closedAt'[g] <= now'
                        /\ event'[g] # Null => event'[g].at <= now'
    BY <1>2, <2>1, <2>2, <2>3
  <2> QED
    BY <1>1, <1>3, <2>1, <2>2, <2>3, <2>4, <2>5, <2>6, BurstStep
<1>14. CASE UNCHANGED vars
  BY <1>2, <1>4, <1>14 DEF vars, request, log
<1> QED
  BY <1>5, <1>6, <1>7, <1>8, <1>9, <1>10, <1>11, <1>12, <1>13, <1>14 DEF Next

-----------------------------------------------------------------------------
(* The theorems                                                            *)

TrackingInv == TypeOK /\ Chronology /\ EvidenceInv /\ DelaysAreFair /\ BurstInv

(* The invariant the theorems follow from. *)
LEMMA TrackingInvariant == Spec => []TrackingInv
<1>1. Init => TrackingInv
  <2> SUFFICES ASSUME Init PROVE TrackingInv
    OBVIOUS
  <2>1. TypeOK
    BY TrackingAssumption
       DEF Init, TypeOK, MaybeTime, Times, Steps, NoRow
  <2>2. Chronology
    BY DEF Init, Chronology, Loaded, Clocked, Logged
  <2>3. EvidenceInv
    BY DEF Init, EvidenceInv, LoggedHitsHaveEvents, TouchesStay, Loaded, Clocked,
           Logged, FirstTouchHasEvidence, RecordedHitsAreSeen
  <2>4. DelaysAreFair
    BY DEF Init, DelaysAreFair
  <2>5. BurstInv
    BY DEF Init, BurstInv, BurstsAreReal
  <2> QED
    BY <2>1, <2>2, <2>3, <2>4, <2>5 DEF TrackingInv
<1>2. TrackingInv /\ [Next]_vars => TrackingInv'
  BY TypesKept, ChronologyKept, EvidenceKept, DelaysKept, BurstsKept DEF TrackingInv
<1> QED
  BY <1>1, <1>2, PTL DEF Spec

(* Every variable of tracking keeps its type: a delay is never negative and *)
(* a burst counts at least its own hit (tracking.service.ts:146-171).      *)
THEOREM TypeCorrect == Spec => []TypeOK
<1>1. TrackingInv => TypeOK
  BY DEF TrackingInv
<1> QED
  BY <1>1, TrackingInvariant, PTL

(* A first open or click always has its event in the log, whatever hits    *)
(* overlap and wherever record() fails (tracking.service.ts:173-212).      *)
THEOREM FirstTouchesHaveEvidence == Spec => []FirstTouchHasEvidence
<1>1. TrackingInv => FirstTouchHasEvidence
  BY DEF TrackingInv, EvidenceInv
<1> QED
  BY <1>1, TrackingInvariant, PTL

(* A hit that was recorded to the end shows on its message for good        *)
(* (tracking.service.ts:202-212).                                          *)
THEOREM RecordedHitsShow == Spec => []RecordedHitsAreSeen
<1>1. TrackingInv => RecordedHitsAreSeen
  BY DEF TrackingInv, EvidenceInv
<1> QED
  BY <1>1, TrackingInvariant, PTL

(* No message is taken for swept that was not: as many links as an event   *)
(* says were fetched at once, some hit on its message found in the log     *)
(* (tracking.service.ts:154-169, 190-199).                                 *)
THEOREM SweepsAreReal == Spec => []BurstsAreReal
<1>1. TrackingInv => BurstsAreReal
  BY DEF TrackingInv, BurstInv
<1> QED
  BY <1>1, TrackingInvariant, PTL

(* A hit sooner after the acceptance than the rules allow is judged a      *)
(* machine, though the send may be recorded late, twice or not at all      *)
(* (tracking.service.ts:146-151, classify.ts:158-163).                     *)
THEOREM EarlyHitsAreMachines == Spec => []EarlyHitsAreNotPeople
<1>1. TrackingInv => EarlyHitsAreNotPeople
  <2> SUFFICES ASSUME TrackingInv, NEW h \in Hits, event[h] # Null,
                      Round(event[h].at - acceptedAt[event[h].msg]) < MinDelay
               PROVE  event[h].delay < MinDelay
    BY DEF EarlyHitsAreNotPeople, judge, Automated
  <2>1. event[h] \in EventRows
    BY DEF TrackingInv, TypeOK
  <2>2. /\ acceptedAt[event[h].msg] # Null
        /\ acceptedAt[event[h].msg] <= event[h].at
        /\ event[h].delay <= Round(event[h].at - acceptedAt[event[h].msg])
    BY DEF TrackingInv, DelaysAreFair
  <2>3. /\ event[h].at \in Nat /\ event[h].delay \in Nat
        /\ acceptedAt[event[h].msg] \in Nat
    BY <2>1, <2>2 DEF TrackingInv, TypeOK, EventRows, MaybeTime, Times
  <2>4. event[h].at - acceptedAt[event[h].msg] \in Nat
    BY <2>2, <2>3
  <2>5. Round(event[h].at - acceptedAt[event[h].msg]) \in Nat
    BY <2>4, RoundIsNat
  <2> QED
    BY <2>2, <2>3, <2>5, TrackingAssumption
<1> QED
  BY <1>1, TrackingInvariant, PTL

-----------------------------------------------------------------------------
(* Verdicts                                                                *)

Looser(rules, than) ==
  /\ rules.minDelaySeconds <= than.minDelaySeconds
  /\ rules.burstLinks >= than.burstLinks
  /\ rules.noOpenWindowSeconds <= than.noOpenWindowSeconds
  /\ rules.networkReach >= than.networkReach

(* Moving every threshold to the lenient side never takes a person off the *)
(* report: verdicts are drawn again at each read (classify.ts:1-8).        *)
THEOREM LooserRulesKeepPeople ==
  ASSUME NEW ev \in Evidence, NEW strict \in Rules, NEW loose \in Rules,
         Looser(loose, strict), judge(ev, strict) = "counted"
  PROVE  judge(ev, loose) = "counted"
<1>1. ~Automated(ev, strict) /\ ~Doubtful(ev, strict)
  BY DEF judge
<1>2. ~Automated(ev, loose)
  BY <1>1 DEF Automated, Looser, Evidence, Rules
<1>3. ~Doubtful(ev, loose)
  BY <1>1 DEF Doubtful, Looser, Evidence, Rules
<1> QED
  BY <1>2, <1>3 DEF judge
=============================================================================
