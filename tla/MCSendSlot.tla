----------------------------- MODULE MCSendSlot -----------------------------
(* Instances of SendSlot for TLC, with an hour for a tick and the calendar *)
(* of the code: a morning on which the clocks went back, so that the send  *)
(* day begins an hour before the instant deferrals wait for, and a night   *)
(* on which they go forward.                                               *)
EXTENDS SendSlot, Calendar, TLC

CONSTANTS c1, c2

(* At the instant 0 it is 5:00; at 3:00 it had become 2:00.                *)
Autumn == [ahead |-> 29 + 1, change |-> -3, by |-> -1]

(* At the instant 0 it is 20:00; at 2:00 it becomes 3:00.                  *)
Spring == [ahead |-> 20, change |-> 6, by |-> 1]

LocalDateIn(zone)      == [t \in Times |-> localDate(zone, t)]
StartOfNextDayIn(zone) == [t \in Times |-> startOfNextDay(zone, t)]

AutumnDate    == LocalDateIn(Autumn)
AutumnNextDay == StartOfNextDayIn(Autumn)
SpringDate    == LocalDateIn(Spring)
SpringNextDay == StartOfNextDayIn(Spring)

Symmetry == Permutations(Claimers)
=============================================================================
