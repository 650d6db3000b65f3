------------------------------ MODULE Calendar ------------------------------
(***************************************************************************)
(* Local time, as luxon computes it, and the send day of a mailbox         *)
(* (daily-counter.ts).                                                     *)
(*                                                                         *)
(* Time is counted in hours.  An instant is an hour since some midnight    *)
(* UTC, a reading is what a clock on the wall shows: hours since that      *)
(* midnight there.  A zone is [ahead, change, by]: its clocks are `ahead`  *)
(* of UTC until the instant `change`, and are moved `by` an hour then, if  *)
(* at all: Timezone is where the proofs hold.                              *)
(***************************************************************************)
EXTENDS Integers

DAY == 24
DAY_RESET_HOUR == 9

Timezone == [ahead : Int, change : Int, by : {-1, 0, 1}]

OffsetAt(zone, t) == zone.ahead + (IF t < zone.change THEN 0 ELSE zone.by)

Reading(zone, t) == t + OffsetAt(zone, t)
DateOf(reading)  == reading \div DAY

Least(m, n) == IF m <= n THEN m ELSE n

(* Mutant: the offset guessed is the offset used. *)
GuessesOnce(zone, reading, guess) == reading - guess

(* The instant a clock shows a reading, found from an offset it may be off *)
(* from (luxon's fixOffset): a reading that was skipped is read as the one *)
(* an hour later, one that came twice as the one with the guessed offset.  *)
InstantOf(zone, reading, guess) ==
  LET first  == reading - guess
      offset == OffsetAt(zone, first)
      second == reading - offset
      again  == OffsetAt(zone, second)
  IN  IF offset = guess THEN first
      ELSE IF again = offset THEN second
      ELSE reading - Least(offset, again)

-----------------------------------------------------------------------------
(* The send day *)

(* The send day of an instant: the date nine hours earlier.                *)
localDate(zone, t) == DateOf(Reading(zone, t - DAY_RESET_HOUR))

(* Nine o'clock on the date `days` after that of t, set on its midnight.   *)
ResetOf(zone, t, days) ==
  LET midnight == DateOf(Reading(zone, t)) * DAY
      begins   == InstantOf(zone, midnight, OffsetAt(zone, t))
      reset    == InstantOf(zone, midnight + DAY_RESET_HOUR, OffsetAt(zone, begins))
  IN  InstantOf(zone, midnight + DAY_RESET_HOUR + days * DAY, OffsetAt(zone, reset))

(* The instant a mailbox at its limit waits for.                           *)
startOfNextDay(zone, t) ==
  IF t < ResetOf(zone, t, 0) THEN ResetOf(zone, t, 0) ELSE ResetOf(zone, t, 1)
=============================================================================
