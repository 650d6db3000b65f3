---------------------------- MODULE ScheduleCell ----------------------------
(***************************************************************************)
(* The Schedule cell of a sheet (schedule-parse.ts): the instant it means. *)
(* A cell is what it reads, [reading, token]: a date and a time, and what  *)
(* is written behind them where a zone would be.  The formats a date and a *)
(* time may be written in are left out.                                    *)
(***************************************************************************)
EXTENDS Calendar

CONSTANTS
  Bare,       (* A cell without a zone of its own.                          *)
  Unknown,    (* A zone nobody knows, and a time nobody can read.           *)
  ZoneNames   (* The zone each offset, IANA name or abbreviation stands for.*)

(* What an offset, a zone name or an abbreviation stands for.              *)
ZoneNamed(token) == IF token \in DOMAIN ZoneNames THEN ZoneNames[token]
                    ELSE Unknown

splitZone(cell) == IF cell.token = Bare THEN Bare ELSE ZoneNamed(cell.token)

(* Mutant: what cannot be read as a zone is taken for none. *)
IgnoresTypos(cell, fallback) ==
  IF splitZone(cell) \in {Bare, Unknown} THEN fallback ELSE splitZone(cell)

(* The cell's own zone wins; one that is mistyped is not papered over.     *)
EffectiveZone(cell, fallback) ==
  IF splitZone(cell) = Bare THEN fallback ELSE splitZone(cell)

(* The formats are tried with the offset in force when the sheet is read;  *)
(* `when` is that instant.                                                 *)
parseSchedule(cell, fallback, when) ==
  LET zone == EffectiveZone(cell, fallback) IN
  IF zone = Unknown \/ cell.reading = Unknown THEN Unknown
  ELSE InstantOf(zone, cell.reading, OffsetAt(zone, when))
=============================================================================
