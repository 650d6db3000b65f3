---------------------------- MODULE ImportScreen ----------------------------
(***************************************************************************)
(* The import page of the console: a file and a timezone are chosen, the   *)
(* sheet is checked by a dry run and then queued by the same request       *)
(* without it.  Nothing ties an answer to what is chosen by the time it    *)
(* arrives, and the check can be asked for again while the rows go in.     *)
(*                                                                         *)
(* The server's import is one step here (Import takes it apart): it queues *)
(* the rows that are not queued yet, at the times the timezone gives them. *)
(* The batch's name, sent like the timezone, the template to download and  *)
(* the layout of the report are left out.                                  *)
(***************************************************************************)
EXTENDS Naturals, FiniteSets

CONSTANTS
  Sheets,       (* CSV files.                                               *)
  RowsOf,       (* The dedupe keys of the rows of each.                     *)
  Zones,        (* Timezones to read them in.                               *)
  NoSheet,      (* No file chosen, no answer shown, a row not queued.       *)
  MaxPosts,     (* Bound: requests.                                         *)
  MaxChoices    (* Bound: files and timezones chosen.                       *)

ASSUME ImportScreenAssumption ==
  /\ NoSheet \notin Sheets \cup Zones
  /\ MaxPosts \in Nat /\ MaxChoices \in Nat

SheetRows == UNION {RowsOf[f] : f \in Sheets}

VARIABLES
  file, zone,
  preview, committed, (* the answers shown; `late` if of another file       *)
  busySheet,          (* busy                                               *)
  sheetPosts,         (* POST /emails/import under way, with their answers  *)
  scheduledIn,        (* the timezone each row was queued in                *)
  sheetPosted, choices

importVars == <<file, zone, preview, committed, busySheet, sheetPosts,
                scheduledIn, sheetPosted, choices>>

Choice == choices < MaxChoices /\ choices' = choices + 1

(* Mutant: the answers to the last file stay on the screen. *)
KeepsThePreview(f) == preview

(* What the check of the last file found is forgotten with it; the file    *)
(* picker may also be left without one.                                    *)
PreviewOf(f) == NoSheet

chooseFile(f) ==
  /\ Choice
  /\ file' = f
  /\ preview' = PreviewOf(f) /\ committed' = NoSheet
  /\ UNCHANGED <<zone, busySheet, sheetPosts, scheduledIn, sheetPosted>>

(* Changing the timezone leaves the answers where they are.                *)
setDefaultTimezone(z) ==
  /\ Choice
  /\ z # zone /\ zone' = z
  /\ UNCHANGED <<file, preview, committed, busySheet, sheetPosts, scheduledIn, sheetPosted>>

canQueue == preview # NoSheet /\ preview.inserted # {} /\ committed = NoSheet

(* Which of the two buttons is dead or spinning.                           *)
CanCheck == file # NoSheet /\ committed = NoSheet /\ ~(busySheet /\ ~canQueue)
CanCommit == canQueue /\ ~busySheet

run(dryRun) ==
  /\ sheetPosted < MaxPosts /\ sheetPosted' = sheetPosted + 1
  /\ IF dryRun THEN CanCheck ELSE CanCommit
  /\ file # NoSheet
  /\ busySheet' = TRUE
  /\ sheetPosts' = sheetPosts \cup
       {[n |-> sheetPosted', dryRun |-> dryRun, file |-> file, zone |-> zone,
         step |-> "sent", inserted |-> {}]}
  /\ UNCHANGED <<file, zone, preview, committed, scheduledIn, choices>>

(* ImportService.import: a row that is queued already is a duplicate, in   *)
(* whichever timezone; the time is no part of its key.                     *)
Imports(q) ==
  /\ q.step = "sent"
  /\ LET new == {r \in RowsOf[q.file] : scheduledIn[r] = NoSheet} IN
     /\ scheduledIn' = [r \in SheetRows |->
          IF ~q.dryRun /\ r \in new THEN q.zone ELSE scheduledIn[r]]
     /\ sheetPosts' = (sheetPosts \ {q}) \cup {[q EXCEPT !.step = "done", !.inserted = new]}
  /\ UNCHANGED <<file, zone, preview, committed, busySheet, sheetPosted, choices>>

Answer(q) == [file |-> q.file, inserted |-> q.inserted, late |-> q.file # file]

(* Mutant: only an answer ends the waiting, not an error. *)
BusyUnlessAnswered(lost) == lost

(* finally, whichever of the requests it was *)
BusyAfter(lost) == FALSE

(* Mutant: the check stays on the screen when the rows are in. *)
KeepsTheCheck(q) == IF q.dryRun THEN Answer(q) ELSE preview

PreviewAfter(q) == IF q.dryRun THEN Answer(q) ELSE NoSheet

(* Each answer takes the other one's place.                                *)
ShowsAnswer(q) ==
  /\ q.step = "done"
  /\ sheetPosts' = sheetPosts \ {q}
  /\ preview' = PreviewAfter(q)
  /\ committed' = IF q.dryRun THEN NoSheet ELSE Answer(q)
  /\ busySheet' = BusyAfter(FALSE)
  /\ UNCHANGED <<file, zone, scheduledIn, sheetPosted, choices>>

(* The request fails, or its answer is lost after the rows went in: what   *)
(* is shown stays, with an error above it.                                 *)
ShowsError(q) ==
  /\ sheetPosts' = sheetPosts \ {q}
  /\ busySheet' = BusyAfter(TRUE)
  /\ UNCHANGED <<file, zone, preview, committed, scheduledIn, sheetPosted, choices>>

ImportScreenInit ==
  /\ file = NoSheet /\ zone \in Zones
  /\ preview = NoSheet /\ committed = NoSheet
  /\ busySheet = FALSE /\ sheetPosts = {}
  /\ scheduledIn = [r \in SheetRows |-> NoSheet]
  /\ sheetPosted = 0 /\ choices = 0

ImportScreenNext ==
  \/ \E f \in Sheets \cup {NoSheet} : chooseFile(f)
  \/ \E z \in Zones : setDefaultTimezone(z)
  \/ \E dryRun \in BOOLEAN : run(dryRun)
  \/ \E q \in sheetPosts : Imports(q) \/ ShowsAnswer(q) \/ ShowsError(q)

ImportScreenSpec == ImportScreenInit /\ [][ImportScreenNext]_importVars

-----------------------------------------------------------------------------
(* Properties *)

Shows(a) == /\ a.file \in Sheets /\ a.inserted \subseteq RowsOf[a.file]
            /\ a.late \in BOOLEAN

(* Every variable keeps its type, and at most one answer is on the screen. *)
ImportScreenTypeOK ==
  /\ file \in Sheets \cup {NoSheet} /\ zone \in Zones
  /\ preview # NoSheet => Shows(preview)
  /\ committed # NoSheet => Shows(committed)
  /\ preview = NoSheet \/ committed = NoSheet
  /\ busySheet \in BOOLEAN
  /\ \A q \in sheetPosts : q.inserted \subseteq RowsOf[q.file] /\ q.zone \in Zones
  /\ scheduledIn \in [SheetRows -> Zones \cup {NoSheet}]
  /\ sheetPosted \in 0..MaxPosts /\ choices \in 0..MaxChoices

(* "Check the file first, then commit" (import/page.tsx:246): the answer   *)
(* that lets a sheet be queued is one of a check of that sheet, unless the *)
(* file was chosen while the check of another was still under way (run has *)
(* no such check of its own).                                              *)
CommitsFollowTheirCheck ==
  canQueue /\ ~preview.late => preview.file = file

(* The two buttons do not stay dead: with no request under way the page is *)
(* not busy, whichever of two overlapping requests ended first and however.*)
SheetsHaveACall == busySheet => sheetPosts # {}
=============================================================================
