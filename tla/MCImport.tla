------------------------------ MODULE MCImport ------------------------------
(* Instances of Import for TLC. *)
EXTENDS Import, TLC

CONSTANTS i1, i2, i3, ann, bob

Mail(to, body, schedule) ==
  [to |-> to, pitch |-> "p", body |-> body, schedule |-> schedule]

Ann     == Mail(ann, "b", "mon")
AnnLate == Mail(ann, "b", "tue")   (* the same, with a corrected send time   *)
Bob     == Mail(bob, "b", "mon")

(* A sheet, its corrected version with an invalid row, and one that repeats *)
(* itself.                                                                 *)
MCFiles == {<<Ann, Bob>>, <<AnnLate, Invalid>>, <<Ann, AnnLate>>}

Symmetry == Permutations(Imports)
=============================================================================
