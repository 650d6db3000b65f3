-------------------------- MODULE MessageLifecycle --------------------------
(***************************************************************************)
(* What the queue promises about a message, with no word of pollers, jobs, *)
(* claims or retries: it is queued, in hand, recorded or stopped; a copy   *)
(* leaves only while it is in hand, and a second one only if every earlier *)
(* one was lost before it could be recorded; `recorded` is for good.       *)
(*                                                                         *)
(* One statement of the real system moves several messages at once (the    *)
(* reaper, a bulk edit), so a step is given message by message.            *)
(***************************************************************************)
EXTENDS Naturals

CONSTANT Messages

VARIABLES
  stage,    (* where the message is                                         *)
  copies,   (* times a mail server accepted it                              *)
  lost      (* acceptances that can no longer be recorded                   *)

lifecycle == <<stage, copies, lost>>

Stages == {"queued", "inHand", "recorded", "stopped"}

(* Every copy that left has been given up as lost. *)
Unsent(m) == copies[m] = lost[m]

Stays(m)   == stage'[m] = stage[m] /\ copies'[m] = copies[m] /\ lost'[m] = lost[m]
Moves(m, from, to) ==
  /\ stage[m] \in from /\ stage'[m] = to
  /\ copies'[m] = copies[m] /\ lost'[m] = lost[m]

TakeInHand(m) == Moves(m, {"queued"}, "inHand")
PutBack(m)    == Moves(m, {"inHand"}, "queued") /\ Unsent(m)
Stop(m)       == Moves(m, {"queued", "inHand"}, "stopped") /\ Unsent(m)
Revive(m)     == Moves(m, {"stopped"}, "queued")

(* A copy leaves, and is either still to be recorded or already lost. *)
Deliver(m) ==
  /\ stage[m] = "inHand" /\ stage'[m] = "inHand"
  /\ Unsent(m)
  /\ copies'[m] = copies[m] + 1
  /\ lost'[m] \in {lost[m], copies'[m]}

Lose(m) ==
  /\ stage[m] = "inHand" /\ stage'[m] = "inHand"
  /\ ~Unsent(m)
  /\ copies'[m] = copies[m] /\ lost'[m] = copies[m]

Record(m) == Moves(m, {"inHand"}, "recorded") /\ ~Unsent(m)

LifeInit == /\ stage = [m \in Messages |-> "queued"]
            /\ copies = [m \in Messages |-> 0]
            /\ lost = [m \in Messages |-> 0]

LifeStep(m) == \/ Stays(m) \/ TakeInHand(m) \/ PutBack(m) \/ Stop(m)
               \/ Revive(m) \/ Deliver(m) \/ Lose(m) \/ Record(m)

LifeNext == \A m \in Messages : LifeStep(m)

LifeSpec == LifeInit /\ [][LifeNext]_lifecycle
=============================================================================
