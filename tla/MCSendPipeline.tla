--------------------------- MODULE MCSendPipeline ---------------------------
(* Instances of SendPipeline for TLC. *)
EXTENDS SendPipelineProps, TLC

CONSTANTS e1, e2, r1, w1, w2, p1, p2

(* Both rows go to the same person. *)
MCTo == [e \in Emails |-> r1]

(* One error of each kind the pipeline tells apart: no reply, a 4xx reply,  *)
(* a 5xx naming the recipient, and any other 5xx.                          *)
Reply(c) == [errno |-> FALSE, code |-> c, senderState |-> FALSE]
MCRefusals == {NetworkError, Reply(451), Reply(550), Reply(554)}

(* The errors that are retried, for instances about something else.        *)
MCTransient == {NetworkError, Reply(451)}

(* One that is retried and one that suppresses the address. *)
MCRetryOrBounce == {NetworkError, Reply(550)}

Symmetry == Permutations(Workers) \cup Permutations(Emails)
              \cup Permutations(Pollers)
=============================================================================
