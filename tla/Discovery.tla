------------------------------ MODULE Discovery ------------------------------
(***************************************************************************)
(* What a DeviceFinder promises to the program that runs it: it looks for  *)
(* a camera once.  As long as no camera has answered, the search goes on   *)
(* or is given up, and nothing it does ends the program.  A camera that    *)
(* has answered is described, in part or not at all, and then the search   *)
(* is settled; until then what it says may end the program, at any step.   *)
(* The description is written once, from nothing to all that the camera    *)
(* tells, and does not change when the search is settled.                  *)
(***************************************************************************)
VARIABLES
    phase,         \* "searching", "answered", "settled", or "dead": the program has ended
    description    \* "empty", "partial" or "complete"

vars == <<phase, description>>

Init == phase = "searching" /\ description = "empty"

Hear == phase = "searching" /\ phase' = "answered" /\ UNCHANGED description

Describe ==
    /\ phase = "answered" /\ UNCHANGED phase
    /\ \/ description = "empty" /\ description' = "partial"
       \/ description = "partial" /\ description' = "complete"

\* Given up, or dealt with as far as the camera has described itself.
Settle == phase \in {"searching", "answered"} /\ phase' = "settled" /\ UNCHANGED description

\* What the camera has said ends the program.
Die == phase = "answered" /\ phase' = "dead" /\ UNCHANGED description

Next == Hear \/ Describe \/ Settle \/ Die

Spec == Init /\ [][Next]_vars

\* A camera that has answered is dealt with.
FairSpec == Spec /\ WF_vars(phase = "answered" /\ Next)
=============================================================================
