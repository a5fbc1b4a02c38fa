------------------------------ MODULE WorkUnit ------------------------------
(***************************************************************************)
(* What a work unit is to the BOINC client, however often the application  *)
(* is stopped and whatever becomes of its files: the milestones are        *)
(* reported for the first time in their order, what is saved says nothing  *)
(* that was not reported, the work is complete only when as many are       *)
(* reported as it may have, and an open work unit does not stay open.      *)
(***************************************************************************)
EXTENDS Integers

CONSTANT Lengths \* the numbers of milestones the work unit may have

VARIABLES
  saved,         \* the milestone a restart continues from
  reported,      \* the milestones that have had their trickle
  state          \* "open", "complete" or "failed"

vars == <<saved, reported, state>>

Init == saved = 0 /\ reported = {} /\ state = "open"

\* The first milestone not yet reported is.
Report == /\ state = "open"
          /\ \E n \in Lengths : \E m \in 0 .. n - 1 :
               /\ reported = 0 .. m - 1
               /\ reported' = 0 .. m
          /\ UNCHANGED <<saved, state>>

\* A restart will not pass over a milestone; it may have to repeat some.
Save == /\ state = "open"
        /\ \E n \in Lengths : saved' \in 0 .. n - 1
        /\ 0 .. saved' - 1 \subseteq reported
        /\ UNCHANGED <<reported, state>>

Complete == /\ state = "open"
            /\ \E n \in Lengths : 0 .. n - 1 \subseteq reported
            /\ state' = "complete"
            /\ UNCHANGED <<saved, reported>>

Fail == /\ state = "open"
        /\ state' = "failed"
        /\ UNCHANGED <<saved, reported>>

Progress == Report \/ Complete \/ Fail
Next == Progress \/ Save

Spec == Init /\ [][Next]_vars
FairSpec == Spec /\ WF_vars(Progress)
============================================================================
