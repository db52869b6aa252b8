-------------------------- MODULE AppliedGenerations --------------------------
(***************************************************************************)
(* What a reconciler promises with status.observedGeneration, without how: *)
(* users ask for generations of a spec, the reconciler brings the cluster  *)
(* to one of them after the other, and it reports a generation only when   *)
(* the cluster has been brought to that generation or a later one.         *)
(***************************************************************************)
EXTENDS Naturals

VARIABLES desired, applied, observed

\* A generation that asks for nothing new is applied as soon as it is asked for.
Init == desired = 1 /\ applied \in {0, desired} /\ observed = 0

Edit == /\ desired' = desired + 1
        /\ applied' \in {applied, desired + 1}
        /\ UNCHANGED observed

\* Intermediate generations may be skipped, and none is gone back to.
Roll == /\ applied' \in (applied + 1)..desired
        /\ UNCHANGED <<desired, observed>>

Report == /\ observed' \in (observed + 1)..applied
          /\ UNCHANGED <<desired, applied>>

Spec == Init /\ [][Edit \/ Roll \/ Report]_<<desired, applied, observed>>
===============================================================================
