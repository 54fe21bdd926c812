--------------------------- MODULE DispatchSlots ---------------------------
(***************************************************************************)
(* What the coordinator promises to whoever pays for the workers: every    *)
(* attempt is used once, it occupies one of Slots slots while it is in     *)
(* use, and it never comes back once it has ended.  Nothing is said of     *)
(* tasks, gates, agents or the status of the run.                          *)
(***************************************************************************)
EXTENDS Integers, FiniteSets

CONSTANTS
    Attempts,  \* the attempts a run may make
    Slots      \* how many may be in use at once

VARIABLE phase \* of every attempt: unused, in use or ended

InUse(p) == {a \in Attempts : p[a] = "in use"}

Init == phase = [a \in Attempts |-> "unused"]

\* A scheduling pass puts the attempts new to use, within the slots.
Begin(new) ==
    /\ new # {}
    /\ \A a \in new : phase[a] = "unused"
    /\ phase' = [a \in Attempts |-> IF a \in new THEN "in use" ELSE phase[a]]
    /\ Cardinality(InUse(phase')) <= Slots

\* The attempts in done end together: one of them, or all on a cancellation.
End(done) ==
    /\ done # {}
    /\ \A a \in done : phase[a] = "in use"
    /\ phase' = [a \in Attempts |-> IF a \in done THEN "ended" ELSE phase[a]]

Next == \E s \in SUBSET Attempts : Begin(s) \/ End(s)

Spec == Init /\ [][Next]_phase
=============================================================================
