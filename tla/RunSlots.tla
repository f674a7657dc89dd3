------------------------------ MODULE RunSlots ------------------------------
(***************************************************************************)
(* What the engine promises the upstream services: each tracker has at     *)
(* most one run at a time, a run waits for one of MaxConcurrent slots,     *)
(* keeps it until its result is recorded, and every run that was started   *)
(* ends.  Nothing is said here of when a run is started.                   *)
(***************************************************************************)
EXTENDS Naturals, FiniteSets

CONSTANTS Trackers, MaxConcurrent

VARIABLE flight

Phases == {"idle", "waiting", "inSlot", "leaving"}
InSlot == {t \in Trackers : flight[t] = "inSlot"}

Init == flight = [t \in Trackers |-> "idle"]

Move(t, from, to) == flight[t] = from /\ flight' = [flight EXCEPT ![t] = to]

Start(t) == Move(t, "idle", "waiting")
Enter(t) == Cardinality(InSlot) < MaxConcurrent /\ Move(t, "waiting", "inSlot")
Leave(t) == Move(t, "inSlot", "leaving")
Finish(t) == Move(t, "leaving", "idle")

\* A crash takes every run with it.
Crash == flight' = [t \in Trackers |-> "idle"]

Next ==
  \/ \E t \in Trackers : Start(t) \/ Enter(t) \/ Leave(t) \/ Finish(t)
  \/ Crash

Spec == Init /\ [][Next]_flight

FairSpec ==
  /\ Spec
  /\ \A t \in Trackers : SF_flight(Enter(t)) /\ WF_flight(Leave(t)) /\ WF_flight(Finish(t))
=============================================================================
