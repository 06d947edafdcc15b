-------------------------- MODULE ReminderLifecycle --------------------------
(***************************************************************************)
(* What the reminder subsystem promises for each reminder, whatever        *)
(* requests, worker passes, faults and crashes come between: it is         *)
(* scheduled at most once; it is settled, as sent or as given up, only     *)
(* when it is due and at most once; and once gone it does not come back.   *)
(*                                                                         *)
(*   none -> waiting -> due -> sent, givenUp         any stage -> gone     *)
(*                                                                         *)
(* A reminder is "none" until its request has dealt with it, and "gone"    *)
(* once it is deleted, or is sure never to be scheduled.                   *)
(***************************************************************************)
CONSTANT Ids

VARIABLE stage

Stages == {"none", "waiting", "due", "sent", "givenUp", "gone"}

Init == stage = [n \in Ids |-> "none"]

\* Every reminder of S moves from a stage in "from" to one in "to".
Move(S, from, to) ==
  /\ \A n \in S : stage[n] \in from /\ stage'[n] \in to
  /\ \A n \in Ids \ S : stage'[n] = stage[n]
  /\ stage' \in [Ids -> Stages]

\* One request schedules the reminders S and forgoes D.
Schedule(S, D) ==
  /\ \A n \in S : stage[n] = "none" /\ stage'[n] \in {"waiting", "due"}
  /\ \A n \in D : stage[n] = "none" /\ stage'[n] = "gone"
  /\ \A n \in Ids \ (S \cup D) : stage'[n] = stage[n]
  /\ stage' \in [Ids -> Stages]

FallDue(S) == Move(S, {"waiting"}, {"due"})

Settle(S) == Move(S, {"due"}, {"sent", "givenUp"})

Drop(S) == Move(S, Stages, {"gone"})

Next ==
  \E S \in SUBSET Ids :
    \/ \E D \in SUBSET (Ids \ S) : Schedule(S, D)
    \/ FallDue(S)
    \/ Settle(S)
    \/ Drop(S)

Spec == Init /\ [][Next]_stage
=============================================================================
