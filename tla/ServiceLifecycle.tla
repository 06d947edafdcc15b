--------------------------- MODULE ServiceLifecycle ---------------------------
(***************************************************************************)
(* What the server promises for the calls it takes: it takes them only     *)
(* while it is open; it answers each one, unless it stops in order and     *)
(* cuts those that are pending, or falls and loses them; and a call that   *)
(* has ended, in whatever way, is over.                                    *)
(*                                                                         *)
(*   down -> open -> closing -> down           none -> pending -> answered *)
(***************************************************************************)
CONSTANT Calls

VARIABLES
  phase,
  outcome     \* call -> what became of it

Init == phase = "down" /\ outcome = [r \in Calls |-> "none"]

Become(r, o) == outcome' = [outcome EXCEPT ![r] = o]

\* The process ends, and everything that is pending with it.
EndAll(o) ==
  /\ phase' = "down"
  /\ outcome' = [r \in Calls |-> IF outcome[r] = "pending" THEN o ELSE outcome[r]]

Start == phase = "down" /\ phase' = "open" /\ UNCHANGED outcome

Take(r) ==
  /\ phase = "open" /\ outcome[r] = "none"
  /\ Become(r, "pending") \/ Become(r, "answered")
  /\ UNCHANGED phase

Finish(r) ==
  /\ phase # "down" /\ outcome[r] = "pending"
  /\ Become(r, "answered")
  /\ UNCHANGED phase

Close == phase = "open" /\ phase' = "closing" /\ UNCHANGED outcome

Stop == phase = "closing" /\ EndAll("cut")

Fall == phase # "down" /\ EndAll("lost")

Next ==
  \/ Start \/ Close \/ Stop \/ Fall
  \/ \E r \in Calls : Take(r) \/ Finish(r)

Spec == Init /\ [][Next]_<<phase, outcome>>
=============================================================================
