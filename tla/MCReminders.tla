----------------------------- MODULE MCReminders -----------------------------
(***************************************************************************)
(* Small instances of Reminders for TLC.  Times are hours from the start   *)
(* of the run.                                                             *)
(***************************************************************************)
EXTENDS Reminders, TLC

Body(start, end, offsets) ==
  [start |-> start, end |-> end, offsets |-> offsets, labelled |-> TRUE]

\* Two reminders, one past when the clock has moved on; the default offset;
\* and an event that ends before it starts.
WriterForms == {Body(2, 3, <<1, 0>>), Body(1, 1, Nil), Body(2, 1, << >>)}

\* One reminder an event, so that two events fill a batch.
DeliveryForms == {Body(1, 1, <<0>>)}

\* Requests are interchangeable, and so are devices.
Symmetry == Permutations(Requests) \cup Permutations(Devices)
=============================================================================
