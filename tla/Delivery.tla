------------------------------ MODULE Delivery ------------------------------
(***************************************************************************)
(* What the dock promises about events: they are handled in the order of   *)
(* their arrival, each of them at last, and none waits for longer than     *)
(* Timeout.                                                                *)
(***************************************************************************)
EXTENDS Naturals, Sequences

CONSTANT Timeout

VARIABLE waiting   \* for how long the events have waited, oldest first

Init == waiting = <<>>

Arrive == waiting' = Append(waiting, 0)

Handle == waiting # <<>> /\ waiting' = Tail(waiting)

(* Time only passes when it makes no event wait too long.                  *)
Pass ==
  /\ \A i \in DOMAIN waiting : waiting[i] < Timeout
  /\ waiting' = [i \in DOMAIN waiting |-> waiting[i] + 1]

Next == Arrive \/ Handle \/ Pass

Ordered == Init /\ [][Next]_waiting

Spec == Ordered /\ WF_waiting(Handle)

=============================================================================
