------------------------------ MODULE Launcher ------------------------------
(***************************************************************************)
(* What a dock promises about the programs behind its icons, without       *)
(* processes, events or pictures.  An icon is idle, starting (greyed out,  *)
(* clicks do not launch anything) or running.  An exclusive icon has to    *)
(* become idle again before it can be launched again, any other icon may   *)
(* be launched again as soon as it is no longer starting.  An icon that is *)
(* starting wakes up step by step, or at once when its program ends.       *)
(* Meanwhile it stands for one program, which no other icon stands for.    *)
(***************************************************************************)
CONSTANTS
  Slots,      \* the icons
  Exclusive,  \* the icons that are exclusive to one instance
  Programs,   \* the programs that may run
  NoProgram   \* what an idle icon stands for

VARIABLES
  up,       \* the dock has not been ended by a failure
  state,    \* [Slots -> {"idle", "starting", "running"}]
  program   \* [Slots -> Programs \cup {NoProgram}]

vars == <<up, state, program>>

Init ==
  /\ up = TRUE
  /\ state = [s \in Slots |-> "idle"]
  /\ program = [s \in Slots |-> NoProgram]

Become(s, new, p) ==
  /\ up
  /\ state' = [state EXCEPT ![s] = new]
  /\ program' = [program EXCEPT ![s] = p]
  /\ UNCHANGED up

Launch(s) ==
  /\ state[s] = "idle" \/ (state[s] = "running" /\ s \notin Exclusive)
  /\ \E p \in Programs :
       /\ \A t \in Slots : program[t] # p
       /\ Become(s, "starting", p)

WakeUp(s) == state[s] = "starting" /\ Become(s, "running", program[s])

End(s) == state[s] # "idle" /\ Become(s, "idle", NoProgram)

(* A failure ends the dock: no program is tracked any more.                *)
Fail ==
  /\ up
  /\ up' = FALSE
  /\ state' = [s \in Slots |-> "idle"]
  /\ program' = [s \in Slots |-> NoProgram]

Next ==
  \/ \E s \in Slots : Launch(s) \/ WakeUp(s) \/ End(s)
  \/ Fail

Spec == Init /\ [][Next]_vars

=============================================================================
