------------------------------ MODULE EventLoop ------------------------------
(***************************************************************************)
(* The loop of Dock::run with the two places where an X event can be: on   *)
(* the connection, where select sees it, and in the queue of Xlib, where   *)
(* only XPending sees it.  Every request that waits for an answer moves    *)
(* events from the one to the other, whoever makes it; requests without    *)
(* an answer stay in Xlib's output buffer until something flushes it.      *)
(*                                                                         *)
(* Time passes while the dock sleeps in select; its computations take none *)
(* and the scheduler wakes it up at once.  Some events launch the program  *)
(* of the first slot, which is grey from then on for a number of ticks or  *)
(* until the program ends.  (Its icon has no titles: one that has is not   *)
(* launched while it has a pid, and lives through fewer behaviours.)       *)
(* Times are ages: how long ago something has happened.                    *)
(***************************************************************************)
EXTENDS Integers, Sequences, Fading

CONSTANTS
  Timeout,     \* what select waits for: Suspend in units of time
  Idles,       \* idle times of icons in ms
  N,           \* number of slots
  MaxWaiting,  \* bound: events that wait at a time
  None         \* no time

ASSUME LoopAssumption ==
  /\ Timeout \in Nat \ {0}
  /\ Idles \subseteq Nat
  /\ N \in Nat \ {0}
  /\ MaxWaiting \in Nat
  /\ None \notin Nat

Events == [age : Nat, launches : BOOLEAN]

VARIABLES
  socket,   \* the events on the connection
  queue,    \* the events in Xlib's queue
  output,   \* age of the oldest request in the output buffer, or None
  at,       \* where the dock is: before XPending ("pending"), before
            \* XNextEvent ("next"), in the loop over the slots ("tick"), in
            \* select ("asleep")
  cursor,   \* the slot that ticks next
  left,     \* time until select returns
  idle,     \* the idle time of the icon that was launched
  fading,   \* Slot::fading of it
  pid,      \* has the slot a Slot::pid?
  ended,    \* how long ago the program with that pid has ended, or None
  ticks,    \* the ticks since the launch
  elapsed,  \* time from the launch to the end of the grey state
  quiet     \* no event has arrived or waited in it, nor has the program ended

loopVars == <<at, cursor, left>>
xlibVars == <<socket, queue, output>>
iconVars == <<idle, fading, pid, ended, ticks, elapsed, quiet>>
vars == <<loopVars, xlibVars, iconVars>>

Grey == fading < Complete

(* All values are in their types, and the loop variables belong together;  *)
(* a grey icon has a program, and only a program can end.                  *)
TypeOK ==
  /\ socket \in Seq(Events) /\ queue \in Seq(Events)
  /\ output \in Nat \cup {None}
  /\ at \in {"pending", "next", "tick", "asleep"}
  /\ cursor \in 1..(N + 1)
  /\ left \in 0..Timeout
  /\ idle \in Idles
  /\ fading \in 0..Complete
  /\ ticks \in Nat /\ elapsed \in Nat
  /\ quiet \in BOOLEAN
  /\ at = "next" => queue # <<>>
  /\ pid \in BOOLEAN /\ ended \in Nat \cup {None}
  /\ Grey \/ ended # None => pid

Init ==
  /\ socket = <<>> /\ queue = <<>> /\ output = None
  /\ at = "pending" /\ cursor = 1 /\ left = 0
  /\ idle \in Idles /\ fading = Complete
  /\ pid = FALSE /\ ended = None
  /\ ticks = 0 /\ elapsed = 0 /\ quiet = FALSE

-----------------------------------------------------------------------------
(* What a method of a slot does to Xlib, where events wait in its queue:   *)
(* it may ask for something (windows, the slit, a property) and then make  *)
(* requests that need no answer (XPutImage, XSendEvent, XMapRaised).       *)
Requests(waiting, asks, draws) ==
  /\ queue' = IF asks THEN waiting \o socket ELSE waiting
  /\ socket' = IF asks THEN <<>> ELSE socket
  /\ output' = IF draws /\ (asks \/ output = None) THEN 0
               ELSE IF asks /\ ~draws THEN None ELSE output

(* FAULT: the output buffer is not flushed.                                *)
XPendingUnflushed ==
  /\ at = "pending"
  /\ queue' = IF queue = <<>> THEN socket ELSE queue
  /\ socket' = IF queue = <<>> THEN <<>> ELSE socket
  /\ at' = IF queue' = <<>> THEN "tick" ELSE "next"
  /\ cursor' = 1
  /\ UNCHANGED <<output, left, iconVars>>

(* FAULT: only Xlib's queue is looked at (XQLength for XPending).          *)
XPendingAlready ==
  /\ at = "pending"
  /\ at' = IF queue = <<>> THEN "tick" ELSE "next"
  /\ output' = None
  /\ cursor' = 1
  /\ UNCHANGED <<socket, queue, left, iconVars>>

(* XPending flushes the output and reads the connection if the queue is    *)
(* empty.                                                                  *)
XPending ==
  /\ at = "pending"
  /\ IF queue = <<>>
     THEN queue' = socket /\ socket' = <<>> /\ output' = None
     ELSE UNCHANGED xlibVars
  /\ at' = IF queue' = <<>> THEN "tick" ELSE "next"
  /\ cursor' = 1
  /\ UNCHANGED <<left, iconVars>>

Launch(i) ==
  /\ idle' = i /\ fading' = FadeOffset(i)
  /\ pid' = TRUE /\ ended' = None
  /\ ticks' = 0 /\ elapsed' = 0
  /\ quiet' = (queue' \o socket' = <<>>)

(* XNextEvent and the handler of the event; the icon is not launched while *)
(* it is grey.                                                             *)
NextEvent(asks, draws) ==
  /\ at = "next"
  /\ Requests(Tail(queue), asks, draws)
  /\ IF Head(queue).launches /\ ~Grey
     THEN draws /\ \E i \in Idles : Launch(i)
     ELSE UNCHANGED iconVars
  /\ at' = "pending"
  /\ UNCHANGED <<cursor, left>>

(* waitpid reports the program: the slot has none, and is opaque.          *)
Release ==
  /\ pid' = FALSE /\ ended' = None
  /\ fading' = Complete
  /\ UNCHANGED ticks

FadeIn ==
  /\ fading' = FadeStep(fading) /\ ticks' = ticks + 1
  /\ UNCHANGED <<pid, ended>>

(* FAULT: a program is not waited for while its icon is grey.              *)
TickFirstFading(draws) ==
  \/ Grey /\ FadeIn /\ draws
  \/ ~Grey /\ ended # None /\ Release /\ draws
  \/ ~Grey /\ ended = None /\ UNCHANGED <<pid, ended, fading, ticks>> /\ ~draws

(* Slot::tick of the first slot: waitpid first, then the fade-in.          *)
TickFirst(draws) ==
  \/ ended # None /\ Release /\ draws
  \/ ended = None /\ Grey /\ FadeIn /\ draws
  \/ ended = None /\ ~Grey /\ UNCHANGED <<pid, ended, fading, ticks>> /\ ~draws

(* Slot::tick of the slot at cursor.                                       *)
Tick(asks, draws) ==
  /\ at = "tick" /\ cursor <= N
  /\ Requests(queue, asks, draws)
  /\ cursor' = cursor + 1
  /\ IF cursor = 1 THEN TickFirst(draws) ELSE UNCHANGED <<pid, ended, fading, ticks>>
  /\ UNCHANGED <<at, left, idle, elapsed, quiet>>

Select ==
  /\ at = "tick" /\ cursor = N + 1
  /\ at' = "asleep" /\ left' = Timeout
  /\ UNCHANGED <<xlibVars, cursor, iconVars>>

(* FAULT: after a timeout select is called again without a tick.           *)
WakeResuming ==
  /\ at = "asleep"
  /\ socket # <<>> \/ left = 0
  /\ at' = IF socket = <<>> THEN "tick" ELSE "pending"
  /\ UNCHANGED <<xlibVars, cursor, left, iconVars>>

(* select returns when the connection is readable or the time is up.       *)
Wake ==
  /\ at = "asleep"
  /\ socket # <<>> \/ left = 0
  /\ at' = "pending"
  /\ UNCHANGED <<xlibVars, cursor, left, iconVars>>

Dock ==
  \/ XPending \/ Select \/ Wake
  \/ \E asks, draws \in BOOLEAN : NextEvent(asks, draws) \/ Tick(asks, draws)

-----------------------------------------------------------------------------
(* The X server puts an event on the connection.                           *)
Arrive(launches) ==
  /\ Len(queue) + Len(socket) < MaxWaiting
  /\ socket' = Append(socket, [age |-> 0, launches |-> launches])
  /\ quiet' = (quiet /\ ~Grey)
  /\ UNCHANGED <<queue, output, loopVars, idle, fading, pid, ended, ticks, elapsed>>

(* The program ends, or is stopped, which waitpid reports as well.         *)
Exit ==
  /\ pid /\ ended = None
  /\ ended' = 0
  /\ quiet' = (quiet /\ ~Grey)
  /\ UNCHANGED <<loopVars, xlibVars, idle, fading, pid, ticks, elapsed>>

Older(events) ==
  [i \in DOMAIN events |-> [events[i] EXCEPT !.age = @ + 1]]

Pass ==
  /\ at = "asleep" /\ socket = <<>> /\ left > 0
  /\ left' = left - 1
  /\ queue' = Older(queue)
  /\ output' = IF output = None THEN None ELSE output + 1
  /\ ended' = IF ended = None THEN None ELSE ended + 1
  /\ elapsed' = IF Grey THEN elapsed + 1 ELSE elapsed
  /\ UNCHANGED <<socket, at, cursor, idle, fading, pid, ticks, quiet>>

Next == Dock \/ Pass \/ Exit \/ \E launches \in BOOLEAN : Arrive(launches)

Spec == Init /\ [][Next]_vars

(* The process is scheduled and time goes on.                              *)
FairSpec == Spec /\ WF_vars(Dock) /\ WF_vars(Pass)

-----------------------------------------------------------------------------
(* Properties                                                              *)

Waiting == queue \o socket

D == INSTANCE Delivery
       WITH waiting <- [i \in DOMAIN Waiting |-> Waiting[i].age]

(* Events are handled in order, each of them at last, and none later than  *)
(* one timeout after its arrival, although select does not see those that  *)
(* the ticks of the slots have moved to Xlib's queue (Dock::run).          *)
Delivers == D!Spec

(* What a slot has drawn or sent to a window reaches the server after one  *)
(* timeout at most, although nothing in the program flushes the output     *)
(* but XPending.                                                           *)
PromptPictures == output # None => output <= Timeout

(* The grey state lasts for the idle time, in whole ticks, if the program  *)
(* does not end before, which ends it as well, and as long as no event     *)
(* makes the loop tick in between (Slot::exec, Slot::tick).                *)
IdleKept ==
  quiet /\ ~Grey /\ ticks > 0 => elapsed >= IdleTicks(idle) * Timeout

(* Whatever happens in between, a grey icon gets a tick at least once in   *)
(* each timeout.                                                           *)
TicksKeepPace == elapsed <= ticks * Timeout

(* An icon becomes available again within one timeout of the end of its    *)
(* program, grey or not: Slot::tick waits for the program in both states.  *)
EndNoticed == ended # None => ended <= Timeout

=============================================================================
