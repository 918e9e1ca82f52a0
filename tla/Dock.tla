-------------------------------- MODULE Dock --------------------------------
(***************************************************************************)
(* Dock::run: one loop that dispatches the pending X events to the slots   *)
(* and, whenever none is pending, ticks every slot of the chain.  Around   *)
(* it are the user, the remote instances of bbdock, the applications, the  *)
(* kernel and the window manager, which act between any two steps of it.   *)
(***************************************************************************)
EXTENDS Slot

CONSTANTS
  MarkType,     \* Settings::marktype
  LeftAction,   \* Settings::leftclickaction
  RightAction,  \* Settings::rightclickaction
  Inputs,       \* the X events that may arrive
  MayStop,      \* may a process be stopped by a signal (SIGSTOP, SIGTSTP)?
  MayHide       \* may the slit become unreadable (autohide, unmapped)?

ClickActions == {"nothing", "iconify", "lower", "close"}

(* The X events Dock::run tells apart.  `onMark' says that the pointer is  *)
(* in the area of the cross mark.                                          *)
Click(s, b, m) ==
  [type |-> "ButtonRelease", slot |-> s, button |-> b, onMark |-> m]
WindowEvent(t, s) == [type |-> t, slot |-> s]
Visibility(s, v) == [type |-> "VisibilityNotify", slot |-> s, state |-> v]
ExecuteMessage(c) == [type |-> "ExecuteIcon", command |-> c]
ChangeMessage(c, i) == [type |-> "ChangeIcon", command |-> c, icon |-> i]
NoEvent == [type |-> "None"]

Commands == {Command[s] : s \in Slots} \ {NoCommand}

Events ==
  {Click(s, b, m) : s \in Slots, b \in 1..3, m \in BOOLEAN} \cup
  {WindowEvent(t, s) : t \in {"Expose", "ConfigureNotify", "SelectionNotify"},
                       s \in Slots} \cup
  {Visibility(s, v) : s \in Slots, v \in {"unobscured", "obscured"}} \cup
  {ExecuteMessage(c) : c \in Commands} \cup
  {ChangeMessage(c, i) : c \in Commands, i \in Icons}

ASSUME DockAssumption ==
  /\ MarkType \in {"play", "dots", "corner", "cross"}
  /\ LeftAction \in ClickActions
  /\ RightAction \in ClickActions
  /\ Inputs \subseteq Events
  /\ MayStop \in BOOLEAN
  /\ MayHide \in BOOLEAN

VARIABLES
  event,      \* the pending X event (the queue is cut to one, NoEvent if empty)
  cursor,     \* the slot to be ticked next, 0 outside the tick loop
  selection   \* slots with an XConvertSelection that is not answered yet

loopVars == <<event, cursor, selection>>
vars == <<dock, slot, proc, owner, sigterm, slit, win, focus, loopVars>>

Init ==
  /\ dock = "running"
  /\ slot = [s \in Slots |-> InitSlot(s)]
  /\ proc = [p \in Pids |-> "free"]
  /\ owner = [p \in Pids |-> 0]
  /\ sigterm = {}
  /\ slit = "viewable"
  /\ win = [s \in Slots |-> "none"]
  /\ focus = 0
  /\ event = NoEvent
  /\ cursor = 0
  /\ selection = {}

-----------------------------------------------------------------------------
(* Event dispatch                                                          *)

(* XNextEvent, followed by the handler of e.                               *)
Dispatch(e) ==
  /\ dock = "running"
  /\ cursor = 0
  /\ event = e
  /\ event' = NoEvent
  /\ UNCHANGED cursor

PerformClickAction(s, action) ==
  CASE action = "nothing" -> NoEffect
    [] action = "iconify" -> IconifyApplication(s)
    [] action = "lower"   -> LowerApplication(s)
    [] action = "close"   -> CloseApplication(s)

(* FAULT: the area of the mark counts whatever the type of the mark.       *)
LeftClickAnyMark(s, m) ==
  /\ Dispatch(Click(s, 1, m))
  /\ IF m THEN CloseApplication(s)
     ELSE IF LeftAction # "nothing" /\ HasFocus(s)
     THEN PerformClickAction(s, LeftAction)
     ELSE Exec(s)
  /\ UNCHANGED selection

LeftClick(s, m) ==
  /\ Dispatch(Click(s, 1, m))
  /\ IF MarkType = "cross" /\ m
     THEN CloseApplication(s)
     ELSE IF LeftAction # "nothing" /\ HasFocus(s)
     THEN PerformClickAction(s, LeftAction)
     ELSE Exec(s)
  /\ UNCHANGED selection

(* Ask the owner of the selection, if there is one, for its contents.      *)
MiddleClick(s, m) ==
  /\ Dispatch(Click(s, 2, m))
  /\ selection' \in {selection, selection \cup {s}}
  /\ NoEffect

RightClick(s, m) ==
  /\ Dispatch(Click(s, 3, m))
  /\ PerformClickAction(s, RightAction)
  /\ UNCHANGED selection

(* The answer may come without a property or with an empty one.            *)
SelectionNotify(s) ==
  /\ Dispatch(WindowEvent("SelectionNotify", s))
  /\ Exec(s) \/ NoEffect
  /\ UNCHANGED selection

Expose(s) ==
  /\ Dispatch(WindowEvent("Expose", s))
  /\ Draw(s)
  /\ UNCHANGED selection

VisibilityNotify(s, v) ==
  /\ Dispatch(Visibility(s, v))
  /\ SetVisibility(s, v)
  /\ UNCHANGED selection

ConfigureNotify(s) ==
  /\ Dispatch(WindowEvent("ConfigureNotify", s))
  /\ Reconfigure(s)
  /\ UNCHANGED selection

(* s is the first slot in the chain that is in S.                          *)
IsFirst(s, S) == s \in S /\ \A t \in S : s <= t

(* The two messages of Dock::client.                                       *)
ExecuteIcon(c) ==
  LET matching == {s \in Slots : Command[s] = c} IN
  /\ Dispatch(ExecuteMessage(c))
  /\ \E s \in Slots : IsFirst(s, matching) /\ Exec(s)
  /\ UNCHANGED selection

ChangeIcon(c, i) ==
  LET matching == {s \in Slots : Command[s] = c /\ slot[s].icon # i} IN
  /\ Dispatch(ChangeMessage(c, i))
  /\ \/ matching = {} /\ NoEffect
     \/ \E s \in Slots : IsFirst(s, matching) /\ SetIcon(s, i)
  /\ UNCHANGED selection

HandleEvent ==
  \/ \E s \in Slots, m \in BOOLEAN :
       LeftClick(s, m) \/ MiddleClick(s, m) \/ RightClick(s, m)
  \/ \E s \in Slots : SelectionNotify(s) \/ Expose(s) \/ ConfigureNotify(s)
  \/ \E s \in Slots, v \in {"unobscured", "obscured"} : VisibilityNotify(s, v)
  \/ \E c \in Commands : ExecuteIcon(c)
  \/ \E c \in Commands, i \in Icons : ChangeIcon(c, i)

-----------------------------------------------------------------------------
(* The tick loop                                                           *)

(* FAULT: the first slot of the chain is left out.                         *)
StartTickingLate ==
  /\ dock = "running"
  /\ event = NoEvent
  /\ cursor = 0
  /\ cursor' = 2
  /\ UNCHANGED <<event, selection>>
  /\ NoEffect

(* XPending returns 0.                                                     *)
StartTicking ==
  /\ dock = "running"
  /\ event = NoEvent
  /\ cursor = 0
  /\ cursor' = 1
  /\ UNCHANGED <<event, selection>>
  /\ NoEffect

(* FAULT: the last slot of the chain is left out.                          *)
TickNextShort ==
  /\ dock = "running"
  /\ cursor # 0
  /\ Tick(cursor)
  /\ cursor' = IF cursor + 1 >= N THEN 0 ELSE cursor + 1
  /\ UNCHANGED <<event, selection>>

(* slot->tick(), and after the last slot the loop waits in select.         *)
TickNext ==
  /\ dock = "running"
  /\ cursor # 0
  /\ Tick(cursor)
  /\ cursor' = IF cursor = N THEN 0 ELSE cursor + 1
  /\ UNCHANGED <<event, selection>>

-----------------------------------------------------------------------------
(* The environment                                                         *)

(* An event arrives.  A SelectionNotify answers a conversion.              *)
Arrive(e) ==
  /\ dock = "running"
  /\ event = NoEvent
  /\ event' = e
  /\ IF e.type = "SelectionNotify"
     THEN e.slot \in selection /\ selection' = selection \ {e.slot}
     ELSE UNCHANGED selection
  /\ UNCHANGED cursor
  /\ NoEffect

SetProc(p, state, o) ==
  /\ dock = "running"
  /\ proc' = [proc EXCEPT ![p] = state]
  /\ owner' = [owner EXCEPT ![p] = o]
  /\ UNCHANGED <<dock, slot, sigterm, slit, winVars, loopVars>>

ChildExits(p) ==
  owner[p] # 0 /\ proc[p] = "running" /\ SetProc(p, "zombie", owner[p])

ChildStops(p) ==
  MayStop /\ owner[p] # 0 /\ proc[p] = "running"
  /\ SetProc(p, "stopped", owner[p])

ChildContinues(p) ==
  owner[p] # 0 /\ proc[p] = "stopped" /\ SetProc(p, "running", owner[p])

(* Other processes come and go, and reuse the ids that are free.           *)
ForeignStarts(p) == proc[p] = "free" /\ SetProc(p, "running", 0)

ForeignExits(p) ==
  owner[p] = 0 /\ proc[p] = "running" /\ SetProc(p, "free", 0)

SetWindow(s, state, f) ==
  /\ dock = "running"
  /\ win' = [win EXCEPT ![s] = state]
  /\ focus' = f
  /\ UNCHANGED <<dock, slot, procVars, slit, loopVars>>

(* Any process may show a window with a title the icon lists.              *)
WindowOpens(s) == win[s] = "none" /\ SetWindow(s, "normal", s)

WindowCloses(s) ==
  win[s] # "none" /\ SetWindow(s, "none", IF focus = s THEN 0 ELSE focus)

(* The user keeps a window that has been asked to close.                   *)
CloseCancelled(s) == win[s] = "closing" /\ SetWindow(s, "normal", focus)

FocusEnters(s) ==
  win[s] = "normal" /\ focus # s /\ SetWindow(s, "normal", s)

FocusLeaves(s) == focus = s /\ SetWindow(s, win[s], 0)

SlitMoves ==
  /\ dock = "running"
  /\ MayHide
  /\ slit' = IF slit = "hidden" THEN "viewable" ELSE "hidden"
  /\ UNCHANGED <<dock, slot, procVars, winVars, loopVars>>

Environment ==
  \/ \E e \in Inputs : Arrive(e)
  \/ \E p \in Pids : \/ ChildExits(p) \/ ChildStops(p) \/ ChildContinues(p)
                     \/ ForeignStarts(p) \/ ForeignExits(p)
  \/ \E s \in Exclusive : \/ WindowOpens(s) \/ WindowCloses(s)
                          \/ CloseCancelled(s)
                          \/ FocusEnters(s) \/ FocusLeaves(s)
  \/ SlitMoves

(* An exception has reached main, which returns.                           *)
Terminated == dock = "failed" /\ UNCHANGED vars

Next == HandleEvent \/ StartTicking \/ TickNext \/ Environment \/ Terminated

Spec == Init /\ [][Next]_vars

(* The event queue runs empty again and again (the user and the X server   *)
(* are slower than the dock), the dock is scheduled, and a process that    *)
(* has been sent SIGTERM and is not stopped ends.                          *)
Fairness ==
  /\ SF_vars(StartTicking)
  /\ WF_vars(TickNext)
  /\ WF_vars(HandleEvent)
  /\ \A p \in Pids : WF_vars(p \in sigterm /\ ChildExits(p))

FairSpec == Spec /\ Fairness

-----------------------------------------------------------------------------
(* Properties                                                              *)

(* The types of all variables.                                             *)
TypeOK ==
  /\ SlotTypeOK
  /\ event \in Events \cup {NoEvent}
  /\ cursor \in 0..N
  /\ selection \subseteq Slots

(* Slot::closeApplication never signals a process that the dock did not    *)
(* start: neither a process that got the id of an earlier child (kill is   *)
(* only called before tick() has released the child) nor, with a pid of 0  *)
(* or -1, a whole process group.                                           *)
NoStrayKill == \A p \in sigterm : p \in Pids /\ owner[p] # 0

(* The pid a slot holds is that of a child it forked and that waitpid has  *)
(* not released: no two slots share a child, and what Slot::tick waits for *)
(* and Slot::closeApplication signals is the slot's own process.           *)
PidTracksChild ==
  dock = "running" =>
    \A s \in Slots :
      slot[s].pid # 0 => /\ slot[s].pid \in Pids
                         /\ owner[slot[s].pid] = s
                         /\ proc[slot[s].pid] # "free"

(* An icon is only grey while its slot tracks a process, so that Slot::tick*)
(* sees the process end before the idle time has elapsed.                  *)
GreyIsTracked ==
  \A s \in Slots : slot[s].fading < Complete => slot[s].pid # 0

(* The programs of slot s that have not terminated.                        *)
Instances(s) == {p \in Pids : owner[p] = s /\ proc[p] \in {"running", "stopped"}}

(* At most one instance of the program of an exclusive icon is alive.      *)
OneInstance ==
  \A s \in Exclusive : \A p, q \in Instances(s) : p = q

(* After every step the picture of an icon whose background could be       *)
(* restored shows the active mark exactly if the icon is active, and the   *)
(* icon in the current state of its fade-in.                               *)
PictureCurrent ==
  dock = "running" =>
    \A s \in Slots :
      LET i == slot[s].image IN
      i.clean /\ i.shade # -1 => /\ i.mark = Active(s, slot[s])
                                 /\ i.shade = slot[s].fading

(* The mark is shown on an icon that has been drawn exactly if it is       *)
(* active, whatever became of the background.                              *)
MarkShown ==
  dock = "running" =>
    \A s \in Slots :
      slot[s].image.shade # -1 => slot[s].image.mark = Active(s, slot[s])

(* A left click on an icon that has no running process launches one (or    *)
(* ends the dock, when fork fails): Dock::run gets to slot->exec().        *)
ClickLaunches ==
  [][\A s \in Slots, m \in BOOLEAN :
       /\ event = Click(s, 1, m) /\ event' = NoEvent
       /\ slot[s].pid = 0
       /\ Command[s] # NoCommand
       => slot'[s].pid # 0]_vars

(* A terminated child of an exclusive icon does not stay a zombie.         *)
ExclusiveReaped ==
  \A p \in Pids :
    owner[p] \in Exclusive /\ proc[p] = "zombie"
      ~> (owner[p] = 0 \/ dock = "failed")

(* The idle time of an icon ends.                                          *)
FadeEnds ==
  \A s \in Slots :
    slot[s].fading < Complete ~> (slot[s].fading = Complete \/ dock = "failed")

(* Once Slot::closeApplication has signalled a program, the slot gets to   *)
(* know that it has closed.                                                *)
CloseNoticed ==
  \A s \in Slots, p \in Pids :
    slot[s].pid = p /\ p \in sigterm ~> (slot[s].pid # p \/ dock = "failed")

(* The dock implements the abstract launcher.                              *)
LauncherState(s) ==
  IF dock = "failed" \/ slot[s].pid = 0 THEN "idle"
  ELSE IF slot[s].fading < Complete THEN "starting"
  ELSE "running"

LauncherProgram(s) == IF dock = "failed" THEN 0 ELSE slot[s].pid

L == INSTANCE Launcher
  WITH Programs <- Pids, NoProgram <- 0,
       up <- dock = "running",
       state <- [s \in Slots |-> LauncherState(s)],
       program <- [s \in Slots |-> LauncherProgram(s)]

ImplementsLauncher == L!Spec

=============================================================================
