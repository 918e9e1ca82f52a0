-------------------------------- MODULE Slot --------------------------------
(***************************************************************************)
(* The Slot objects of a dock and what their methods act upon: the process *)
(* table of the kernel, the application windows and the slit.              *)
(*                                                                         *)
(* A slot is a record with the members of class Slot that its methods      *)
(* change.  Every method of Slot.cc that changes state is an operator of   *)
(* this module: a function of the record where the method only touches the *)
(* object, an action where it also acts on the outside.                    *)
(***************************************************************************)
EXTENDS Integers, Fading

CONSTANTS
  N,           \* number of slots
  Pids,        \* process ids the kernel hands out
  Command,     \* [Slots -> commands], the command of each icon
  NoCommand,   \* the empty command
  Exclusive,   \* the slots whose icon has at least one window title
  FadeStart,   \* [Slots -> fading after a launch], see FadeOffset
  Icons,       \* image files
  Loadable,    \* the image files Slot::loadIcon succeeds on
  FirstIcon    \* [Slots -> Loadable], the image each icon starts with

(* Slots are numbered in the order of the chain that starts at Dock::first *)
(* (the last icon added is slot 1).                                        *)
Slots == 1..N

ASSUME SlotAssumption ==
  /\ N \in Nat \ {0}
  /\ Pids \subseteq Nat \ {0}
  /\ Exclusive \subseteq Slots
  /\ FadeStart \in [Slots -> 0..(Complete - 1)]
  /\ Loadable \subseteq Icons
  /\ FirstIcon \in [Slots -> Loadable]

VARIABLES
  dock,     \* "running", or "failed" once an exception has ended Dock::run
  slot,     \* [Slots -> SlotState], the objects
  proc,     \* [Pids -> ProcState], the kernel's process table
  owner,    \* [Pids -> slot that forked the process, 0 if no slot did]
  sigterm,  \* the processes the dock has sent SIGTERM to
  slit,     \* "viewable", or "hidden" (unmapped or partly off the screen)
  win,      \* [Slots -> WinState], the window that carries a slot's title
  focus     \* the slot whose window is the active one, 0 if none is

procVars == <<proc, owner, sigterm>>
winVars  == <<win, focus>>

ProcState == {"free", "running", "stopped", "zombie"}
WinState  == {"none", "normal", "iconified", "closing"}

(* What the slot's image shows: whether the active mark is visible in it,  *)
(* the fading value the icon was last rendered with (-1: nothing has been  *)
(* rendered) and whether that was on a clean background or on top of the   *)
(* previous picture.                                                       *)
Image == [mark : BOOLEAN, shade : -1..Complete, clean : BOOLEAN]

Blank == [mark |-> FALSE, shade |-> -1, clean |-> TRUE]

SlotState ==
  [pid        : Pids \cup {0, -1},
   fading     : 0..Complete,
   icon       : Icons,
   invalid    : BOOLEAN,
   visibility : {"unobscured", "obscured"},
   image      : Image]

SlotTypeOK ==
  /\ dock \in {"running", "failed"}
  /\ slot \in [Slots -> SlotState]
  /\ proc \in [Pids -> ProcState]
  /\ owner \in [Pids -> 0..N]
  /\ sigterm \subseteq Pids \cup {0, -1}
  /\ slit \in {"viewable", "hidden"}
  /\ win \in [Slots -> WinState]
  /\ focus \in 0..N

InitSlot(s) ==
  [pid |-> 0, fading |-> Complete, icon |-> FirstIcon[s], invalid |-> FALSE,
   visibility |-> "unobscured", image |-> Blank]

-----------------------------------------------------------------------------
(* Drawing                                                                 *)

(* `pid && icon->isExclusive()': the instance the dock is responsible for  *)
(* is running, as far as the slot knows.                                   *)
Active(s, r) == r.pid # 0 /\ s \in Exclusive

(* Slot::getBackground.  A slit that cannot be read leaves the image as it *)
(* is; one that is read through other windows stays invalid.               *)
GetBackground(r) ==
  IF slit = "hidden"
  THEN [r EXCEPT !.invalid = TRUE, !.image = [@ EXCEPT !.clean = FALSE]]
  ELSE [r EXCEPT !.invalid = (r.visibility # "unobscured"),
                 !.image = [@ EXCEPT !.mark = FALSE, !.clean = TRUE]]

(* FAULT: the mark of the last picture is left in the background.          *)
RestoreNothing(r) == r

(* The memcpy of the saved background.                                     *)
RestoreBackground(r) ==
  [r EXCEPT !.image = [@ EXCEPT !.mark = FALSE, !.clean = TRUE]]

(* Render::activeMark inverts the pixels of the mark, Render::ghosted and  *)
(* Render::opaque draw the icon.                                           *)
RenderIcon(s, r) ==
  [r EXCEPT !.image = [@ EXCEPT !.mark = (r.image.mark # Active(s, r)),
                                !.shade = r.fading]]

(* Slot::draw                                                              *)
Drawn(s, r, refresh) ==
  IF ~refresh /\ ~r.invalid THEN r
  ELSE RenderIcon(s, IF r.invalid THEN GetBackground(r)
                                  ELSE RestoreBackground(r))

(* Slot s becomes r after a draw( true ).                                  *)
Redraw(s, r) == slot' = [slot EXCEPT ![s] = Drawn(s, r, TRUE)]

Draw(s) ==
  /\ slot' = [slot EXCEPT ![s] = Drawn(s, slot[s], FALSE)]
  /\ UNCHANGED <<dock, procVars, slit, winVars>>

(* The ConfigureNotify case of Dock::run: invalidate() and draw( true )    *)
Reconfigure(s) ==
  /\ Redraw(s, [slot[s] EXCEPT !.invalid = TRUE])
  /\ UNCHANGED <<dock, procVars, slit, winVars>>

SetVisibility(s, v) ==
  /\ slot' = [slot EXCEPT ![s].visibility = v]
  /\ UNCHANGED <<dock, procVars, slit, winVars>>

(* Slot::setIcon.  loadIcon throws when the file is no usable image and    *)
(* otherwise leaves a new, empty surface.                                  *)
SetIcon(s, i) ==
  /\ IF i \in Loadable
     THEN /\ Redraw(s, [slot[s] EXCEPT !.icon = i, !.image = Blank,
                                       !.invalid = TRUE])
          /\ UNCHANGED dock
     ELSE /\ slot' = [slot EXCEPT ![s].icon = i]
          /\ dock' = "failed"
  /\ UNCHANGED <<procVars, slit, winVars>>

-----------------------------------------------------------------------------
(* Processes and windows                                                   *)

NoEffect == UNCHANGED <<dock, slot, procVars, slit, winVars>>

(* The fork of Slot::exec, with the start of the fade-in.                  *)
Fork(s) ==
  \E p \in Pids :
    /\ proc[p] = "free"
    /\ proc' = [proc EXCEPT ![p] = "running"]
    /\ owner' = [owner EXCEPT ![p] = s]
    /\ Redraw(s, [slot[s] EXCEPT !.pid = p, !.fading = FadeStart[s]])
    /\ UNCHANGED <<dock, sigterm, slit, winVars>>

(* fork() returns -1: pid has been assigned when the exception is thrown.  *)
ForkFails(s) ==
  /\ slot' = [slot EXCEPT ![s].pid = -1]
  /\ dock' = "failed"
  /\ UNCHANGED <<procVars, slit, winVars>>

(* wm.activateWindow for the window of the running instance.               *)
RaiseWindow(s) ==
  /\ win' = [win EXCEPT ![s] = IF @ = "iconified" THEN "normal" ELSE @]
  /\ focus' = IF win[s] = "none" THEN focus ELSE s
  /\ UNCHANGED <<dock, slot, procVars, slit>>

(* FAULT: no return after the window has been raised.                      *)
ExecNotReturning(s) ==
  IF slot[s].fading = Complete /\ Command[s] # NoCommand THEN Fork(s) ELSE NoEffect

(* FAULT: clicks during the idle time count.                               *)
ExecImpatient(s) ==
  \/ Active(s, slot[s]) /\ RaiseWindow(s)
  \/ ~Active(s, slot[s]) /\ Command[s] = NoCommand /\ NoEffect
  \/ ~Active(s, slot[s]) /\ Command[s] # NoCommand /\ Fork(s)

(* Slot::exec                                                              *)
Exec(s) ==
  \/ Active(s, slot[s]) /\ RaiseWindow(s)
  \/ /\ ~Active(s, slot[s])
     /\ slot[s].fading < Complete \/ Command[s] = NoCommand
     /\ NoEffect
  \/ /\ ~Active(s, slot[s])
     /\ slot[s].fading = Complete
     /\ Command[s] # NoCommand
     /\ Fork(s) \/ ForkFails(s)

(* Slot::iconifyApplication                                                *)
IconifyApplication(s) ==
  IF Active(s, slot[s]) /\ win[s] # "none"
  THEN /\ win' = [win EXCEPT ![s] = IF @ = "normal" THEN "iconified" ELSE @]
       /\ focus' = IF focus = s THEN 0 ELSE focus
       /\ UNCHANGED <<dock, slot, procVars, slit>>
  ELSE NoEffect

(* Slot::lowerApplication only changes the stacking order.                 *)
LowerApplication(s) == NoEffect

(* FAULT: pid is not looked at.                                            *)
CloseUnguarded(s) ==
  \/ /\ win[s] # "none"
     /\ win' = [win EXCEPT ![s] = "closing"]
     /\ UNCHANGED <<dock, slot, procVars, slit, focus>>
  \/ /\ win[s] = "none"
     /\ sigterm' = sigterm \cup {slot[s].pid}
     /\ UNCHANGED <<dock, slot, proc, owner, slit, winVars>>

(* Slot::closeApplication: ask the window to close, or else the process.   *)
CloseApplication(s) ==
  \/ ~Active(s, slot[s]) /\ NoEffect
  \/ /\ Active(s, slot[s])
     /\ win[s] # "none"
     /\ win' = [win EXCEPT ![s] = "closing"]
     /\ UNCHANGED <<dock, slot, procVars, slit, focus>>
  \/ /\ Active(s, slot[s])
     /\ win[s] = "none"
     /\ sigterm' = sigterm \cup {slot[s].pid}
     /\ UNCHANGED <<dock, slot, proc, owner, slit, winVars>>

(* Slot::hasFocus.  It does not look at pid.                               *)
HasFocus(s) == focus = s

(* FAULT: the end of a process is missed.                                  *)
WaitedStopped(p) == proc[p] = "stopped"

(* waitpid( pid, &status, WNOHANG | WUNTRACED ) == pid                     *)
Waited(p) == proc[p] \in {"zombie", "stopped"}

(* The process waitpid reports is released if it has terminated.           *)
Release(p) ==
  IF proc[p] = "zombie"
  THEN /\ proc' = [proc EXCEPT ![p] = "free"]
       /\ owner' = [owner EXCEPT ![p] = 0]
       /\ sigterm' = sigterm \ {p}
  ELSE UNCHANGED procVars

(* FAULT: the icon stays grey.                                             *)
LaunchableGrey(r) == [r EXCEPT !.pid = 0]

(* FAULT: the pid is kept.                                                 *)
LaunchableHeld(r) == [r EXCEPT !.fading = Complete]

(* The slot may launch the program again.                                  *)
Launchable(r) == [r EXCEPT !.pid = 0, !.fading = Complete]

(* Slot::tick                                                              *)
Tick(s) ==
  LET r == slot[s] IN
  /\ \/ r.pid = 0 /\ UNCHANGED <<slot, procVars>>
     \/ /\ r.pid # 0
        /\ Waited(r.pid)
        /\ Release(r.pid)
        /\ Redraw(s, Launchable(r))
     \/ /\ r.pid # 0
        /\ ~Waited(r.pid)
        /\ r.fading < Complete
        /\ Redraw(s, [r EXCEPT !.fading = FadeStep(@)])
        /\ UNCHANGED procVars
     \/ /\ r.pid # 0
        /\ ~Waited(r.pid)
        /\ r.fading = Complete
        /\ UNCHANGED <<slot, procVars>>
  /\ UNCHANGED <<dock, slit, winVars>>

=============================================================================
