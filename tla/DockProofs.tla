----------------------------- MODULE DockProofs -----------------------------
(***************************************************************************)
(* Proofs of the safety properties of Dock, for any number of slots,       *)
(* processes, commands and images and for every choice of the settings.    *)
(***************************************************************************)
EXTENDS Dock, FadingProofs

-----------------------------------------------------------------------------
(* Drawing                                                                 *)

LEMMA RenderIconKeeps ==
  ASSUME NEW s \in Slots, NEW r \in SlotState
  PROVE  /\ RenderIcon(s, r) \in SlotState
         /\ RenderIcon(s, r).pid = r.pid
         /\ RenderIcon(s, r).fading = r.fading
<1> DEFINE m == r.image.mark # Active(s, r)
<1>1. m \in BOOLEAN
  BY Zenon
<1>2. RenderIcon(s, r) = [r EXCEPT !.image = [@ EXCEPT !.mark = m, !.shade = r.fading]]
  BY Zenon DEF RenderIcon
<1> HIDE DEF m
<1>3. r.fading \in -1..Complete
  BY DEF SlotState, Complete
<1>4. [r.image EXCEPT !.mark = m, !.shade = r.fading] \in Image
  BY <1>1, <1>3 DEF Image, SlotState
<1>5. QED
  BY <1>2, <1>4 DEF SlotState

LEMMA RestoreKeeps ==
  ASSUME NEW r \in SlotState
  PROVE  /\ RestoreBackground(r) \in SlotState
         /\ RestoreBackground(r).pid = r.pid
         /\ RestoreBackground(r).fading = r.fading
BY DEF RestoreBackground, SlotState, Image

LEMMA GetBackgroundKeeps ==
  ASSUME NEW r \in SlotState
  PROVE  /\ GetBackground(r) \in SlotState
         /\ GetBackground(r).pid = r.pid
         /\ GetBackground(r).fading = r.fading
<1>1. CASE slit = "hidden"
  BY <1>1 DEF GetBackground, SlotState, Image
<1>2. CASE slit # "hidden"
  BY <1>2 DEF GetBackground, SlotState, Image
<1>3. QED BY <1>1, <1>2

(* Slot::draw changes nothing but the picture and its `invalid' flag.      *)
LEMMA DrawnKeeps ==
  ASSUME NEW s \in Slots, NEW r \in SlotState, NEW b \in BOOLEAN
  PROVE  /\ Drawn(s, r, b) \in SlotState
         /\ Drawn(s, r, b).pid = r.pid
         /\ Drawn(s, r, b).fading = r.fading
<1>1. CASE ~b /\ ~r.invalid
  BY <1>1 DEF Drawn
<1>2. CASE ~(~b /\ ~r.invalid) /\ r.invalid
  BY <1>2, GetBackgroundKeeps, RenderIconKeeps DEF Drawn
<1>3. CASE ~(~b /\ ~r.invalid) /\ ~r.invalid
  BY <1>3, RestoreKeeps, RenderIconKeeps DEF Drawn
<1>4. QED BY <1>1, <1>2, <1>3

(* What a picture on a clean background shows of the slot.                 *)
Current(s, r) ==
  r.image.clean /\ r.image.shade # -1 =>
    /\ r.image.mark = Active(s, r)
    /\ r.image.shade = r.fading

(* draw( true ) makes the picture current, whatever it was before.         *)
LEMMA DrawnCurrent ==
  ASSUME NEW s \in Slots, NEW r \in SlotState
  PROVE  Current(s, Drawn(s, r, TRUE))
<1>1. CASE r.invalid /\ slit = "hidden"
  BY <1>1 DEF Drawn, RenderIcon, GetBackground, SlotState, Image, Active, Current
<1>2. CASE r.invalid /\ slit # "hidden"
  BY <1>2 DEF Drawn, RenderIcon, GetBackground, SlotState, Image, Active, Current
<1>3. CASE ~r.invalid
  BY <1>3 DEF Drawn, RenderIcon, RestoreBackground, SlotState, Image, Active, Current
<1>4. QED BY <1>1, <1>2, <1>3

(* An Expose event does not make it less current.                          *)
LEMMA ExposedCurrent ==
  ASSUME NEW s \in Slots, NEW r \in SlotState, Current(s, r)
  PROVE  Current(s, Drawn(s, r, FALSE))
<1>1. CASE r.invalid
  <2>1. Drawn(s, r, FALSE) = Drawn(s, r, TRUE)
    BY <1>1 DEF Drawn
  <2>2. QED BY <2>1, DrawnCurrent
<1>2. CASE ~r.invalid
  BY <1>2 DEF Drawn
<1>3. QED BY <1>1, <1>2

-----------------------------------------------------------------------------
(* The inductive invariant                                                 *)

(* A process id that is free belongs to no slot.                           *)
FreeIsOwnerless == \A p \in Pids : proc[p] = "free" => owner[p] = 0

NeverStopped == ~MayStop => \A p \in Pids : proc[p] # "stopped"

(* Without stopped children an exclusive slot never loses track of one.    *)
ExclusiveTracked ==
  dock = "running" /\ ~MayStop =>
    \A p \in Pids : owner[p] \in Exclusive => slot[owner[p]].pid = p

Inv ==
  /\ SlotTypeOK
  /\ FreeIsOwnerless
  /\ NeverStopped
  /\ NoStrayKill
  /\ PidTracksChild
  /\ GreyIsTracked
  /\ PictureCurrent
  /\ ExclusiveTracked
  /\ ~MayStop => OneInstance

LEMMA TrackedIsAlone ==
  ASSUME SlotTypeOK, ExclusiveTracked, ~MayStop, dock = "running"
  PROVE  OneInstance
<1> SUFFICES ASSUME NEW s \in Exclusive,
                    NEW p \in Instances(s), NEW q \in Instances(s)
             PROVE  p = q
  BY DEF OneInstance
<1>1. p \in Pids /\ q \in Pids /\ owner[p] = s /\ owner[q] = s
  BY DEF Instances
<1>2. slot[s].pid = p /\ slot[s].pid = q
  BY <1>1 DEF ExclusiveTracked
<1> QED BY <1>2

LEMMA PictureIsCurrent ==
  PictureCurrent <=> (dock = "running" => \A s \in Slots : Current(s, slot[s]))
BY Zenon DEF PictureCurrent, Current

-----------------------------------------------------------------------------
(* Steps by what they change.  `Objects' are the slots and the processes.  *)

OutsideTyped ==
  /\ slit' \in {"viewable", "hidden"}
  /\ win' \in [Slots -> WinState]
  /\ focus' \in 0..N

(* Nothing but windows or the slit.                                        *)
LEMMA ObjectsUnchanged ==
  ASSUME Inv, OutsideTyped, UNCHANGED <<dock, slot, procVars>>
  PROVE  Inv'
<1>1. SlotTypeOK'
  BY DEF Inv, SlotTypeOK, OutsideTyped, procVars
<1>2. FreeIsOwnerless' /\ NeverStopped' /\ NoStrayKill' /\ PidTracksChild'
  BY DEF Inv, FreeIsOwnerless, NeverStopped, NoStrayKill, PidTracksChild, procVars
<1>3. GreyIsTracked' /\ PictureCurrent'
  BY DEF Inv, GreyIsTracked, PictureCurrent, Active
<1>4. ExclusiveTracked'
  BY DEF Inv, ExclusiveTracked, procVars
<1>5. ~MayStop => OneInstance'
  BY DEF Inv, OneInstance, Instances, procVars
<1> QED BY <1>1, <1>2, <1>3, <1>4, <1>5 DEF Inv

(* A slot that keeps its pid changes its fading, its icon or its picture.  *)
LEMMA SlotKeepsPid ==
  ASSUME Inv, OutsideTyped, UNCHANGED <<dock, procVars>>,
         NEW s \in Slots, NEW r \in SlotState,
         r.pid = slot[s].pid,
         r.fading < Complete => r.pid # 0,
         Current(s, slot[s]) => Current(s, r),
         slot' = [slot EXCEPT ![s] = r]
  PROVE  Inv'
<1>0. /\ \A t \in Slots : slot'[t] = IF t = s THEN r ELSE slot[t]
      /\ \A t \in Slots : slot'[t].pid = slot[t].pid
  BY DEF Inv, SlotTypeOK
<1>1. SlotTypeOK'
  BY DEF Inv, SlotTypeOK, OutsideTyped, procVars
<1>2. FreeIsOwnerless' /\ NeverStopped' /\ NoStrayKill'
  BY DEF Inv, FreeIsOwnerless, NeverStopped, NoStrayKill, procVars
<1>3. PidTracksChild'
  BY <1>0 DEF Inv, PidTracksChild, procVars
<1>4. GreyIsTracked'
  BY <1>0 DEF Inv, GreyIsTracked
<1>5. PictureCurrent'
  <2> SUFFICES ASSUME dock = "running", NEW t \in Slots
               PROVE  Current(t, slot'[t])
    BY DEF PictureCurrent, Current, Active
  <2>1. Current(t, slot[t])
    BY DEF Inv, PictureCurrent, Current
  <2> QED BY <2>1, <1>0
<1>6. ExclusiveTracked'
  <2> SUFFICES ASSUME dock = "running", ~MayStop, NEW p \in Pids,
                      owner[p] \in Exclusive
               PROVE  slot'[owner[p]].pid = p
    BY DEF ExclusiveTracked, procVars
  <2>1. slot[owner[p]].pid = p
    BY DEF Inv, ExclusiveTracked
  <2> QED BY <2>1, <1>0, SlotAssumption
<1>7. ~MayStop => OneInstance'
  BY DEF Inv, OneInstance, Instances, procVars
<1> QED BY <1>1, <1>2, <1>3, <1>4, <1>5, <1>6, <1>7 DEF Inv

(* An exception ends the dock, the children are left behind.               *)
LEMMA DockFails ==
  ASSUME Inv, OutsideTyped, dock' = "failed", UNCHANGED procVars,
         NEW s \in Slots, NEW r \in SlotState,
         r.fading < Complete => r.pid # 0,
         slot' = [slot EXCEPT ![s] = r]
  PROVE  Inv'
<1>1. SlotTypeOK'
  BY DEF Inv, SlotTypeOK, OutsideTyped, procVars
<1>2. FreeIsOwnerless' /\ NeverStopped' /\ NoStrayKill'
  BY DEF Inv, FreeIsOwnerless, NeverStopped, NoStrayKill, procVars
<1>3. GreyIsTracked'
  BY DEF Inv, SlotTypeOK, GreyIsTracked
<1>4. PidTracksChild' /\ PictureCurrent' /\ ExclusiveTracked'
  BY DEF PidTracksChild, PictureCurrent, ExclusiveTracked
<1>5. ~MayStop => OneInstance'
  BY DEF Inv, OneInstance, Instances, procVars
<1> QED BY <1>1, <1>2, <1>3, <1>4, <1>5 DEF Inv

(* The kernel or a foreign program changes a process of the table: never   *)
(* one of the dock's children that is not alive.                           *)
LEMMA ProcessChanges ==
  ASSUME Inv, NEW p \in Pids, NEW state \in ProcState,
         SetProc(p, state, owner[p]),
         \/ owner[p] = 0 /\ state # "stopped"
         \/ state # "free" /\ proc[p] # "free" /\ proc[p] # "zombie",
         state = "stopped" => MayStop
  PROVE  Inv'
<1>1. /\ proc' = [proc EXCEPT ![p] = state]
      /\ owner' = owner
      /\ UNCHANGED <<dock, slot, sigterm, slit, win, focus>>
  BY DEF SetProc, Inv, SlotTypeOK, winVars, loopVars
<1>2. SlotTypeOK'
  BY <1>1 DEF Inv, SlotTypeOK
<1>3. FreeIsOwnerless' /\ NeverStopped' /\ NoStrayKill' /\ GreyIsTracked'
  BY <1>1 DEF Inv, SlotTypeOK, FreeIsOwnerless, NeverStopped, NoStrayKill,
              GreyIsTracked
<1>4. PidTracksChild'
  <2> SUFFICES ASSUME dock = "running", NEW s \in Slots, slot[s].pid # 0
               PROVE  /\ slot[s].pid \in Pids
                      /\ owner[slot[s].pid] = s
                      /\ proc'[slot[s].pid] # "free"
    BY <1>1 DEF PidTracksChild
  <2>1. /\ slot[s].pid \in Pids
        /\ owner[slot[s].pid] = s
        /\ proc[slot[s].pid] # "free"
    BY DEF Inv, PidTracksChild
  <2>2. s # 0
    BY DEF Slots
  <2> QED BY <1>1, <2>1, <2>2 DEF Inv, SlotTypeOK
<1>5. PictureCurrent' /\ ExclusiveTracked'
  BY <1>1 DEF Inv, PictureCurrent, Active, ExclusiveTracked
<1>6. ~MayStop => OneInstance'
  <2> SUFFICES ASSUME ~MayStop, NEW s \in Exclusive,
                      NEW x \in Instances(s)', NEW y \in Instances(s)'
               PROVE  x = y
    BY DEF OneInstance
  <2>1. s # 0
    BY SlotAssumption DEF Slots
  <2>2. x \in Instances(s) /\ y \in Instances(s)
    BY <1>1, <2>1 DEF Instances, Inv, SlotTypeOK, ProcState, FreeIsOwnerless
  <2> QED BY <2>2 DEF Inv, OneInstance
<1> QED BY <1>2, <1>3, <1>4, <1>5, <1>6 DEF Inv

-----------------------------------------------------------------------------
(* The methods of Slot                                                     *)

LEMMA NoEffectKeepsInv ==
  ASSUME Inv, NoEffect
  PROVE  Inv'
<1>1. OutsideTyped
  BY DEF NoEffect, winVars, OutsideTyped, Inv, SlotTypeOK
<1> QED BY <1>1, ObjectsUnchanged DEF NoEffect, procVars

(* Where a method redraws slot s, which has become r.                      *)
LEMMA RedrawKeepsInv ==
  ASSUME Inv, UNCHANGED <<dock, procVars, slit, winVars>>,
         NEW s \in Slots, NEW r \in SlotState,
         r.pid = slot[s].pid,
         r.fading < Complete => r.pid # 0,
         Redraw(s, r)
  PROVE  Inv'
<1>1. OutsideTyped
  BY DEF winVars, OutsideTyped, Inv, SlotTypeOK
<1> DEFINE d == Drawn(s, r, TRUE)
<1>2. /\ d \in SlotState
      /\ d.pid = slot[s].pid
      /\ d.fading < Complete => d.pid # 0
      /\ Current(s, d)
      /\ slot' = [slot EXCEPT ![s] = d]
  BY DrawnKeeps, DrawnCurrent DEF Redraw
<1> HIDE DEF d
<1> QED BY <1>1, <1>2, SlotKeepsPid

LEMMA DrawKeepsInv ==
  ASSUME Inv, NEW s \in Slots, Draw(s)
  PROVE  Inv'
<1>1. OutsideTyped
  BY DEF Draw, winVars, OutsideTyped, Inv, SlotTypeOK
<1>2. slot[s] \in SlotState
  BY DEF Inv, SlotTypeOK
<1> DEFINE d == Drawn(s, slot[s], FALSE)
<1>3. /\ d \in SlotState
      /\ d.pid = slot[s].pid
      /\ d.fading < Complete => d.pid # 0
      /\ Current(s, slot[s]) => Current(s, d)
      /\ slot' = [slot EXCEPT ![s] = d]
  BY <1>2, DrawnKeeps, ExposedCurrent DEF Draw, Inv, GreyIsTracked
<1>4. UNCHANGED <<dock, procVars>>
  BY DEF Draw
<1> HIDE DEF d
<1> QED BY <1>1, <1>3, <1>4, SlotKeepsPid

LEMMA ReconfigureKeepsInv ==
  ASSUME Inv, NEW s \in Slots, Reconfigure(s)
  PROVE  Inv'
<1> DEFINE r == [slot[s] EXCEPT !.invalid = TRUE]
<1>1. /\ r \in SlotState
      /\ r.pid = slot[s].pid
      /\ r.fading < Complete => r.pid # 0
  BY DEF Inv, SlotTypeOK, SlotState, GreyIsTracked
<1>2. Redraw(s, r) /\ UNCHANGED <<dock, procVars, slit, winVars>>
  BY DEF Reconfigure
<1> HIDE DEF r
<1> QED BY <1>1, <1>2, RedrawKeepsInv

LEMMA SetVisibilityKeepsInv ==
  ASSUME Inv, NEW s \in Slots, NEW v \in {"unobscured", "obscured"},
         SetVisibility(s, v)
  PROVE  Inv'
<1> DEFINE r == [slot[s] EXCEPT !.visibility = v]
<1>1. OutsideTyped
  BY DEF SetVisibility, winVars, OutsideTyped, Inv, SlotTypeOK
<1>2. /\ r \in SlotState
      /\ r.pid = slot[s].pid
      /\ r.fading < Complete => r.pid # 0
      /\ Current(s, slot[s]) => Current(s, r)
  BY DEF Inv, SlotTypeOK, SlotState, GreyIsTracked, Current, Active
<1>3. slot' = [slot EXCEPT ![s] = r] /\ UNCHANGED <<dock, procVars>>
  BY DEF SetVisibility
<1> HIDE DEF r
<1> QED BY <1>1, <1>2, <1>3, SlotKeepsPid

LEMMA SetIconKeepsInv ==
  ASSUME Inv, NEW s \in Slots, NEW i \in Icons, SetIcon(s, i)
  PROVE  Inv'
<1>0. slot[s] \in SlotState
  BY DEF Inv, SlotTypeOK
<1>1. CASE i \in Loadable
  <2> DEFINE r == [slot[s] EXCEPT !.icon = i, !.image = Blank, !.invalid = TRUE]
  <2>1. Blank \in Image
    BY DEF Blank, Image, Complete
  <2>2. /\ r \in SlotState
        /\ r.pid = slot[s].pid
        /\ r.fading < Complete => r.pid # 0
    BY <1>0, <2>1 DEF SlotState, Inv, GreyIsTracked
  <2>3. Redraw(s, r) /\ UNCHANGED <<dock, procVars, slit, winVars>>
    BY <1>1 DEF SetIcon
  <2> HIDE DEF r
  <2> QED BY <2>2, <2>3, RedrawKeepsInv
<1>2. CASE i \notin Loadable
  <2> DEFINE r == [slot[s] EXCEPT !.icon = i]
  <2>1. r \in SlotState /\ (r.fading < Complete => r.pid # 0)
    BY <1>0 DEF SlotState, Inv, GreyIsTracked
  <2>2. slot' = [slot EXCEPT ![s] = r] /\ dock' = "failed" /\ UNCHANGED procVars
    BY <1>2 DEF SetIcon
  <2>3. OutsideTyped
    BY DEF SetIcon, winVars, OutsideTyped, Inv, SlotTypeOK
  <2> HIDE DEF r
  <2> QED BY <2>1, <2>2, <2>3, DockFails
<1> QED BY <1>1, <1>2

(* A new child: its id was free, so that no slot held it, and an exclusive *)
(* slot, which only forks when it is not active, had no other child.       *)
LEMMA ForkKeepsInv ==
  ASSUME Inv, dock = "running", NEW s \in Slots, ~Active(s, slot[s]), Fork(s)
  PROVE  Inv'
<1> PICK p \in Pids :
      /\ proc[p] = "free"
      /\ proc' = [proc EXCEPT ![p] = "running"]
      /\ owner' = [owner EXCEPT ![p] = s]
      /\ Redraw(s, [slot[s] EXCEPT !.pid = p, !.fading = FadeStart[s]])
      /\ UNCHANGED <<dock, sigterm, slit, winVars>>
  BY DEF Fork
<1> DEFINE r == [slot[s] EXCEPT !.pid = p, !.fading = FadeStart[s]]
           d == Drawn(s, r, TRUE)
<1>1. FadeStart[s] \in 0..Complete /\ p # 0 /\ s # 0 /\ s \in 0..N
  BY SlotAssumption DEF Slots, Complete
<1>2. r \in SlotState /\ r.pid = p
  BY <1>1 DEF Inv, SlotTypeOK, SlotState
<1>3. d \in SlotState /\ d.pid = p /\ Current(s, d)
  BY <1>2, DrawnKeeps, DrawnCurrent
<1>4. slot' = [slot EXCEPT ![s] = d]
  BY DEF Redraw
<1> HIDE DEF r, d
<1>5. /\ \A t \in Slots : slot'[t] = IF t = s THEN d ELSE slot[t]
      /\ \A q \in Pids : proc'[q] = IF q = p THEN "running" ELSE proc[q]
      /\ \A q \in Pids : owner'[q] = IF q = p THEN s ELSE owner[q]
  BY <1>4 DEF Inv, SlotTypeOK
<1>6. SlotTypeOK'
  BY <1>1, <1>3, <1>4 DEF Inv, SlotTypeOK, winVars, ProcState
<1>7. FreeIsOwnerless' /\ NeverStopped' /\ NoStrayKill'
  BY <1>1, <1>5 DEF Inv, FreeIsOwnerless, NeverStopped, NoStrayKill
<1>8. PidTracksChild'
  <2> SUFFICES ASSUME NEW t \in Slots, slot'[t].pid # 0
               PROVE  /\ slot'[t].pid \in Pids
                      /\ owner'[slot'[t].pid] = t
                      /\ proc'[slot'[t].pid] # "free"
    BY DEF PidTracksChild
  <2>1. CASE t = s
    BY <2>1, <1>3, <1>5
  <2>2. CASE t # s
    BY <2>2, <1>5 DEF Inv, PidTracksChild
  <2> QED BY <2>1, <2>2
<1>9. GreyIsTracked'
  BY <1>1, <1>3, <1>5 DEF Inv, GreyIsTracked
<1>10. PictureCurrent'
  <2> SUFFICES ASSUME NEW t \in Slots PROVE Current(t, slot'[t])
    BY DEF PictureCurrent, Current, Active
  <2> QED BY <1>3, <1>5 DEF Inv, PictureCurrent, Current
<1>11. ExclusiveTracked'
  <2> SUFFICES ASSUME ~MayStop, NEW q \in Pids, owner'[q] \in Exclusive
               PROVE  slot'[owner'[q]].pid = q
    BY DEF ExclusiveTracked
  <2>1. CASE q = p
    BY <2>1, <1>3, <1>5
  <2>2. CASE q # p
    <3>1. owner'[q] = owner[q] /\ slot[owner[q]].pid = q
      BY <2>2, <1>5 DEF Inv, ExclusiveTracked
    <3>2. q # 0
      BY SlotAssumption
    <3>3. owner[q] # s
      BY <3>1, <3>2 DEF Active
    <3> QED BY <3>1, <3>3, <1>5, SlotAssumption
  <2> QED BY <2>1, <2>2
<1>12. ~MayStop => OneInstance'
  <2> SUFFICES ASSUME ~MayStop, NEW e \in Exclusive,
                      NEW x \in Instances(e)', NEW y \in Instances(e)'
               PROVE  x = y
    BY DEF OneInstance
  <2>1. slot'[e].pid = x /\ slot'[e].pid = y
    BY <1>11 DEF Instances, ExclusiveTracked
  <2> QED BY <2>1
<1> QED BY <1>6, <1>7, <1>8, <1>9, <1>10, <1>11, <1>12 DEF Inv

LEMMA ExecKeepsInv ==
  ASSUME Inv, dock = "running", NEW s \in Slots, Exec(s)
  PROVE  Inv'
<1>1. CASE RaiseWindow(s)
  <2>1. OutsideTyped
    BY <1>1 DEF RaiseWindow, OutsideTyped, Inv, SlotTypeOK, WinState, Slots
  <2> QED BY <1>1, <2>1, ObjectsUnchanged DEF RaiseWindow
<1>2. CASE NoEffect
  BY <1>2, NoEffectKeepsInv
<1>3. CASE ~Active(s, slot[s]) /\ Fork(s)
  BY <1>3, ForkKeepsInv
<1>4. CASE ForkFails(s)
  <2> DEFINE r == [slot[s] EXCEPT !.pid = -1]
  <2>1. r \in SlotState /\ (r.fading < Complete => r.pid # 0)
    BY DEF Inv, SlotTypeOK, SlotState
  <2>2. slot' = [slot EXCEPT ![s] = r] /\ dock' = "failed" /\ UNCHANGED procVars
    BY <1>4, SMT DEF ForkFails, Inv, SlotTypeOK, SlotState
  <2>3. OutsideTyped
    BY <1>4 DEF ForkFails, winVars, OutsideTyped, Inv, SlotTypeOK
  <2> HIDE DEF r
  <2> QED BY <2>1, <2>2, <2>3, DockFails
<1> QED BY <1>1, <1>2, <1>3, <1>4 DEF Exec

LEMMA IconifyKeepsInv ==
  ASSUME Inv, NEW s \in Slots, IconifyApplication(s)
  PROVE  Inv'
<1>1. CASE NoEffect
  BY <1>1, NoEffectKeepsInv
<1>2. CASE Active(s, slot[s]) /\ win[s] # "none"
  <2>1. /\ win' = [win EXCEPT ![s] = IF @ = "normal" THEN "iconified" ELSE @]
        /\ focus' = IF focus = s THEN 0 ELSE focus
        /\ UNCHANGED <<dock, slot, procVars, slit>>
    BY <1>2 DEF IconifyApplication
  <2>2. win' \in [Slots -> WinState]
    BY <2>1 DEF Inv, SlotTypeOK, WinState
  <2>3. OutsideTyped
    BY <2>1, <2>2, SlotAssumption DEF OutsideTyped, Inv, SlotTypeOK
  <2> QED BY <2>1, <2>3, ObjectsUnchanged
<1> QED BY <1>1, <1>2 DEF IconifyApplication

LEMMA CloseKeepsInv ==
  ASSUME Inv, dock = "running", NEW s \in Slots, CloseApplication(s)
  PROVE  Inv'
<1>1. CASE NoEffect
  BY <1>1, NoEffectKeepsInv
<1>2. CASE win' = [win EXCEPT ![s] = "closing"] /\
           UNCHANGED <<dock, slot, procVars, slit, focus>>
  <2>1. OutsideTyped
    BY <1>2 DEF OutsideTyped, Inv, SlotTypeOK, WinState
  <2> QED BY <1>2, <2>1, ObjectsUnchanged
<1>3. CASE /\ Active(s, slot[s])
           /\ sigterm' = sigterm \cup {slot[s].pid}
           /\ UNCHANGED <<dock, slot, proc, owner, slit, winVars>>
  <2>1. slot[s].pid \in Pids /\ owner[slot[s].pid] = s /\ s # 0
    BY <1>3 DEF Active, Inv, PidTracksChild, Slots
  <2>2. SlotTypeOK'
    BY <1>3, <2>1 DEF Inv, SlotTypeOK, winVars
  <2>3. NoStrayKill'
    BY <1>3, <2>1 DEF Inv, NoStrayKill
  <2>4. FreeIsOwnerless' /\ NeverStopped' /\ PidTracksChild' /\ GreyIsTracked'
    BY <1>3 DEF Inv, FreeIsOwnerless, NeverStopped, PidTracksChild, GreyIsTracked
  <2>5. PictureCurrent' /\ ExclusiveTracked'
    BY <1>3 DEF Inv, PictureCurrent, Active, ExclusiveTracked
  <2>6. ~MayStop => OneInstance'
    BY <1>3 DEF Inv, OneInstance, Instances
  <2> QED BY <2>2, <2>3, <2>4, <2>5, <2>6 DEF Inv
<1> QED BY <1>1, <1>2, <1>3 DEF CloseApplication

LEMMA ClickActionKeepsInv ==
  ASSUME Inv, dock = "running", NEW s \in Slots, NEW a \in ClickActions,
         PerformClickAction(s, a)
  PROVE  Inv'
BY NoEffectKeepsInv, IconifyKeepsInv, CloseKeepsInv
   DEF PerformClickAction, ClickActions, LowerApplication

(* tick(): a child that waitpid reports as terminated is released together *)
(* with the slot's pid, a stopped one only loses its slot.                 *)
LEMMA TickKeepsInv ==
  ASSUME Inv, dock = "running", NEW s \in Slots, Tick(s)
  PROVE  Inv'
<1> DEFINE p == slot[s].pid
<1>0. slot[s] \in SlotState /\ UNCHANGED <<dock, slit, winVars>>
  BY DEF Tick, Inv, SlotTypeOK
<1>1. CASE UNCHANGED <<slot, procVars>>
  <2>1. OutsideTyped
    BY <1>0 DEF winVars, OutsideTyped, Inv, SlotTypeOK
  <2> QED BY <1>0, <1>1, <2>1, ObjectsUnchanged
<1>2. CASE /\ p # 0
           /\ slot[s].fading < Complete
           /\ Redraw(s, [slot[s] EXCEPT !.fading = FadeStep(@)])
           /\ UNCHANGED procVars
  <2> DEFINE r == [slot[s] EXCEPT !.fading = FadeStep(@)]
  <2>1. r \in SlotState /\ r.pid = p
    BY <1>0, FadeStepTyped DEF SlotState
  <2>2. Redraw(s, r) /\ p # 0
    BY <1>2
  <2> HIDE DEF r
  <2> QED BY <1>0, <1>2, <2>1, <2>2, RedrawKeepsInv
<1>3. CASE /\ p # 0
           /\ Waited(p)
           /\ Release(p)
           /\ Redraw(s, [slot[s] EXCEPT !.pid = 0, !.fading = Complete])
  <2> DEFINE r == [slot[s] EXCEPT !.pid = 0, !.fading = Complete]
             d == Drawn(s, r, TRUE)
  <2>0. Complete \in 0..Complete
    BY DEF Complete
  <2>1. r \in SlotState /\ r.pid = 0 /\ r.fading = Complete
    BY <1>0, <2>0 DEF SlotState
  <2>2. /\ d \in SlotState /\ d.pid = 0 /\ d.fading = Complete
        /\ Current(s, d)
    BY <2>1, DrawnKeeps, DrawnCurrent
  <2>3. slot' = [slot EXCEPT ![s] = d]
    BY <1>3 DEF Redraw
  <2> HIDE DEF r, d
  <2>4. \A t \in Slots : slot'[t] = IF t = s THEN d ELSE slot[t]
    BY <2>3 DEF Inv, SlotTypeOK
  <2>5. p \in Pids /\ owner[p] = s
    BY <1>3 DEF Inv, PidTracksChild
  <2>6. /\ \A q \in Pids \ {p} : proc'[q] = proc[q] /\ owner'[q] = owner[q]
        /\ sigterm' \subseteq sigterm
        /\ \/ proc'[p] = "free" /\ owner'[p] = 0 /\ p \notin sigterm'
           \/ /\ proc'[p] = "stopped" /\ proc[p] = "stopped"
              /\ owner'[p] = s
    BY <1>3, <2>5 DEF Release, Waited, procVars, Inv, SlotTypeOK
  <2>7. SlotTypeOK'
    <3>1. slot' \in [Slots -> SlotState]
      BY <2>2, <2>3 DEF Inv, SlotTypeOK
    <3>2. proc' \in [Pids -> ProcState] /\ owner' \in [Pids -> 0..N]
      BY <1>3, SlotAssumption DEF Inv, SlotTypeOK, Release, procVars, ProcState
    <3> QED BY <1>0, <2>6, <3>1, <3>2 DEF Inv, SlotTypeOK, winVars
  <2>8. FreeIsOwnerless' /\ NeverStopped' /\ NoStrayKill'
    BY <2>5, <2>6 DEF Inv, FreeIsOwnerless, NeverStopped, NoStrayKill
  <2>9. PidTracksChild'
    <3> SUFFICES ASSUME NEW t \in Slots, slot'[t].pid # 0
                 PROVE  /\ slot'[t].pid \in Pids
                        /\ owner'[slot'[t].pid] = t
                        /\ proc'[slot'[t].pid] # "free"
      BY DEF PidTracksChild
    <3>1. t # s /\ slot'[t] = slot[t]
      BY <2>2, <2>4
    <3>2. slot[t].pid \in Pids /\ owner[slot[t].pid] = t
          /\ proc[slot[t].pid] # "free"
      BY <3>1 DEF Inv, PidTracksChild
    <3>3. slot[t].pid # p
      BY <2>5, <3>1, <3>2
    <3> QED BY <2>6, <3>1, <3>2, <3>3
  <2>10. GreyIsTracked'
    BY <2>2, <2>4 DEF Inv, GreyIsTracked, Complete
  <2>11. PictureCurrent'
    <3> SUFFICES ASSUME NEW t \in Slots PROVE Current(t, slot'[t])
      BY DEF PictureCurrent, Current, Active
    <3> QED BY <2>2, <2>4 DEF Inv, PictureCurrent, Current
  <2>12. ExclusiveTracked'
    <3> SUFFICES ASSUME ~MayStop, NEW q \in Pids, owner'[q] \in Exclusive
                 PROVE  slot'[owner'[q]].pid = q
      BY DEF ExclusiveTracked
    <3>1. 0 \notin Exclusive
      BY SlotAssumption DEF Slots
    <3>2. q # p
      BY <2>5, <2>6, <3>1 DEF Inv, NeverStopped
    <3>3. owner'[q] = owner[q] /\ slot[owner[q]].pid = q
      BY <2>6, <3>2 DEF Inv, ExclusiveTracked
    <3> QED BY <2>4, <3>2, <3>3, SlotAssumption
  <2>13. ~MayStop => OneInstance'
    <3> SUFFICES ASSUME ~MayStop, NEW e \in Exclusive,
                        NEW x \in Instances(e)', NEW y \in Instances(e)'
                 PROVE  x = y
      BY DEF OneInstance
    <3>1. slot'[e].pid = x /\ slot'[e].pid = y
      BY <1>0, <2>12 DEF Instances, ExclusiveTracked
    <3> QED BY <3>1
  <2> QED BY <2>7, <2>8, <2>9, <2>10, <2>11, <2>12, <2>13 DEF Inv
<1> QED BY <1>1, <1>2, <1>3 DEF Tick, Launchable

-----------------------------------------------------------------------------
(* The steps of Dock                                                       *)

LEMMA HandleEventKeepsInv ==
  ASSUME Inv, HandleEvent
  PROVE  Inv'
<1>1. ASSUME NEW s \in Slots, NEW m \in BOOLEAN, LeftClick(s, m)
      PROVE  Inv'
  <2>1. dock = "running" /\ LeftAction \in ClickActions
    BY <1>1, DockAssumption DEF LeftClick, Dispatch
  <2> QED
    BY <1>1, <2>1, ExecKeepsInv, CloseKeepsInv, ClickActionKeepsInv
       DEF LeftClick
<1>2. ASSUME NEW s \in Slots, NEW m \in BOOLEAN, MiddleClick(s, m)
      PROVE  Inv'
  BY <1>2, NoEffectKeepsInv DEF MiddleClick
<1>3. ASSUME NEW s \in Slots, NEW m \in BOOLEAN, RightClick(s, m)
      PROVE  Inv'
  BY <1>3, ClickActionKeepsInv, DockAssumption DEF RightClick, Dispatch
<1>4. ASSUME NEW s \in Slots, SelectionNotify(s)
      PROVE  Inv'
  BY <1>4, ExecKeepsInv, NoEffectKeepsInv DEF SelectionNotify, Dispatch
<1>5. ASSUME NEW s \in Slots, Expose(s)
      PROVE  Inv'
  BY <1>5, DrawKeepsInv DEF Expose
<1>6. ASSUME NEW s \in Slots, ConfigureNotify(s)
      PROVE  Inv'
  BY <1>6, ReconfigureKeepsInv DEF ConfigureNotify
<1>7. ASSUME NEW s \in Slots, NEW v \in {"unobscured", "obscured"},
             VisibilityNotify(s, v)
      PROVE  Inv'
  BY <1>7, SetVisibilityKeepsInv DEF VisibilityNotify
<1>8. ASSUME NEW c \in Commands, ExecuteIcon(c)
      PROVE  Inv'
  BY <1>8, ExecKeepsInv DEF ExecuteIcon, Dispatch
<1>9. ASSUME NEW c \in Commands, NEW i \in Icons, ChangeIcon(c, i)
      PROVE  Inv'
  BY <1>9, NoEffectKeepsInv, SetIconKeepsInv DEF ChangeIcon
<1> QED
  BY <1>1, <1>2, <1>3, <1>4, <1>5, <1>6, <1>7, <1>8, <1>9 DEF HandleEvent

LEMMA EnvironmentKeepsInv ==
  ASSUME Inv, Environment
  PROVE  Inv'
<1>0. Exclusive \subseteq Slots
  BY SlotAssumption
<1>1. ASSUME NEW e \in Inputs, Arrive(e)
      PROVE  Inv'
  BY <1>1, NoEffectKeepsInv DEF Arrive
<1>2. ASSUME NEW p \in Pids,
             \/ ChildExits(p) \/ ChildStops(p) \/ ChildContinues(p)
             \/ ForeignStarts(p) \/ ForeignExits(p)
      PROVE  Inv'
  <2>1. CASE ChildExits(p)
    BY <2>1, ProcessChanges DEF ChildExits, ProcState
  <2>2. CASE ChildStops(p)
    BY <2>2, ProcessChanges DEF ChildStops, ProcState
  <2>3. CASE ChildContinues(p)
    BY <2>3, ProcessChanges DEF ChildContinues, ProcState
  <2>4. CASE ForeignStarts(p)
    <3>1. owner[p] = 0
      BY <2>4 DEF ForeignStarts, Inv, FreeIsOwnerless
    <3> QED BY <2>4, <3>1, ProcessChanges DEF ForeignStarts, ProcState
  <2>5. CASE ForeignExits(p)
    BY <2>5, ProcessChanges DEF ForeignExits, ProcState
  <2> QED BY <1>2, <2>1, <2>2, <2>3, <2>4, <2>5
<1>3. ASSUME NEW s \in Slots, NEW st \in WinState, NEW f \in 0..N,
             SetWindow(s, st, f)
      PROVE  Inv'
  <2>1. OutsideTyped
    BY <1>3 DEF SetWindow, OutsideTyped, Inv, SlotTypeOK
  <2> QED BY <1>3, <2>1, ObjectsUnchanged DEF SetWindow
<1>4. ASSUME NEW s \in Exclusive,
             \/ WindowOpens(s) \/ WindowCloses(s) \/ CloseCancelled(s)
             \/ FocusEnters(s) \/ FocusLeaves(s)
      PROVE  Inv'
  <2>1. /\ s \in Slots /\ s \in 0..N /\ focus \in 0..N /\ 0 \in 0..N
        /\ {"none", "normal", win[s]} \subseteq WinState
    BY <1>0, SlotAssumption DEF Slots, WinState, Inv, SlotTypeOK
  <2>2. \E st \in WinState, f \in 0..N : SetWindow(s, st, f)
    BY <1>4, <2>1
       DEF WindowOpens, WindowCloses, CloseCancelled, FocusEnters, FocusLeaves
  <2> QED BY <1>3, <2>1, <2>2
<1>5. CASE SlitMoves
  <2>1. OutsideTyped
    BY <1>5 DEF SlitMoves, winVars, OutsideTyped, Inv, SlotTypeOK
  <2> QED BY <1>5, <2>1, ObjectsUnchanged DEF SlitMoves
<1> QED BY <1>1, <1>2, <1>4, <1>5 DEF Environment

-----------------------------------------------------------------------------
(* The variables of the loop.                                              *)

LoopTypeOK ==
  /\ event \in Events \cup {NoEvent}
  /\ cursor \in 0..N
  /\ selection \subseteq Slots

(* Only a SelectionNotify refers to a selection.                           *)
LEMMA LoopTypes == LoopTypeOK /\ [Next]_vars => LoopTypeOK'
<1> SUFFICES ASSUME LoopTypeOK, [Next]_vars PROVE LoopTypeOK'
  OBVIOUS
<1>1. ASSUME NEW e, Dispatch(e), selection' \subseteq Slots
      PROVE  LoopTypeOK'
  BY <1>1 DEF Dispatch, LoopTypeOK
<1>2. CASE HandleEvent
  <2>1. ASSUME NEW s \in Slots, NEW m \in BOOLEAN,
               LeftClick(s, m) \/ MiddleClick(s, m) \/ RightClick(s, m)
        PROVE  LoopTypeOK'
    BY <1>1, <2>1 DEF LeftClick, MiddleClick, RightClick, LoopTypeOK
  <2>2. ASSUME NEW s \in Slots,
               SelectionNotify(s) \/ Expose(s) \/ ConfigureNotify(s)
        PROVE  LoopTypeOK'
    BY <1>1, <2>2 DEF SelectionNotify, Expose, ConfigureNotify, LoopTypeOK
  <2>3. ASSUME NEW s \in Slots, NEW v \in {"unobscured", "obscured"},
               VisibilityNotify(s, v)
        PROVE  LoopTypeOK'
    BY <1>1, <2>3 DEF VisibilityNotify, LoopTypeOK
  <2>4. ASSUME NEW c \in Commands, ExecuteIcon(c)
        PROVE  LoopTypeOK'
    BY <1>1, <2>4 DEF ExecuteIcon, LoopTypeOK
  <2>5. ASSUME NEW c \in Commands, NEW i \in Icons, ChangeIcon(c, i)
        PROVE  LoopTypeOK'
    BY <1>1, <2>5 DEF ChangeIcon, LoopTypeOK
  <2> QED BY <1>2, <2>1, <2>2, <2>3, <2>4, <2>5 DEF HandleEvent
<1>3. CASE StartTicking \/ TickNext
  BY <1>3, SlotAssumption DEF StartTicking, TickNext, LoopTypeOK
<1>4. ASSUME NEW e \in Inputs, Arrive(e)
      PROVE  LoopTypeOK'
  BY <1>4, DockAssumption DEF Arrive, LoopTypeOK
<1>5. CASE UNCHANGED loopVars
  BY <1>5 DEF loopVars, LoopTypeOK
<1>6. CASE Environment
  <2>1. ASSUME NEW p \in Pids,
               \/ ChildExits(p) \/ ChildStops(p) \/ ChildContinues(p)
               \/ ForeignStarts(p) \/ ForeignExits(p)
        PROVE  UNCHANGED loopVars
    BY <2>1 DEF ChildExits, ChildStops, ChildContinues, ForeignStarts,
                ForeignExits, SetProc
  <2>2. ASSUME NEW s \in Exclusive,
               \/ WindowOpens(s) \/ WindowCloses(s) \/ CloseCancelled(s)
               \/ FocusEnters(s) \/ FocusLeaves(s)
        PROVE  UNCHANGED loopVars
    BY <2>2 DEF WindowOpens, WindowCloses, CloseCancelled, FocusEnters,
                FocusLeaves, SetWindow
  <2>3. CASE SlitMoves
    BY <2>3, <1>5 DEF SlitMoves
  <2> QED BY <1>4, <1>5, <1>6, <2>1, <2>2, <2>3 DEF Environment
<1> QED BY <1>2, <1>3, <1>5, <1>6 DEF Next, Terminated, vars

-----------------------------------------------------------------------------
(* The invariant holds                                                     *)

LEMMA InitInv == Init => Inv
<1> SUFFICES ASSUME Init PROVE Inv
  OBVIOUS
<1>1. \A s \in Slots : InitSlot(s) \in SlotState
  <2> TAKE s \in Slots
  <2>1. Blank \in Image
    BY DEF Blank, Image, Complete
  <2>2. FirstIcon[s] \in Icons /\ Complete \in 0..Complete
    BY SlotAssumption DEF Complete
  <2> QED BY <2>1, <2>2 DEF InitSlot, SlotState
<1>2. SlotTypeOK
  BY <1>1, SlotAssumption DEF Init, SlotTypeOK, ProcState, WinState
<1>3. \A s \in Slots : /\ slot[s].pid = 0
                       /\ slot[s].fading = Complete
                       /\ slot[s].image.shade = -1
  BY DEF Init, InitSlot, Blank
<1>4. GreyIsTracked /\ PictureCurrent
  BY <1>3 DEF GreyIsTracked, PictureCurrent, Complete
<1>5. NoStrayKill /\ PidTracksChild /\ FreeIsOwnerless /\ NeverStopped
  BY <1>3 DEF Init, NoStrayKill, PidTracksChild, FreeIsOwnerless, NeverStopped
<1>6. ExclusiveTracked /\ OneInstance
  BY SlotAssumption DEF Init, ExclusiveTracked, OneInstance, Instances, Slots
<1> QED BY <1>2, <1>4, <1>5, <1>6 DEF Inv

LEMMA NextKeepsInv == Inv /\ LoopTypeOK /\ [Next]_vars => Inv'
<1> SUFFICES ASSUME Inv, LoopTypeOK, [Next]_vars PROVE Inv'
  OBVIOUS
<1>1. CASE HandleEvent
  BY <1>1, HandleEventKeepsInv
<1>2. CASE StartTicking
  BY <1>2, NoEffectKeepsInv DEF StartTicking
<1>3. CASE TickNext
  <2>1. cursor \in Slots
    BY <1>3, SlotAssumption DEF TickNext, LoopTypeOK, Slots
  <2> QED BY <1>3, <2>1, TickKeepsInv DEF TickNext
<1>4. CASE Environment
  BY <1>4, EnvironmentKeepsInv
<1>5. CASE UNCHANGED vars
  <2>1. NoEffect
    BY <1>5 DEF vars, NoEffect, procVars, winVars
  <2> QED BY <2>1, NoEffectKeepsInv
<1> QED BY <1>1, <1>2, <1>3, <1>4, <1>5 DEF Next, Terminated

(* Everything below is a conjunct of this invariant.                       *)
THEOREM Invariance == Spec => [](Inv /\ LoopTypeOK)
<1>1. Init => LoopTypeOK
  BY SlotAssumption DEF Init, LoopTypeOK
<1> QED BY <1>1, InitInv, NextKeepsInv, LoopTypes, PTL DEF Spec

(* The dock's kill() only reaches children it has not waited for, and      *)
(* never a process group.                                                  *)
THEOREM NeverStrayKill == Spec => []NoStrayKill
<1>1. Inv => NoStrayKill
  BY DEF Inv
<1> QED BY <1>1, Invariance, PTL

(* A slot's pid is that of its own, unreleased child.                      *)
THEOREM PidsTrackChildren == Spec => []PidTracksChild
<1>1. Inv => PidTracksChild
  BY DEF Inv
<1> QED BY <1>1, Invariance, PTL

(* No icon is grey without a process that tick() waits for.                *)
THEOREM GreyIconsAreTracked == Spec => []GreyIsTracked
<1>1. Inv => GreyIsTracked
  BY DEF Inv
<1> QED BY <1>1, Invariance, PTL

(* The pictures on a clean background are up to date after every step.     *)
THEOREM PicturesAreCurrent == Spec => []PictureCurrent
<1>1. Inv => PictureCurrent
  BY DEF Inv
<1> QED BY <1>1, Invariance, PTL

(* As long as no child is ever stopped by a signal, an exclusive icon has  *)
(* at most one living instance.                                            *)
THEOREM ExclusiveMeansOne == ~MayStop => (Spec => []OneInstance)
<1> SUFFICES ASSUME ~MayStop PROVE Spec => []OneInstance
  OBVIOUS
<1>1. Inv => OneInstance
  BY DEF Inv
<1> QED BY <1>1, Invariance, PTL

(* Every variable stays in its type, whatever the settings.                *)
THEOREM TypeCorrect == Spec => []TypeOK
<1>1. Inv /\ LoopTypeOK => TypeOK
  BY DEF Inv, LoopTypeOK, TypeOK
<1> QED BY <1>1, Invariance, PTL

(* What takes a left click off the queue is its handler.                   *)
LEMMA ClickIsHandled ==
  ASSUME [Next]_vars, NEW s \in Slots, NEW m \in BOOLEAN,
         event = Click(s, 1, m), event' = NoEvent
  PROVE  LeftClick(s, m)
<1>1. event # NoEvent /\ event' # event /\ event.type = "ButtonRelease"
  BY DEF Click, NoEvent
<1>2. ~UNCHANGED vars /\ ~StartTicking /\ ~TickNext
  BY <1>1 DEF vars, loopVars, StartTicking, TickNext
<1>3. ~Environment
  BY <1>1 DEF Environment, Arrive, ChildExits, ChildStops, ChildContinues,
         ForeignStarts, ForeignExits, SetProc, WindowOpens, WindowCloses,
         CloseCancelled, FocusEnters, FocusLeaves, SetWindow, SlitMoves, loopVars
<1>4. HandleEvent
  BY <1>2, <1>3 DEF Next, Terminated
<1>5. \A t \in Slots : ~SelectionNotify(t) /\ ~Expose(t) /\ ~ConfigureNotify(t)
  BY <1>1 DEF SelectionNotify, Expose, ConfigureNotify, Dispatch, WindowEvent
<1>6. \A t \in Slots, v \in {"unobscured", "obscured"} : ~VisibilityNotify(t, v)
  BY <1>1 DEF VisibilityNotify, Dispatch, Visibility
<1>7. /\ \A c \in Commands : ~ExecuteIcon(c)
      /\ \A c \in Commands, i \in Icons : ~ChangeIcon(c, i)
  BY <1>1 DEF ExecuteIcon, ChangeIcon, Dispatch, ExecuteMessage, ChangeMessage
<1>8. \A t \in Slots, b \in BOOLEAN : ~MiddleClick(t, b) /\ ~RightClick(t, b)
  BY DEF MiddleClick, RightClick, Dispatch, Click
<1>9. PICK t \in Slots, b \in BOOLEAN : LeftClick(t, b)
  BY <1>4, <1>5, <1>6, <1>7, <1>8 DEF HandleEvent
<1>10. t = s /\ b = m
  BY <1>9 DEF LeftClick, Dispatch, Click
<1> QED BY <1>9, <1>10

(* With a mark that is not clicked on by itself and no action for clicks on*)
(* active icons, a left click on an icon that has no process always gets to*)
(* fork: such an icon is never grey, so exec() does not return before.     *)
THEOREM ClicksLaunch ==
  MarkType # "cross" /\ LeftAction = "nothing" => (Spec => ClickLaunches)
<1> SUFFICES ASSUME MarkType # "cross", LeftAction = "nothing"
             PROVE  Spec => ClickLaunches
  OBVIOUS
<1> DEFINE Launches ==
      \A s \in Slots, m \in BOOLEAN :
        /\ event = Click(s, 1, m) /\ event' = NoEvent
        /\ slot[s].pid = 0
        /\ Command[s] # NoCommand
        => slot'[s].pid # 0
<1>1. Inv /\ [Next]_vars => Launches
  <2> SUFFICES ASSUME Inv, [Next]_vars, NEW s \in Slots, NEW m \in BOOLEAN,
                      event = Click(s, 1, m), event' = NoEvent,
                      slot[s].pid = 0, Command[s] # NoCommand
               PROVE  slot'[s].pid # 0
    OBVIOUS
  <2>1. Exec(s)
    BY ClickIsHandled DEF LeftClick
  <2>2. ~Active(s, slot[s]) /\ ~(slot[s].fading < Complete)
    BY DEF Active, Inv, GreyIsTracked
  <2>3. Fork(s) \/ ForkFails(s)
    BY <2>1, <2>2, Zenon DEF Exec
  <2>4. CASE Fork(s)
    <3>1. PICK p \in Pids :
            Redraw(s, [slot[s] EXCEPT !.pid = p, !.fading = FadeStart[s]])
      BY <2>4 DEF Fork
    <3> DEFINE r == [slot[s] EXCEPT !.pid = p, !.fading = FadeStart[s]]
    <3>2. FadeStart[s] \in 0..Complete /\ p # 0
      BY SlotAssumption DEF Complete
    <3>3. r \in SlotState /\ r.pid = p
      BY <3>2 DEF Inv, SlotTypeOK, SlotState
    <3> HIDE DEF r
    <3>4. Drawn(s, r, TRUE).pid = p
      BY <3>3, DrawnKeeps
    <3>5. slot' = [slot EXCEPT ![s] = Drawn(s, r, TRUE)]
      BY <3>1, Zenon DEF r, Redraw
    <3>6. slot'[s] = Drawn(s, r, TRUE)
      BY <3>5 DEF Inv, SlotTypeOK
    <3> QED BY <3>2, <3>4, <3>6
  <2>5. CASE ForkFails(s)
    BY <2>5 DEF ForkFails, Inv, SlotTypeOK, SlotState
  <2> QED BY <2>3, <2>4, <2>5
<1> HIDE DEF Launches
<1>2. Spec => [][Launches]_vars
  BY <1>1, Invariance, PTL DEF Spec
<1> QED BY <1>2 DEF ClickLaunches, Launches

-----------------------------------------------------------------------------
(* The dock implements the launcher.                                       *)

SamePhase(t) == slot'[t].pid = slot[t].pid /\ slot'[t].fading = slot[t].fading

LEMMA Stutters ==
  ASSUME UNCHANGED dock, \A t \in Slots : SamePhase(t)
  PROVE  UNCHANGED L!vars
BY DEF SamePhase, L!vars, LauncherState, LauncherProgram

LEMMA Becomes ==
  ASSUME dock = "running", UNCHANGED dock, NEW s \in Slots,
         \A t \in Slots \ {s} : SamePhase(t),
         NEW new, LauncherState(s)' = new, NEW p, slot'[s].pid = p
  PROVE  L!Become(s, new, p)
BY DEF SamePhase, L!Become, LauncherState, LauncherProgram

LEMMA Fails ==
  ASSUME dock = "running", dock' = "failed"
  PROVE  L!Fail
BY DEF L!Fail, LauncherState, LauncherProgram

(* Redrawing a slot only changes the phase it is redrawn for.              *)
LEMMA RedrawPhase ==
  ASSUME Inv, NEW s \in Slots, NEW r \in SlotState, NEW b \in BOOLEAN,
         slot' = [slot EXCEPT ![s] = Drawn(s, r, b)]
  PROVE  /\ \A t \in Slots \ {s} : SamePhase(t)
         /\ slot'[s].pid = r.pid
         /\ slot'[s].fading = r.fading
<1> DEFINE d == Drawn(s, r, b)
<1>1. d.pid = r.pid /\ d.fading = r.fading /\ slot' = [slot EXCEPT ![s] = d]
  BY DrawnKeeps
<1> HIDE DEF d
<1> QED BY <1>1 DEF Inv, SlotTypeOK, SamePhase

LEMMA ExecImplements ==
  ASSUME Inv, dock = "running", NEW s \in Slots, Exec(s)
  PROVE  [L!Next]_(L!vars)
<1>1. CASE RaiseWindow(s) \/ NoEffect
  BY <1>1, Stutters DEF RaiseWindow, NoEffect, SamePhase
<1>2. CASE ForkFails(s)
  BY <1>2, Fails DEF ForkFails, L!Next
<1>3. CASE ~Active(s, slot[s]) /\ slot[s].fading = Complete /\ Fork(s)
  <2> PICK p \in Pids :
        /\ proc[p] = "free"
        /\ Redraw(s, [slot[s] EXCEPT !.pid = p, !.fading = FadeStart[s]])
        /\ UNCHANGED dock
    BY <1>3 DEF Fork
  <2> DEFINE r == [slot[s] EXCEPT !.pid = p, !.fading = FadeStart[s]]
  <2>1. /\ FadeStart[s] \in 0..Complete
        /\ FadeStart[s] < Complete /\ p # 0
    BY SlotAssumption DEF Complete
  <2>2. r \in SlotState /\ r.pid = p /\ r.fading = FadeStart[s]
    BY <2>1 DEF Inv, SlotTypeOK, SlotState
  <2>3. slot' = [slot EXCEPT ![s] = Drawn(s, r, TRUE)]
    BY DEF Redraw
  <2> HIDE DEF r
  <2>4. /\ \A t \in Slots \ {s} : SamePhase(t)
        /\ slot'[s].pid = p /\ slot'[s].fading = FadeStart[s]
    BY <2>2, <2>3, RedrawPhase
  <2>5. LauncherState(s)' = "starting"
    BY <2>1, <2>4 DEF LauncherState
  <2>6. \/ LauncherState(s) = "idle"
        \/ LauncherState(s) = "running" /\ s \notin Exclusive
    BY <1>3 DEF LauncherState, Active, Complete
  <2>7. \A t \in Slots : LauncherProgram(t) # p
    BY <2>1 DEF LauncherProgram, Inv, PidTracksChild
  <2>8. L!Become(s, "starting", p)
    BY <2>4, <2>5, Becomes
  <2>9. L!Launch(s)
    BY <2>5, <2>6, <2>7, <2>8 DEF L!Launch
  <2> QED BY <2>9 DEF L!Next
<1> QED BY <1>1, <1>2, <1>3 DEF Exec

LEMMA TickImplements ==
  ASSUME Inv, dock = "running", NEW s \in Slots, Tick(s)
  PROVE  [L!Next]_(L!vars)
<1>0. slot[s] \in SlotState /\ UNCHANGED dock
  BY DEF Tick, Inv, SlotTypeOK
<1>1. CASE UNCHANGED slot
  BY <1>0, <1>1, Stutters DEF SamePhase
<1>2. CASE /\ slot[s].pid # 0
           /\ slot[s].fading < Complete
           /\ Redraw(s, [slot[s] EXCEPT !.fading = FadeStep(@)])
  <2> DEFINE r == [slot[s] EXCEPT !.fading = FadeStep(@)]
  <2>1. r \in SlotState /\ r.pid = slot[s].pid
    BY <1>0, FadeStepTyped DEF SlotState
  <2>2. slot' = [slot EXCEPT ![s] = Drawn(s, r, TRUE)]
    BY <1>2 DEF Redraw
  <2> HIDE DEF r
  <2>3. (\A t \in Slots \ {s} : SamePhase(t)) /\ slot'[s].pid = slot[s].pid
    BY <2>1, <2>2, RedrawPhase
  <2>4. PICK p : p = slot[s].pid
    OBVIOUS
  <2>5. LauncherState(s) = "starting"
    BY <1>2 DEF LauncherState
  <2>6. LauncherState(s)' \in {"starting", "running"}
    BY <1>0, <1>2, <2>3 DEF LauncherState
  <2>7. CASE LauncherState(s)' = "running"
    <3>1. L!Become(s, "running", p)
      BY <1>0, <2>3, <2>4, <2>7, Becomes
    <3>2. L!WakeUp(s)
      BY <2>4, <2>5, <3>1 DEF L!WakeUp, L!Become, LauncherProgram
    <3> QED BY <3>2 DEF L!Next
  <2>8. CASE LauncherState(s)' = "starting"
    BY <1>0, <2>3, <2>5, <2>8 DEF L!vars, SamePhase, LauncherState, LauncherProgram
  <2> QED BY <2>6, <2>7, <2>8
<1>3. CASE /\ slot[s].pid # 0
           /\ Redraw(s, [slot[s] EXCEPT !.pid = 0, !.fading = Complete])
  <2> DEFINE r == [slot[s] EXCEPT !.pid = 0, !.fading = Complete]
  <2>0. Complete \in 0..Complete
    BY DEF Complete
  <2>1. r \in SlotState /\ r.pid = 0
    BY <1>0, <2>0 DEF SlotState
  <2>2. slot' = [slot EXCEPT ![s] = Drawn(s, r, TRUE)]
    BY <1>3 DEF Redraw
  <2> HIDE DEF r
  <2>3. (\A t \in Slots \ {s} : SamePhase(t)) /\ slot'[s].pid = 0
    BY <2>1, <2>2, RedrawPhase
  <2>4. LauncherState(s)' = "idle" /\ LauncherState(s) # "idle"
    BY <1>3, <2>3 DEF LauncherState
  <2>5. L!Become(s, "idle", 0)
    BY <1>0, <2>3, <2>4, Becomes
  <2> QED BY <2>4, <2>5 DEF L!End, L!Next
<1> QED BY <1>1, <1>2, <1>3 DEF Tick, Launchable

LEMMA SetIconImplements ==
  ASSUME Inv, dock = "running", NEW s \in Slots, NEW i \in Icons, SetIcon(s, i)
  PROVE  [L!Next]_(L!vars)
<1>1. CASE i \notin Loadable
  BY <1>1, Fails DEF SetIcon, L!Next
<1>2. CASE i \in Loadable
  <2> DEFINE r == [slot[s] EXCEPT !.icon = i, !.image = Blank, !.invalid = TRUE]
  <2>1. Blank \in Image /\ slot[s] \in SlotState
    BY DEF Blank, Image, Complete, Inv, SlotTypeOK
  <2>2. r \in SlotState /\ r.pid = slot[s].pid /\ r.fading = slot[s].fading
    BY <2>1 DEF SlotState
  <2>3. slot' = [slot EXCEPT ![s] = Drawn(s, r, TRUE)] /\ UNCHANGED dock
    BY <1>2 DEF SetIcon, Redraw
  <2> HIDE DEF r
  <2>4. \A t \in Slots : SamePhase(t)
    BY <2>2, <2>3, RedrawPhase DEF SamePhase
  <2> QED BY <2>3, <2>4, Stutters
<1> QED BY <1>1, <1>2

(* The handlers that neither launch nor fail leave the phases alone.       *)
LEMMA PictureStutters ==
  ASSUME Inv, NEW s \in Slots,
         \/ Draw(s) \/ Reconfigure(s)
         \/ \E v \in {"unobscured", "obscured"} : SetVisibility(s, v)
  PROVE  UNCHANGED L!vars
<1>0. slot[s] \in SlotState
  BY DEF Inv, SlotTypeOK
<1>1. CASE Draw(s)
  <2>1. \A t \in Slots : SamePhase(t)
    BY <1>0, <1>1, RedrawPhase DEF Draw, SamePhase
  <2> QED BY <1>1, <2>1, Stutters DEF Draw
<1>2. CASE Reconfigure(s)
  <2> DEFINE r == [slot[s] EXCEPT !.invalid = TRUE]
  <2>1. r \in SlotState /\ r.pid = slot[s].pid /\ r.fading = slot[s].fading
    BY <1>0 DEF SlotState
  <2>2. slot' = [slot EXCEPT ![s] = Drawn(s, r, TRUE)] /\ UNCHANGED dock
    BY <1>2 DEF Reconfigure, Redraw
  <2> HIDE DEF r
  <2>3. \A t \in Slots : SamePhase(t)
    BY <2>1, <2>2, RedrawPhase DEF SamePhase
  <2> QED BY <2>2, <2>3, Stutters
<1>3. CASE \E v \in {"unobscured", "obscured"} : SetVisibility(s, v)
  <2>1. \A t \in Slots : SamePhase(t)
    BY <1>0, <1>3 DEF SetVisibility, SamePhase, Inv, SlotTypeOK, SlotState
  <2> QED BY <1>3, <2>1, Stutters DEF SetVisibility
<1> QED BY <1>1, <1>2, <1>3

LEMMA ObjectsStutter ==
  ASSUME UNCHANGED <<dock, slot>>
  PROVE  UNCHANGED L!vars
BY Stutters DEF SamePhase

LEMMA ClickActionStutters ==
  ASSUME NEW s \in Slots, NEW a \in ClickActions, PerformClickAction(s, a)
  PROVE  UNCHANGED <<dock, slot>>
BY DEF PerformClickAction, ClickActions, NoEffect, IconifyApplication,
       LowerApplication, CloseApplication

LEMMA HandleEventImplements ==
  ASSUME Inv, HandleEvent
  PROVE  [L!Next]_(L!vars)
<1>1. ASSUME NEW s \in Slots, NEW m \in BOOLEAN, LeftClick(s, m)
      PROVE  [L!Next]_(L!vars)
  <2>1. CASE Exec(s)
    BY <1>1, <2>1, ExecImplements DEF LeftClick, Dispatch
  <2>2. CASE ~Exec(s)
    <3>1. UNCHANGED <<dock, slot>>
      BY <1>1, <2>2, ClickActionStutters, DockAssumption
         DEF LeftClick, CloseApplication, NoEffect
    <3> QED BY <3>1, ObjectsStutter
  <2> QED BY <2>1, <2>2
<1>2. ASSUME NEW s \in Slots, NEW m \in BOOLEAN,
             MiddleClick(s, m) \/ RightClick(s, m)
      PROVE  UNCHANGED <<dock, slot>>
  BY <1>2, ClickActionStutters, DockAssumption
     DEF MiddleClick, RightClick, NoEffect
<1>3. ASSUME NEW s \in Slots, SelectionNotify(s)
      PROVE  [L!Next]_(L!vars)
  <2>1. CASE Exec(s)
    BY <1>3, <2>1, ExecImplements DEF SelectionNotify, Dispatch
  <2>2. CASE NoEffect
    BY <2>2, ObjectsStutter DEF NoEffect
  <2> QED BY <1>3, <2>1, <2>2 DEF SelectionNotify
<1>4. ASSUME NEW s \in Slots, Expose(s) \/ ConfigureNotify(s)
      PROVE  UNCHANGED L!vars
  BY <1>4, PictureStutters DEF Expose, ConfigureNotify
<1>5. ASSUME NEW s \in Slots, NEW v \in {"unobscured", "obscured"},
             VisibilityNotify(s, v)
      PROVE  UNCHANGED L!vars
  BY <1>5, PictureStutters DEF VisibilityNotify
<1>6. ASSUME NEW c \in Commands, ExecuteIcon(c)
      PROVE  [L!Next]_(L!vars)
  BY <1>6, ExecImplements DEF ExecuteIcon, Dispatch
<1>7. ASSUME NEW c \in Commands, NEW i \in Icons, ChangeIcon(c, i)
      PROVE  [L!Next]_(L!vars)
  <2>1. CASE NoEffect
    BY <2>1, ObjectsStutter DEF NoEffect
  <2>2. CASE \E s \in Slots : SetIcon(s, i)
    BY <1>7, <2>2, SetIconImplements DEF ChangeIcon, Dispatch
  <2> QED BY <1>7, <2>1, <2>2 DEF ChangeIcon
<1> QED
  BY <1>1, <1>2, <1>3, <1>4, <1>5, <1>6, <1>7, ObjectsStutter DEF HandleEvent

LEMMA EnvironmentStutters ==
  ASSUME Environment
  PROVE  UNCHANGED <<dock, slot>>
<1>1. ASSUME NEW e \in Inputs, Arrive(e)
      PROVE  UNCHANGED <<dock, slot>>
  BY <1>1 DEF Arrive, NoEffect
<1>2. ASSUME NEW p \in Pids,
             \/ ChildExits(p) \/ ChildStops(p) \/ ChildContinues(p)
             \/ ForeignStarts(p) \/ ForeignExits(p)
      PROVE  UNCHANGED <<dock, slot>>
  BY <1>2 DEF ChildExits, ChildStops, ChildContinues, ForeignStarts,
              ForeignExits, SetProc
<1>3. ASSUME NEW s \in Exclusive,
             \/ WindowOpens(s) \/ WindowCloses(s) \/ CloseCancelled(s)
             \/ FocusEnters(s) \/ FocusLeaves(s)
      PROVE  UNCHANGED <<dock, slot>>
  BY <1>3 DEF WindowOpens, WindowCloses, CloseCancelled, FocusEnters,
              FocusLeaves, SetWindow
<1>4. CASE SlitMoves
  BY <1>4 DEF SlitMoves
<1> QED BY <1>1, <1>2, <1>3, <1>4 DEF Environment

LEMMA NextImplements ==
  ASSUME Inv, LoopTypeOK, [Next]_vars
  PROVE  [L!Next]_(L!vars)
<1>1. CASE HandleEvent
  BY <1>1, HandleEventImplements
<1>2. CASE StartTicking
  BY <1>2, ObjectsStutter DEF StartTicking, NoEffect
<1>3. CASE TickNext
  <2>1. cursor \in Slots
    BY <1>3, SlotAssumption DEF TickNext, LoopTypeOK, Slots
  <2> QED BY <1>3, <2>1, TickImplements DEF TickNext
<1>4. CASE Environment
  BY <1>4, EnvironmentStutters, ObjectsStutter
<1>5. CASE UNCHANGED vars
  BY <1>5, ObjectsStutter DEF vars
<1> QED BY <1>1, <1>2, <1>3, <1>4, <1>5 DEF Next, Terminated

(* Dock::run with Slot::exec and Slot::tick is the launcher: in particular *)
(* an exclusive icon is only launched when it is idle, and no icon while   *)
(* it is starting.                                                         *)
THEOREM Implementation == Spec => ImplementsLauncher
<1>1. Init => L!Init
  BY DEF Init, InitSlot, L!Init, LauncherState, LauncherProgram
<1>2. Inv /\ LoopTypeOK /\ [Next]_vars => [L!Next]_(L!vars)
  BY NextImplements
<1> QED BY <1>1, <1>2, Invariance, PTL DEF Spec, ImplementsLauncher, L!Spec

-----------------------------------------------------------------------------
(* How icons fade                                                          *)

(* What a step may do to the process and the grey state of an icon: leave  *)
(* them alone, take its process away, launch one, or fade the icon in.     *)
Fades(t) ==
  \/ SamePhase(t)
  \/ slot'[t].pid \notin Pids
  \/ slot'[t].pid # slot[t].pid /\ slot'[t].fading = FadeStart[t]
  \/ slot'[t].pid = slot[t].pid /\ slot'[t].fading = FadeStep(slot[t].fading)

LEMMA SameFades ==
  ASSUME UNCHANGED slot
  PROVE  \A t \in Slots : Fades(t)
BY DEF Fades, SamePhase

LEMMA RedrawFades ==
  ASSUME Inv, NEW s \in Slots, NEW r \in SlotState, NEW b \in BOOLEAN,
         slot' = [slot EXCEPT ![s] = Drawn(s, r, b)],
         \/ r.pid = slot[s].pid /\ r.fading \in {slot[s].fading, FadeStep(slot[s].fading)}
         \/ r.pid # slot[s].pid /\ r.fading = FadeStart[s]
         \/ r.pid \notin Pids
  PROVE  \A t \in Slots : Fades(t)
<1>1. /\ \A t \in Slots \ {s} : SamePhase(t)
      /\ slot'[s].pid = r.pid /\ slot'[s].fading = r.fading
  BY RedrawPhase
<1>2. Fades(s)
  BY <1>1 DEF Fades, SamePhase
<1> QED BY <1>1, <1>2 DEF Fades

(* The pid fork returns is new to the slot, as its own is not free.        *)
LEMMA ExecFades ==
  ASSUME Inv, dock = "running", NEW s \in Slots, Exec(s)
  PROVE  \A t \in Slots : Fades(t)
<1>0. slot[s] \in SlotState
  BY DEF Inv, SlotTypeOK
<1>1. CASE RaiseWindow(s) \/ NoEffect
  BY <1>1, SameFades DEF RaiseWindow, NoEffect
<1>2. CASE ForkFails(s)
  <2>1. -1 \notin Pids
    BY SlotAssumption
  <2>2. /\ slot'[s].pid = -1
        /\ \A t \in Slots \ {s} : slot'[t] = slot[t]
    BY <1>0, <1>2 DEF ForkFails, SlotState, Inv, SlotTypeOK
  <2> QED BY <2>1, <2>2 DEF Fades, SamePhase
<1>3. CASE Fork(s)
  <2> PICK p \in Pids :
        /\ proc[p] = "free"
        /\ Redraw(s, [slot[s] EXCEPT !.pid = p, !.fading = FadeStart[s]])
    BY <1>3 DEF Fork
  <2> DEFINE r == [slot[s] EXCEPT !.pid = p, !.fading = FadeStart[s]]
  <2>1. FadeStart[s] \in 0..Complete
    BY SlotAssumption DEF Complete
  <2>2. r \in SlotState /\ r.pid = p /\ r.fading = FadeStart[s]
    BY <1>0, <2>1 DEF SlotState
  <2>3. slot' = [slot EXCEPT ![s] = Drawn(s, r, TRUE)]
    BY DEF Redraw
  <2> HIDE DEF r
  <2>4. p # slot[s].pid
    <3>1. p # 0
      BY SlotAssumption
    <3> QED BY <3>1 DEF Inv, PidTracksChild
  <2> QED BY <2>2, <2>3, <2>4, RedrawFades
<1> QED BY <1>1, <1>2, <1>3 DEF Exec

LEMMA TickFades ==
  ASSUME Inv, dock = "running", NEW s \in Slots, Tick(s)
  PROVE  \A t \in Slots : Fades(t)
<1>0. slot[s] \in SlotState
  BY DEF Inv, SlotTypeOK
<1>1. CASE UNCHANGED slot
  BY <1>1, SameFades
<1>2. CASE Redraw(s, [slot[s] EXCEPT !.fading = FadeStep(@)])
  <2> DEFINE r == [slot[s] EXCEPT !.fading = FadeStep(@)]
  <2>1. /\ r \in SlotState /\ r.pid = slot[s].pid
        /\ r.fading = FadeStep(slot[s].fading)
    BY <1>0, FadeStepTyped DEF SlotState
  <2>2. slot' = [slot EXCEPT ![s] = Drawn(s, r, TRUE)]
    BY <1>2 DEF Redraw
  <2> HIDE DEF r
  <2> QED BY <2>1, <2>2, RedrawFades
<1>3. CASE Redraw(s, [slot[s] EXCEPT !.pid = 0, !.fading = Complete])
  <2> DEFINE r == [slot[s] EXCEPT !.pid = 0, !.fading = Complete]
  <2>0. Complete \in 0..Complete
    BY DEF Complete
  <2>1. r \in SlotState /\ r.pid \notin Pids
    BY <1>0, <2>0, SlotAssumption DEF SlotState
  <2>2. slot' = [slot EXCEPT ![s] = Drawn(s, r, TRUE)]
    BY <1>3 DEF Redraw
  <2> HIDE DEF r
  <2> QED BY <2>1, <2>2, RedrawFades
<1> QED BY <1>1, <1>2, <1>3 DEF Tick, Launchable

LEMMA SetIconFades ==
  ASSUME Inv, NEW s \in Slots, NEW i \in Icons, SetIcon(s, i)
  PROVE  \A t \in Slots : Fades(t)
<1>0. slot[s] \in SlotState
  BY DEF Inv, SlotTypeOK
<1>1. CASE i \notin Loadable
  <2>1. \A t \in Slots : SamePhase(t)
    BY <1>0, <1>1 DEF SetIcon, SamePhase, SlotState, Inv, SlotTypeOK
  <2> QED BY <2>1 DEF Fades
<1>2. CASE i \in Loadable
  <2> DEFINE r == [slot[s] EXCEPT !.icon = i, !.image = Blank, !.invalid = TRUE]
  <2>1. Blank \in Image
    BY DEF Blank, Image, Complete
  <2>2. r \in SlotState /\ r.pid = slot[s].pid /\ r.fading = slot[s].fading
    BY <1>0, <2>1 DEF SlotState
  <2>3. slot' = [slot EXCEPT ![s] = Drawn(s, r, TRUE)]
    BY <1>2 DEF SetIcon, Redraw
  <2> HIDE DEF r
  <2> QED BY <2>2, <2>3, RedrawFades
<1> QED BY <1>1, <1>2

LEMMA PictureFades ==
  ASSUME Inv, NEW s \in Slots,
         \/ Draw(s) \/ Reconfigure(s)
         \/ \E v \in {"unobscured", "obscured"} : SetVisibility(s, v)
  PROVE  \A t \in Slots : Fades(t)
<1>0. slot[s] \in SlotState
  BY DEF Inv, SlotTypeOK
<1>1. CASE Draw(s)
  BY <1>0, <1>1, RedrawFades DEF Draw
<1>2. CASE Reconfigure(s)
  <2> DEFINE r == [slot[s] EXCEPT !.invalid = TRUE]
  <2>1. r \in SlotState /\ r.pid = slot[s].pid /\ r.fading = slot[s].fading
    BY <1>0 DEF SlotState
  <2>2. slot' = [slot EXCEPT ![s] = Drawn(s, r, TRUE)]
    BY <1>2 DEF Reconfigure, Redraw
  <2> HIDE DEF r
  <2> QED BY <2>1, <2>2, RedrawFades
<1>3. CASE \E v \in {"unobscured", "obscured"} : SetVisibility(s, v)
  <2>1. \A t \in Slots : SamePhase(t)
    BY <1>0, <1>3 DEF SetVisibility, SamePhase, Inv, SlotTypeOK, SlotState
  <2> QED BY <2>1 DEF Fades
<1> QED BY <1>1, <1>2, <1>3

LEMMA HandleEventFades ==
  ASSUME Inv, HandleEvent
  PROVE  \A t \in Slots : Fades(t)
<1>1. ASSUME NEW s \in Slots, NEW m \in BOOLEAN, LeftClick(s, m)
      PROVE  \A t \in Slots : Fades(t)
  <2>1. CASE Exec(s)
    BY <1>1, <2>1, ExecFades DEF LeftClick, Dispatch
  <2>2. CASE ~Exec(s)
    <3>1. UNCHANGED slot
      BY <1>1, <2>2, ClickActionStutters, DockAssumption
         DEF LeftClick, CloseApplication, NoEffect
    <3> QED BY <3>1, SameFades
  <2> QED BY <2>1, <2>2
<1>2. ASSUME NEW s \in Slots, NEW m \in BOOLEAN,
             MiddleClick(s, m) \/ RightClick(s, m)
      PROVE  UNCHANGED slot
  BY <1>2, ClickActionStutters, DockAssumption
     DEF MiddleClick, RightClick, NoEffect
<1>3. ASSUME NEW s \in Slots, SelectionNotify(s)
      PROVE  \A t \in Slots : Fades(t)
  BY <1>3, ExecFades, SameFades DEF SelectionNotify, Dispatch, NoEffect
<1>4. ASSUME NEW s \in Slots, Expose(s) \/ ConfigureNotify(s)
      PROVE  \A t \in Slots : Fades(t)
  BY <1>4, PictureFades DEF Expose, ConfigureNotify
<1>5. ASSUME NEW s \in Slots, NEW v \in {"unobscured", "obscured"},
             VisibilityNotify(s, v)
      PROVE  \A t \in Slots : Fades(t)
  BY <1>5, PictureFades DEF VisibilityNotify
<1>6. ASSUME NEW c \in Commands, ExecuteIcon(c)
      PROVE  \A t \in Slots : Fades(t)
  BY <1>6, ExecFades DEF ExecuteIcon, Dispatch
<1>7. ASSUME NEW c \in Commands, NEW i \in Icons, ChangeIcon(c, i)
      PROVE  \A t \in Slots : Fades(t)
  BY <1>7, SetIconFades, SameFades DEF ChangeIcon, NoEffect
<1> QED
  BY <1>1, <1>2, <1>3, <1>4, <1>5, <1>6, <1>7, SameFades DEF HandleEvent

LEMMA NextFades ==
  ASSUME Inv, LoopTypeOK, [Next]_vars
  PROVE  \A t \in Slots : Fades(t)
<1>1. CASE HandleEvent
  BY <1>1, HandleEventFades
<1>2. CASE TickNext
  <2>1. cursor \in Slots
    BY <1>2, SlotAssumption DEF TickNext, LoopTypeOK, Slots
  <2> QED BY <1>2, <2>1, TickFades DEF TickNext
<1>3. CASE StartTicking
  BY <1>3, SameFades DEF StartTicking, NoEffect
<1>4. CASE Environment
  BY <1>4, EnvironmentStutters, SameFades
<1>5. CASE UNCHANGED vars
  BY <1>5, SameFades DEF vars
<1> QED BY <1>1, <1>2, <1>3, <1>4, <1>5 DEF Next, Terminated

(* An icon that starts below FadeFloor is as grey as at its launch for all *)
(* the time its program runs.                                              *)
StaysGrey ==
  \A s \in Slots :
    FadeStart[s] < FadeFloor /\ slot[s].pid \in Pids =>
      slot[s].fading = FadeStart[s]

(* Slot::tick never ends the grey state of an icon whose fade starts below *)
(* FadeFloor, so that its program is not launched again while it runs.     *)
THEOREM LongIdleStaysGrey == Spec => []StaysGrey
<1>1. Init => StaysGrey
  BY SlotAssumption DEF Init, InitSlot, StaysGrey
<1>2. Inv /\ LoopTypeOK /\ StaysGrey /\ [Next]_vars => StaysGrey'
  <2> SUFFICES ASSUME Inv, LoopTypeOK, StaysGrey, [Next]_vars, NEW s \in Slots,
                      FadeStart[s] < FadeFloor, slot'[s].pid \in Pids
               PROVE  slot'[s].fading = FadeStart[s]
    BY DEF StaysGrey
  <2>1. Fades(s)
    BY NextFades
  <2>2. slot'[s].pid = slot[s].pid => slot[s].fading = FadeStart[s]
    BY DEF StaysGrey
  <2>3. FadeStep(FadeStart[s]) = FadeStart[s]
    <3>1. FadeStart[s] \in 0..Complete
      BY SlotAssumption DEF Complete
    <3> QED BY <3>1, FadeStepGrows
  <2> QED BY <2>1, <2>2, <2>3 DEF Fades, SamePhase
<1> QED BY <1>1, <1>2, Invariance, PTL DEF Spec

=============================================================================
