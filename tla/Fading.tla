------------------------------- MODULE Fading -------------------------------
(***************************************************************************)
(* The arithmetic of the "grey state" of an icon.  Slot::exec computes a   *)
(* start value from the icon's idle time, Slot::tick multiplies it by      *)
(* fadestep = 1.05 and truncates to an integer until it is Complete.       *)
(*                                                                         *)
(* The program computes with doubles.  Here 1.05 is the fraction 21/20 and *)
(* 256/1.05^k is evaluated in fixed point with 18 fractional bits: both    *)
(* agree with the compiled double arithmetic for every fading value and    *)
(* for every idle time up to 200 seconds (beyond that both are 0).         *)
(***************************************************************************)
EXTENDS Integers

Complete == 255        \* Slot::Complete, the icon is fully opaque

Suspend == 250000      \* Dock::Suspend, the period of the ticks in usec

FixedPoint == 262144   \* 2^18, the scale of the fixed-point evaluation

(* The number of ticks the idle time (in ms) amounts to.                   *)
IdleTicks(idle) == (idle * (1000000 \div Suspend)) \div 1000

(* Quotient[k] is 256 / 1.05^k, scaled by FixedPoint.                      *)
Quotient[k \in Nat] ==
  IF k = 0 THEN 256 * FixedPoint ELSE (Quotient[k - 1] * 20) \div 21

(* FAULT: the ticks are taken to be twice as long.                         *)
FadeOffsetShort(idle) == Quotient[IdleTicks(idle) \div 2 + 1] \div FixedPoint

(* The value fading takes at a launch.  The factor starts at fadestep and  *)
(* is multiplied once more for every tick: one power more than the ticks.  *)
FadeOffset(idle) == Quotient[IdleTicks(idle) + 1] \div FixedPoint

(* FAULT: the value is not clamped.                                        *)
FadeStepUnclamped(f) == (f * 21) \div 20

(* One tick of the fade-in.                                                *)
FadeStep(f) ==
  LET g == (f * 21) \div 20
  IN  IF g > Complete THEN Complete ELSE g

(* Below this value the truncation eats the whole increment.               *)
FadeFloor == 20

=============================================================================
