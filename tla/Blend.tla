-------------------------------- MODULE Blend --------------------------------
(***************************************************************************)
(* The colours of an icon: Render::opaque and Render::ghosted for one      *)
(* channel of one pixel, drawn again and again while the icon fades in,    *)
(* upon the background of the slit or, if that cannot be read, upon the    *)
(* last picture.  Under the icon there may be the mark of its program,     *)
(* which inverts what it is drawn upon.                                    *)
(*                                                                         *)
(* The program divides by doubles and truncates.  Where the quotient is an *)
(* integer its rounding may make it one less; everywhere else it is exact. *)
(***************************************************************************)
EXTENDS Integers, Fading

CONSTANTS
  Bits,     \* color depths
  Levels,   \* values of channels
  Alphas,   \* values of the alpha channel
  Idles     \* idle times of icons

BlendAssumption ==
  /\ Bits \subseteq {16, 24, 32}
  /\ Levels \subseteq 0..255 /\ Alphas \subseteq 0..255
  /\ Idles \subseteq Nat

VARIABLES
  bits,        \* the color depth
  source,      \* the pixel of the icon: [value, others, alpha, marked], where
               \* value is the channel, others the sum of the two others,
               \* and marked says if activeMark inverts it for this icon
  background,  \* the channel of the background
  channel,     \* the channel in the image
  fading,      \* Slot::fading
  running,     \* has the slot a Slot::pid?
  clean        \* the image has been drawn upon the background

vars == <<bits, source, background, channel, fading, running, clean>>

(* What a channel keeps with 16 bits: five of its bits.                    *)
Kept(v) == IF bits = 16 THEN (v \div 8) * 8 ELSE v

(* The values dest may have after the part n / m of the way to s is added  *)
(* to it, in a byte.                                                       *)
Moved(dest, s, n, m) ==
  LET way == IF s < dest THEN dest - s ELSE s - dest
      part == (way * n) \div m
      exact == (way * n) % m = 0 /\ part > 0
  IN  {(IF s < dest THEN dest - p ELSE dest + p) % 256 :
         p \in IF exact THEN {part - 1, part} ELSE {part}}

Blended(dest, s, n, m) == {Kept(v) : v \in Moved(Kept(dest), s, n, m)}

Grey == (source.value + source.others) \div 3

Opaque(dest) ==
  CASE source.alpha = 0 -> {dest}
    [] source.alpha = 255 -> {Kept(source.value)}
    [] OTHER -> Blended(dest, source.value, source.alpha, 255)

(* FAULT: one of the two factors 255 is missing.                           *)
GhostedUnscaled(dest, transparency) ==
  IF source.alpha = 0 THEN {dest}
  ELSE Blended(dest, Grey, source.alpha * transparency, 255)

(* FAULT: the more transparent the later.                                  *)
GhostedInverted(dest, transparency) ==
  IF source.alpha = 0 THEN {dest}
  ELSE Blended(dest, Grey, source.alpha * (255 - transparency), 65025)

Ghosted(dest, transparency) ==
  IF source.alpha = 0 THEN {dest}
  ELSE Blended(dest, Grey, source.alpha * transparency, 65025)

(* Render::activeMark inverts all bits, of which 16 bits leave five.       *)
Inverse(v) == Kept(255 - v)

(* What the icon is drawn upon: a running program has its mark there.      *)
WithMark(dest, runs) == IF runs /\ source.marked THEN Inverse(dest) ELSE dest

(* An icon has been drawn for the first time.                              *)
Init ==
  /\ bits \in Bits
  /\ source \in [value : Levels, others : {v + w : v, w \in Levels},
                alpha : Alphas, marked : BOOLEAN]
  /\ background \in {Kept(v) : v \in Levels}
  /\ channel \in Opaque(background)
  /\ fading = Complete
  /\ running = FALSE
  /\ clean = TRUE

(* Slot::draw: the background is restored, read anew, or out of reach;     *)
(* then the mark is drawn, and the icon upon both.                         *)
Draw ==
  /\ \/ clean' = TRUE /\ background' \in {background} \cup {Kept(v) : v \in Levels}
     \/ clean' = FALSE /\ UNCHANGED background
  /\ LET dest == WithMark(IF clean' THEN background' ELSE channel, running')
     IN  channel' \in IF fading' < Complete THEN Ghosted(dest, fading') ELSE Opaque(dest)
  /\ UNCHANGED <<bits, source>>

(* An icon with a mark is not launched again while its program runs.       *)
Launch ==
  /\ fading = Complete /\ ~(running /\ source.marked)
  /\ \E i \in Idles : fading' = FadeOffset(i)
  /\ running' = TRUE
  /\ Draw

(* Slot::tick of an icon whose program has ended, ...                      *)
Ended ==
  /\ running
  /\ running' = FALSE /\ fading' = Complete
  /\ Draw

(* ... and of one whose program runs.                                      *)
Tick ==
  /\ fading < Complete
  /\ fading' = FadeStep(fading)
  /\ UNCHANGED running
  /\ Draw

Redraw == UNCHANGED <<fading, running>> /\ Draw

Next == Launch \/ Ended \/ Tick \/ Redraw

Spec == Init /\ [][Next]_vars

-----------------------------------------------------------------------------
(* Properties                                                              *)

Goal == Kept(IF fading < Complete THEN Grey ELSE source.value)

(* What a picture has its channels between: a clean one those of the icon  *)
(* and of what it is drawn upon; one that is drawn upon the last picture   *)
(* those of all that went into it, and what the mark makes of them.        *)
Ends ==
  LET all == {background, Kept(Grey), Kept(source.value)}
  IN  IF clean THEN {WithMark(background, running), Goal}
      ELSE IF source.marked THEN all \cup {Inverse(v) : v \in all} ELSE all

(* However often and upon whatever a pixel is drawn, its channels lie      *)
(* between those of the icon, coloured or grey, and of what is under it,   *)
(* marked or not: adding the difference to a byte never wraps around.      *)
InRange == \E low, high \in Ends : low <= channel /\ channel <= high

Distance(v, w) == IF v < w THEN w - v ELSE v - w

ComesCloser ==
  clean /\ clean' /\ background' = background /\ fading < fading' /\ fading' < Complete
    => Distance(channel', Kept(Grey)) <= Distance(channel, Kept(Grey))

(* From tick to tick a fading icon comes closer to its grey picture, never *)
(* flickering back, as long as its background is there and the same.       *)
FadesIn == [][ComesCloser]_vars

=============================================================================
