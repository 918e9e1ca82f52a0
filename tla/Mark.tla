-------------------------------- MODULE Mark --------------------------------
(***************************************************************************)
(* The active mark as Render draws it into the image of a slot, and the    *)
(* area of the cross mark that Dock::run compares clicks with.             *)
(*                                                                         *)
(* Render works on a block of bytes: getOffset computes where the mark     *)
(* begins, activeMark walks on from there and inverts pixels.  The image   *)
(* is the set of bytes that differ from the icon.                          *)
(***************************************************************************)
EXTENDS Integers, FiniteSets

CONSTANTS
  Bits,       \* color depths, in bits per pixel
  Widths,     \* widths and
  Heights,    \* heights of icons
  Margins     \* settings of markleft and marktop

(* A mark: rows[y] are the columns where it has a pixel.                   *)
play ==
  [width |-> 5, height |-> 9,
   rows |-> [y \in 0..8 |-> 0..(IF y < 5 THEN y ELSE 8 - y)]]
dots == [width |-> 10, height |-> 2, rows |-> [y \in 0..1 |-> {0, 1, 4, 5, 8, 9}]]
corner == [width |-> 6, height |-> 6, rows |-> [y \in 0..5 |-> (5 - y)..5]]
cross ==
  [width |-> 7, height |-> 7,
   rows |-> [y \in 0..6 |-> {x \in 0..6 : \/ x - y \in -1..1
                                          \/ x + y \in 5..7}]]

Marks == {play, dots, corner, cross}

MarkAssumption ==
  /\ Bits \subseteq {16, 24, 32}
  /\ Widths \subseteq Nat
  /\ Heights \subseteq Nat
  /\ Margins \subseteq Int

VARIABLES
  render,    \* the Render object: [bits, width, height]
  settings,  \* [mark, left, top]
  image,     \* the bytes that are inverted
  dest,      \* where activeMark is in the image
  y,         \* the row of the mark it draws next
  shown      \* drawn once more than undone since the background was restored

vars == <<render, settings, image, dest, y, shown>>

mark == settings.mark

-----------------------------------------------------------------------------
(* Render                                                                  *)

BytesPerPixel == render.bits \div 8

(* Every line is padded to a multiple of 4 bytes.                          *)
BytesPerLine == ((render.width * BytesPerPixel + 3) \div 4) * 4
Size == BytesPerLine * render.height

(* FAULT: -1 leaves a margin of one pixel, as 1 does.                      *)
GetOffsetApart(left, top) ==
  LET free == render.height - mark.height
      room == render.width - mark.width
      skipTop == IF top < 0 /\ free + top >= 0 THEN free + top
                 ELSE IF top > 0 /\ top <= free THEN top ELSE 0
      skipLeft == IF left < 0 /\ room + left >= 0
                  THEN BytesPerLine - (mark.width - left) * BytesPerPixel
                  ELSE IF left > 0 /\ left <= room THEN left * BytesPerPixel ELSE 0
  IN  skipTop * BytesPerLine + skipLeft

(* FAULT: margins that do not fit are not left out.                        *)
GetOffsetAnywhere(left, top) ==
  LET skipTop == IF top < 0 THEN render.height - mark.height + top + 1 ELSE top
      skipLeft == IF left < 0
                  THEN BytesPerLine - (mark.width - left - 1) * BytesPerPixel
                  ELSE left * BytesPerPixel
  IN  skipTop * BytesPerLine + skipLeft

(* Render::getOffset.  A margin that does not fit into the image is none.  *)
GetOffset(left, top) ==
  LET free == render.height - mark.height
      room == render.width - mark.width
      skipTop == IF top < 0 /\ free + top + 1 >= 0 THEN free + top + 1
                 ELSE IF top > 0 /\ top <= free THEN top ELSE 0
      skipLeft == IF left < 0 /\ room + left + 1 >= 0
                  THEN BytesPerLine - (mark.width - (left + 1)) * BytesPerPixel
                  ELSE IF left > 0 /\ left <= room THEN left * BytesPerPixel ELSE 0
  IN  skipTop * BytesPerLine + skipLeft

(* The bytes of a pixel that are inverted: 0xffffff spares the fourth.     *)
Inverted(p) == p..(p + (IF render.bits = 16 THEN 1 ELSE 2))

(* The byte of the pixel in column x of the row that is drawn.  Render24   *)
(* only goes on over the pixels of the mark.                               *)
Position(x) ==
  IF render.bits = 24
  THEN dest + 3 * Cardinality({c \in mark.rows[y] : c < x})
  ELSE dest + x * BytesPerPixel

(* From one row to the next.  Only Render24 has lines with padding.        *)
NextRow ==
  IF render.bits = 24
  THEN dest + 3 * Cardinality(mark.rows[y]) + BytesPerLine - 3 * mark.width
  ELSE dest + render.width * BytesPerPixel

Init ==
  /\ render \in [bits : Bits, width : Widths, height : Heights]
  /\ settings \in [mark : Marks, left : Margins, top : Margins]
  /\ image = {}
  /\ dest = 0
  /\ y = mark.height
  /\ shown = FALSE

Xor(a, b) == (a \ b) \cup (b \ a)

(* Slot::draw calls activeMark, after the background has been restored     *)
(* unless the slit could not be read.                                      *)
ActiveMark ==
  /\ y = mark.height
  /\ y' = 0
  /\ dest' = GetOffset(settings.left, settings.top)
  /\ \/ image' = {} /\ shown' = TRUE
     \/ image' = image /\ shown' = ~shown
  /\ UNCHANGED <<render, settings>>

(* One row of the mark is inverted.                                        *)
DrawRow ==
  /\ y < mark.height
  /\ image' = Xor(image, UNION {Inverted(Position(x)) : x \in mark.rows[y]})
  /\ dest' = NextRow
  /\ y' = y + 1
  /\ UNCHANGED <<render, settings, shown>>

Next == ActiveMark \/ DrawRow

Spec == Init /\ [][Next]_vars

-----------------------------------------------------------------------------
(* Dock::run                                                               *)

(* Is the pixel px, py of the icon one that a click closes the application *)
(* with?                                                                   *)
InArea(px, py) ==
  LET l == IF settings.left < 0 THEN render.width - 6 + settings.left
                                ELSE settings.left
      t == IF settings.top < 0 THEN render.height - 6 + settings.top
                               ELSE settings.top
  IN  px > l /\ px < l + 8 /\ py > t /\ py < t + 8

-----------------------------------------------------------------------------
(* Properties                                                              *)

(* The mark is not larger than the icon.                                   *)
MarkFits == mark.width <= render.width /\ mark.height <= render.height

(* activeMark writes no byte that is not the image's, whatever the margins *)
(* and the color depth are, if the icon has room for the mark.             *)
InsideImage == MarkFits => image \subseteq 0..(Size - 1)

(* Where a mark of the given size has its first row or column: margins     *)
(* count from the left or top, -1 is flush with the right or bottom, and   *)
(* margins that do not fit are ignored.                                    *)
Placed(margin, size, room) ==
  LET at == IF margin < 0 THEN room - size + margin + 1 ELSE margin
  IN  IF at \in 0..(room - size) THEN at ELSE 0

MarkPixels ==
  {<<Placed(settings.left, mark.width, render.width) + p[1],
     Placed(settings.top, mark.height, render.height) + p[2]>> :
     p \in {q \in (0..9) \X (0..8) : q[2] < mark.height /\ q[1] \in mark.rows[q[2]]}}

(* The bytes that are to be inverted.                                      *)
MarkBytes ==
  UNION {Inverted(p[2] * BytesPerLine + p[1] * BytesPerPixel) : p \in MarkPixels}

(* With 32 bits, and with 16 bits if lines have no padding, activeMark     *)
(* draws the mark where -p and -m say, and removes it if it is called      *)
(* again on the same picture.                                              *)
MarkPlaced ==
  /\ y = mark.height /\ MarkFits
  /\ render.bits = 32 \/ (render.bits = 16 /\ render.width % 2 = 0)
  => image = IF shown THEN MarkBytes ELSE {}

(* The pixels of a 32 bit image that are inverted.                         *)
Drawn ==
  {<<(b % BytesPerLine) \div 4, b \div BytesPerLine>> : b \in image}

(* Such a margin is not ignored.                                           *)
MarginFits(margin, size, room) ==
  (IF margin < 0 THEN room - size + margin + 1 ELSE margin) \in 0..(room - size)

(* The area of Dock::run for clicks is the box of the cross that Render    *)
(* has drawn, whenever the margins fit: two places, with constants of their*)
(* own, know where the mark is.                                            *)
AreaIsCross ==
  /\ y = mark.height /\ shown /\ mark = cross /\ render.bits = 32
  /\ MarginFits(settings.left, mark.width, render.width)
  /\ MarginFits(settings.top, mark.height, render.height)
  => \A px \in 0..render.width, py \in 0..render.height :
       InArea(px, py) <=> /\ \E d \in Drawn : d[1] = px
                          /\ \E d \in Drawn : d[2] = py

=============================================================================
