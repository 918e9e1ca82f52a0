------------------------------ MODULE GreyImage ------------------------------
(***************************************************************************)
(* Slot::loadIcon expands an image of grey and alpha, with two bytes for a *)
(* pixel, to four bytes for a pixel within the same memory: every line from*)
(* its end, where each step writes behind what is still to be read.        *)
(*                                                                         *)
(* A byte is known by what it stands for; normalicon starts with the rows  *)
(* of libpng in the first half of its lines, and any bytes in the second.  *)
(***************************************************************************)
EXTENDS Integers

CONSTANTS Widths, Heights   \* sizes of images

SizeAssumption == Widths \cup Heights \subseteq Nat \ {0}

Grey(c, r) == [kind |-> "grey", column |-> c, row |-> r]
Alpha(c, r) == [kind |-> "alpha", column |-> c, row |-> r]
Garbage == [kind |-> "garbage", column |-> 0, row |-> 0]

VARIABLES
  width, height,
  normalicon,   \* its rows: [byte of the line -> what it stands for]
  y, x,         \* the counters of the loops
  dest, src     \* the pointers into the line

vars == <<width, height, normalicon, y, x, dest, src>>

Line == height - y   \* the line the inner loop works on

Init ==
  /\ width \in Widths /\ height \in Heights
  /\ normalicon =
       [r \in 0..(height - 1) |-> [b \in 0..(4 * width - 1) |->
          IF b >= 2 * width THEN Garbage
          ELSE IF b % 2 = 0 THEN Grey(b \div 2, r) ELSE Alpha(b \div 2, r)]]
  /\ y = height /\ x = width
  /\ dest = 4 * width /\ src = 2 * width

(* FAULT: a line is expanded from its beginning.                           *)
ExpandForward ==
  /\ y > 1 /\ x > 1
  /\ LET c == width - x + 1
         alpha == normalicon[Line][2 * c + 1]
         grey == normalicon[Line][2 * c]
     IN  normalicon' =
           [normalicon EXCEPT ![Line] =
              [@ EXCEPT ![4 * c + 3] = alpha,
                        ![4 * c + 2] = grey, ![4 * c + 1] = grey, ![4 * c] = grey]]
  /\ x' = x - 1
  /\ dest' = dest - 4 /\ src' = src - 2
  /\ UNCHANGED <<width, height, y>>

(* The body of the inner loop, as long as --x is not 0.                    *)
Expand ==
  /\ y > 1 /\ x > 1
  /\ LET alpha == normalicon[Line][src - 1]
         grey == normalicon[Line][src - 2]
     IN  normalicon' =
           [normalicon EXCEPT ![Line] =
              [@ EXCEPT ![dest - 1] = alpha,
                        ![dest - 2] = grey, ![dest - 3] = grey, ![dest - 4] = grey]]
  /\ x' = x - 1
  /\ dest' = dest - 4 /\ src' = src - 2
  /\ UNCHANGED <<width, height, y>>

NextLine ==
  /\ y > 1 /\ x = 1
  /\ y' = y - 1 /\ x' = width
  /\ dest' = 4 * width /\ src' = 2 * width
  /\ UNCHANGED <<width, height, normalicon>>

Next == Expand \/ NextLine

Spec == Init /\ [][Next]_vars

-----------------------------------------------------------------------------
(* The pixel in column c of row r, its bytes in the order of memory.       *)
Pixel(c, r) == [b \in 0..3 |-> normalicon[r][4 * c + b]]

Expanded(c, r) == [b \in 0..3 |-> IF b = 3 THEN Alpha(c, r) ELSE Grey(c, r)]

(* No byte is overwritten before it is read: all pixels the loops reach are*)
(* expanded from their own grey and alpha.  They do not reach the last row *)
(* and the first column (--y and --x for y-- and x--).                     *)
ExpandedInPlace ==
  \A r \in 0..(height - 1), c \in 1..(width - 1) :
    r < Line \/ (r = Line /\ y > 1 /\ c >= x) => Pixel(c, r) = Expanded(c, r)

=============================================================================
