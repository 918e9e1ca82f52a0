----------------------------- MODULE ImageProofs -----------------------------
(***************************************************************************)
(* Proofs about the pictures: for images and icons of any size, any        *)
(* colours and margins, and any idle times.                                *)
(***************************************************************************)
EXTENDS MCImages, FadingProofs, FiniteSetTheorems

-----------------------------------------------------------------------------
(* GreyImage: the loops of Slot::loadIcon                                  *)

Bytes == [kind : {"grey", "alpha", "garbage"}, column : Nat, row : Nat]

(* The counters and the pointers are never apart.                          *)
GreyTypes ==
  /\ width \in Nat \ {0} /\ height \in Nat \ {0}
  /\ lines \in 1..height /\ columns \in 1..width
  /\ to = 4 * columns /\ from = 2 * columns
  /\ normalicon \in [0..(height - 1) -> [0..(4 * width - 1) -> Bytes]]

(* What is yet to be read is as libpng has left it.                        *)
Unread ==
  \A r \in 0..(height - 1), c \in 0..(width - 1) :
    r > G!Line \/ (r = G!Line /\ c < columns) =>
      /\ normalicon[r][2 * c] = G!Grey(c, r)
      /\ normalicon[r][2 * c + 1] = G!Alpha(c, r)

(* What has been read is expanded.                                         *)
Written ==
  \A r \in 0..(height - 1), c \in 0..(width - 1) :
    (r < G!Line /\ c > 0) \/ (r = G!Line /\ c >= columns) =>
      /\ \A b \in 0..2 : normalicon[r][4 * c + b] = G!Grey(c, r)
      /\ normalicon[r][4 * c + 3] = G!Alpha(c, r)

GInv == GreyTypes /\ Unread /\ Written

LEMMA InitGInv == G!SizeAssumption /\ G!Init => GInv
<1> SUFFICES ASSUME G!SizeAssumption, G!Init PROVE GInv
  OBVIOUS
<1>1. /\ width \in Nat \ {0} /\ height \in Nat \ {0}
      /\ lines = height /\ columns = width /\ to = 4 * width /\ from = 2 * width
  BY DEF G!SizeAssumption, G!Init
<1>2. normalicon =
        [r \in 0..(height - 1) |-> [b \in 0..(4 * width - 1) |->
           IF b >= 2 * width THEN G!Garbage
           ELSE IF b % 2 = 0 THEN G!Grey(b \div 2, r) ELSE G!Alpha(b \div 2, r)]]
  BY DEF G!Init
<1>3. \A r \in 0..(height - 1), b \in 0..(4 * width - 1) :
        normalicon[r][b] =
          IF b >= 2 * width THEN G!Garbage
          ELSE IF b % 2 = 0 THEN G!Grey(b \div 2, r) ELSE G!Alpha(b \div 2, r)
  BY <1>2
<1>4. GreyTypes
  <2>1. normalicon \in [0..(height - 1) -> [0..(4 * width - 1) -> Bytes]]
    <3>1. ASSUME NEW r \in 0..(height - 1), NEW b \in 0..(4 * width - 1)
          PROVE  (IF b >= 2 * width THEN G!Garbage
                  ELSE IF b % 2 = 0 THEN G!Grey(b \div 2, r)
                  ELSE G!Alpha(b \div 2, r)) \in Bytes
      BY <1>1 DEF Bytes, G!Garbage, G!Grey, G!Alpha
    <3> QED BY <1>2, <3>1
  <2> QED BY <1>1, <2>1 DEF GreyTypes
<1>5. Unread
  <2> SUFFICES ASSUME NEW r \in 0..(height - 1), NEW c \in 0..(width - 1)
               PROVE  /\ normalicon[r][2 * c] = G!Grey(c, r)
                      /\ normalicon[r][2 * c + 1] = G!Alpha(c, r)
    BY DEF Unread
  <2>1. /\ 2 * c \in 0..(4 * width - 1) /\ 2 * c + 1 \in 0..(4 * width - 1)
        /\ 2 * c + 1 < 2 * width
        /\ (2 * c) % 2 = 0 /\ (2 * c) \div 2 = c
        /\ (2 * c + 1) % 2 = 1 /\ (2 * c + 1) \div 2 = c
    BY <1>1
  <2>2. normalicon[r][2 * c] =
          IF 2 * c >= 2 * width THEN G!Garbage
          ELSE IF (2 * c) % 2 = 0 THEN G!Grey((2 * c) \div 2, r)
          ELSE G!Alpha((2 * c) \div 2, r)
    BY <1>3, <2>1
  <2>3. normalicon[r][2 * c + 1] =
          IF 2 * c + 1 >= 2 * width THEN G!Garbage
          ELSE IF (2 * c + 1) % 2 = 0 THEN G!Grey((2 * c + 1) \div 2, r)
          ELSE G!Alpha((2 * c + 1) \div 2, r)
    BY <1>3, <2>1
  <2>4. ~(2 * c >= 2 * width) /\ ~(2 * c + 1 >= 2 * width)
    BY <1>1, <2>1
  <2>5. normalicon[r][2 * c] = G!Grey(c, r)
    BY <2>1, <2>2, <2>4
  <2>6. normalicon[r][2 * c + 1] = G!Alpha(c, r)
    BY <2>1, <2>3, <2>4
  <2> QED BY <2>5, <2>6
<1>6. Written
  BY <1>1 DEF Written, G!Line
<1> QED BY <1>4, <1>5, <1>6 DEF GInv

(* The step of the inner loop on a line.                                   *)
LEMMA FourBytes ==
  ASSUME NEW D, NEW T, NEW f \in [D -> T], NEW i \in D, NEW j \in D, NEW k \in D,
         NEW l \in D, NEW alpha, NEW grey
  PROVE  \A b \in D :
           [f EXCEPT ![i] = alpha, ![j] = grey, ![k] = grey, ![l] = grey][b] =
             IF b \in {j, k, l} THEN grey ELSE IF b = i THEN alpha ELSE f[b]
OBVIOUS

LEMMA ExpandGInv == GInv /\ G!Expand => GInv'
<1> SUFFICES ASSUME GInv, G!Expand PROVE GInv'
  OBVIOUS
<1> DEFINE c0 == columns - 1
           r0 == height - lines
<1>1. /\ width \in Nat \ {0} /\ height \in Nat \ {0}
      /\ lines \in 2..height /\ columns \in 2..width
      /\ to = 4 * columns /\ from = 2 * columns
      /\ r0 \in 0..(height - 1) /\ c0 \in 1..(width - 1)
      /\ G!Line = r0
  BY DEF GInv, GreyTypes, G!Expand, G!Line
<1>2. /\ columns' = columns - 1 /\ to' = to - 4 /\ from' = from - 2
      /\ UNCHANGED <<width, height, lines>>
  BY DEF G!Expand
<1>3. normalicon[r0][from - 1] = G!Alpha(c0, r0) /\ normalicon[r0][from - 2] = G!Grey(c0, r0)
  <2>1. from - 1 = 2 * c0 + 1 /\ from - 2 = 2 * c0 /\ c0 \in 0..(width - 1) /\ c0 < columns
    BY <1>1
  <2> QED BY <1>1, <2>1 DEF GInv, Unread
<1>4. normalicon' = [normalicon EXCEPT ![r0] =
                       [@ EXCEPT ![4 * c0 + 3] = G!Alpha(c0, r0),
                                 ![4 * c0 + 2] = G!Grey(c0, r0),
                                 ![4 * c0 + 1] = G!Grey(c0, r0),
                                 ![4 * c0] = G!Grey(c0, r0)]]
  <2>1. to - 1 = 4 * c0 + 3 /\ to - 2 = 4 * c0 + 2 /\ to - 3 = 4 * c0 + 1 /\ to - 4 = 4 * c0
    BY <1>1
  <2> QED BY <1>1, <1>3, <2>1 DEF G!Expand
<1>5. /\ 4 * c0 + 3 \in 0..(4 * width - 1) /\ 4 * c0 + 2 \in 0..(4 * width - 1)
      /\ 4 * c0 + 1 \in 0..(4 * width - 1) /\ 4 * c0 \in 0..(4 * width - 1)
  BY <1>1
<1>6. normalicon \in [0..(height - 1) -> [0..(4 * width - 1) -> Bytes]]
  BY DEF GInv, GreyTypes
<1>7. \A r \in 0..(height - 1), b \in 0..(4 * width - 1) :
        normalicon'[r][b] =
          IF r = r0 /\ b = 4 * c0 + 3 THEN G!Alpha(c0, r0)
          ELSE IF r = r0 /\ b \in {4 * c0, 4 * c0 + 1, 4 * c0 + 2} THEN G!Grey(c0, r0)
          ELSE normalicon[r][b]
  <2>1. c0 \in Nat
    BY <1>1
  <2> HIDE DEF c0, r0
  <2> DEFINE new == [normalicon[r0] EXCEPT ![4 * c0 + 3] = G!Alpha(c0, r0),
                                           ![4 * c0 + 2] = G!Grey(c0, r0),
                                           ![4 * c0 + 1] = G!Grey(c0, r0),
                                           ![4 * c0] = G!Grey(c0, r0)]
  <2>2. normalicon[r0] \in [0..(4 * width - 1) -> Bytes]
    BY <1>1, <1>6
  <2>3. \A b \in 0..(4 * width - 1) :
          new[b] = IF b = 4 * c0 + 3 THEN G!Alpha(c0, r0)
                   ELSE IF b \in {4 * c0, 4 * c0 + 1, 4 * c0 + 2} THEN G!Grey(c0, r0)
                   ELSE normalicon[r0][b]
    <3>1. \A b \in 0..(4 * width - 1) :
            new[b] = IF b \in {4 * c0 + 2, 4 * c0 + 1, 4 * c0} THEN G!Grey(c0, r0)
                     ELSE IF b = 4 * c0 + 3 THEN G!Alpha(c0, r0)
                     ELSE normalicon[r0][b]
      BY <1>5, <2>2, FourBytes
    <3> HIDE DEF new
    <3> QED BY <2>1, <3>1
  <2>4. normalicon' = [normalicon EXCEPT ![r0] = new]
    BY <1>4
  <2> HIDE DEF new
  <2>5. \A r \in 0..(height - 1) :
          normalicon'[r] = IF r = r0 THEN new ELSE normalicon[r]
    BY <1>6, <2>4
  <2> QED BY <2>3, <2>5
<1>8. GreyTypes'
  <2>1. G!Alpha(c0, r0) \in Bytes /\ G!Grey(c0, r0) \in Bytes
    BY <1>1 DEF Bytes, G!Alpha, G!Grey
  <2>2. normalicon' \in [0..(height - 1) -> [0..(4 * width - 1) -> Bytes]]
    <3> HIDE DEF c0, r0
    <3> QED BY <1>4, <1>6, <2>1
  <2> QED BY <1>1, <1>2, <2>2 DEF GreyTypes
<1>9. Unread'
  <2> SUFFICES ASSUME NEW r \in 0..(height - 1), NEW c \in 0..(width - 1),
                      r > r0 \/ (r = r0 /\ c < c0)
               PROVE  /\ normalicon'[r][2 * c] = G!Grey(c, r)
                      /\ normalicon'[r][2 * c + 1] = G!Alpha(c, r)
    BY <1>1, <1>2 DEF Unread, G!Line, G!Grey, G!Alpha
  <2>1. /\ 2 * c \in 0..(4 * width - 1) /\ 2 * c + 1 \in 0..(4 * width - 1)
        /\ r = r0 => 2 * c + 1 < 4 * c0
    BY <1>1
  <2>2. normalicon'[r][2 * c] = normalicon[r][2 * c]
        /\ normalicon'[r][2 * c + 1] = normalicon[r][2 * c + 1]
    <3> HIDE DEF c0, r0
    <3> QED BY <1>1, <1>7, <2>1
  <2> QED BY <1>1, <2>2 DEF GInv, Unread
<1>10. Written'
  <2> SUFFICES ASSUME NEW r \in 0..(height - 1), NEW c \in 0..(width - 1),
                      (r < r0 /\ c > 0) \/ (r = r0 /\ c >= c0)
               PROVE  /\ \A b \in 0..2 : normalicon'[r][4 * c + b] = G!Grey(c, r)
                      /\ normalicon'[r][4 * c + 3] = G!Alpha(c, r)
    BY <1>1, <1>2 DEF Written, G!Line, G!Grey, G!Alpha
  <2>1. \A b \in 0..3 : 4 * c + b \in 0..(4 * width - 1)
    BY <1>1
  <2>2. CASE r = r0 /\ c = c0
    <3> HIDE DEF c0, r0
    <3> QED BY <1>1, <1>7, <2>1, <2>2
  <2>3. CASE ~(r = r0 /\ c = c0)
    <3>1. \A b \in 0..3 : r = r0 => 4 * c + b > 4 * c0 + 3
      BY <1>1, <2>3
    <3>2. \A b \in 0..3 : normalicon'[r][4 * c + b] = normalicon[r][4 * c + b]
      <4> HIDE DEF c0, r0
      <4> QED BY <1>1, <1>7, <2>1, <3>1
    <3>3. /\ \A b \in 0..2 : normalicon[r][4 * c + b] = G!Grey(c, r)
          /\ normalicon[r][4 * c + 3] = G!Alpha(c, r)
      BY <1>1, <2>3 DEF GInv, Written
    <3> QED BY <3>2, <3>3
  <2> QED BY <2>2, <2>3
<1> QED BY <1>8, <1>9, <1>10 DEF GInv

LEMMA NextGInv == GInv /\ [G!Next]_greyVars => GInv'
<1>1. GInv /\ UNCHANGED greyVars => GInv'
  BY DEF greyVars, GInv, GreyTypes, Unread, Written, G!Line, G!Grey, G!Alpha
<1>2. GInv /\ G!NextLine => GInv'
  <2> SUFFICES ASSUME GInv, G!NextLine PROVE GInv'
    OBVIOUS
  <2>1. /\ lines > 1 /\ columns = 1 /\ lines' = lines - 1 /\ columns' = width
        /\ to' = 4 * width /\ from' = 2 * width
        /\ UNCHANGED <<width, height, normalicon>>
    BY DEF G!NextLine
  <2>2. GreyTypes'
    BY <2>1 DEF GInv, GreyTypes
  <2>3. Unread'
    BY <2>1 DEF GInv, GreyTypes, Unread, G!Line, G!Grey, G!Alpha
  <2>4. Written'
    BY <2>1 DEF GInv, GreyTypes, Written, G!Line, G!Grey, G!Alpha
  <2> QED BY <2>2, <2>3, <2>4 DEF GInv
<1> QED BY <1>1, <1>2, ExpandGInv DEF G!Next

LEMMA GInvExpanded == GInv => G!ExpandedInPlace
<1> SUFFICES ASSUME GInv, NEW r \in 0..(height - 1), NEW c \in 1..(width - 1),
                    r < G!Line \/ (r = G!Line /\ lines > 1 /\ c >= columns)
             PROVE  G!Pixel(c, r) = G!Expanded(c, r)
  BY DEF G!ExpandedInPlace
<1>1. c \in 0..(width - 1) /\ c > 0
  BY DEF GInv, GreyTypes
<1>2. /\ \A b \in 0..2 : normalicon[r][4 * c + b] = G!Grey(c, r)
      /\ normalicon[r][4 * c + 3] = G!Alpha(c, r)
  BY <1>1 DEF GInv, Written
<1> QED BY <1>2 DEF G!Pixel, G!Expanded

(* Slot::loadIcon expands a grey image of any size without overwriting a   *)
(* byte that it has not read yet.                                          *)
THEOREM GreyIsExpanded == Spec => []ExpandedInPlace
<1>1. Init => (module = "GreyImage" => GInv)
  BY InitGInv, ImagesAssumption DEF Init
<1>2. /\ module = "GreyImage" => GInv
      /\ [Next]_<<module, markVars, greyVars, blendVars, slitVars>>
      => (module = "GreyImage" => GInv)'
  BY NextGInv DEF Next
<1>3. (module = "GreyImage" => GInv) => ExpandedInPlace
  BY GInvExpanded DEF ExpandedInPlace
<1> QED BY <1>1, <1>2, <1>3, PTL DEF Spec

-----------------------------------------------------------------------------
(* Blend: the channels of a pixel                                          *)

Byte == {v \in Nat : v <= 255}
Sums == {v \in Nat : v <= 510}   \* of two bytes

SourceTyped ==
  source \in [value : Byte, others : Sums, alpha : Byte, marked : BOOLEAN]

(* The channels are bytes of the color depth, and between their ends.      *)
BlendTypes ==
  /\ SourceTyped
  /\ ground \in Byte /\ B!Kept(ground) = ground
  /\ channel \in Byte /\ B!Kept(channel) = channel
  /\ fading \in 0..Complete

BInv == BlendTypes /\ B!InRange

LEMMA KeptByte ==
  ASSUME NEW v \in Byte
  PROVE  /\ B!Kept(v) \in Byte /\ B!Kept(B!Kept(v)) = B!Kept(v)
         /\ \A w \in Byte : v <= w => B!Kept(v) <= B!Kept(w)
BY DEF B!Kept, Byte

LEMMA PartOfWay ==
  ASSUME NEW way \in Nat, NEW m \in Nat \ {0}, NEW n \in 0..m
  PROVE  (way * n) \div m \in 0..way
<1>1. way * n \in Nat /\ way * m \in Nat /\ way * n <= way * m
  <2>1. PICK d \in Nat : m = n + d
    <3>1. m - n \in Nat /\ m = n + (m - n)
      OBVIOUS
    <3> QED BY <3>1
  <2>2. way * m = way * n + way * d /\ way * n \in Nat /\ way * d \in Nat
    BY <2>1
  <2> QED BY <2>2
<1> DEFINE part == (way * n) \div m
<1>2. part \in Nat /\ m * part <= way * n
  BY <1>1
<1>3. part <= way
  <2> SUFFICES ASSUME part > way PROVE FALSE
    BY <1>2
  <2> HIDE DEF part
  <2>1. PICK e \in Nat : part = way + 1 + e
    <3>1. part - way - 1 \in Nat /\ part = way + 1 + (part - way - 1)
      BY <1>2
    <3> QED BY <3>1
  <2>2. m * part = way * m + m + m * e /\ m * e \in Nat
    BY <1>1, <2>1
  <2> QED BY <1>1, <1>2, <2>2
<1> QED BY <1>2, <1>3

Between(v, a, b) == (a <= v /\ v <= b) \/ (b <= v /\ v <= a)

(* B!Moved in parts.                                                       *)
Way(a, s) == IF s < a THEN a - s ELSE s - a
Sum(a, s, p) == (IF s < a THEN a - p ELSE a + p) % 256
Parts(way, n, m) ==
  IF (way * n) % m = 0 /\ (way * n) \div m > 0
  THEN {(way * n) \div m - 1, (way * n) \div m} ELSE {(way * n) \div m}

LEMMA PartsOfWay ==
  ASSUME NEW way \in Nat, NEW m \in Nat \ {0}, NEW n \in 0..m
  PROVE  Parts(way, n, m) \subseteq 0..way
<1> DEFINE part == (way * n) \div m
<1>1. part \in 0..way
  BY PartOfWay
<1>2. Parts(way, n, m) = {part} \/ (part > 0 /\ Parts(way, n, m) = {part - 1, part})
  BY DEF Parts
<1> HIDE DEF part
<1> QED BY <1>1, <1>2

(* What is added to a byte is a part of the way to another, so that the sum*)
(* stays between the two.                                                  *)
LEMMA SumBetween ==
  ASSUME NEW a \in Byte, NEW s \in Byte, NEW p \in 0..Way(a, s)
  PROVE  Sum(a, s, p) \in Byte /\ Between(Sum(a, s, p), a, s)
<1>1. CASE s < a
  <2>1. a - p \in 0..255 /\ s <= a - p /\ a - p <= a
    BY <1>1 DEF Byte, Way
  <2>2. Sum(a, s, p) = a - p
    BY <1>1, <2>1 DEF Sum
  <2> QED BY <2>1, <2>2 DEF Between, Byte
<1>2. CASE ~(s < a)
  <2>1. a + p \in 0..255 /\ a <= a + p /\ a + p <= s
    BY <1>2 DEF Byte, Way
  <2>2. Sum(a, s, p) = a + p
    BY <1>2, <2>1 DEF Sum
  <2> QED BY <2>1, <2>2 DEF Between, Byte
<1> QED BY <1>1, <1>2

LEMMA MovedBetween ==
  ASSUME NEW a \in Byte, NEW s \in Byte, NEW m \in Nat \ {0}, NEW n \in 0..m
  PROVE  \A v \in B!Moved(a, s, n, m) : v \in Byte /\ Between(v, a, s)
<1>1. Way(a, s) \in Nat
  BY DEF Way, Byte
<1>2. Parts(Way(a, s), n, m) \subseteq 0..Way(a, s)
  BY <1>1, PartsOfWay, Zenon
<1>3. B!Moved(a, s, n, m) = {Sum(a, s, p) : p \in Parts(Way(a, s), n, m)}
  BY DEF B!Moved, Sum, Parts, Way
<1>4. \A p \in 0..Way(a, s) : Sum(a, s, p) \in Byte /\ Between(Sum(a, s, p), a, s)
  BY SumBetween, Zenon
<1> QED BY <1>2, <1>3, <1>4, Zenon

LEMMA KeptBetween ==
  ASSUME NEW a \in Byte, NEW b \in Byte, NEW v \in Byte, Between(v, a, b)
  PROVE  Between(B!Kept(v), B!Kept(a), B!Kept(b))
BY KeptByte DEF Between

LEMMA BlendedBetween ==
  ASSUME NEW a \in Byte, B!Kept(a) = a, NEW s \in Byte,
         NEW m \in Nat \ {0}, NEW n \in 0..m
  PROVE  \A v \in B!Blended(a, s, n, m) :
           v \in Byte /\ B!Kept(v) = v /\ Between(v, a, B!Kept(s))
<1> SUFFICES ASSUME NEW w \in B!Moved(a, s, n, m)
             PROVE  /\ B!Kept(w) \in Byte /\ B!Kept(B!Kept(w)) = B!Kept(w)
                    /\ Between(B!Kept(w), a, B!Kept(s))
  BY DEF B!Blended
<1>1. w \in Byte /\ Between(w, a, s)
  BY MovedBetween, Zenon
<1>2. Between(B!Kept(w), B!Kept(a), B!Kept(s))
  BY <1>1, KeptBetween, Zenon
<1>3. B!Kept(w) \in Byte /\ B!Kept(B!Kept(w)) = B!Kept(w)
  BY <1>1, KeptByte, Zenon
<1> QED BY <1>2, <1>3, Zenon

LEMMA FadeOffsetOfBlend ==
  ASSUME NEW i \in Nat
  PROVE  B!FadeOffset(i) \in 0..Complete
<1> DEFINE start == 256 * B!FixedPoint
<1>1. start \in Nat /\ start = 67108864
  BY SMT DEF B!FixedPoint
<1>2. start \in Nat
  BY <1>1, SMT
<1>3. B!Quotient = CHOOSE g : g = [k \in Nat |-> IF k = 0 THEN start
                                                 ELSE (g[k - 1] * 20) \div 21]
  BY DEF B!Quotient
<1> HIDE DEF start
<1>4. B!Quotient = [k \in Nat |-> IF k = 0 THEN start
                                   ELSE (B!Quotient[k - 1] * 20) \div 21]
  BY <1>2, <1>3, PowersUnfold
<1>5. /\ B!Quotient \in [Nat -> Nat]
      /\ B!Quotient[0] = start
      /\ \A n \in Nat : B!Quotient[n + 1] = (B!Quotient[n] * 20) \div 21
  BY <1>2, <1>4, PowersValues
<1>6. B!Quotient[0] = 67108864
  BY <1>1, <1>5, SMT
<1>7. \A n \in Nat : B!Quotient[n + 1] <= 63913204
  BY <1>5, <1>6, PowersFall
<1>8. B!IdleTicks(i) \in Nat
  BY SMT DEF B!IdleTicks, B!Suspend
<1>9. B!Quotient[B!IdleTicks(i) + 1] \in Nat /\ B!Quotient[B!IdleTicks(i) + 1] <= 63913204
  BY <1>5, <1>7, <1>8, SMT
<1> QED BY <1>9, SMT DEF B!FadeOffset, B!FixedPoint, Complete

LEMMA FadeStepOfBlend ==
  ASSUME NEW f \in 0..Complete
  PROVE  B!FadeStep(f) \in 0..Complete
BY DEF B!FadeStep, B!Complete, Complete

InHull(v, ends) == \E low, high \in ends : low <= v /\ v <= high

(* A value between two that are between the ends is between the ends.      *)
LEMMA StaysInHull ==
  ASSUME NEW ends \in SUBSET Byte, NEW a \in Byte, NEW v \in Byte, NEW goal \in ends,
         InHull(a, ends), Between(v, a, goal)
  PROVE  InHull(v, ends)
<1>1. PICK low \in ends, high \in ends : low <= a /\ a <= high
  BY DEF InHull
<1>2. low \in Nat /\ high \in Nat /\ goal \in Nat /\ a \in Nat /\ v \in Nat
  BY DEF Byte
<1>3. (low <= v /\ v <= goal) \/ (goal <= v /\ v <= high)
  BY <1>1, <1>2 DEF Between
<1> QED BY <1>3 DEF InHull

(* The mark inverts, which turns the order round and is undone by another  *)
(* mark.                                                                   *)
LEMMA InverseByte ==
  ASSUME NEW v \in Byte
  PROVE  /\ B!Inverse(v) \in Byte /\ B!Kept(B!Inverse(v)) = B!Inverse(v)
         /\ \A w \in Byte : v <= w => B!Inverse(w) <= B!Inverse(v)
         /\ B!Kept(v) = v => B!Inverse(B!Inverse(v)) = v
<1>1. 255 - v \in Byte /\ \A w \in Byte : 255 - w \in Byte
  BY DEF Byte
<1>2. \A w \in Byte : v <= w => 255 - w <= 255 - v
  BY DEF Byte
<1>3. \A w \in Byte : v <= w => B!Kept(255 - w) <= B!Kept(255 - v)
  BY <1>1, <1>2, KeptByte
<1>4. B!Kept(v) = v => B!Kept(255 - B!Kept(255 - v)) = v
  <2>1. CASE bits = 16
    <3> SUFFICES ASSUME (v \div 8) * 8 = v
                 PROVE  ((255 - ((255 - v) \div 8) * 8) \div 8) * 8 = v
      BY <2>1 DEF B!Kept
    <3>1. PICK k \in 0..31 : v = 8 * k
      <4>1. v \div 8 \in 0..31 /\ v = 8 * (v \div 8)
        BY DEF Byte
      <4> QED BY <4>1
    <3>2. (255 - v) \div 8 = 31 - k
      BY <3>1
    <3> QED BY <3>1, <3>2
  <2>2. CASE bits # 16
    BY <2>2 DEF B!Kept, Byte
  <2> QED BY <2>1, <2>2
<1> QED BY <1>1, <1>3, <1>4, KeptByte DEF B!Inverse

LEMMA GreyByte ==
  ASSUME SourceTyped
  PROVE  /\ B!Grey \in Byte /\ source.value \in Byte
         /\ B!Kept(B!Grey) \in Byte /\ B!Kept(source.value) \in Byte
<1>1. source.value \in Byte /\ source.others \in Sums
  BY DEF SourceTyped
<1>2. B!Grey \in Byte
  BY <1>1, SMT DEF B!Grey, Byte, Sums
<1> QED BY <1>1, <1>2, KeptByte, Zenon

LEMMA AlphaTimesFading ==
  ASSUME SourceTyped, NEW f \in 0..Complete
  PROVE  source.alpha * f \in Nat /\ source.alpha * f <= 65025
<1>1. source.alpha \in Nat /\ source.alpha <= 255 /\ f \in Nat /\ f <= 255
  BY SMT DEF SourceTyped, Byte, Complete
<1>2. ASSUME NEW i \in Nat, NEW j \in Nat, i <= 255, j <= 255
      PROVE  i * j \in Nat /\ i * j <= 65025
  <2>1. PICK d \in Nat : i + d = 255
    <3>1. 255 - i \in Nat /\ i + (255 - i) = 255
      BY <1>2, SMT
    <3> QED BY <3>1, SMT
  <2>2. (i + d) * j = i * j + d * j /\ i * j \in Nat /\ d * j \in Nat
    BY <2>1, SMT
  <2> QED BY <1>2, <2>1, <2>2, SMT
<1> QED BY <1>1, <1>2, SMT

LEMMA GhostedBetween ==
  ASSUME SourceTyped, NEW a \in Byte, B!Kept(a) = a, NEW f \in 0..Complete
  PROVE  \A v \in B!Ghosted(a, f) :
           v \in Byte /\ B!Kept(v) = v /\ Between(v, a, B!Kept(B!Grey))
<1>1. Between(a, a, B!Kept(B!Grey))
  BY GreyByte DEF Between, Byte
<1>2. source.alpha * f \in Nat /\ source.alpha * f <= 65025
  BY AlphaTimesFading
<1>3. \A v \in B!Blended(a, B!Grey, source.alpha * f, 65025) :
        v \in Byte /\ B!Kept(v) = v /\ Between(v, a, B!Kept(B!Grey))
  <2> DEFINE m == 65025
  <2>1. m \in Nat \ {0}
    BY SMT
  <2>2. source.alpha * f <= m
    BY <1>2, SMT
  <2> HIDE DEF m
  <2>4. source.alpha * f \in 0..m
    BY <1>2, <2>1, <2>2, SMT
  <2>3. \A v \in B!Blended(a, B!Grey, source.alpha * f, m) :
          v \in Byte /\ B!Kept(v) = v /\ Between(v, a, B!Kept(B!Grey))
    BY <2>1, <2>4, GreyByte, BlendedBetween, Zenon
  <2> QED BY <2>3, SMT DEF m
<1> QED BY <1>1, <1>3, SMT DEF B!Ghosted

LEMMA OpaqueBetween ==
  ASSUME SourceTyped, NEW a \in Byte, B!Kept(a) = a
  PROVE  \A v \in B!Opaque(a) :
           v \in Byte /\ B!Kept(v) = v /\ Between(v, a, B!Kept(source.value))
<1> DEFINE m == 255
<1>1. m \in Nat \ {0} /\ source.alpha \in 0..m
  BY SMT DEF SourceTyped, Byte
<1>2. B!Opaque(a) = {a} \/ B!Opaque(a) = {B!Kept(source.value)}
      \/ B!Opaque(a) = B!Blended(a, source.value, source.alpha, m)
  BY SMT DEF B!Opaque
<1> HIDE DEF m
<1>3. Between(a, a, B!Kept(source.value))
      /\ Between(B!Kept(source.value), a, B!Kept(source.value))
  BY GreyByte DEF Between, Byte
<1>4. B!Kept(B!Kept(source.value)) = B!Kept(source.value) /\ B!Kept(source.value) \in Byte
  BY GreyByte, KeptByte, Zenon
<1>5. \A v \in B!Blended(a, source.value, source.alpha, m) :
        v \in Byte /\ B!Kept(v) = v /\ Between(v, a, B!Kept(source.value))
  BY <1>1, GreyByte, BlendedBetween, Zenon
<1> QED BY <1>2, <1>3, <1>4, <1>5, Zenon

(* All that may go into a picture.                                         *)
AllEnds ==
  LET all == {ground, B!Kept(B!Grey), B!Kept(source.value)}
  IN  IF source.marked THEN all \cup {B!Inverse(v) : v \in all} ELSE all

LEMMA AllEndsAre ==
  ASSUME BlendTypes
  PROVE  /\ AllEnds \in SUBSET Byte
         /\ {ground, B!Kept(B!Grey), B!Kept(source.value)} \subseteq AllEnds
         /\ source.marked => \A v \in AllEnds : B!Inverse(v) \in AllEnds
<1> DEFINE all == {ground, B!Kept(B!Grey), B!Kept(source.value)}
<1>1. \A v \in all : v \in Byte /\ B!Kept(v) = v
  BY GreyByte, KeptByte, Zenon DEF BlendTypes
<1>2. AllEnds = IF source.marked THEN all \cup {B!Inverse(v) : v \in all} ELSE all
  BY DEF AllEnds
<1>3. all \subseteq AllEnds
  BY <1>2
<1> HIDE DEF all
<1>4. AllEnds \subseteq Byte
  BY <1>1, <1>2, InverseByte
<1>5. ASSUME source.marked, NEW v \in AllEnds PROVE B!Inverse(v) \in AllEnds
  <2>1. CASE v \in all
    BY <1>2, <1>5, <2>1
  <2>2. CASE v \notin all
    <3>1. PICK w \in all : v = B!Inverse(w)
      BY <1>2, <1>5, <2>2
    <3>2. B!Inverse(v) = w
      BY <1>1, <3>1, InverseByte
    <3> QED BY <1>3, <3>2
  <2> QED BY <2>1, <2>2
<1> QED BY <1>3, <1>4, <1>5 DEF all

(* What a picture is drawn upon.                                           *)
LEMMA WithMarkByte ==
  ASSUME NEW a \in Byte, B!Kept(a) = a, NEW runs
  PROVE  B!WithMark(a, runs) \in Byte /\ B!Kept(B!WithMark(a, runs)) = B!WithMark(a, runs)
BY InverseByte DEF B!WithMark

LEMMA WithMarkInHull ==
  ASSUME BlendTypes, NEW a \in Byte, InHull(a, AllEnds), NEW runs
  PROVE  InHull(B!WithMark(a, runs), AllEnds)
<1>1. CASE ~(runs /\ source.marked)
  BY <1>1 DEF B!WithMark
<1>2. CASE runs /\ source.marked
  <2>1. PICK low \in AllEnds, high \in AllEnds : low <= a /\ a <= high
    BY DEF InHull
  <2>2. low \in Byte /\ high \in Byte
    BY AllEndsAre
  <2>3. B!Inverse(high) <= B!Inverse(a) /\ B!Inverse(a) <= B!Inverse(low)
    BY <2>1, <2>2, InverseByte
  <2>4. B!Inverse(low) \in AllEnds /\ B!Inverse(high) \in AllEnds
    BY <1>2, AllEndsAre
  <2>5. B!WithMark(a, runs) = B!Inverse(a)
    BY <1>2 DEF B!WithMark
  <2> QED BY <2>3, <2>4, <2>5 DEF InHull
<1> QED BY <1>1, <1>2

LEMMA RangeOfAll ==
  ASSUME BInv
  PROVE  InHull(channel, AllEnds)
<1>1. BlendTypes /\ \E low, high \in B!Ends : low <= channel /\ channel <= high
  BY DEF BInv, B!InRange
<1>2. B!Ends \subseteq AllEnds
  <2>1. CASE clean
    <3>1. B!Ends = {B!WithMark(ground, running), B!Goal}
      BY <2>1 DEF B!Ends
    <3>2. B!Goal \in AllEnds
      BY <1>1, AllEndsAre DEF B!Goal
    <3>3. B!WithMark(ground, running) \in AllEnds
      BY <1>1, AllEndsAre DEF B!WithMark
    <3> QED BY <3>1, <3>2, <3>3
  <2>2. CASE ~clean
    BY <2>2 DEF B!Ends, AllEnds
  <2> QED BY <2>1, <2>2
<1> QED BY <1>1, <1>2 DEF InHull

LEMMA InitBInv == B!BlendAssumption /\ B!Init => BInv
<1> SUFFICES ASSUME B!BlendAssumption, B!Init PROVE BInv
  OBVIOUS
<1>1. Levels \subseteq Byte /\ Alphas \subseteq Byte
  BY DEF B!BlendAssumption, Byte
<1>2. SourceTyped
  <2>1. ASSUME NEW v \in Byte, NEW w \in Byte PROVE v + w \in Sums
    BY SMT DEF Byte, Sums
  <2>2. {v + w : v, w \in Levels} \subseteq Sums
    BY <1>1, <2>1
  <2> QED BY <1>1, <2>2 DEF B!Init, SourceTyped
<1>3. ground \in Byte /\ B!Kept(ground) = ground
  BY <1>1, KeptByte DEF B!Init
<1>4. channel \in Byte /\ B!Kept(channel) = channel
      /\ Between(channel, ground, B!Kept(source.value))
  BY <1>2, <1>3, OpaqueBetween DEF B!Init
<1>5. fading \in 0..Complete
  BY SMT DEF B!Init, B!Complete, Complete
<1>6. B!InRange
  <2>1. B!Ends = {ground, B!Goal} /\ B!Goal = B!Kept(source.value)
    <3>1. ~(fading < B!Complete)
      BY SMT DEF B!Init, B!Complete
    <3> QED BY <3>1 DEF B!Init, B!Ends, B!Goal, B!WithMark
  <2> QED BY <1>4, <2>1 DEF B!InRange, Between
<1> QED BY <1>2, <1>3, <1>4, <1>5, <1>6 DEF BInv, BlendTypes

LEMMA DrawBInv ==
  ASSUME B!BlendAssumption, BInv, B!Draw, fading' \in 0..Complete
  PROVE  BInv'
<1> DEFINE under == IF clean' THEN ground' ELSE channel
           a == B!WithMark(under, running')
           goal == B!Kept(IF fading' < B!Complete THEN B!Grey ELSE source.value)
<1>1. UNCHANGED <<bits, source>> /\ SourceTyped /\ SourceTyped'
  BY DEF B!Draw, BInv, BlendTypes, SourceTyped
<1>2. /\ B!Kept(ground)' = B!Kept(ground') /\ B!Kept(channel)' = B!Kept(channel')
      /\ B!Goal' = goal
  BY <1>1 DEF B!Kept, B!Grey, B!Goal, B!Complete
<1>3. ground \in Byte /\ B!Kept(ground) = ground /\ channel \in Byte /\ B!Kept(channel) = channel
  BY DEF BInv, BlendTypes
<1>4. ground' \in Byte /\ B!Kept(ground') = ground'
  <2>1. \A v \in Levels : v \in Byte
    BY DEF B!BlendAssumption, Byte
  <2>2. ground' = ground \/ \E v \in Levels : ground' = B!Kept(v)
    BY DEF B!Draw
  <2> QED BY <1>3, <2>1, <2>2, KeptByte, Zenon
<1>5. a \in Byte /\ B!Kept(a) = a
  <2>1. under \in Byte /\ B!Kept(under) = under
    BY <1>3, <1>4, Zenon
  <2> HIDE DEF under
  <2> QED BY <2>1, WithMarkByte
<1>6. /\ fading' < B!Complete => channel' \in B!Ghosted(a, fading')
      /\ ~(fading' < B!Complete) => channel' \in B!Opaque(a)
  BY DEF B!Draw
<1> HIDE DEF a
<1>7. channel' \in Byte /\ B!Kept(channel') = channel' /\ Between(channel', a, goal)
  <2>1. CASE fading' < B!Complete
    BY <1>1, <1>5, <1>6, <2>1, GhostedBetween, Zenon
  <2>2. CASE ~(fading' < B!Complete)
    BY <1>1, <1>5, <1>6, <2>2, OpaqueBetween, Zenon
  <2> QED BY <2>1, <2>2
<1>8. B!InRange'
  <2>1. CASE clean'
    <3>1. B!Ends' = {a, goal}
      <4>1. B!WithMark(ground, running)' = B!WithMark(ground', running')
        BY <1>1 DEF B!WithMark, B!Inverse, B!Kept
      <4>2. B!Ends' = {B!WithMark(ground, running)', B!Goal'}
        BY <2>1 DEF B!Ends
      <4> QED BY <1>2, <2>1, <4>1, <4>2 DEF a
    <3> HIDE DEF goal
    <3> QED BY <1>7, <3>1 DEF B!InRange, Between
  <2>2. CASE ~clean'
    <3>1. ground' = ground /\ BlendTypes
      BY <2>2 DEF B!Draw, BInv
    <3>2. B!Ends' = AllEnds
      <4>1. B!Kept(B!Grey)' = B!Kept(B!Grey)
            /\ B!Kept(source.value)' = B!Kept(source.value)
        BY <1>1 DEF B!Kept, B!Grey
      <4>2. \A v : B!Kept(255 - v)' = B!Kept(255 - v)
        BY <1>1 DEF B!Kept
      <4> QED BY <1>1, <2>2, <3>1, <4>1 DEF B!Ends, AllEnds, B!Inverse, B!Kept, B!Grey
    <3>3. InHull(a, AllEnds)
      BY <1>3, <2>2, <3>1, RangeOfAll, WithMarkInHull DEF a
    <3>4. goal \in AllEnds /\ AllEnds \in SUBSET Byte
      BY <3>1, AllEndsAre
    <3>5. InHull(channel', AllEnds)
      <4> HIDE DEF goal
      <4> QED BY <1>5, <1>7, <3>3, <3>4, StaysInHull
    <3> QED BY <3>2, <3>5 DEF B!InRange, InHull
  <2> QED BY <2>1, <2>2
<1>9. BlendTypes'
  BY <1>1, <1>2, <1>4, <1>7 DEF BlendTypes
<1> QED BY <1>8, <1>9 DEF BInv

LEMMA NextBInv == B!BlendAssumption /\ BInv /\ [B!Next]_blendVars => BInv'
<1> SUFFICES ASSUME B!BlendAssumption, BInv, [B!Next]_blendVars PROVE BInv'
  OBVIOUS
<1>1. fading \in 0..Complete
  BY DEF BInv, BlendTypes
<1>2. CASE UNCHANGED blendVars
  BY <1>2 DEF blendVars, BInv, BlendTypes, SourceTyped, B!InRange, B!Ends, B!Goal,
              B!WithMark, B!Inverse, B!Kept, B!Grey, B!Complete
<1>3. CASE B!Launch
  <2>1. PICK i \in Idles : fading' = B!FadeOffset(i)
    BY <1>3 DEF B!Launch
  <2>2. i \in Nat
    BY DEF B!BlendAssumption
  <2>3. B!Draw
    BY <1>3 DEF B!Launch
  <2> QED BY <2>1, <2>2, <2>3, FadeOffsetOfBlend, DrawBInv
<1>4. CASE B!Tick
  BY <1>1, <1>4, FadeStepOfBlend, DrawBInv DEF B!Tick
<1>5. CASE B!Redraw
  BY <1>1, <1>5, DrawBInv DEF B!Redraw
<1>6. CASE B!Ended
  <2>1. B!Draw /\ fading' = B!Complete
    BY <1>6 DEF B!Ended
  <2>2. fading' \in 0..Complete
    BY <2>1, SMT DEF B!Complete, Complete
  <2> QED BY <2>1, <2>2, DrawBInv
<1> QED BY <1>2, <1>3, <1>4, <1>5, <1>6 DEF B!Next

(* However often and upon whatever an icon is drawn, opaque or ghosted, no *)
(* addition to a byte of its picture wraps around.                         *)
THEOREM ChannelsInRange == Spec => []InRange
<1>1. Init => (module = "Blend" => BInv)
  BY InitBInv, ImagesAssumption DEF Init
<1>2. /\ module = "Blend" => BInv
      /\ [Next]_<<module, markVars, greyVars, blendVars, slitVars>>
      => (module = "Blend" => BInv)'
  BY NextBInv, ImagesAssumption DEF Next
<1>3. (module = "Blend" => BInv) => InRange
  BY DEF InRange, BInv
<1> QED BY <1>1, <1>2, <1>3, PTL DEF Spec

(* A picture with a background is that of the state of the fade-in.        *)
PictureOfFading ==
  clean /\ fading < B!Complete => channel \in B!Ghosted(B!WithMark(ground, running), fading)

(* A larger part takes the icon at least as far, even if only the smaller  *)
(* is rounded as it should be.                                             *)
LEMMA PartsGrow ==
  ASSUME NEW way \in Nat, NEW m \in Nat \ {0}, NEW n \in Nat, NEW k \in Nat, n < k,
         NEW p \in Parts(way, n, m), NEW q \in Parts(way, k, m)
  PROVE  p <= q
<1> DEFINE N == way * n
           K == way * k
<1>1. N \in Nat /\ K \in Nat /\ (N < K \/ (N = 0 /\ K = 0))
  <2>1. PICK d \in Nat : k = n + d + 1
    <3>1. k - n - 1 \in Nat /\ k = n + (k - n - 1) + 1
      OBVIOUS
    <3> QED BY <3>1
  <2>2. way * k = way * n + way * d + way /\ way * n \in Nat /\ way * d \in Nat
    BY <2>1
  <2>3. way = 0 => way * n = 0 /\ way * k = 0
    OBVIOUS
  <2> QED BY <2>2, <2>3
<1>2. /\ p = N \div m \/ (N \div m > 0 /\ p = N \div m - 1)
      /\ q = K \div m \/ (K % m = 0 /\ K \div m > 0 /\ q = K \div m - 1)
  BY DEF Parts
<1> HIDE DEF N, K
<1> DEFINE Q == N \div m
           R == K \div m
<1>3. /\ Q \in Nat /\ R \in Nat
      /\ m * Q <= N /\ N < m * Q + m /\ m * R <= K /\ K < m * R + m
      /\ K % m = 0 => K = m * R
  BY <1>1
<1> HIDE DEF Q, R
<1>4. ASSUME NEW i \in Nat, NEW j \in Nat, m * i < m * j PROVE i < j
  <2> SUFFICES ASSUME j <= i PROVE FALSE
    OBVIOUS
  <2>1. PICK e \in Nat : i = j + e
    <3>1. i - j \in Nat /\ i = j + (i - j)
      OBVIOUS
    <3> QED BY <3>1
  <2>2. m * i = m * j + m * e /\ m * e \in Nat /\ m * j \in Nat
    BY <2>1
  <2> QED BY <1>4, <2>2
<1>5. CASE N = 0 /\ K = 0
  <2>1. Q = 0 /\ R = 0
    BY <1>5 DEF Q, R
  <2> QED BY <1>2, <2>1 DEF Q, R
<1>6. CASE N < K
  <2>1. Q <= R
    <3>1. m * (R + 1) = m * R + m /\ m * R \in Nat /\ m * Q \in Nat
      BY <1>3
    <3>2. m * Q < m * (R + 1)
      BY <1>1, <1>3, <1>6, <3>1
    <3>3. R + 1 \in Nat
      BY <1>3
    <3>4. Q < R + 1
      BY <1>3, <1>4, <3>2, <3>3, Zenon
    <3> QED BY <1>3, <3>4
  <2>2. K % m = 0 => Q < R
    <3>1. ASSUME K % m = 0 PROVE m * Q < m * R
      <4>1. m * Q \in Nat
        BY <1>3
      <4> QED BY <1>1, <1>3, <1>6, <3>1, <4>1
    <3> QED BY <1>3, <1>4, <3>1, Zenon
  <2> QED BY <1>2, <1>3, <2>1, <2>2 DEF Q, R
<1> QED BY <1>1, <1>5, <1>6

LEMMA SumCloser ==
  ASSUME NEW a \in Byte, NEW s \in Byte, NEW p \in 0..Way(a, s), NEW q \in p..Way(a, s)
  PROVE  \/ s <= Sum(a, s, q) /\ Sum(a, s, q) <= Sum(a, s, p)
         \/ Sum(a, s, p) <= Sum(a, s, q) /\ Sum(a, s, q) <= s
<1>1. CASE s < a
  <2>1. a - p \in Byte /\ a - q \in Byte /\ s <= a - q /\ a - q <= a - p
    BY <1>1 DEF Byte, Way
  <2>2. Sum(a, s, p) = a - p /\ Sum(a, s, q) = a - q
    BY <1>1, <2>1 DEF Sum, Byte
  <2> QED BY <2>1, <2>2
<1>2. CASE ~(s < a)
  <2>1. a + p \in Byte /\ a + q \in Byte /\ a + p <= a + q /\ a + q <= s
    BY <1>2 DEF Byte, Way
  <2>2. Sum(a, s, p) = a + p /\ Sum(a, s, q) = a + q
    BY <1>2, <2>1 DEF Sum, Byte
  <2> QED BY <2>1, <2>2
<1> QED BY <1>1, <1>2

LEMMA BlendedCloser ==
  ASSUME NEW a \in Byte, B!Kept(a) = a, NEW s \in Byte, NEW m \in Nat \ {0},
         NEW k \in 0..m, NEW n \in Nat, n < k,
         NEW v \in B!Blended(a, s, n, m), NEW w \in B!Blended(a, s, k, m)
  PROVE  B!Distance(w, B!Kept(s)) <= B!Distance(v, B!Kept(s))
<1>1. Way(a, s) \in Nat /\ n \in 0..m /\ k \in Nat
  BY DEF Way, Byte
<1>2. /\ B!Moved(a, s, n, m) = {Sum(a, s, p) : p \in Parts(Way(a, s), n, m)}
      /\ B!Moved(a, s, k, m) = {Sum(a, s, p) : p \in Parts(Way(a, s), k, m)}
  BY DEF B!Moved, Sum, Parts, Way
<1>3. PICK p \in Parts(Way(a, s), n, m) : v = B!Kept(Sum(a, s, p))
  BY <1>2, Zenon DEF B!Blended
<1>4. PICK q \in Parts(Way(a, s), k, m) : w = B!Kept(Sum(a, s, q))
  BY <1>2, Zenon DEF B!Blended
<1>5. p \in 0..Way(a, s) /\ q \in 0..Way(a, s)
  BY <1>1, PartsOfWay, Zenon
<1>6. p <= q
  BY <1>1, PartsGrow, Zenon
<1>7. q \in p..Way(a, s)
  BY <1>1, <1>5, <1>6
<1> DEFINE x == Sum(a, s, p)
           z == Sum(a, s, q)
<1>8. x \in Byte /\ z \in Byte
  BY <1>5, SumBetween, Zenon
<1>9. (s <= z /\ z <= x) \/ (x <= z /\ z <= s)
  BY <1>5, <1>7, SumCloser, Zenon
<1> HIDE DEF x, z
<1>10. \/ B!Kept(s) <= B!Kept(z) /\ B!Kept(z) <= B!Kept(x)
       \/ B!Kept(x) <= B!Kept(z) /\ B!Kept(z) <= B!Kept(s)
  BY <1>8, <1>9, KeptByte, Zenon
<1>11. B!Kept(s) \in Nat /\ B!Kept(x) \in Nat /\ B!Kept(z) \in Nat
  BY <1>8, KeptByte DEF Byte
<1>12. v = B!Kept(x) /\ w = B!Kept(z)
  BY <1>3, <1>4 DEF x, z
<1> QED BY <1>10, <1>11, <1>12 DEF B!Distance

LEMMA GhostedCloser ==
  ASSUME SourceTyped, NEW a \in Byte, B!Kept(a) = a,
         NEW f \in Nat, NEW e \in 0..Complete, f < e,
         NEW v \in B!Ghosted(a, f), NEW w \in B!Ghosted(a, e)
  PROVE  B!Distance(w, B!Kept(B!Grey)) <= B!Distance(v, B!Kept(B!Grey))
<1>1. CASE source.alpha = 0
  <2>1. v = a /\ w = a
    BY <1>1 DEF B!Ghosted
  <2>2. a \in Nat /\ B!Kept(B!Grey) \in Nat
    BY GreyByte DEF Byte
  <2> QED BY <2>1, <2>2 DEF B!Distance
<1>2. CASE source.alpha # 0
  <2> DEFINE m == 65025
  <2>1. v \in B!Blended(a, B!Grey, source.alpha * f, m)
        /\ w \in B!Blended(a, B!Grey, source.alpha * e, m)
    BY <1>2, SMT DEF B!Ghosted
  <2>2. m \in Nat \ {0}
    BY SMT
  <2>3. source.alpha * e \in Nat /\ source.alpha * e <= m
    BY AlphaTimesFading
  <2> HIDE DEF m
  <2>4. source.alpha * e \in 0..m
    BY <2>2, <2>3
  <2>5. source.alpha * f \in Nat /\ source.alpha * f < source.alpha * e
    <3>1. source.alpha \in Nat \ {0} /\ e \in Nat
      BY <1>2 DEF SourceTyped, Byte
    <3>2. PICK d \in Nat : e = f + d + 1
      <4>1. e - f - 1 \in Nat /\ e = f + (e - f - 1) + 1
        BY <3>1
      <4> QED BY <4>1
    <3>3. /\ source.alpha * e = source.alpha * f + source.alpha * d + source.alpha
          /\ source.alpha * f \in Nat /\ source.alpha * d \in Nat
      BY <3>1, <3>2
    <3> QED BY <3>1, <3>3
  <2> QED BY <2>1, <2>2, <2>4, <2>5, GreyByte, BlendedCloser, Zenon
<1> QED BY <1>1, <1>2

(* From tick to tick the picture of a launched icon does not flicker.      *)
THEOREM FadesInSteadily == Spec => FadesIn
<1> DEFINE FInv == BInv /\ PictureOfFading
<1>1. B!BlendAssumption
  BY ImagesAssumption
<1>2. B!Init => FInv
  BY <1>1, InitBInv DEF B!Init, PictureOfFading, B!Complete
<1>3. B!Draw => PictureOfFading'
  BY DEF B!Draw, PictureOfFading, B!Ghosted, B!Blended, B!Moved, B!Kept, B!Grey,
         B!WithMark, B!Inverse
<1>4. FInv /\ [B!Next]_blendVars => FInv'
  <2>1. PictureOfFading /\ UNCHANGED blendVars => PictureOfFading'
    BY DEF blendVars, PictureOfFading, B!Ghosted, B!Blended, B!Moved, B!Kept, B!Grey,
           B!WithMark, B!Inverse
  <2>2. PictureOfFading /\ [B!Next]_blendVars => PictureOfFading'
    BY <1>3, <2>1 DEF B!Next, B!Launch, B!Ended, B!Tick, B!Redraw
  <2> QED BY <1>1, <2>2, NextBInv
<1>5. FInv /\ FInv' /\ B!Next => B!ComesCloser
  <2> SUFFICES ASSUME FInv, FInv', B!Next, clean, clean', ground' = ground,
                      fading < fading', fading' < B!Complete
               PROVE  B!Distance(channel', B!Kept(B!Grey))
                        <= B!Distance(channel, B!Kept(B!Grey))
    BY DEF B!ComesCloser
  <2>1. UNCHANGED <<bits, source>>
    BY DEF B!Next, B!Launch, B!Ended, B!Tick, B!Redraw, B!Draw
  <2>2. /\ SourceTyped /\ ground \in Byte /\ B!Kept(ground) = ground
        /\ fading \in 0..Complete /\ fading' \in 0..Complete
    BY DEF BInv, BlendTypes
  <2>3. fading < B!Complete /\ fading \in Nat /\ fading' # B!Complete
    BY <2>2, SMT DEF B!Complete, Complete
  <2>4. running' = running
    <3>1. ~B!Launch /\ ~B!Ended
      <4>1. fading # B!Complete
        BY <2>3, SMT DEF B!Complete
      <4> QED BY <2>3, <4>1 DEF B!Launch, B!Ended
    <3> QED BY <3>1 DEF B!Next, B!Tick, B!Redraw
  <2> DEFINE a == B!WithMark(ground, running)
  <2>5. a \in Byte /\ B!Kept(a) = a
    BY <2>2, WithMarkByte
  <2>6. channel \in B!Ghosted(a, fading)
    BY <2>3 DEF PictureOfFading
  <2>7. channel' \in B!Ghosted(a, fading')
    <3>1. channel' \in B!Ghosted(a, fading)'
      BY DEF PictureOfFading, B!Complete
    <3>2. B!Ghosted(a, fading)' = B!Ghosted(a, fading')
      BY <2>1, <2>4
         DEF B!Ghosted, B!Blended, B!Moved, B!Kept, B!Grey, B!WithMark, B!Inverse
    <3> QED BY <3>1, <3>2
  <2> HIDE DEF a
  <2> QED BY <2>2, <2>3, <2>5, <2>6, <2>7, GhostedCloser, Zenon
<1> HIDE DEF FInv
<1>6. Init => (module = "Blend" => FInv)
  BY <1>2 DEF Init
<1>7. /\ module = "Blend" => FInv
      /\ [Next]_<<module, markVars, greyVars, blendVars, slitVars>>
      => (module = "Blend" => FInv)'
  BY <1>4 DEF Next
<1>8. /\ module = "Blend" => FInv
      /\ (module = "Blend" => FInv)'
      /\ [Next]_<<module, markVars, greyVars, blendVars, slitVars>>
      => [module = "Blend" => B!ComesCloser]_blendVars
  BY <1>5 DEF Next
<1> QED BY <1>6, <1>7, <1>8, PTL DEF Spec, FadesIn

-----------------------------------------------------------------------------
(* Mark: the walk of Render::activeMark through the image                  *)

(* The row that is drawn next begins in the image, with room for all of the*)
(* columns of the mark and for the rows that follow.                       *)
WalkInside ==
  M!MarkFits /\ y < M!mark.height =>
    /\ dest \in Nat
    /\ dest + M!mark.width * M!BytesPerPixel
         <= (render.height - M!mark.height + y + 1) * M!BytesPerLine

MarkTypes ==
  /\ render \in [bits : {16, 24, 32}, width : Nat, height : Nat]
  /\ settings \in [mark : M!Marks, left : Int, top : Int]
  /\ y \in 0..M!mark.height

MInv == MarkTypes /\ WalkInside /\ M!InsideImage

LEMMA MarksTyped ==
  ASSUME NEW mark \in M!Marks
  PROVE  /\ mark.width \in Nat /\ mark.height \in Nat
         /\ \A r \in 0..(mark.height - 1) : mark.rows[r] \subseteq 0..(mark.width - 1)
<1>1. CASE mark = M!play
  BY <1>1 DEF M!play
<1>2. CASE mark = M!dots
  BY <1>2 DEF M!dots
<1>3. CASE mark = M!corner
  BY <1>3 DEF M!corner
<1>4. CASE mark = M!cross
  BY <1>4 DEF M!cross
<1> QED BY <1>1, <1>2, <1>3, <1>4 DEF M!Marks

LEMMA Columns ==
  ASSUME NEW w \in Nat, NEW set, set \subseteq 0..(w - 1)
  PROVE  /\ M!Cardinality(set) \in 0..w
         /\ \A x \in set : M!Cardinality({c \in set : c < x}) \in 0..x
<1>1. \A T : M!Cardinality(T) = Cardinality(T)
  BY DEF M!Cardinality, Cardinality
<1>2. ASSUME NEW n \in Nat, NEW T, T \subseteq 0..(n - 1)
      PROVE  Cardinality(T) \in 0..n
  <2>1. IsFiniteSet(0..(n - 1)) /\ Cardinality(0..(n - 1)) = n
    BY FS_Interval
  <2>2. IsFiniteSet(T) /\ Cardinality(T) <= n
    BY <1>2, <2>1, FS_Subset
  <2> QED BY <2>2, FS_CardinalityType
<1>3. ASSUME NEW x \in set PROVE Cardinality({c \in set : c < x}) \in 0..x
  <2>1. set \subseteq Nat /\ x \in Nat
    BY SMT
  <2>2. \A c \in set : c < x => c \in 0..(x - 1)
    BY <2>1
  <2>3. {c \in set : c < x} \subseteq 0..(x - 1)
    BY <2>2, Zenon
  <2> QED BY <1>2, <2>1, <2>3
<1> QED BY <1>1, <1>2, <1>3

LEMMA TimesMonotone ==
  ASSUME NEW i \in Nat, NEW j \in Nat, NEW k \in Nat, i <= j
  PROVE  i * k \in Nat /\ j * k \in Nat /\ i * k <= j * k
<1>1. PICK d \in Nat : j = i + d
  <2>1. j - i \in Nat /\ j = i + (j - i)
    OBVIOUS
  <2> QED BY <2>1
<1>2. (i + d) * k = i * k + d * k /\ i * k \in Nat /\ d * k \in Nat
  OBVIOUS
<1> QED BY <1>1, <1>2

(* Lines are as long as their pixels, at least.                            *)
LEMMA LinesHold ==
  ASSUME MarkTypes
  PROVE  /\ M!BytesPerPixel \in {2, 3, 4} /\ M!BytesPerLine \in Nat
         /\ render.bits = 16 => M!BytesPerPixel = 2
         /\ render.bits = 24 => M!BytesPerPixel = 3
         /\ render.bits = 32 => M!BytesPerPixel = 4
         /\ \A n \in 0..render.width : n * M!BytesPerPixel \in 0..M!BytesPerLine
<1>1. render.bits \in {16, 24, 32} /\ render.width \in Nat
  BY DEF MarkTypes
<1>2. /\ M!BytesPerPixel \in {2, 3, 4}
      /\ render.bits = 16 => M!BytesPerPixel = 2
      /\ render.bits = 24 => M!BytesPerPixel = 3
      /\ render.bits = 32 => M!BytesPerPixel = 4
  BY <1>1 DEF M!BytesPerPixel
<1>3. M!BytesPerLine \in Nat /\ render.width * M!BytesPerPixel <= M!BytesPerLine
      /\ render.width * M!BytesPerPixel \in Nat
  BY <1>1, <1>2 DEF M!BytesPerLine
<1>4. \A n \in 0..render.width : n * M!BytesPerPixel \in 0..M!BytesPerLine
  BY <1>1, <1>2, <1>3, TimesMonotone
<1> QED BY <1>2, <1>3, <1>4

(* Wherever the margins put the mark, it begins with room for all of it.   *)
LEMMA OffsetInside ==
  ASSUME MarkTypes, M!MarkFits
  PROVE  LET offset == M!GetOffset(settings.left, settings.top)
         IN  /\ offset \in Nat
             /\ offset + M!mark.width * M!BytesPerPixel
                  <= (render.height - M!mark.height + 1) * M!BytesPerLine
<1> DEFINE b == M!BytesPerPixel
           line == M!BytesPerLine
           w == render.width
           left == settings.left
           top == settings.top
           free == render.height - M!mark.height
           room == w - M!mark.width
           skipTop == IF top < 0 /\ free + top + 1 >= 0 THEN free + top + 1
                      ELSE IF top > 0 /\ top <= free THEN top ELSE 0
           skipLeft == IF left < 0 /\ room + left + 1 >= 0
                       THEN line - (M!mark.width - (left + 1)) * b
                       ELSE IF left > 0 /\ left <= room THEN left * b ELSE 0
<1>1. /\ b \in Nat /\ line \in Nat /\ w \in Nat /\ left \in Int /\ top \in Int
      /\ free \in Nat /\ room \in Nat /\ M!mark.width \in Nat
      /\ \A n \in 0..w : n * b \in 0..line
  <2>1. M!mark.width \in Nat /\ M!mark.height \in Nat
    BY MarksTyped DEF MarkTypes, M!mark
  <2> QED BY <2>1, LinesHold DEF MarkTypes, M!MarkFits
<1>2. M!GetOffset(left, top) = skipTop * line + skipLeft
  BY DEF M!GetOffset
<1>3. skipTop \in 0..free
  BY <1>1
<1>4. skipLeft \in Nat /\ skipLeft + M!mark.width * b <= line
  <2>1. M!mark.width * b \in 0..line /\ M!mark.width <= w
    BY <1>1
  <2>2. CASE left < 0 /\ room + left + 1 >= 0
    <3> DEFINE k == M!mark.width - (left + 1)
    <3>1. k \in 0..w /\ M!mark.width <= k
      BY <1>1, <2>2
    <3>2. skipLeft = line - k * b
      BY <2>2
    <3> HIDE DEF k
    <3>3. k * b \in 0..line /\ M!mark.width * b <= k * b
      BY <1>1, <3>1, TimesMonotone
    <3> HIDE DEF skipLeft
    <3> QED BY <1>1, <2>1, <3>2, <3>3
  <2>3. CASE ~(left < 0 /\ room + left + 1 >= 0) /\ left > 0 /\ left <= room
    <3>1. skipLeft = left * b
      BY <2>3
    <3>2. left \in 0..w /\ left + M!mark.width \in 0..w
      BY <1>1, <2>3
    <3>3. left * b \in 0..line /\ (left + M!mark.width) * b \in 0..line
      BY <1>1, <3>2
    <3>4. (left + M!mark.width) * b = left * b + M!mark.width * b
      BY <1>1, <3>2
    <3> HIDE DEF skipLeft
    <3> QED BY <1>1, <2>1, <3>1, <3>3, <3>4
  <2>4. CASE /\ ~(left < 0 /\ room + left + 1 >= 0)
             /\ ~(left > 0 /\ left <= room)
    <3>1. skipLeft = 0
      BY <2>4
    <3> HIDE DEF skipLeft
    <3> QED BY <2>1, <3>1
  <2> QED BY <2>2, <2>3, <2>4
<1> HIDE DEF skipTop, skipLeft, free
<1>5. skipTop * line \in Nat /\ skipTop * line <= free * line /\ free * line \in Nat
  BY <1>1, <1>3, TimesMonotone
<1>6. (free + 1) * line = free * line + line
  BY <1>1
<1>7. /\ skipTop * line + skipLeft \in Nat
      /\ (skipTop * line + skipLeft) + M!mark.width * b <= (free + 1) * line
  <2>1. M!mark.width * b \in Nat
    BY <1>1
  <2> QED BY <1>1, <1>4, <1>5, <1>6, <2>1
<1> QED BY <1>2, <1>7 DEF free

(* The bytes of a pixel of the mark are in the part of the line that is    *)
(* the mark's.                                                             *)
LEMMA PixelInside ==
  ASSUME MarkTypes, dest \in Nat, y < M!mark.height, NEW x \in M!mark.rows[y]
  PROVE  \A b \in M!Inverted(M!Position(x)) :
           b \in Nat /\ b < dest + M!mark.width * M!BytesPerPixel
<1>1. /\ M!mark.width \in Nat /\ M!mark.rows[y] \subseteq 0..(M!mark.width - 1)
      /\ y \in 0..(M!mark.height - 1)
  <2>1. M!mark \in M!Marks /\ y \in 0..M!mark.height
    BY DEF MarkTypes, M!mark
  <2>2. M!mark.width \in Nat /\ M!mark.height \in Nat
    BY <2>1, MarksTyped
  <2>3. y \in 0..(M!mark.height - 1)
    BY <2>1, <2>2
  <2> QED BY <2>1, <2>2, <2>3, MarksTyped
<1>2. x \in 0..(M!mark.width - 1)
  BY <1>1
<1>3. M!Cardinality({c \in M!mark.rows[y] : c < x}) \in 0..x
  BY <1>1, Columns
<1>4. render.bits \in {16, 24, 32}
  BY DEF MarkTypes
<1> DEFINE k == M!Cardinality({c \in M!mark.rows[y] : c < x})
<1>5. M!Position(x) = IF render.bits = 24 THEN dest + 3 * k
                      ELSE dest + x * M!BytesPerPixel
  BY DEF M!Position
<1> HIDE DEF k
<1>6. k \in 0..(M!mark.width - 1)
  BY <1>1, <1>2, <1>3 DEF k
<1>7. CASE render.bits = 24
  <2>1. M!BytesPerPixel = 3 /\ M!Position(x) = dest + 3 * k
    BY <1>5, <1>7, LinesHold
  <2>2. M!Inverted(M!Position(x)) = (dest + 3 * k)..(dest + 3 * k + 2)
    BY <1>7, <2>1 DEF M!Inverted
  <2> QED BY <1>1, <1>6, <2>1, <2>2
<1>8. CASE render.bits = 16
  <2>1. M!BytesPerPixel = 2 /\ M!Position(x) = dest + x * 2
    BY <1>5, <1>8, LinesHold
  <2>2. M!Inverted(M!Position(x)) = (dest + x * 2)..(dest + x * 2 + 1)
    BY <1>8, <2>1 DEF M!Inverted
  <2> QED BY <1>1, <1>2, <2>1, <2>2
<1>9. CASE render.bits = 32
  <2>1. M!BytesPerPixel = 4 /\ M!Position(x) = dest + x * 4
    BY <1>5, <1>9, LinesHold
  <2>2. M!Inverted(M!Position(x)) = (dest + x * 4)..(dest + x * 4 + 2)
    BY <1>9, <2>1 DEF M!Inverted
  <2> QED BY <1>1, <1>2, <2>1, <2>2
<1> QED BY <1>4, <1>7, <1>8, <1>9

(* activeMark goes on by a line at most, and not below the first byte.     *)
LEMMA RowAfterRow ==
  ASSUME MarkTypes, M!MarkFits, dest \in Nat, y < M!mark.height
  PROVE  M!NextRow \in Nat /\ M!NextRow <= dest + M!BytesPerLine
<1>1. /\ M!mark.width \in Nat /\ M!mark.width \in 0..render.width
      /\ M!mark.rows[y] \subseteq 0..(M!mark.width - 1)
  <2>1. M!mark \in M!Marks /\ y \in 0..M!mark.height
    BY DEF MarkTypes, M!mark
  <2>2. M!mark.width \in Nat /\ M!mark.height \in Nat
    BY <2>1, MarksTyped
  <2>3. y \in 0..(M!mark.height - 1)
    BY <2>1, <2>2
  <2> QED BY <2>1, <2>2, <2>3, MarksTyped DEF MarkTypes, M!MarkFits
<1>2. CASE render.bits = 24
  <2>1. M!Cardinality(M!mark.rows[y]) \in 0..M!mark.width
    BY <1>1, Columns
  <2>2. M!BytesPerPixel = 3 /\ M!BytesPerLine \in Nat
        /\ M!mark.width * M!BytesPerPixel \in 0..M!BytesPerLine
    BY <1>1, <1>2, LinesHold
  <2>3. M!NextRow = dest + 3 * M!Cardinality(M!mark.rows[y])
                      + M!BytesPerLine - 3 * M!mark.width
    BY <1>2 DEF M!NextRow
  <2> QED BY <1>1, <2>1, <2>2, <2>3
<1>3. CASE render.bits # 24
  <2>1. M!BytesPerLine \in Nat /\ render.width * M!BytesPerPixel \in 0..M!BytesPerLine
    BY LinesHold DEF MarkTypes
  <2>2. M!NextRow = dest + render.width * M!BytesPerPixel
    BY <1>3 DEF M!NextRow
  <2> QED BY <2>1, <2>2
<1> QED BY <1>2, <1>3

LEMMA InitMInv == M!MarkAssumption /\ M!Init => MInv
<1> SUFFICES ASSUME M!MarkAssumption, M!Init PROVE MInv
  OBVIOUS
<1>1. /\ render \in [bits : {16, 24, 32}, width : Nat, height : Nat]
      /\ settings \in [mark : M!Marks, left : Int, top : Int]
  BY DEF M!MarkAssumption, M!Init
<1>2. y = M!mark.height /\ M!mark.height \in Nat /\ image = {}
  BY <1>1, MarksTyped DEF M!Init, M!mark
<1> QED BY <1>1, <1>2 DEF MInv, MarkTypes, WalkInside, M!InsideImage

LEMMA ActiveMarkMInv == MInv /\ M!ActiveMark => MInv'
<1> SUFFICES ASSUME MInv, M!ActiveMark PROVE MInv'
  OBVIOUS
<1>1. /\ y' = 0 /\ dest' = M!GetOffset(settings.left, settings.top)
      /\ image' = {} \/ image' = image
      /\ UNCHANGED <<render, settings>>
  BY DEF M!ActiveMark
<1>2. M!mark.height \in Nat /\ render.height \in Nat
  BY MarksTyped DEF MInv, MarkTypes, M!mark
<1>3. MarkTypes'
  BY <1>1, <1>2 DEF MInv, MarkTypes, M!mark
<1>4. WalkInside'
  <2> SUFFICES ASSUME M!MarkFits
               PROVE  /\ dest' \in Nat
                      /\ dest' + M!mark.width * M!BytesPerPixel
                           <= (render.height - M!mark.height + 0 + 1) * M!BytesPerLine
    BY <1>1 DEF WalkInside, M!MarkFits, M!mark, M!BytesPerPixel, M!BytesPerLine
  <2>1. render.height - M!mark.height + 0 + 1 = render.height - M!mark.height + 1
    BY <1>2
  <2> QED BY <1>1, <2>1, OffsetInside DEF MInv
<1>5. M!InsideImage'
  BY <1>1 DEF MInv, M!InsideImage, M!MarkFits, M!mark, M!Size, M!BytesPerLine, M!BytesPerPixel
<1> QED BY <1>3, <1>4, <1>5 DEF MInv

LEMMA DrawRowMInv == MInv /\ M!DrawRow => MInv'
<1> SUFFICES ASSUME MInv, M!DrawRow PROVE MInv'
  OBVIOUS
<1> DEFINE free == render.height - M!mark.height
           line == M!BytesPerLine
           wide == M!mark.width * M!BytesPerPixel
<1>1. /\ y < M!mark.height /\ y' = y + 1 /\ dest' = M!NextRow
      /\ image' = M!Xor(image, UNION {M!Inverted(M!Position(x)) : x \in M!mark.rows[y]})
      /\ UNCHANGED <<render, settings>>
  BY DEF M!DrawRow
<1>2. /\ M!mark.height \in Nat /\ M!mark.width \in Nat /\ render.height \in Nat
      /\ render.width \in Nat /\ y \in Nat /\ MarkTypes
  BY MarksTyped DEF MInv, MarkTypes, M!mark
<1>3. MarkTypes'
  BY <1>1, <1>2 DEF MInv, MarkTypes, M!mark
<1>4. ASSUME M!MarkFits
      PROVE  /\ dest \in Nat /\ dest + wide <= (free + y + 1) * line
             /\ free \in Nat /\ line \in Nat /\ wide \in Nat
  <2>1. free \in Nat /\ M!mark.width \in 0..render.width
    BY <1>2, <1>4 DEF M!MarkFits
  <2>2. line \in Nat /\ wide \in 0..line
    BY <1>2, <2>1, LinesHold
  <2> QED BY <1>1, <1>4, <2>1, <2>2 DEF MInv, WalkInside
<1>5. WalkInside'
  <2> SUFFICES ASSUME M!MarkFits, y + 1 < M!mark.height
               PROVE  dest' \in Nat /\ dest' + wide <= (free + (y + 1) + 1) * line
    BY <1>1 DEF WalkInside, M!MarkFits, M!mark, M!BytesPerPixel, M!BytesPerLine
  <2>1. dest' \in Nat /\ dest' <= dest + line
    BY <1>1, <1>2, <1>4, RowAfterRow
  <2> HIDE DEF free, line, wide
  <2>2. (free + (y + 1) + 1) * line = (free + y + 1) * line + line
        /\ (free + y + 1) * line \in Nat
    BY <1>2, <1>4
  <2> QED BY <1>4, <2>1, <2>2
<1>6. M!InsideImage'
  <2> SUFFICES ASSUME M!MarkFits
               PROVE  image' \subseteq 0..(M!Size - 1)
    BY <1>1 DEF M!InsideImage, M!MarkFits, M!mark, M!Size, M!BytesPerLine, M!BytesPerPixel
  <2>1. M!Size = line * render.height /\ M!Size \in Nat
    BY <1>2, <1>4 DEF M!Size
  <2>2. dest + wide <= M!Size
    <3>1. free + y + 1 \in Nat /\ free + y + 1 <= render.height
      BY <1>1, <1>2, <1>4
    <3> DEFINE n == free + y + 1
    <3>2. n * line <= render.height * line
      BY <1>2, <1>4, <3>1, TimesMonotone
    <3>3. render.height * line = line * render.height
      BY <1>2, <1>4
    <3>4. n * line \in Nat /\ line * render.height \in Nat
      BY <1>2, <1>4, <3>1
    <3> HIDE DEF n, free, line, wide
    <3>5. dest + wide <= n * line
      BY <1>4 DEF n
    <3> QED BY <1>4, <2>1, <3>2, <3>3, <3>4, <3>5
  <2>3. ASSUME NEW x \in M!mark.rows[y], NEW b \in M!Inverted(M!Position(x))
        PROVE  b \in 0..(M!Size - 1)
    <3>1. b \in Nat /\ b < dest + wide
      BY <1>1, <1>2, <1>4, PixelInside
    <3> HIDE DEF wide
    <3> QED BY <1>4, <2>1, <2>2, <3>1
  <2>4. image \subseteq 0..(M!Size - 1)
    BY DEF MInv, M!InsideImage
  <2> QED BY <1>1, <2>3, <2>4 DEF M!Xor
<1> QED BY <1>3, <1>5, <1>6 DEF MInv

(* activeMark never writes outside of the image it is given, however large *)
(* that is, if the icon has room for the mark.                             *)
THEOREM MarkInsideImage == Spec => []InsideImage
<1>1. Init => (module = "Mark" => MInv)
  BY InitMInv, ImagesAssumption DEF Init
<1>2. MInv /\ UNCHANGED markVars => MInv'
  BY DEF markVars, MInv, MarkTypes, WalkInside, M!InsideImage, M!MarkFits, M!mark,
         M!Size, M!BytesPerLine, M!BytesPerPixel
<1>3. /\ module = "Mark" => MInv
      /\ [Next]_<<module, markVars, greyVars, blendVars, slitVars>>
      => (module = "Mark" => MInv)'
  BY <1>2, ActiveMarkMInv, DrawRowMInv DEF Next, M!Next
<1>4. (module = "Mark" => MInv) => InsideImage
  BY DEF InsideImage, MInv
<1> QED BY <1>1, <1>3, <1>4, PTL DEF Spec

(* Lines have no padding, and Render goes on over all pixels.              *)
Plain == render.bits = 32 \/ (render.bits = 16 /\ render.width % 2 = 0)

Left == M!Placed(settings.left, M!mark.width, render.width)
Top == M!Placed(settings.top, M!mark.height, render.height)

(* The bytes of a pixel, of a row and of all rows above a row of the mark. *)
PixelBytes(c, r) ==
  M!Inverted((Top + r) * M!BytesPerLine + (Left + c) * M!BytesPerPixel)

RowBytes(r) == UNION {PixelBytes(c, r) : c \in M!mark.rows[r]}
RowsAbove(k) == UNION {RowBytes(r) : r \in 0..(k - 1)}

(* How far activeMark has come, and what it has changed on the way.        *)
HalfDrawn ==
  M!MarkFits /\ Plain =>
    /\ y < M!mark.height =>
         dest = (Top + y) * M!BytesPerLine + Left * M!BytesPerPixel
    /\ shown \in BOOLEAN
    /\ image = IF shown THEN RowsAbove(y)
               ELSE RowsAbove(M!mark.height) \ RowsAbove(y)

LEMMA PlainLines ==
  ASSUME MarkTypes, M!MarkFits, Plain
  PROVE  /\ M!BytesPerPixel \in {2, 4} /\ M!BytesPerLine \in Nat
         /\ M!BytesPerLine = render.width * M!BytesPerPixel
         /\ \A p : M!Inverted(p) = p..(p + (IF render.bits = 16 THEN 1 ELSE 2))
         /\ render.bits = 16 => M!BytesPerPixel = 2
         /\ render.bits # 16 => M!BytesPerPixel = 4
         /\ render.width \in Nat /\ render.height \in Nat
         /\ M!mark.width \in 0..render.width /\ M!mark.height \in 0..render.height
         /\ Left \in 0..(render.width - M!mark.width)
         /\ Top \in 0..(render.height - M!mark.height)
<1>1. /\ render.bits \in {16, 32} /\ render.width \in Nat /\ render.height \in Nat
      /\ settings.left \in Int /\ settings.top \in Int
  BY DEF MarkTypes, Plain
<1>2. M!mark.width \in Nat /\ M!mark.height \in Nat
  BY MarksTyped DEF MarkTypes, M!mark
<1>3. M!mark.width \in 0..render.width /\ M!mark.height \in 0..render.height
  BY <1>1, <1>2 DEF M!MarkFits
<1>4. /\ M!BytesPerPixel \in {2, 4}
      /\ render.bits = 16 => M!BytesPerPixel = 2
      /\ render.bits # 16 => M!BytesPerPixel = 4
  BY <1>1 DEF M!BytesPerPixel
<1>5. M!BytesPerLine = render.width * M!BytesPerPixel
  <2>1. CASE render.bits = 16
    BY <1>1, <1>4, <2>1 DEF M!BytesPerLine, Plain
  <2>2. CASE render.bits = 32
    BY <1>1, <1>4, <2>2 DEF M!BytesPerLine
  <2> QED BY <1>1, <2>1, <2>2
<1>6. M!BytesPerLine \in Nat
  BY <1>1, <1>4, <1>5
<1>7. /\ Left \in 0..(render.width - M!mark.width)
      /\ Top \in 0..(render.height - M!mark.height)
  BY <1>1, <1>2, <1>3 DEF Left, Top, M!Placed
<1>8. \A p : M!Inverted(p) = p..(p + (IF render.bits = 16 THEN 1 ELSE 2))
  BY DEF M!Inverted
<1> QED BY <1>1, <1>3, <1>4, <1>5, <1>6, <1>7, <1>8

(* getOffset is the first byte of the mark.                                *)
LEMMA OffsetPlaced ==
  ASSUME MarkTypes, M!MarkFits, Plain
  PROVE  M!GetOffset(settings.left, settings.top)
           = Top * M!BytesPerLine + Left * M!BytesPerPixel
<1> DEFINE b == M!BytesPerPixel
           line == M!BytesPerLine
           left == settings.left
           top == settings.top
           free == render.height - M!mark.height
           room == render.width - M!mark.width
           skipTop == IF top < 0 /\ free + top + 1 >= 0 THEN free + top + 1
                      ELSE IF top > 0 /\ top <= free THEN top ELSE 0
           skipLeft == IF left < 0 /\ room + left + 1 >= 0
                       THEN line - (M!mark.width - (left + 1)) * b
                       ELSE IF left > 0 /\ left <= room THEN left * b ELSE 0
<1>1. M!GetOffset(left, top) = skipTop * line + skipLeft
  BY DEF M!GetOffset
<1>2. /\ b \in {2, 4} /\ line \in Nat /\ line = render.width * b
      /\ render.width \in Nat /\ render.height \in Nat
      /\ M!mark.width \in 0..render.width /\ M!mark.height \in 0..render.height
      /\ left \in Int /\ top \in Int
  BY PlainLines DEF MarkTypes
<1>3. skipTop = Top
  BY <1>2 DEF Top, M!Placed
<1>4. skipLeft = Left * b
  <2>1. Left = IF left < 0 /\ room + left + 1 >= 0 THEN room + left + 1
               ELSE IF left > 0 /\ left <= room THEN left ELSE 0
    BY <1>2 DEF Left, M!Placed
  <2>2. CASE b = 2
    BY <1>2, <2>1, <2>2
  <2>3. CASE b = 4
    BY <1>2, <2>1, <2>3
  <2> QED BY <1>2, <2>2, <2>3
<1> HIDE DEF skipTop, skipLeft
<1> QED BY <1>1, <1>3, <1>4

(* The bytes of each row are in a line of their own.                       *)
LEMMA RowInLine ==
  ASSUME MarkTypes, M!MarkFits, Plain, NEW r \in 0..(M!mark.height - 1),
         NEW b \in RowBytes(r)
  PROVE  /\ b \in Int
         /\ (Top + r) * M!BytesPerLine <= b
         /\ b < (Top + r) * M!BytesPerLine + M!BytesPerLine
<1> DEFINE bpp == M!BytesPerPixel
           line == M!BytesPerLine
<1>1. /\ bpp \in {2, 4} /\ line \in Nat /\ line = render.width * bpp
      /\ render.bits = 16 => bpp = 2
      /\ render.bits # 16 => bpp = 4
      /\ render.width \in Nat /\ render.height \in Nat
      /\ M!mark.width \in 0..render.width /\ M!mark.height \in 0..render.height
      /\ Left \in 0..(render.width - M!mark.width)
      /\ Top \in 0..(render.height - M!mark.height)
  BY PlainLines
<1>2. PICK c \in M!mark.rows[r] : b \in PixelBytes(c, r)
  BY DEF RowBytes
<1>3. c \in 0..(M!mark.width - 1)
  <2>1. M!mark \in M!Marks
    BY DEF MarkTypes, M!mark
  <2> QED BY <2>1, MarksTyped
<1> DEFINE start == (Top + r) * line
           column == Left + c
<1>4. column \in 0..(render.width - 1)
  BY <1>1, <1>3
<1>5. start \in Nat
  BY <1>1
<1>6. b \in (start + column * bpp)..(start + column * bpp + (IF render.bits = 16 THEN 1 ELSE 2))
  BY <1>2, PlainLines DEF PixelBytes
<1> HIDE DEF start, column
<1>7. CASE render.bits = 16
  BY <1>1, <1>4, <1>5, <1>6, <1>7 DEF start
<1>8. CASE render.bits # 16
  BY <1>1, <1>4, <1>5, <1>6, <1>8 DEF start
<1> QED BY <1>7, <1>8

LEMMA RowsApart ==
  ASSUME MarkTypes, M!MarkFits, Plain, NEW k \in 0..(M!mark.height - 1)
  PROVE  /\ RowsAbove(k) \cap RowBytes(k) = {}
         /\ RowsAbove(k + 1) = RowsAbove(k) \cup RowBytes(k)
         /\ RowBytes(k) \subseteq RowsAbove(M!mark.height)
         /\ RowsAbove(0) = {}
<1>1. /\ M!BytesPerLine \in Nat /\ M!mark.height \in Nat
      /\ Top \in Nat
  BY PlainLines
<1>2. ASSUME NEW r \in 0..(k - 1), NEW b \in RowBytes(r), b \in RowBytes(k)
      PROVE  FALSE
  <2>1. r \in 0..(M!mark.height - 1) /\ Top + r + 1 \in Nat /\ Top + k \in Nat
        /\ Top + r + 1 <= Top + k /\ Top + r \in Nat
    BY <1>1
  <2>2. b \in Int /\ b < (Top + r) * M!BytesPerLine + M!BytesPerLine
        /\ (Top + k) * M!BytesPerLine <= b
    BY <1>2, <2>1, RowInLine
  <2>3. (Top + r) * M!BytesPerLine + M!BytesPerLine = (Top + r + 1) * M!BytesPerLine
    BY <1>1, <2>1
  <2>4. /\ (Top + r + 1) * M!BytesPerLine \in Nat /\ (Top + k) * M!BytesPerLine \in Nat
        /\ (Top + r + 1) * M!BytesPerLine <= (Top + k) * M!BytesPerLine
    BY <1>1, <2>1, TimesMonotone
  <2> QED BY <2>2, <2>3, <2>4
<1>3. RowsAbove(k) \cap RowBytes(k) = {}
  BY <1>2 DEF RowsAbove
<1>4. 0..((k + 1) - 1) = 0..(k - 1) \cup {k}
  BY <1>1
<1>5. RowsAbove(k + 1) = RowsAbove(k) \cup RowBytes(k)
  BY <1>4 DEF RowsAbove
<1>6. RowBytes(k) \subseteq RowsAbove(M!mark.height)
  BY DEF RowsAbove
<1>7. 0..(0 - 1) = {}
  OBVIOUS
<1>8. RowsAbove(0) = {}
  BY <1>7 DEF RowsAbove
<1> QED BY <1>3, <1>5, <1>6, <1>8

(* The rows are the mark.                                                  *)
LEMMA MarksSmall ==
  ASSUME NEW mark \in M!Marks
  PROVE  /\ mark.height \in 0..9
         /\ \A r \in 0..(mark.height - 1) : mark.rows[r] \subseteq 0..9
<1>1. CASE mark = M!play
  BY <1>1 DEF M!play
<1>2. CASE mark = M!dots
  BY <1>2 DEF M!dots
<1>3. CASE mark = M!corner
  BY <1>3 DEF M!corner
<1>4. CASE mark = M!cross
  BY <1>4 DEF M!cross
<1> QED BY <1>1, <1>2, <1>3, <1>4 DEF M!Marks

LEMMA MarkPixelsAre ==
  ASSUME MarkTypes
  PROVE  \A p : p \in M!MarkPixels <=>
           \E r \in 0..(M!mark.height - 1) : \E c \in M!mark.rows[r] :
             p = <<Left + c, Top + r>>
<1> DEFINE cells == {q \in (0..9) \X (0..8) :
                       q[2] < M!mark.height /\ q[1] \in M!mark.rows[q[2]]}
<1>1. M!MarkPixels = {<<Left + q[1], Top + q[2]>> : q \in cells}
  BY DEF M!MarkPixels, Left, Top
<1>2. ASSUME NEW q \in cells
      PROVE  q[2] \in 0..(M!mark.height - 1) /\ q[1] \in M!mark.rows[q[2]]
  <2>1. M!mark.height \in 0..9
    BY MarksSmall DEF MarkTypes, M!mark
  <2> QED BY <2>1
<1>3. ASSUME NEW r \in 0..(M!mark.height - 1), NEW c \in M!mark.rows[r]
      PROVE  <<c, r>> \in cells /\ <<c, r>>[1] = c /\ <<c, r>>[2] = r
  <2>1. M!mark.height \in 0..9 /\ c \in 0..9
    BY MarksSmall DEF MarkTypes, M!mark
  <2>2. r \in 0..8 /\ r < M!mark.height
    BY <2>1
  <2> QED BY <2>1, <2>2
<1> HIDE DEF cells
<1>4. ASSUME NEW p \in M!MarkPixels
      PROVE  \E r \in 0..(M!mark.height - 1) : \E c \in M!mark.rows[r] :
               p = <<Left + c, Top + r>>
  <2>1. PICK q \in cells : p = <<Left + q[1], Top + q[2]>>
    BY <1>1
  <2> QED BY <1>2, <2>1
<1>5. ASSUME NEW r \in 0..(M!mark.height - 1), NEW c \in M!mark.rows[r]
      PROVE  <<Left + c, Top + r>> \in M!MarkPixels
  <2> DEFINE q == <<c, r>>
  <2>1. q \in cells /\ q[1] = c /\ q[2] = r
    BY <1>3
  <2>2. <<Left + q[1], Top + q[2]>> \in M!MarkPixels
    BY <1>1, <2>1
  <2> QED BY <2>1, <2>2
<1> QED BY <1>4, <1>5

LEMMA MarkBytesAre ==
  ASSUME MarkTypes
  PROVE  M!MarkBytes = RowsAbove(M!mark.height)
<1> DEFINE bytes(p) == M!Inverted(p[2] * M!BytesPerLine + p[1] * M!BytesPerPixel)
<1>1. M!MarkBytes = UNION {bytes(p) : p \in M!MarkPixels}
  BY DEF M!MarkBytes
<1>2. \A c, r : bytes(<<Left + c, Top + r>>) = PixelBytes(c, r)
  BY DEF PixelBytes
<1> HIDE DEF bytes
<1>3. \A b : b \in M!MarkBytes <=> \E p \in M!MarkPixels : b \in bytes(p)
  BY <1>1
<1>4. \A b : b \in RowsAbove(M!mark.height) <=>
        \E r \in 0..(M!mark.height - 1) : \E c \in M!mark.rows[r] : b \in PixelBytes(c, r)
  BY DEF RowsAbove, RowBytes
<1>5. ASSUME NEW b \in M!MarkBytes PROVE b \in RowsAbove(M!mark.height)
  <2>1. PICK p \in M!MarkPixels : b \in bytes(p)
    BY <1>3
  <2>2. PICK r \in 0..(M!mark.height - 1) : \E c \in M!mark.rows[r] :
          p = <<Left + c, Top + r>>
    BY MarkPixelsAre
  <2> QED BY <1>2, <1>4, <2>1, <2>2
<1>6. ASSUME NEW b \in RowsAbove(M!mark.height) PROVE b \in M!MarkBytes
  <2>1. PICK r \in 0..(M!mark.height - 1) : \E c \in M!mark.rows[r] :
          b \in PixelBytes(c, r)
    BY <1>4
  <2>2. PICK c \in M!mark.rows[r] : b \in PixelBytes(c, r)
    BY <2>1
  <2>3. <<Left + c, Top + r>> \in M!MarkPixels
    BY MarkPixelsAre
  <2> QED BY <1>2, <1>3, <2>2, <2>3
<1> QED BY <1>5, <1>6

LEMMA PlacesStay ==
  ASSUME UNCHANGED <<render, settings>>
  PROVE  /\ M!MarkFits' = M!MarkFits /\ Plain' = Plain /\ M!mark' = M!mark
         /\ Left' = Left /\ Top' = Top
         /\ M!BytesPerLine' = M!BytesPerLine /\ M!BytesPerPixel' = M!BytesPerPixel
         /\ RowsAbove(y)' = RowsAbove(y')
         /\ RowsAbove(M!mark.height)' = RowsAbove(M!mark.height)
<1>1. /\ M!MarkFits' = M!MarkFits /\ Plain' = Plain /\ M!mark' = M!mark
      /\ Left' = Left /\ Top' = Top
      /\ M!BytesPerLine' = M!BytesPerLine /\ M!BytesPerPixel' = M!BytesPerPixel
  BY DEF M!MarkFits, Plain, M!mark, Left, Top, M!Placed, M!BytesPerLine, M!BytesPerPixel
<1>2. \A c, r : PixelBytes(c, r)' = PixelBytes(c, r)
  BY <1>1 DEF PixelBytes, M!Inverted
<1>3. \A r : RowBytes(r)' = RowBytes(r)
  BY <1>1, <1>2 DEF RowBytes
<1>4. /\ RowsAbove(y)' = RowsAbove(y')
      /\ RowsAbove(M!mark.height)' = RowsAbove(M!mark.height)
  BY <1>1, <1>3 DEF RowsAbove
<1> QED BY <1>1, <1>4

LEMMA ActiveMarkHalfDrawn ==
  ASSUME MarkTypes, HalfDrawn, M!ActiveMark
  PROVE  HalfDrawn'
<1>1. /\ y = M!mark.height /\ y' = 0
      /\ dest' = M!GetOffset(settings.left, settings.top)
      /\ \/ image' = {} /\ shown' = TRUE
         \/ image' = image /\ shown' = ~shown
      /\ UNCHANGED <<render, settings>>
  BY DEF M!ActiveMark
<1> SUFFICES ASSUME M!MarkFits, Plain
             PROVE  /\ dest' = (Top + 0) * M!BytesPerLine + Left * M!BytesPerPixel
                    /\ shown' \in BOOLEAN
                    /\ image' = IF shown' THEN RowsAbove(0)
                                ELSE RowsAbove(M!mark.height) \ RowsAbove(0)
  BY <1>1, PlacesStay DEF HalfDrawn
<1>2. Top + 0 = Top
  BY PlainLines
<1>3. shown \in BOOLEAN /\ image = IF shown THEN RowsAbove(y) ELSE RowsAbove(M!mark.height) \ RowsAbove(y)
  BY DEF HalfDrawn
<1>4. RowsAbove(0) = {}
  <2>1. 0..(0 - 1) = {}
    OBVIOUS
  <2> QED BY <2>1 DEF RowsAbove
<1>5. shown' \in BOOLEAN
  BY <1>1, <1>3
<1>6. image = IF shown THEN RowsAbove(M!mark.height) ELSE {}
  BY <1>1, <1>3
<1>7. image' = IF shown' THEN {} ELSE RowsAbove(M!mark.height)
  BY <1>1, <1>3, <1>6
<1> QED BY <1>1, <1>2, <1>4, <1>5, <1>7, OffsetPlaced

LEMMA DrawRowHalfDrawn ==
  ASSUME MarkTypes, HalfDrawn, M!DrawRow
  PROVE  HalfDrawn'
<1>1. /\ y < M!mark.height /\ y' = y + 1 /\ dest' = M!NextRow
      /\ image' = M!Xor(image, UNION {M!Inverted(M!Position(x)) : x \in M!mark.rows[y]})
      /\ UNCHANGED <<render, settings, shown>>
  BY DEF M!DrawRow
<1> SUFFICES ASSUME M!MarkFits, Plain
             PROVE  /\ dest' = (Top + (y + 1)) * M!BytesPerLine + Left * M!BytesPerPixel
                    /\ shown' \in BOOLEAN
                    /\ image' = IF shown' THEN RowsAbove(y + 1)
                                ELSE RowsAbove(M!mark.height) \ RowsAbove(y + 1)
  BY <1>1, PlacesStay DEF HalfDrawn
<1>2. /\ M!BytesPerPixel \in {2, 4} /\ M!BytesPerLine \in Nat
      /\ M!BytesPerLine = render.width * M!BytesPerPixel
      /\ render.width \in Nat /\ Left \in Nat /\ Top \in Nat
      /\ M!mark.height \in Nat /\ M!mark.width \in Nat
  BY PlainLines
<1>3. y \in 0..(M!mark.height - 1)
  BY <1>1, <1>2 DEF MarkTypes
<1>4. /\ dest = (Top + y) * M!BytesPerLine + Left * M!BytesPerPixel
      /\ shown \in BOOLEAN
      /\ image = IF shown THEN RowsAbove(y) ELSE RowsAbove(M!mark.height) \ RowsAbove(y)
  BY <1>1 DEF HalfDrawn
<1>5. dest' = (Top + (y + 1)) * M!BytesPerLine + Left * M!BytesPerPixel
  <2>1. dest' = dest + M!BytesPerLine
    BY <1>1, <1>2 DEF M!NextRow, Plain
  <2>2. (Top + (y + 1)) * M!BytesPerLine = (Top + y) * M!BytesPerLine + M!BytesPerLine
    BY <1>2, <1>3
  <2>3. (Top + y) * M!BytesPerLine \in Nat /\ Left * M!BytesPerPixel \in Nat
    BY <1>2, <1>3
  <2> QED BY <1>2, <1>4, <2>1, <2>2, <2>3
<1>6. ASSUME NEW x \in M!mark.rows[y]
      PROVE  M!Inverted(M!Position(x)) = PixelBytes(x, y)
  <2>1. x \in Nat
    BY <1>3, MarksTyped DEF MarkTypes, M!mark
  <2>2. M!Position(x) = dest + x * M!BytesPerPixel
    BY DEF M!Position, Plain
  <2>3. (Left + x) * M!BytesPerPixel = Left * M!BytesPerPixel + x * M!BytesPerPixel
    BY <1>2, <2>1
  <2>4. /\ (Top + y) * M!BytesPerLine \in Nat /\ Left * M!BytesPerPixel \in Nat
        /\ x * M!BytesPerPixel \in Nat
    BY <1>2, <1>3, <2>1
  <2>5. M!Position(x) = (Top + y) * M!BytesPerLine + (Left + x) * M!BytesPerPixel
    BY <1>4, <2>2, <2>3, <2>4
  <2> QED BY <2>5 DEF PixelBytes
<1>7. UNION {M!Inverted(M!Position(x)) : x \in M!mark.rows[y]} = RowBytes(y)
  BY <1>6 DEF RowBytes
<1>8. image' = (image \ RowBytes(y)) \cup (RowBytes(y) \ image)
  BY <1>1, <1>7 DEF M!Xor
<1>9. /\ RowsAbove(y) \cap RowBytes(y) = {}
      /\ RowsAbove(y + 1) = RowsAbove(y) \cup RowBytes(y)
      /\ RowBytes(y) \subseteq RowsAbove(M!mark.height)
  BY <1>3, RowsApart
<1>10. CASE shown
  BY <1>1, <1>4, <1>5, <1>8, <1>9, <1>10
<1>11. CASE ~shown
  BY <1>1, <1>4, <1>5, <1>8, <1>9, <1>11
<1> QED BY <1>10, <1>11

LEMMA InitHalfDrawn == M!MarkAssumption /\ M!Init => MarkTypes /\ HalfDrawn
<1> SUFFICES ASSUME M!MarkAssumption, M!Init PROVE MarkTypes /\ HalfDrawn
  OBVIOUS
<1>1. MarkTypes
  BY InitMInv DEF MInv
<1>2. y = M!mark.height /\ shown = FALSE /\ image = {} /\ M!mark.height \in Nat
  BY <1>1, MarksTyped DEF M!Init, MarkTypes, M!mark
<1>3. ~shown
  BY <1>2, Zenon
<1>4. RowsAbove(M!mark.height) \ RowsAbove(M!mark.height) = {}
  OBVIOUS
<1>5. image = RowsAbove(M!mark.height) \ RowsAbove(y)
  BY <1>2, <1>4, Zenon
<1>6. ~(y < M!mark.height)
  BY <1>2, SMT
<1>7. shown \in BOOLEAN
  BY <1>2, Zenon
<1>8. image = IF shown THEN RowsAbove(y) ELSE RowsAbove(M!mark.height) \ RowsAbove(y)
  BY <1>3, <1>5, Zenon
<1> QED BY <1>1, <1>6, <1>7, <1>8, Zenon DEF HalfDrawn

LEMMA NextHalfDrawn == MarkTypes /\ HalfDrawn /\ M!Next => HalfDrawn'
BY ActiveMarkHalfDrawn, DrawRowHalfDrawn DEF M!Next

LEMMA StutterHalfDrawn == MarkTypes /\ HalfDrawn /\ UNCHANGED markVars => HalfDrawn'
<1> SUFFICES ASSUME MarkTypes, HalfDrawn, UNCHANGED markVars PROVE HalfDrawn'
  OBVIOUS
<1>1. UNCHANGED <<render, settings, image, dest, y, shown>>
  BY DEF markVars
<1> QED BY <1>1, PlacesStay DEF HalfDrawn

(* Each call of activeMark has inverted the rows it has dealt with, and no *)
(* byte else.                                                              *)
THEOREM MarkInvariance == Spec => [](module = "Mark" => MarkTypes /\ HalfDrawn)
<1> DEFINE PInv == module = "Mark" => MInv /\ HalfDrawn
<1>1. Init => PInv
  BY InitMInv, InitHalfDrawn, ImagesAssumption DEF Init
<1>2. MInv /\ UNCHANGED markVars => MInv'
  BY DEF markVars, MInv, MarkTypes, WalkInside, M!InsideImage, M!MarkFits, M!mark,
         M!Size, M!BytesPerLine, M!BytesPerPixel
<1>3. MInv => MarkTypes
  BY DEF MInv
<1>4. PInv /\ [Next]_<<module, markVars, greyVars, blendVars, slitVars>> => PInv'
  BY <1>2, <1>3, ActiveMarkMInv, DrawRowMInv, NextHalfDrawn, StutterHalfDrawn
     DEF Next, M!Next
<1>5. PInv => (module = "Mark" => MarkTypes /\ HalfDrawn)
  BY <1>3
<1> HIDE DEF PInv
<1> QED BY <1>1, <1>4, <1>5, PTL DEF Spec

(* In an image of any size, a mark that is drawn is where the margins say, *)
(* and gone when it has been drawn once more, if lines have no padding.    *)
THEOREM MarksArePlaced == Spec => []MarkPlaced
<1>1. (module = "Mark" => MarkTypes /\ HalfDrawn) => MarkPlaced
  <2> SUFFICES ASSUME MarkTypes, HalfDrawn, y = M!mark.height, M!MarkFits, Plain
               PROVE  image = IF shown THEN M!MarkBytes ELSE {}
    BY DEF MarkPlaced, M!MarkPlaced, Plain
  <2>1. image = IF shown THEN RowsAbove(M!mark.height)
                ELSE RowsAbove(M!mark.height) \ RowsAbove(M!mark.height)
    BY DEF HalfDrawn
  <2> QED BY <2>1, MarkBytesAre
<1> QED BY <1>1, MarkInvariance, PTL

LEMMA DivMod ==
  ASSUME NEW q \in Nat, NEW d \in Nat, NEW r \in 0..(d - 1)
  PROVE  (q * d + r) \div d = q /\ (q * d + r) % d = r
OBVIOUS

(* The pixels of a cross in an image of 32 bits.                           *)
LEMMA CrossDrawn ==
  ASSUME MarkTypes, HalfDrawn, y = M!mark.height, shown, M!MarkFits,
         M!mark = M!cross, render.bits = 32
  PROVE  /\ \A d \in M!Drawn : d[1] \in Left..(Left + 6) /\ d[2] \in Top..(Top + 6)
         /\ \A i \in 0..6 : <<Left + i, Top + i>> \in M!Drawn
<1> DEFINE line == M!BytesPerLine
<1>1. /\ M!BytesPerPixel = 4 /\ line \in Nat /\ line = render.width * 4
      /\ render.width \in Nat /\ Left \in 0..(render.width - 7) /\ Top \in Nat
      /\ \A p : M!Inverted(p) = p..(p + 2)
  BY PlainLines DEF Plain, M!cross
<1>2. image = RowsAbove(7)
  BY DEF HalfDrawn, Plain, M!cross
<1>3. /\ \A r \in 0..6 : M!mark.rows[r] \subseteq 0..6
      /\ \A i \in 0..6 : i \in M!mark.rows[i]
  BY DEF M!cross
<1>4. \A b : b \in image <=>
        \E r \in 0..6 : \E c \in M!mark.rows[r] : b \in PixelBytes(c, r)
  <2>1. 0..(7 - 1) = 0..6
    OBVIOUS
  <2> QED BY <1>2, <2>1 DEF RowsAbove, RowBytes
<1>5. ASSUME NEW r \in 0..6, NEW c \in 0..6, NEW b \in PixelBytes(c, r)
      PROVE  (b % line) \div 4 = Left + c /\ b \div line = Top + r
  <2>1. b \in ((Top + r) * line + (Left + c) * 4)..((Top + r) * line + (Left + c) * 4 + 2)
    <3>1. PixelBytes(c, r) = M!Inverted((Top + r) * line + (Left + c) * 4)
      BY <1>1, Zenon DEF PixelBytes
    <3> DEFINE p == (Top + r) * line + (Left + c) * 4
    <3>2. M!Inverted(p) = p..(p + 2)
      BY <1>1, Zenon
    <3> QED BY <3>1, <3>2, Zenon
  <2>2. Left + c \in Nat /\ Left + c < render.width /\ Top + r \in Nat
    BY <1>1
  <2> DEFINE column == Left + c
             row == Top + r
             start == row * line
  <2>3. column \in Nat /\ column < render.width /\ row \in Nat
    BY <2>2
  <2>4. b \in (start + column * 4)..(start + column * 4 + 2)
    BY <2>1, Zenon
  <2> HIDE DEF column, row, line
  <2>5. start \in Nat
    BY <1>1, <2>3
  <2>6. render.width \in Nat /\ line \in Nat /\ line = render.width * 4
    BY <1>1, Zenon
  <2>7. start = row * line
    OBVIOUS
  <2> HIDE DEF start
  <2> DEFINE k == b - start
  <2>8. k \in 0..(line - 1) /\ k \div 4 = column /\ b = start + k
    BY <2>3, <2>4, <2>5, <2>6
  <2> HIDE DEF k
  <2>9. b = row * line + k
    BY <2>7, <2>8, Zenon
  <2>10. (row * line + k) \div line = row /\ (row * line + k) % line = k
    BY <2>3, <2>6, <2>8, DivMod, Zenon
  <2>11. (b % line) \div 4 = column /\ b \div line = row
    BY <2>8, <2>9, <2>10, Zenon
  <2> QED BY <2>11 DEF column, row, line
<1>6. ASSUME NEW d \in M!Drawn
      PROVE  d[1] \in Left..(Left + 6) /\ d[2] \in Top..(Top + 6)
  <2>1. PICK b \in image : d = <<(b % line) \div 4, b \div line>>
    BY DEF M!Drawn
  <2>2. PICK r \in 0..6 : \E c \in M!mark.rows[r] : b \in PixelBytes(c, r)
    BY <1>4
  <2>3. PICK c \in 0..6 : b \in PixelBytes(c, r)
    BY <1>3, <2>2
  <2>4. d[1] = Left + c /\ d[2] = Top + r
    BY <1>5, <2>1, <2>3
  <2> QED BY <1>1, <2>4
<1>7. ASSUME NEW i \in 0..6
      PROVE  <<Left + i, Top + i>> \in M!Drawn
  <2> DEFINE b == (Top + i) * line + (Left + i) * 4
  <2>1. b \in PixelBytes(i, i)
    <3>1. (Top + i) * line \in Nat /\ (Left + i) * 4 \in Nat
      BY <1>1
    <3>2. b \in Nat
      BY <3>1
    <3> HIDE DEF b
    <3>3. b \in b..(b + 2)
      BY <3>2
    <3> QED BY <1>1, <3>3 DEF b, PixelBytes
  <2> HIDE DEF b
  <2>2. b \in image
    BY <1>3, <1>4, <2>1
  <2>3. (b % line) \div 4 = Left + i /\ b \div line = Top + i
    BY <1>5, <2>1
  <2> QED BY <2>2, <2>3 DEF M!Drawn
<1> QED BY <1>6, <1>7

(* The area of Dock::run for clicks is the box of the cross moved by one   *)
(* pixel to the right and one down, whenever the margins fit.              *)
AreaIsShifted ==
  /\ module = "Mark"
  /\ y = M!mark.height /\ shown /\ M!mark = M!cross /\ render.bits = 32
  /\ M!MarginFits(settings.left, M!mark.width, render.width)
  /\ M!MarginFits(settings.top, M!mark.height, render.height)
  => \A px \in 0..render.width, py \in 0..render.height :
       M!InArea(px, py) <=> /\ \E d \in M!Drawn : d[1] + 1 = px
                            /\ \E d \in M!Drawn : d[2] + 1 = py

(* Dock::run tests clicks with constants of its own, and they are wrong by *)
(* one pixel for icons of every size: the first row and the first column of*)
(* the cross do not react, a row below it and a column beside it do.  This *)
(* is why AreaIsCross does not hold.                                       *)
THEOREM ClicksMissTheMark == Spec => []AreaIsShifted
<1>1. (module = "Mark" => MarkTypes /\ HalfDrawn) => AreaIsShifted
  <2> SUFFICES ASSUME MarkTypes, HalfDrawn, y = M!mark.height, shown,
                      M!mark = M!cross, render.bits = 32,
                      M!MarginFits(settings.left, M!mark.width, render.width),
                      M!MarginFits(settings.top, M!mark.height, render.height),
                      NEW px \in 0..render.width, NEW py \in 0..render.height
               PROVE  M!InArea(px, py) <=> /\ \E d \in M!Drawn : d[1] + 1 = px
                                           /\ \E d \in M!Drawn : d[2] + 1 = py
    BY DEF AreaIsShifted
  <2>1. /\ M!mark.width = 7 /\ M!mark.height = 7
        /\ settings.left \in Int /\ settings.top \in Int
        /\ render.width \in Nat /\ render.height \in Nat
    BY DEF M!cross, MarkTypes
  <2>2. /\ M!MarkFits /\ Left \in Nat /\ Top \in Nat
        /\ Left = IF settings.left < 0 THEN render.width - 6 + settings.left
                  ELSE settings.left
        /\ Top = IF settings.top < 0 THEN render.height - 6 + settings.top
                 ELSE settings.top
    BY <2>1 DEF M!MarginFits, M!MarkFits, Left, Top, M!Placed
  <2>3. M!InArea(px, py) <=> px \in (Left + 1)..(Left + 7) /\ py \in (Top + 1)..(Top + 7)
    BY <2>1, <2>2 DEF M!InArea
  <2>4. /\ \A d \in M!Drawn : d[1] \in Left..(Left + 6) /\ d[2] \in Top..(Top + 6)
        /\ \A i \in 0..6 : <<Left + i, Top + i>> \in M!Drawn
    BY <2>2, CrossDrawn
  <2>5. (\E d \in M!Drawn : d[1] + 1 = px) <=> px \in (Left + 1)..(Left + 7)
    <3>1. ASSUME px \in (Left + 1)..(Left + 7)
          PROVE  \E d \in M!Drawn : d[1] + 1 = px
      <4> DEFINE i == px - 1 - Left
      <4>1. i \in 0..6 /\ (Left + i) + 1 = px
        BY <2>2, <3>1
      <4> HIDE DEF i
      <4>2. <<Left + i, Top + i>> \in M!Drawn /\ <<Left + i, Top + i>>[1] + 1 = px
        BY <2>4, <4>1
      <4> QED BY <4>2
    <3> QED BY <2>2, <2>4, <3>1
  <2>6. (\E d \in M!Drawn : d[2] + 1 = py) <=> py \in (Top + 1)..(Top + 7)
    <3>1. ASSUME py \in (Top + 1)..(Top + 7)
          PROVE  \E d \in M!Drawn : d[2] + 1 = py
      <4> DEFINE i == py - 1 - Top
      <4>1. i \in 0..6 /\ (Top + i) + 1 = py
        BY <2>2, <3>1
      <4> HIDE DEF i
      <4>2. <<Left + i, Top + i>> \in M!Drawn /\ <<Left + i, Top + i>>[2] + 1 = py
        BY <2>4, <4>1
      <4> QED BY <4>2
    <3> QED BY <2>2, <2>4, <3>1
  <2> QED BY <2>3, <2>5, <2>6
<1> QED BY <1>1, MarkInvariance, PTL

-----------------------------------------------------------------------------
(* Background: what Slot::getBackground reads, with the proofs about that  *)
(* module                                                                  *)

P == INSTANCE BackgroundProofs WITH Cover <- "cover", Blank <- "blank"

LEMMA SlitInit == S!Init => P!SInv
<1>1. S!Init => P!Init
  BY DEF S!Init, P!Init
<1> QED BY <1>1, P!InitSInv

LEMMA SlitNext == P!SInv /\ S!Next => P!SInv'
<1>1. S!Next => P!Next
  BY DEF S!Next, S!Seen, S!Causes, S!CoverSlit, S!UncoverSlit, S!Move, S!Hide,
         S!Show, S!Event, S!VisibilityNotify, S!DrawWith, S!Expose,
         S!ConfigureNotify, S!Tick, S!GetWindowAttributes, S!GetSubImage,
         S!slitVars, S!slotVars,
         P!Next, P!Seen, P!Causes, P!CoverSlit, P!UncoverSlit, P!Move, P!Hide,
         P!Show, P!Event, P!VisibilityNotify, P!DrawWith, P!Expose,
         P!ConfigureNotify, P!Tick, P!GetWindowAttributes, P!GetSubImage,
         P!slitVars, P!slotVars
<1> QED BY <1>1, P!NextSInv

LEMMA SlitStutters == P!SInv /\ UNCHANGED slitVars => P!SInv'
<1> SUFFICES ASSUME P!SInv, UNCHANGED slitVars PROVE P!SInv'
  OBVIOUS
<1>1. UNCHANGED P!vars
  BY DEF slitVars, P!vars, P!slitVars, P!slotVars
<1> QED BY <1>1, P!NextSInv

(* What a slot does not know of the slit, its events will tell.            *)
THEOREM SlitInvariance == Spec => [](module = "Background" => P!SInv)
<1>1. Init => (module = "Background" => P!SInv)
  BY SlitInit DEF Init
<1>2. /\ module = "Background" => P!SInv
      /\ [Next]_<<module, markVars, greyVars, blendVars, slitVars>>
      => (module = "Background" => P!SInv)'
  BY SlitNext, SlitStutters DEF Next
<1> QED BY <1>1, <1>2, PTL DEF Spec

(* A background that counts as valid was read where the slit is now, if no *)
(* move is still to be handled, and a window that covers the slit is taken *)
(* for it only if its visibility was still to be handled: this of          *)
(* Slot::getBackground and the events it relies on.                        *)
THEOREM BackgroundsAreCurrent == Spec => []BackgroundCurrent
<1>1. (module = "Background" => P!SInv) => BackgroundCurrent
  BY DEF BackgroundCurrent, P!SInv, P!SlotTypes, P!ToBeMoved, S!BackgroundCurrent,
         S!Contains
<1> QED BY <1>1, SlitInvariance, PTL

(* No order of events leaves a slot with an invalid background above a     *)
(* slit that can be seen once all events are handled.                      *)
THEOREM SlotsSettle == Spec => []Settled
<1>1. (module = "Background" => P!SInv) => Settled
  BY DEF Settled, P!SInv, P!ToBeDrawn, S!Settled
<1> QED BY <1>1, SlitInvariance, PTL

(* XGetSubImage is no error as long as the slit does not go between        *)
(* XGetWindowAttributes and it.                                            *)
THEOREM HiddenSlitsAreHarmless == Spec => []SurvivesHiddenSlit
<1>1. (module = "Background" => P!SInv) => SurvivesHiddenSlit
  BY DEF SurvivesHiddenSlit, P!SInv, P!SlitStays, S!SurvivesHiddenSlit
<1> QED BY <1>1, SlitInvariance, PTL

=============================================================================
