------------------------------- MODULE MCImages -------------------------------
(***************************************************************************)
(* What the program does to pixels, from the file of an icon to its picture*)
(* with the mark upon the background of the slit: instances of GreyImage,  *)
(* Blend, Mark and Background for TLC.  Each behaviour is one of a single  *)
(* module, the others stay where they are.                                 *)
(***************************************************************************)
EXTENDS Integers

CONSTANTS
  Modules,    \* those that are instantiated
  Bits, Widths, Heights, Margins,   \* of Mark
  ImageWidths, ImageHeights,        \* of GreyImage
  Levels, Alphas, Idles,            \* of Blend
  Places, MaxEvents                 \* of Background

VARIABLES
  module,
  render, settings, image, dest, y, shown,             \* of Mark
  width, height, normalicon, lines, columns, to, from, \* of GreyImage
  source, ground, channel, fading, running, bits, clean,  \* of Blend
  place, readable, covered, vanish, events,
  visibility, invalid, background, at, informed        \* of Background

M == INSTANCE Mark
G == INSTANCE GreyImage
       WITH Widths <- ImageWidths, Heights <- ImageHeights,
            y <- lines, x <- columns, dest <- to, src <- from
B == INSTANCE Blend WITH background <- ground
S == INSTANCE Background WITH Cover <- "cover", Blank <- "blank"

ASSUME ImagesAssumption ==
  M!MarkAssumption /\ G!SizeAssumption /\ B!BlendAssumption /\ S!PlaceAssumption

markVars == <<render, settings, image, dest, y, shown>>
greyVars == <<width, height, normalicon, lines, columns, to, from>>
blendVars == <<source, ground, channel, fading, running, bits, clean>>

slitVars == <<place, readable, covered, vanish, events,
              visibility, invalid, background, at, informed>>

(* Margins from both sides, the defaults of main.cc and some that are too  *)
(* large for most icons.                                                   *)
MCMargins == {-9, -3, -1, 0, 1, 5}

Init ==
  /\ module \in Modules
  /\ IF module = "Mark" THEN M!Init
     ELSE /\ render = 0 /\ settings = 0 /\ image = 0
          /\ dest = 0 /\ y = 0 /\ shown = 0
  /\ IF module = "GreyImage" THEN G!Init
     ELSE /\ width = 0 /\ height = 0 /\ normalicon = 0
          /\ lines = 0 /\ columns = 0 /\ to = 0 /\ from = 0
  /\ IF module = "Blend" THEN B!Init
     ELSE /\ source = 0 /\ ground = 0 /\ channel = 0
          /\ fading = 0 /\ running = 0 /\ bits = 0 /\ clean = 0
  /\ IF module = "Background" THEN S!Init
     ELSE /\ place = 0 /\ readable = 0 /\ covered = 0 /\ vanish = 0
          /\ events = 0 /\ visibility = 0 /\ invalid = 0
          /\ background = 0 /\ at = 0 /\ informed = 0

Next ==
  /\ UNCHANGED module
  /\ \/ module = "Mark" /\ M!Next /\ UNCHANGED <<greyVars, blendVars, slitVars>>
     \/ module = "GreyImage" /\ G!Next /\ UNCHANGED <<markVars, blendVars, slitVars>>
     \/ module = "Blend" /\ B!Next /\ UNCHANGED <<markVars, greyVars, slitVars>>
     \/ module = "Background" /\ S!Next /\ UNCHANGED <<markVars, greyVars, blendVars>>

Spec == Init /\ [][Next]_<<module, markVars, greyVars, blendVars, slitVars>>

(* activeMark only touches bytes of the image it is given.                 *)
InsideImage == module = "Mark" => M!InsideImage

(* The mark is drawn where getOffset and the margins place it.             *)
MarkPlaced == module = "Mark" => M!MarkPlaced

(* A click closes the application where the cross is drawn: Dock::run and  *)
(* Render agree on the pixels of the mark.                                 *)
AreaIsCross == module = "Mark" => M!AreaIsCross

(* loadIcon overwrites no byte of a grey image before it has read it: the  *)
(* pixels its loops reach are expanded from their own grey and alpha.      *)
ExpandedInPlace == module = "GreyImage" => G!ExpandedInPlace

(* Channels stay between those of the icon and of what it is drawn upon,   *)
(* marked or not: adding a difference to a byte never wraps around         *)
(* (Render::opaque, ghosted).                                              *)
InRange == module = "Blend" => B!InRange

(* From tick to tick a fading icon never flickers back, as long as its     *)
(* background is there and the same.                                       *)
FadesIn == [][module = "Blend" => B!ComesCloser]_blendVars

(* A background that counts as valid is that of the place of the slit,     *)
(* unless an event says that it has moved or it was read through another   *)
(* window before the news of that (Slot::getBackground).                   *)
BackgroundCurrent == module = "Background" => S!BackgroundCurrent

(* When all events are handled, a slit that can be seen has been read, in  *)
(* whatever order it was hidden, covered and moved.                        *)
Settled == module = "Background" => S!Settled

(* A slit that is off the screen does not end the dock, unless it leaves   *)
(* between two requests of getBackground.                                  *)
SurvivesHiddenSlit == module = "Background" => S!SurvivesHiddenSlit

=============================================================================
