------------------------------ MODULE Background ------------------------------
(***************************************************************************)
(* How a slot keeps up with the slit: Slot::getBackground request by       *)
(* request, while the slit is moved, hidden and covered by other windows.  *)
(* What the slot knows of that are events, which arrive later.             *)
(*                                                                         *)
(* A background is known by the place of the slit it was read at.          *)
(***************************************************************************)
EXTENDS Naturals, SequencesExt

CONSTANTS
  Places,     \* where the slit can be
  Cover,      \* the pixels of a window that covers the slit
  Blank,      \* no pixels
  MaxEvents   \* bound: events that are pending when another is caused

PlaceAssumption == {Cover, Blank} \cap Places = {} /\ Cover # Blank

VARIABLES
  place, readable, covered,   \* the slit: position, entirely on the screen,
                              \* and under another window
  vanish,     \* the slit may be hidden between two requests of the slot
  events,     \* the events for the slot: a visibility, "expose", "configure"
  visibility, invalid, background,   \* members of Slot
  at,         \* "idle", before XGetWindowAttributes ("attributes") or
              \* XGetSubImage ("image"), or "ended" by an X error
  informed    \* no event was pending when the background was read

slitVars == <<place, readable, covered, vanish>>
slotVars == <<visibility, invalid, background, at, informed>>
vars == <<slitVars, events, slotVars>>

(* A new slot is taken in by the slit.                                     *)
Init ==
  /\ place \in Places /\ readable = TRUE /\ covered = FALSE
  /\ vanish \in BOOLEAN
  /\ events = <<"configure", "unobscured", "expose">>
  /\ visibility = "unobscured" /\ invalid = FALSE /\ background = Blank
  /\ at = "idle"
  /\ informed = TRUE

-----------------------------------------------------------------------------
(* The X server and the window manager                                     *)

Seen(c) == IF c THEN "obscured" ELSE "unobscured"

Causes(news) ==
  /\ at # "ended" /\ Len(events) <= MaxEvents
  /\ events' = events \o news
  /\ UNCHANGED <<vanish, slotVars>>

CoverSlit ==
  /\ ~covered /\ covered' = TRUE
  /\ Causes(IF readable THEN <<Seen(TRUE)>> ELSE <<>>)
  /\ UNCHANGED <<place, readable>>

UncoverSlit ==
  /\ covered /\ covered' = FALSE
  /\ Causes(IF readable THEN <<Seen(FALSE), "expose">> ELSE <<>>)
  /\ UNCHANGED <<place, readable>>

Move ==
  /\ \E p \in Places \ {place} : place' = p
  /\ Causes(<<"configure">>)
  /\ UNCHANGED <<readable, covered>>

Hide ==
  /\ readable /\ (vanish \/ at # "image")
  /\ readable' = FALSE
  /\ Causes(<<>>)
  /\ UNCHANGED <<place, covered>>

Show ==
  /\ ~readable /\ readable' = TRUE
  /\ Causes(<<Seen(covered), "expose">>)
  /\ UNCHANGED <<place, covered>>

-----------------------------------------------------------------------------
(* Slot                                                                    *)

Event == at = "idle" /\ events # <<>> /\ events' = Tail(events)

VisibilityNotify ==
  /\ Event /\ Head(events) \in {"obscured", "unobscured"}
  /\ visibility' = Head(events)
  /\ UNCHANGED <<slitVars, invalid, background, at, informed>>

(* draw, where an invalid background makes getBackground begin.            *)
DrawWith(isInvalid) ==
  /\ invalid' = isInvalid
  /\ at' = IF isInvalid THEN "attributes" ELSE "idle"
  /\ UNCHANGED <<slitVars, visibility, background, informed>>

(* FAULT: only draw( true ) looks at invalid.                              *)
ExposeOnly ==
  /\ Event /\ Head(events) = "expose"
  /\ UNCHANGED <<slitVars, slotVars>>

Expose == Event /\ Head(events) = "expose" /\ DrawWith(invalid)

ConfigureNotify == Event /\ Head(events) = "configure" /\ DrawWith(TRUE)

(* Slot::tick, if it draws.                                                *)
Tick == at = "idle" /\ invalid /\ DrawWith(TRUE) /\ UNCHANGED events

(* FAULT: the slit is not looked at.                                       *)
GetWindowAttributesUnchecked ==
  /\ at = "attributes"
  /\ at' = "image"
  /\ UNCHANGED <<slitVars, events, visibility, invalid, background, informed>>

GetWindowAttributes ==
  /\ at = "attributes"
  /\ at' = IF readable THEN "image" ELSE "idle"
  /\ UNCHANGED <<slitVars, events, visibility, invalid, background, informed>>

(* FAULT: a covered background is saved, too.                              *)
GetSubImageAlways ==
  /\ at = "image"
  /\ IF readable
     THEN /\ at' = "idle" /\ informed' = (events = <<>>)
          /\ background' = IF covered THEN Cover ELSE place
          /\ invalid' = FALSE
     ELSE at' = "ended" /\ UNCHANGED <<background, invalid, informed>>
  /\ UNCHANGED <<slitVars, events, visibility>>

(* XGetSubImage, an error if the slit is hidden, and the memcpy.           *)
GetSubImage ==
  /\ at = "image"
  /\ IF readable
     THEN /\ at' = "idle" /\ informed' = (events = <<>>)
          /\ IF visibility = "unobscured"
             THEN background' = (IF covered THEN Cover ELSE place) /\ invalid' = FALSE
             ELSE UNCHANGED <<background, invalid>>
     ELSE at' = "ended" /\ UNCHANGED <<background, invalid, informed>>
  /\ UNCHANGED <<slitVars, events, visibility>>

Next ==
  \/ CoverSlit \/ UncoverSlit \/ Move \/ Hide \/ Show
  \/ VisibilityNotify \/ Expose \/ ConfigureNotify \/ Tick
  \/ GetWindowAttributes \/ GetSubImage

Spec == Init /\ [][Next]_vars

-----------------------------------------------------------------------------
(* Properties                                                              *)

(* A background that counts as valid is that of the slit where it is now,  *)
(* unless an event says that it has moved since.  Pixels of another window *)
(* are only taken for it when they are read before the news that the slit  *)
(* is covered has reached the slot.                                        *)
BackgroundCurrent ==
  at = "idle" /\ ~invalid /\ ~Contains(events, "configure") =>
    background = place \/ (background = Cover /\ ~informed)

(* When all events are handled, a slit that can be seen has been read: no  *)
(* order of being hidden, covered and moved leaves a slot behind with its  *)
(* background marked as invalid until it is drawn for another reason.      *)
Settled == at = "idle" /\ events = <<>> /\ readable /\ ~covered => ~invalid

(* Asking whether the slit is on the screen is enough, if it does not go   *)
(* between this and the next request.                                      *)
SurvivesHiddenSlit == ~vanish => at # "ended"

=============================================================================
