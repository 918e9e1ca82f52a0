--------------------------- MODULE BackgroundProofs ---------------------------
(***************************************************************************)
(* Proofs of the properties of Background: for any places of the slit and  *)
(* any number of pending events.                                           *)
(***************************************************************************)
EXTENDS Background, TLAPS

Visibilities == {"obscured", "unobscured"}

Events == Visibilities \cup {"expose", "configure"}

SlotTypes ==
  /\ readable \in BOOLEAN /\ covered \in BOOLEAN /\ vanish \in BOOLEAN
  /\ events \in Seq(Events)
  /\ visibility \in Visibilities
  /\ invalid \in BOOLEAN /\ informed \in BOOLEAN
  /\ at \in {"idle", "attributes", "image", "ended"}

(* Only an invalid background is read.                                     *)
ReadsInvalid == at \in {"attributes", "image"} => invalid

(* The last the slot knows or will learn of its visibility is v.           *)
Known(v, news) ==
  \E i \in DOMAIN news : /\ news[i] = v
                         /\ \A j \in DOMAIN news : j > i => news[j] \notin Visibilities

KnownAtLast(v) ==
  \/ visibility = v /\ \A i \in DOMAIN events : events[i] \notin Visibilities
  \/ Known(v, events)

(* A slit on the screen is or will be known to be as it is.                *)
SlitKnown == readable => KnownAtLast(Seen(covered))

(* The news that the slit is no longer covered comes with an Expose.       *)
UncoveredExposed ==
  \A i \in DOMAIN events :
    events[i] = "unobscured" => i + 1 \in DOMAIN events /\ events[i + 1] = "expose"

(* A slit that can be seen is read already, or there will be an Expose.    *)
ToBeDrawn ==
  at = "idle" /\ invalid /\ readable /\ ~covered =>
    \E i \in DOMAIN events : events[i] = "expose"

(* Moves are read already, or there will be a ConfigureNotify.             *)
ToBeMoved ==
  ~invalid /\ (\A i \in DOMAIN events : events[i] # "configure") =>
    background = place \/ (background = Cover /\ ~informed)

(* A slit that does not go in between is still there to be read.           *)
SlitStays == ~vanish => at # "ended" /\ (at = "image" => readable)

SInv ==
  /\ SlotTypes
  /\ ReadsInvalid
  /\ SlitKnown
  /\ UncoveredExposed
  /\ ToBeDrawn
  /\ ToBeMoved
  /\ SlitStays

-----------------------------------------------------------------------------
(* Sequences of events                                                     *)

LEMMA TailAt ==
  ASSUME NEW S, NEW s \in Seq(S), s # <<>>
  PROVE  /\ Tail(s) \in Seq(S) /\ Head(s) = s[1] /\ 1 \in DOMAIN s
         /\ DOMAIN s = 1..Len(s) /\ Len(s) \in Nat
         /\ DOMAIN Tail(s) = 1..(Len(s) - 1)
         /\ \A i \in DOMAIN Tail(s) : i + 1 \in DOMAIN s /\ Tail(s)[i] = s[i + 1]
         /\ \A i \in DOMAIN s : i > 1 => i - 1 \in DOMAIN Tail(s) /\ Tail(s)[i - 1] = s[i]
<1>1. /\ DOMAIN s = 1..Len(s) /\ Len(s) \in Nat \ {0} /\ Head(s) = s[1]
      /\ DOMAIN Tail(s) = 1..(Len(s) - 1)
      /\ \A i \in 1..(Len(s) - 1) : Tail(s)[i] = s[i + 1]
      /\ Tail(s) \in Seq(S)
  OBVIOUS
<1>2. \A i \in 1..(Len(s) - 1) : i + 1 \in 1..Len(s)
  BY <1>1
<1>3. \A i \in 1..Len(s) : i > 1 => i - 1 \in 1..(Len(s) - 1) /\ (i - 1) + 1 = i
  BY <1>1
<1> QED BY <1>1, <1>2, <1>3

LEMMA JoinedAt ==
  ASSUME NEW S, NEW s \in Seq(S), NEW t \in Seq(S)
  PROVE  /\ s \o t \in Seq(S)
         /\ Len(s) \in Nat /\ DOMAIN s = 1..Len(s)
         /\ Len(t) \in Nat /\ DOMAIN t = 1..Len(t)
         /\ DOMAIN (s \o t) = 1..(Len(s) + Len(t))
         /\ \A i \in DOMAIN s : i \in DOMAIN (s \o t) /\ (s \o t)[i] = s[i]
         /\ \A i \in DOMAIN t : /\ Len(s) + i \in DOMAIN (s \o t)
                              /\ (s \o t)[Len(s) + i] = t[i]
         /\ \A i \in DOMAIN (s \o t) :
              i \in DOMAIN s \/ (i > Len(s) /\ i - Len(s) \in DOMAIN t
                                 /\ (s \o t)[i] = t[i - Len(s)])
<1>1. /\ s \o t \in Seq(S)
      /\ Len(s) \in Nat /\ DOMAIN s = 1..Len(s)
      /\ Len(t) \in Nat /\ DOMAIN t = 1..Len(t)
      /\ DOMAIN (s \o t) = 1..(Len(s) + Len(t))
      /\ \A i \in 1..(Len(s) + Len(t)) :
           (s \o t)[i] = IF i <= Len(s) THEN s[i] ELSE t[i - Len(s)]
  OBVIOUS
<1>2. \A i \in 1..Len(s) : i \in 1..(Len(s) + Len(t)) /\ i <= Len(s)
  BY <1>1
<1>3. \A i \in 1..Len(t) : /\ Len(s) + i \in 1..(Len(s) + Len(t))
                        /\ ~(Len(s) + i <= Len(s)) /\ (Len(s) + i) - Len(s) = i
  BY <1>1
<1>4. \A i \in 1..(Len(s) + Len(t)) :
        i \in 1..Len(s) \/ (i > Len(s) /\ ~(i <= Len(s)) /\ i - Len(s) \in 1..Len(t))
  BY <1>1
<1> QED BY <1>1, <1>2, <1>3, <1>4

-----------------------------------------------------------------------------
(* The X server and the window manager                                     *)

(* News of the visibility are the last the slot will know; others change   *)
(* nothing about that.                                                     *)
LEMMA CausesKeeps ==
  ASSUME SInv, NEW news \in Seq(Events), Causes(news),
         \A i \in DOMAIN news :
           news[i] = "unobscured" => i + 1 \in DOMAIN news /\ news[i + 1] = "expose"
  PROVE  /\ events' \in Seq(Events) /\ UncoveredExposed'
         /\ \A i \in DOMAIN events : i \in DOMAIN events' /\ events'[i] = events[i]
         /\ \A i \in DOMAIN news : \E j \in DOMAIN events' : events'[j] = news[i]
         /\ \A v : Known(v, news) => KnownAtLast(v)'
         /\ (\A i \in DOMAIN news : news[i] \notin Visibilities) =>
              \A v : KnownAtLast(v) => KnownAtLast(v)'
<1>1. events' = events \o news /\ events \in Seq(Events) /\ visibility' = visibility
  BY DEF Causes, SInv, SlotTypes, slotVars
<1>2. /\ events' \in Seq(Events)
      /\ Len(events) \in Nat /\ DOMAIN events = 1..Len(events)
      /\ Len(news) \in Nat /\ DOMAIN news = 1..Len(news)
      /\ DOMAIN events' = 1..(Len(events) + Len(news))
      /\ \A i \in DOMAIN events : i \in DOMAIN events' /\ events'[i] = events[i]
      /\ \A i \in DOMAIN news : /\ Len(events) + i \in DOMAIN events'
                              /\ events'[Len(events) + i] = news[i]
      /\ \A i \in DOMAIN events' :
           i \in DOMAIN events \/ (i > Len(events) /\ i - Len(events) \in DOMAIN news
                                   /\ events'[i] = news[i - Len(events)])
  BY <1>1, JoinedAt
<1>3. UncoveredExposed'
  <2> SUFFICES ASSUME NEW i \in DOMAIN events', events'[i] = "unobscured"
               PROVE  i + 1 \in DOMAIN events' /\ events'[i + 1] = "expose"
    BY DEF UncoveredExposed
  <2>1. CASE i \in DOMAIN events
    BY <1>2, <2>1 DEF SInv, UncoveredExposed
  <2>2. CASE i \notin DOMAIN events
    <3>1. /\ i - Len(events) \in DOMAIN news
          /\ news[i - Len(events)] = "unobscured"
      BY <1>2, <2>2
    <3>2. /\ (i - Len(events)) + 1 \in DOMAIN news
          /\ news[(i - Len(events)) + 1] = "expose"
      BY <3>1
    <3>3. Len(events) + ((i - Len(events)) + 1) = i + 1
      BY <1>2
    <3> QED BY <1>2, <3>2, <3>3
  <2> QED BY <2>1, <2>2
<1>4. ASSUME NEW v, Known(v, news)
      PROVE  KnownAtLast(v)'
  <2>1. PICK i \in DOMAIN news : /\ news[i] = v
                                /\ \A j \in DOMAIN news : j > i => news[j] \notin Visibilities
    BY <1>4 DEF Known
  <2>2. Len(events) + i \in DOMAIN events' /\ events'[Len(events) + i] = v
    BY <1>2, <2>1
  <2>3. ASSUME NEW j \in DOMAIN events', j > Len(events) + i
        PROVE  events'[j] \notin Visibilities
    <3>1. j - Len(events) \in DOMAIN news /\ events'[j] = news[j - Len(events)]
      BY <1>2, <2>3
    <3>2. j - Len(events) > i
      BY <1>2, <2>3
    <3> QED BY <2>1, <3>1, <3>2
  <2> QED BY <2>2, <2>3 DEF KnownAtLast, Known
<1>5. ASSUME \A i \in DOMAIN news : news[i] \notin Visibilities,
             NEW v, KnownAtLast(v)
      PROVE  KnownAtLast(v)'
  <2>1. CASE visibility = v /\ \A i \in DOMAIN events : events[i] \notin Visibilities
    BY <1>1, <1>2, <1>5, <2>1 DEF KnownAtLast
  <2>2. CASE Known(v, events)
    BY <1>1, <1>2, <1>5, <2>2 DEF KnownAtLast, Known
  <2> QED BY <1>5, <2>1, <2>2 DEF KnownAtLast
<1> QED BY <1>2, <1>3, <1>4, <1>5

(* What the slit does keeps the invariant if the slot will hear of it.     *)
LEMMA CausesSInv ==
  ASSUME SInv, NEW news \in Seq(Events), Causes(news),
         readable' \in BOOLEAN, covered' \in BOOLEAN,
         \A i \in DOMAIN news :
           news[i] = "unobscured" => i + 1 \in DOMAIN news /\ news[i + 1] = "expose",
         \/ ~readable'
         \/ Known(Seen(covered'), news)
         \/ /\ UNCHANGED <<readable, covered>>
            /\ \A i \in DOMAIN news : news[i] \notin Visibilities,
         \/ ~readable' \/ covered' \/ UNCHANGED <<readable, covered>>
         \/ \E i \in DOMAIN news : news[i] = "expose",
         place' = place \/ \E i \in DOMAIN news : news[i] = "configure",
         ~readable' => ~readable \/ vanish \/ at # "image"
  PROVE  SInv'
<1> USE DEF SInv
<1>1. UNCHANGED <<vanish, visibility, invalid, background, at, informed>>
  BY DEF Causes, slotVars
<1>2. /\ events' \in Seq(Events) /\ UncoveredExposed'
      /\ \A i \in DOMAIN events : i \in DOMAIN events' /\ events'[i] = events[i]
      /\ \A i \in DOMAIN news : \E j \in DOMAIN events' : events'[j] = news[i]
      /\ \A v : Known(v, news) => KnownAtLast(v)'
      /\ (\A i \in DOMAIN news : news[i] \notin Visibilities) =>
           \A v : KnownAtLast(v) => KnownAtLast(v)'
  BY CausesKeeps
<1>3. SlotTypes' /\ ReadsInvalid'
  BY <1>1, <1>2 DEF SlotTypes, ReadsInvalid
<1>4. SlitKnown'
  <2> SUFFICES ASSUME readable', NEW v, v = Seen(covered') PROVE KnownAtLast(v)'
    BY DEF SlitKnown, KnownAtLast, Seen
  <2>1. CASE Known(v, news)
    BY <1>2, <2>1
  <2>2. CASE /\ UNCHANGED <<readable, covered>>
             /\ \A i \in DOMAIN news : news[i] \notin Visibilities
    <3>1. KnownAtLast(v)
      BY <2>2 DEF SlitKnown, Seen
    <3> QED BY <1>2, <2>2, <3>1
  <2> QED BY <2>1, <2>2
<1>5. ToBeDrawn'
  BY <1>1, <1>2 DEF ToBeDrawn
<1>6. ToBeMoved'
  <2>1. (\A i \in DOMAIN events' : events'[i] # "configure") =>
          place' = place /\ \A i \in DOMAIN events : events[i] # "configure"
    BY <1>2
  <2> QED BY <1>1, <2>1 DEF ToBeMoved
<1>7. SlitStays'
  BY <1>1 DEF SlitStays, Causes
<1> QED BY <1>2, <1>3, <1>4, <1>5, <1>6, <1>7

LEMMA SlitSInv ==
  ASSUME SInv,
         CoverSlit \/ UncoverSlit \/ Move \/ Hide \/ Show
  PROVE  SInv'
<1> USE DEF Events, Visibilities
<1>1. readable \in BOOLEAN /\ covered \in BOOLEAN
  BY DEF SInv, SlotTypes
<1>2. <<>> \in Seq(Events) /\ DOMAIN <<>> = {}
  OBVIOUS
<1>3. ASSUME NEW e \in Events
      PROVE  /\ <<e>> \in Seq(Events) /\ DOMAIN <<e>> = {1} /\ <<e>>[1] = e
             /\ Known(e, <<e>>)
  BY <1>3 DEF Known
<1>4. ASSUME NEW e \in Visibilities
      PROVE  \E news \in Seq(Events) :
               /\ news = <<e, "expose">> /\ Known(e, news)
               /\ \E i \in DOMAIN news : news[i] = "expose"
               /\ \A i \in DOMAIN news :
                    news[i] = "unobscured" =>
                      i + 1 \in DOMAIN news /\ news[i + 1] = "expose"
  <2> DEFINE news == <<e, "expose">>
  <2>1. news \in Seq(Events) /\ DOMAIN news = {1, 2} /\ news[1] = e /\ news[2] = "expose"
    BY <1>4
  <2>2. Known(e, news)
    BY <1>4, <2>1 DEF Known
  <2>3. /\ \E i \in DOMAIN news : news[i] = "expose"
        /\ \A i \in DOMAIN news :
             news[i] = "unobscured" => i + 1 \in DOMAIN news /\ news[i + 1] = "expose"
    BY <2>1
  <2> HIDE DEF news
  <2>4. news = <<e, "expose">>
    BY DEF news
  <2> QED BY <2>1, <2>2, <2>3, <2>4
<1>5. CASE CoverSlit
  <2>1. CASE readable
    <3>1. /\ Causes(<<"obscured">>) /\ covered' = TRUE
          /\ UNCHANGED <<place, readable>> /\ Seen(covered') = "obscured"
      BY <1>5, <2>1 DEF CoverSlit, Seen
    <3> QED BY <1>1, <1>3, <3>1, CausesSInv
  <2>2. CASE ~readable
    <3>1. Causes(<<>>) /\ covered' = TRUE /\ UNCHANGED <<place, readable>>
      BY <1>5, <2>2 DEF CoverSlit
    <3> QED BY <1>1, <1>2, <2>2, <3>1, CausesSInv
  <2> QED BY <2>1, <2>2
<1>6. CASE UncoverSlit
  <2>1. CASE readable
    <3>1. /\ Causes(<<"unobscured", "expose">>) /\ covered' = FALSE
          /\ UNCHANGED <<place, readable>> /\ Seen(covered') = "unobscured"
      BY <1>6, <2>1 DEF UncoverSlit, Seen
    <3>2. PICK news \in Seq(Events) :
            /\ news = <<"unobscured", "expose">> /\ Known("unobscured", news)
            /\ \E i \in DOMAIN news : news[i] = "expose"
            /\ \A i \in DOMAIN news :
                 news[i] = "unobscured" => i + 1 \in DOMAIN news /\ news[i + 1] = "expose"
      BY <1>4
    <3> QED BY <1>1, <2>1, <3>1, <3>2, CausesSInv
  <2>2. CASE ~readable
    <3>1. Causes(<<>>) /\ covered' = FALSE /\ UNCHANGED <<place, readable>>
      BY <1>6, <2>2 DEF UncoverSlit
    <3> QED BY <1>1, <1>2, <2>2, <3>1, CausesSInv
  <2> QED BY <2>1, <2>2
<1>7. CASE Move
  <2>1. Causes(<<"configure">>) /\ UNCHANGED <<readable, covered>>
    BY <1>7 DEF Move
  <2>2. /\ <<"configure">> \in Seq(Events) /\ DOMAIN <<"configure">> = {1}
        /\ <<"configure">>[1] = "configure"
    OBVIOUS
  <2>3. PICK news \in Seq(Events) :
          /\ news = <<"configure">>
          /\ \E i \in DOMAIN news : news[i] = "configure"
          /\ \A i \in DOMAIN news : news[i] \notin Visibilities
    BY <2>2
  <2> QED BY <1>1, <2>1, <2>3, CausesSInv
<1>8. CASE Hide
  <2>1. Causes(<<>>) /\ readable' = FALSE /\ UNCHANGED <<place, covered>>
        /\ (vanish \/ at # "image")
    BY <1>8 DEF Hide
  <2> QED BY <1>1, <1>2, <2>1, CausesSInv
<1>9. CASE Show
  <2>1. Causes(<<Seen(covered), "expose">>) /\ readable' = TRUE /\ UNCHANGED <<place, covered>>
    BY <1>9 DEF Show
  <2>2. Seen(covered) \in Visibilities /\ Seen(covered') = Seen(covered)
    BY <2>1 DEF Seen
  <2>3. PICK news \in Seq(Events) :
          /\ news = <<Seen(covered), "expose">> /\ Known(Seen(covered), news)
          /\ \E i \in DOMAIN news : news[i] = "expose"
          /\ \A i \in DOMAIN news :
               news[i] = "unobscured" => i + 1 \in DOMAIN news /\ news[i + 1] = "expose"
    BY <1>4, <2>2
  <2> QED BY <1>1, <2>1, <2>2, <2>3, CausesSInv
<1> QED BY <1>5, <1>6, <1>7, <1>8, <1>9

-----------------------------------------------------------------------------
(* The slot                                                                *)

(* An event that is handled is known now, the others are still to come.    *)
LEMMA EventKeeps ==
  ASSUME SInv, Event, UNCHANGED slitVars,
         visibility' = IF Head(events) \in Visibilities THEN Head(events) ELSE visibility
  PROVE  /\ events' \in Seq(Events) /\ Head(events) \in Events
         /\ UncoveredExposed' /\ SlitKnown'
         /\ UNCHANGED <<place, readable, covered, vanish>>
         /\ \A i \in DOMAIN events :
              events[i] # Head(events) => \E j \in DOMAIN events' : events'[j] = events[i]
<1>1. /\ events \in Seq(Events) /\ events # <<>> /\ events' = Tail(events)
      /\ UNCHANGED <<place, readable, covered, vanish>>
  BY DEF SInv, SlotTypes, Event, slitVars
<1>2. /\ events' \in Seq(Events) /\ Head(events) = events[1] /\ 1 \in DOMAIN events
      /\ DOMAIN events = 1..Len(events) /\ Len(events) \in Nat
      /\ DOMAIN events' = 1..(Len(events) - 1)
      /\ \A i \in DOMAIN events' : i + 1 \in DOMAIN events /\ events'[i] = events[i + 1]
      /\ \A i \in DOMAIN events :
           i > 1 => i - 1 \in DOMAIN events' /\ events'[i - 1] = events[i]
  BY <1>1, TailAt
<1>3. Head(events) \in Events
  BY <1>1, <1>2
<1>4. UncoveredExposed'
  <2> SUFFICES ASSUME NEW i \in DOMAIN events', events'[i] = "unobscured"
               PROVE  i + 1 \in DOMAIN events' /\ events'[i + 1] = "expose"
    BY DEF UncoveredExposed
  <2>1. (i + 1) + 1 \in DOMAIN events /\ events[(i + 1) + 1] = "expose"
    BY <1>2 DEF SInv, UncoveredExposed
  <2> QED BY <1>2, <2>1
<1>5. \A i \in DOMAIN events :
        events[i] # Head(events) => \E j \in DOMAIN events' : events'[j] = events[i]
  BY <1>2
<1>6. ASSUME NEW v \in Visibilities, KnownAtLast(v)
      PROVE  KnownAtLast(v)'
  <2>1. CASE visibility = v /\ \A i \in DOMAIN events : events[i] \notin Visibilities
    <3>1. UNCHANGED visibility
      BY <1>2, <2>1
    <3>2. \A i \in DOMAIN events' : events'[i] \notin Visibilities
      BY <1>2, <2>1
    <3> QED BY <2>1, <3>1, <3>2 DEF KnownAtLast
  <2>2. CASE Known(v, events)
    <3>1. PICK i \in DOMAIN events :
            /\ events[i] = v
            /\ \A j \in DOMAIN events : j > i => events[j] \notin Visibilities
      BY <2>2 DEF Known
    <3>2. CASE i > 1
      <4>1. i - 1 \in DOMAIN events' /\ events'[i - 1] = v
        BY <1>2, <3>1, <3>2
      <4>2. ASSUME NEW j \in DOMAIN events', j > i - 1
            PROVE  events'[j] \notin Visibilities
        BY <1>2, <3>1, <4>2
      <4> QED BY <4>1, <4>2 DEF KnownAtLast, Known
    <3>3. CASE i = 1
      <4>1. \A j \in DOMAIN events' : events'[j] \notin Visibilities
        BY <1>2, <3>1, <3>3
      <4>2. visibility' = v
        BY <1>2, <3>1, <3>3
      <4> QED BY <4>1, <4>2 DEF KnownAtLast
    <3> QED BY <1>2, <3>2, <3>3
  <2> QED BY <1>6, <2>1, <2>2 DEF KnownAtLast
<1>7. SlitKnown'
  <2> SUFFICES ASSUME readable', NEW v, v = Seen(covered') PROVE KnownAtLast(v)'
    BY DEF SlitKnown, KnownAtLast, Seen
  <2>1. v \in Visibilities /\ KnownAtLast(v)
    BY <1>1 DEF SInv, SlitKnown, Seen, Visibilities
  <2> QED BY <1>6, <2>1
<1> QED BY <1>1, <1>2, <1>3, <1>4, <1>5, <1>7

LEMMA VisibilityNotifySInv == SInv /\ VisibilityNotify => SInv'
<1> SUFFICES ASSUME SInv, VisibilityNotify PROVE SInv'
  OBVIOUS
<1>1. /\ Event /\ Head(events) \in Visibilities /\ visibility' = Head(events)
      /\ UNCHANGED <<slitVars, invalid, background, at, informed>>
  BY DEF VisibilityNotify, Visibilities
<1>2. /\ events' \in Seq(Events) /\ UncoveredExposed' /\ SlitKnown'
      /\ UNCHANGED <<place, readable, covered, vanish>>
      /\ \A i \in DOMAIN events :
           events[i] # Head(events) => \E j \in DOMAIN events' : events'[j] = events[i]
  BY <1>1, EventKeeps
<1>3. SlotTypes' /\ ReadsInvalid' /\ SlitStays'
  BY <1>1, <1>2 DEF SInv, SlotTypes, ReadsInvalid, SlitStays
<1>4. ToBeDrawn' /\ ToBeMoved'
  BY <1>1, <1>2 DEF SInv, ToBeDrawn, ToBeMoved, Visibilities
<1> QED BY <1>2, <1>3, <1>4 DEF SInv

(* Handling an Expose or a move ends with drawing.                         *)
LEMMA DrawSInv ==
  ASSUME SInv, Event, NEW isInvalid \in BOOLEAN, DrawWith(isInvalid),
         \/ Head(events) = "expose" /\ isInvalid = invalid
         \/ Head(events) = "configure" /\ isInvalid
  PROVE  SInv'
<1>1. /\ invalid' = isInvalid
      /\ at = "idle" /\ at' = IF isInvalid THEN "attributes" ELSE "idle"
      /\ UNCHANGED <<slitVars, visibility, background, informed>>
  BY DEF DrawWith, Event
<1>2. /\ events' \in Seq(Events) /\ UncoveredExposed' /\ SlitKnown'
      /\ UNCHANGED <<place, readable, covered, vanish>>
      /\ \A i \in DOMAIN events :
           events[i] # Head(events) => \E j \in DOMAIN events' : events'[j] = events[i]
  BY <1>1, EventKeeps DEF Visibilities
<1>3. SlotTypes' /\ ReadsInvalid' /\ SlitStays'
  BY <1>1, <1>2 DEF SInv, SlotTypes, ReadsInvalid, SlitStays
<1>4. ToBeDrawn' /\ ToBeMoved'
  BY <1>1, <1>2 DEF SInv, ToBeDrawn, ToBeMoved
<1> QED BY <1>2, <1>3, <1>4 DEF SInv

(* Steps that handle no event and do not read.                             *)
LEMMA WaitingSInv ==
  ASSUME SInv, UNCHANGED <<slitVars, events, visibility, invalid, background, informed>>,
         \/ at' = at
         \/ at' = "attributes" /\ invalid
         \/ at' = "image" /\ invalid /\ readable
         \/ at' = "idle" /\ ~readable
         \/ at' = "ended" /\ vanish
  PROVE  SInv'
<1>1. UNCHANGED <<place, readable, covered, vanish>>
  BY DEF slitVars
<1>2. SlotTypes' /\ ReadsInvalid' /\ SlitStays'
  BY <1>1 DEF SInv, SlotTypes, ReadsInvalid, SlitStays
<1>3. SlitKnown' /\ UncoveredExposed'
  BY <1>1 DEF SInv, SlitKnown, KnownAtLast, Known, UncoveredExposed, Seen
<1>4. ToBeDrawn' /\ ToBeMoved'
  BY <1>1 DEF SInv, ToBeDrawn, ToBeMoved
<1> QED BY <1>2, <1>3, <1>4 DEF SInv

(* Reading a slit that is known to be uncovered is reading its background, *)
(* and where it is not read an Expose is still to come.                    *)
LEMMA GetSubImageSInv == SInv /\ GetSubImage => SInv'
<1> SUFFICES ASSUME SInv, GetSubImage PROVE SInv'
  OBVIOUS
<1>1. at = "image" /\ invalid /\ UNCHANGED <<slitVars, events, visibility>>
  BY DEF GetSubImage, SInv, ReadsInvalid
<1>2. UNCHANGED <<place, readable, covered, vanish>>
  BY <1>1 DEF slitVars
<1>3. CASE ~readable
  <2>1. vanish
    BY <1>1, <1>3 DEF SInv, SlitStays, SlotTypes
  <2>2. at' = "ended" /\ UNCHANGED <<background, invalid, informed>>
    BY <1>3 DEF GetSubImage
  <2> QED BY <1>1, <2>1, <2>2, WaitingSInv
<1>4. CASE readable
  <2>1. /\ at' = "idle" /\ informed' = (events = <<>>)
        /\ \/ /\ visibility = "unobscured" /\ ~invalid'
              /\ background' = IF covered THEN Cover ELSE place
           \/ /\ visibility # "unobscured"
              /\ UNCHANGED <<background, invalid>>
    BY <1>4 DEF GetSubImage
  <2>2. informed' \in BOOLEAN /\ invalid' \in BOOLEAN
    <3>1. informed' \in BOOLEAN
      BY <2>1, Zenon
    <3>2. invalid' \in BOOLEAN
      BY <1>4, <1>1 DEF GetSubImage, SInv, SlotTypes
    <3> QED BY <3>1, <3>2
  <2>3. SlotTypes' /\ ReadsInvalid' /\ SlitStays'
    BY <1>1, <1>2, <2>1, <2>2 DEF SInv, SlotTypes, ReadsInvalid, SlitStays
  <2>4. SlitKnown' /\ UncoveredExposed'
    BY <1>1, <1>2 DEF SInv, SlitKnown, KnownAtLast, Known, UncoveredExposed, Seen
  <2>5. KnownAtLast(Seen(covered))
    BY <1>4 DEF SInv, SlitKnown
  <2>6. visibility # Seen(covered) => \E i \in DOMAIN events : events[i] = Seen(covered)
    BY <2>5 DEF KnownAtLast, Known
  <2>7. ToBeDrawn'
    <3> SUFFICES ASSUME invalid', ~covered'
                 PROVE  \E i \in DOMAIN events : events[i] = "expose"
      BY <1>1 DEF ToBeDrawn
    <3>1. visibility # "unobscured" /\ Seen(covered) = "unobscured"
      BY <1>2, <2>1 DEF Seen
    <3> QED BY <2>6, <3>1 DEF SInv, UncoveredExposed
  <2>8. ToBeMoved'
    <3> SUFFICES ASSUME ~invalid'
                 PROVE  background' = place \/ (background' = Cover /\ ~informed')
      BY <1>2 DEF ToBeMoved
    <3>1. visibility = "unobscured" /\ background' = IF covered THEN Cover ELSE place
      BY <1>1, <2>1
    <3>2. CASE covered
      <4>1. PICK i \in DOMAIN events : events[i] = Seen(covered)
        BY <2>6, <3>1, <3>2 DEF Seen
      <4>2. events # <<>>
        BY <4>1
      <4> QED BY <2>1, <3>1, <3>2, <4>2
    <3>3. CASE ~covered
      BY <3>1, <3>3
    <3> QED BY <3>2, <3>3
  <2> QED BY <2>3, <2>4, <2>7, <2>8 DEF SInv
<1> QED BY <1>3, <1>4

-----------------------------------------------------------------------------
(* Theorems                                                                *)

LEMMA InitSInv == Init => SInv
<1> SUFFICES ASSUME Init PROVE SInv
  OBVIOUS
<1>1. /\ events \in Seq(Events) /\ DOMAIN events = 1..3
      /\ events[1] = "configure" /\ events[2] = "unobscured" /\ events[3] = "expose"
  BY DEF Init, Events, Visibilities
<1>2. SlotTypes /\ ReadsInvalid /\ SlitStays
  BY <1>1 DEF Init, SlotTypes, ReadsInvalid, SlitStays, Visibilities
<1>3. Known("unobscured", events)
  BY <1>1 DEF Known, Visibilities
<1>4. SlitKnown /\ UncoveredExposed
  BY <1>1, <1>3 DEF Init, SlitKnown, KnownAtLast, Seen, UncoveredExposed
<1>5. ToBeDrawn /\ ToBeMoved
  BY <1>1 DEF Init, ToBeDrawn, ToBeMoved
<1> QED BY <1>2, <1>4, <1>5 DEF SInv

LEMMA NextSInv == SInv /\ [Next]_vars => SInv'
<1> SUFFICES ASSUME SInv, [Next]_vars PROVE SInv'
  OBVIOUS
<1>1. CASE CoverSlit \/ UncoverSlit \/ Move \/ Hide \/ Show
  BY <1>1, SlitSInv
<1>2. CASE Expose \/ ConfigureNotify
  BY <1>2, DrawSInv DEF Expose, ConfigureNotify, SInv, SlotTypes
<1>3. CASE Tick
  BY <1>3, WaitingSInv DEF Tick, DrawWith, SInv, SlotTypes
<1>4. CASE GetWindowAttributes
  BY <1>4, WaitingSInv DEF GetWindowAttributes, SInv, ReadsInvalid
<1>5. CASE UNCHANGED vars
  BY <1>5, WaitingSInv DEF vars, slotVars
<1> QED BY <1>1, <1>2, <1>3, <1>4, <1>5, VisibilityNotifySInv, GetSubImageSInv DEF Next

(* What the slot knows of the slit, what it will be told and what it has   *)
(* read fit together in every state: the properties of Background follow   *)
(* from this.                                                              *)
THEOREM SlitInvariance == Spec => []SInv
<1>1. Init => SInv
  BY InitSInv
<1>2. SInv /\ [Next]_vars => SInv'
  BY NextSInv
<1> QED BY <1>1, <1>2, PTL DEF Spec

=============================================================================
