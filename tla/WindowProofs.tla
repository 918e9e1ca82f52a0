----------------------------- MODULE WindowProofs -----------------------------
(***************************************************************************)
(* Proofs of the properties of WindowManager: for any windows, titles,     *)
(* patterns and way of matching, and whatever the windows do meanwhile.    *)
(***************************************************************************)
EXTENDS WindowManager, TLAPS

(* An operation has titles to deal with, and a window where it needs one.  *)
(* Only activateWindow has two steps for a window.                         *)
Engaged ==
  /\ at \notin {"idle", "ended"} => todo # <<>>
  /\ at \in {"title", "use", "map"} => w \in Windows
  /\ at = "map" => op = "activate"

(* What is remembered of the windows is true of them now.                  *)
StableMatches ==
  \A p \in PatternSet : \A x \in stable[p] : x \in ToSet(list) /\ Matching(x, p)

(* The windows that are not examined yet include all those that were there *)
(* all the time.                                                           *)
StillToCome ==
  /\ at = "scan" => stable[Head(todo)] \subseteq ToSet(items)
  /\ at = "title" => stable[Head(todo)] \subseteq ToSet(items) \cup {w}

(* As long as closeApplication has closed nothing, the titles it has dealt *)
(* with have no such window.                                               *)
NothingToClose ==
  op = "close" /\ ~closed /\ at \notin {"idle", "ended"} =>
    \A p \in PatternSet \ ToSet(todo) : stable[p] = {}

(* Where windows stay during an operation, the one in question is there.   *)
WindowStays ==
  ~world.vanish =>
    /\ at # "ended"
    /\ at \in {"title", "use", "map"} => Exists(w)

(* The ids in the cache are those of windows that have existed; where      *)
(* titles and ids are for ever, those that still exist match.              *)
CacheMatches ==
  \A p \in PatternSet : cache[p] # None =>
    /\ title[cache[p]] # "unborn"
    /\ ~world.retitle /\ ~world.reuse /\ Exists(cache[p]) =>
         MatchesPattern(title[cache[p]], p)

WInv ==
  /\ Types
  /\ Engaged
  /\ StableMatches
  /\ StillToCome
  /\ NothingToClose
  /\ KillJustified
  /\ WindowStays
  /\ CacheMatches

-----------------------------------------------------------------------------
(* Sequences and their elements                                            *)

LEMMA TailElements ==
  ASSUME NEW S, NEW s \in Seq(S), s # <<>>
  PROVE  /\ Tail(s) \in Seq(S) /\ Head(s) \in S
         /\ Head(s) \in ToSet(s)
         /\ ToSet(s) = {Head(s)} \cup ToSet(Tail(s))
<1>1. /\ DOMAIN s = 1..Len(s) /\ Len(s) \in Nat \ {0} /\ Head(s) = s[1]
      /\ DOMAIN Tail(s) = 1..(Len(s) - 1)
      /\ \A i \in 1..(Len(s) - 1) : Tail(s)[i] = s[i + 1]
      /\ Tail(s) \in Seq(S) /\ s[1] \in S
  OBVIOUS
<1>2. ASSUME NEW i \in DOMAIN s
      PROVE  s[i] \in {Head(s)} \cup ToSet(Tail(s))
  <2>1. CASE i = 1
    BY <1>1, <2>1
  <2>2. CASE i # 1
    <3>1. i - 1 \in DOMAIN Tail(s) /\ Tail(s)[i - 1] = s[i]
      BY <1>1, <2>2
    <3> QED BY <3>1 DEF ToSet
  <2> QED BY <2>1, <2>2
<1>3. Head(s) \in ToSet(s)
  BY <1>1 DEF ToSet
<1>4. ASSUME NEW i \in DOMAIN Tail(s)
      PROVE  Tail(s)[i] \in ToSet(s)
  <2>1. i + 1 \in DOMAIN s /\ Tail(s)[i] = s[i + 1]
    BY <1>1
  <2> QED BY <2>1 DEF ToSet
<1> QED BY <1>1, <1>2, <1>3, <1>4 DEF ToSet

LEMMA FrontElements ==
  ASSUME NEW S, NEW s \in Seq(S), s # <<>>
  PROVE  /\ Front(s) \in Seq(S) /\ Last(s) \in S
         /\ ToSet(s) = ToSet(Front(s)) \cup {Last(s)}
<1>1. /\ DOMAIN s = 1..Len(s) /\ Len(s) \in Nat \ {0} /\ Last(s) = s[Len(s)]
      /\ DOMAIN Front(s) = 1..(Len(s) - 1)
      /\ \A i \in 1..(Len(s) - 1) : Front(s)[i] = s[i]
      /\ Front(s) \in Seq(S) /\ s[Len(s)] \in S
  BY DEF Front, Last
<1>2. \A i \in DOMAIN s : i = Len(s) \/ i \in DOMAIN Front(s)
  BY <1>1
<1>3. \A i \in DOMAIN Front(s) : i \in DOMAIN s
  BY <1>1
<1>4. Len(s) \in DOMAIN s
  BY <1>1
<1>5. ToSet(s) \subseteq ToSet(Front(s)) \cup {Last(s)}
  BY <1>1, <1>2 DEF ToSet
<1>6. ToSet(Front(s)) \cup {Last(s)} \subseteq ToSet(s)
  BY <1>1, <1>3, <1>4 DEF ToSet
<1> QED BY <1>1, <1>5, <1>6

LEMMA AppendElements ==
  ASSUME NEW S, NEW s \in Seq(S), NEW e \in S
  PROVE  /\ Append(s, e) \in Seq(S)
         /\ ToSet(s) \subseteq ToSet(Append(s, e))
BY DEF ToSet

LEMMA RemoveAtTyped ==
  ASSUME NEW S, NEW s \in Seq(S), NEW i \in DOMAIN s
  PROVE  RemoveAt(s, i) \in Seq(S)
<1>1. i \in 1..Len(s) /\ Len(s) \in Nat
  OBVIOUS
<1>2. SubSeq(s, 1, i - 1) \in Seq(S) /\ SubSeq(s, i + 1, Len(s)) \in Seq(S)
  BY <1>1
<1> QED BY <1>2 DEF RemoveAt

LEMMA NoElements == ToSet(<<>>) = {}
BY DEF ToSet

-----------------------------------------------------------------------------
(* The slot                                                                *)

LEMMA BeginWInv ==
  ASSUME WInv, NEW o \in Operations, Begin(o)
  PROVE  WInv'
<1> USE WindowAssumption DEF WInv
<1>1. /\ at = "idle" /\ at' = "peek" /\ op' = o /\ todo' = Patterns
      /\ closed' = FALSE /\ killed' = FALSE
      /\ stable' = [p \in PatternSet |-> {x \in ToSet(list) : Matching(x, p)}]
      /\ UNCHANGED <<world, title, list, cache, items, w>>
  BY DEF Begin, serverVars
<1>2. ToSet(list) \subseteq Windows
  BY DEF Types, ToSet
<1>3. Types'
  BY <1>1, <1>2 DEF Types, At
<1>4. Engaged' /\ StillToCome' /\ KillJustified'
  BY <1>1 DEF Engaged, StillToCome, KillJustified
<1>5. StableMatches'
  BY <1>1 DEF StableMatches, Matching, Exists
<1>6. NothingToClose'
  BY <1>1 DEF NothingToClose, PatternSet
<1>7. WindowStays' /\ CacheMatches'
  BY <1>1 DEF WindowStays, CacheMatches, Exists
<1> QED BY <1>3, <1>4, <1>5, <1>6, <1>7

(* What a step leaves alone when windows and what is known of them stay.   *)
LEMMA KeepsStable ==
  ASSUME WInv, UNCHANGED <<serverVars, stable>>
  PROVE  StableMatches'
BY DEF WInv, StableMatches, Matching, Exists, serverVars

LEMMA KeepsCache ==
  ASSUME WInv, UNCHANGED <<serverVars, cache>>
  PROVE  CacheMatches'
BY DEF WInv, CacheMatches, Exists, serverVars

(* On to the next title: the one that is done with has a window that was   *)
(* asked to close, or none that was there all the time.                    *)
LEMMA GoOnWithWInv ==
  ASSUME WInv, at \notin {"idle", "ended"},
         NEW rest \in Seq(PatternSet), NEW asked \in BOOLEAN,
         GoOnWith(rest, asked),
         op = "close" /\ ~asked =>
           rest = Tail(todo) /\ stable[Head(todo)] = {}
  PROVE  WInv'
<1> USE WindowAssumption DEF WInv
<1>1. /\ todo' = rest
      /\ at' = IF rest = <<>> THEN "idle" ELSE "peek"
      /\ closed' = (closed \/ asked)
      /\ killed' = (rest = <<>> /\ op = "close" /\ ~closed')
      /\ w' = None /\ items' = <<>>
      /\ UNCHANGED <<world, title, list, cache, op, stable>>
  BY DEF GoOnWith, serverVars
<1>2. closed' \in BOOLEAN /\ killed' \in BOOLEAN
  BY <1>1, Zenon
<1>3. Types'
  BY <1>1, <1>2 DEF Types, At
<1>4. Engaged' /\ StillToCome' /\ WindowStays'
  BY <1>1 DEF Engaged, StillToCome, WindowStays
<1>5. StableMatches' /\ CacheMatches'
  BY <1>1, KeepsStable, KeepsCache DEF serverVars
<1>6. ASSUME op = "close", ~closed'
      PROVE  \A p \in PatternSet \ ToSet(rest) : stable[p] = {}
  <2>1. ~closed /\ ~asked
    BY <1>1, <1>6
  <2>2. \A p \in PatternSet \ ToSet(todo) : stable[p] = {}
    BY <1>6, <2>1 DEF NothingToClose
  <2>3. ToSet(todo) = {Head(todo)} \cup ToSet(rest)
    BY <1>6, <2>1, TailElements DEF Types, Engaged
  <2> QED BY <1>6, <2>1, <2>2, <2>3
<1>7. NothingToClose'
  BY <1>1, <1>6 DEF NothingToClose
<1>8. KillJustified'
  <2> SUFFICES ASSUME killed' PROVE \A p \in PatternSet : stable'[p] = {}
    BY DEF KillJustified
  <2>1. rest = <<>> /\ op = "close" /\ ~closed'
    BY <1>1
  <2> QED BY <1>1, <1>6, <2>1, NoElements
<1> QED BY <1>3, <1>4, <1>5, <1>7, <1>8

LEMMA NextTitleWInv ==
  ASSUME WInv, at \notin {"idle", "ended"}, NextTitle,
         op = "close" => stable[Head(todo)] = {}
  PROVE  WInv'
<1>1. Tail(todo) \in Seq(PatternSet)
  BY TailElements DEF WInv, Types, Engaged
<1> QED BY <1>1, GoOnWithWInv DEF NextTitle

LEMMA EndWInv ==
  ASSUME WInv, End, world.vanish
  PROVE  WInv'
<1> USE DEF WInv
<1>1. at' = "ended" /\ UNCHANGED <<serverVars, cache, op, todo, items, w,
                                   closed, killed, stable>>
  BY DEF End
<1>2. Types'
  BY <1>1 DEF Types, At, serverVars
<1>3. Engaged' /\ StillToCome' /\ NothingToClose' /\ KillJustified' /\ WindowStays'
  BY <1>1 DEF Engaged, StillToCome, NothingToClose, KillJustified, WindowStays, serverVars
<1> QED BY <1>1, <1>2, <1>3, KeepsStable, KeepsCache

(* A step from one place of an operation to another.                       *)
LEMMA GoOnKeeps ==
  ASSUME WInv, at \notin {"idle", "ended"},
         NEW place \in At \ {"idle", "ended"}, GoOn(place)
  PROVE  /\ at' = place
         /\ UNCHANGED <<world, title, list, op, todo, closed, killed, stable>>
         /\ todo # <<>> /\ Head(todo) \in PatternSet
         /\ StableMatches' /\ NothingToClose' /\ KillJustified'
<1> USE DEF WInv
<1>1. at' = place /\ UNCHANGED <<serverVars, op, todo, closed, killed, stable>>
  BY DEF GoOn
<1>2. todo # <<>> /\ Head(todo) \in PatternSet
  BY TailElements DEF Engaged, Types
<1>3. NothingToClose' /\ KillJustified'
  BY <1>1 DEF NothingToClose, KillJustified
<1> QED BY <1>1, <1>2, <1>3, KeepsStable DEF serverVars

LEMMA PeekCacheWInv == WInv /\ PeekCache => WInv'
<1> SUFFICES ASSUME WInv, PeekCache PROVE WInv'
  OBVIOUS
<1> DEFINE cached == cache[Head(todo)]
<1>1. at = "peek" /\ UNCHANGED <<cache, items>>
  BY DEF PeekCache
<1>2. todo # <<>> /\ Head(todo) \in PatternSet /\ cached \in Windows \cup {None}
  BY <1>1, TailElements DEF WInv, Engaged, Types
<1>3. CASE cached # None /\ Exists(cached)
  <2>1. GoOn("use") /\ w' = cached
    BY <1>3 DEF PeekCache
  <2>2. /\ at' = "use" /\ UNCHANGED <<world, title, list, op, todo, closed, killed, stable>>
        /\ StableMatches' /\ NothingToClose' /\ KillJustified'
    BY <1>1, <2>1, GoOnKeeps DEF At
  <2>3. Types'
    BY <1>1, <1>2, <2>1, <2>2 DEF WInv, Types, At
  <2>4. Engaged' /\ StillToCome' /\ WindowStays'
    BY <1>1, <1>2, <1>3, <2>1, <2>2
       DEF WInv, Engaged, StillToCome, WindowStays, Exists
  <2>5. CacheMatches'
    BY <1>1, <2>2, KeepsCache DEF serverVars
  <2> QED BY <2>2, <2>3, <2>4, <2>5 DEF WInv
<1>4. CASE ~(cached # None /\ Exists(cached))
  <2>1. GoOn("list") /\ UNCHANGED w
    BY <1>4 DEF PeekCache
  <2>2. /\ at' = "list" /\ UNCHANGED <<world, title, list, op, todo, closed, killed, stable>>
        /\ StableMatches' /\ NothingToClose' /\ KillJustified'
    BY <1>1, <2>1, GoOnKeeps DEF At
  <2>3. Types'
    BY <1>1, <2>1, <2>2 DEF WInv, Types, At
  <2>4. Engaged' /\ StillToCome' /\ WindowStays'
    BY <1>1, <1>2, <2>1, <2>2 DEF WInv, Engaged, StillToCome, WindowStays
  <2>5. CacheMatches'
    BY <1>1, <2>2, KeepsCache DEF serverVars
  <2> QED BY <2>2, <2>3, <2>4, <2>5 DEF WInv
<1> QED BY <1>3, <1>4

LEMMA GetClientListWInv == WInv /\ GetClientList => WInv'
<1> SUFFICES ASSUME WInv, GetClientList PROVE WInv'
  OBVIOUS
<1>1. at = "list" /\ items' = list /\ GoOn("scan") /\ UNCHANGED <<cache, w>>
  BY DEF GetClientList
<1>2. /\ at' = "scan" /\ UNCHANGED <<world, title, list, op, todo, closed, killed, stable>>
      /\ todo # <<>> /\ Head(todo) \in PatternSet
      /\ StableMatches' /\ NothingToClose' /\ KillJustified'
  BY <1>1, GoOnKeeps DEF At
<1>3. Types'
  BY <1>1, <1>2 DEF WInv, Types, At
<1>4. StillToCome'
  BY <1>1, <1>2 DEF WInv, StillToCome, StableMatches
<1>5. Engaged' /\ WindowStays'
  BY <1>1, <1>2 DEF WInv, Engaged, WindowStays
<1>6. CacheMatches'
  BY <1>1, <1>2, KeepsCache DEF serverVars
<1> QED BY <1>2, <1>3, <1>4, <1>5, <1>6 DEF WInv

LEMMA FetchWInv == WInv /\ Fetch => WInv'
<1> SUFFICES ASSUME WInv, Fetch PROVE WInv'
  OBVIOUS
<1>1. at = "scan" /\ items # <<>> /\ items' = Front(items) /\ UNCHANGED cache
  BY DEF Fetch
<1>2. /\ items' \in Seq(Windows) /\ Last(items) \in Windows
      /\ ToSet(items) = ToSet(items') \cup {Last(items)}
  BY <1>1, FrontElements DEF WInv, Types
<1>3. CASE Exists(Last(items))
  <2>1. GoOn("title") /\ w' = Last(items)
    BY <1>3 DEF Fetch
  <2>2. /\ at' = "title" /\ UNCHANGED <<world, title, list, op, todo, closed, killed, stable>>
        /\ todo # <<>>
        /\ StableMatches' /\ NothingToClose' /\ KillJustified'
    BY <1>1, <2>1, GoOnKeeps DEF At
  <2>3. Types'
    BY <1>1, <1>2, <2>1, <2>2 DEF WInv, Types, At
  <2>4. StillToCome'
    BY <1>1, <1>2, <2>1, <2>2 DEF WInv, StillToCome
  <2>5. Engaged' /\ WindowStays'
    BY <1>1, <1>2, <1>3, <2>1, <2>2 DEF WInv, Engaged, WindowStays, Exists
  <2>6. CacheMatches'
    BY <1>1, <2>2, KeepsCache DEF serverVars
  <2> QED BY <2>2, <2>3, <2>4, <2>5, <2>6 DEF WInv
<1>4. CASE ~Exists(Last(items))
  <2>1. GoOn("scan") /\ UNCHANGED w
    BY <1>4 DEF Fetch
  <2>2. /\ at' = "scan" /\ UNCHANGED <<world, title, list, op, todo, closed, killed, stable>>
        /\ todo # <<>> /\ Head(todo) \in PatternSet
        /\ StableMatches' /\ NothingToClose' /\ KillJustified'
    BY <1>1, <2>1, GoOnKeeps DEF At
  <2>3. Types'
    BY <1>1, <1>2, <2>1, <2>2 DEF WInv, Types, At
  <2>4. Last(items) \notin stable[Head(todo)]
    BY <1>4, <2>2 DEF WInv, StableMatches, Matching
  <2>5. StillToCome'
    BY <1>1, <1>2, <2>2, <2>4 DEF WInv, StillToCome
  <2>6. Engaged' /\ WindowStays'
    BY <1>1, <2>1, <2>2 DEF WInv, Engaged, WindowStays
  <2>7. CacheMatches'
    BY <1>1, <2>2, KeepsCache DEF serverVars
  <2> QED BY <2>2, <2>3, <2>5, <2>6, <2>7 DEF WInv
<1> QED BY <1>3, <1>4

LEMMA NotFoundWInv == WInv /\ NotFound => WInv'
<1> SUFFICES ASSUME WInv, NotFound PROVE WInv'
  OBVIOUS
<1>1. at = "scan" /\ items = <<>> /\ NextTitle
  BY DEF NotFound
<1>2. stable[Head(todo)] = {}
  BY <1>1, NoElements DEF WInv, StillToCome
<1> QED BY <1>1, <1>2, NextTitleWInv

LEMMA GetWindowTitleWInv == WInv /\ GetWindowTitle => WInv'
<1> SUFFICES ASSUME WInv, GetWindowTitle PROVE WInv'
  OBVIOUS
<1>1. at = "title" /\ w \in Windows /\ todo # <<>> /\ Head(todo) \in PatternSet
  BY TailElements DEF GetWindowTitle, WInv, Engaged, Types
<1>2. CASE ~Exists(w) /\ End
  <2>1. world.vanish
    BY <1>1, <1>2 DEF WInv, WindowStays
  <2> QED BY <1>2, <2>1, EndWInv
<1>3. CASE /\ Matching(w, Head(todo))
           /\ cache' = [cache EXCEPT ![Head(todo)] = w]
           /\ GoOn("use")
           /\ UNCHANGED <<items, w>>
  <2>1. /\ at' = "use" /\ UNCHANGED <<world, title, list, op, todo, closed, killed, stable>>
        /\ StableMatches' /\ NothingToClose' /\ KillJustified'
    BY <1>1, <1>3, GoOnKeeps DEF At
  <2>2. Types'
    BY <1>1, <1>3, <2>1 DEF WInv, Types, At
  <2>3. Engaged' /\ StillToCome' /\ WindowStays'
    BY <1>1, <1>3, <2>1
       DEF WInv, Engaged, StillToCome, WindowStays, Matching, Exists
  <2>4. title[w] # "unborn" /\ MatchesPattern(title[w], Head(todo))
    BY <1>3, WindowAssumption DEF Matching, Exists
  <2>5. CacheMatches'
    <3> SUFFICES ASSUME NEW p \in PatternSet, cache'[p] # None
                 PROVE  /\ title[cache'[p]] # "unborn"
                        /\ ~world.retitle /\ ~world.reuse /\ Exists(cache'[p]) =>
                             MatchesPattern(title[cache'[p]], p)
      BY <2>1 DEF CacheMatches, Exists
    <3>1. CASE p = Head(todo)
      <4>1. cache'[p] = w
        BY <1>3, <3>1 DEF WInv, Types
      <4> QED BY <2>4, <3>1, <4>1
    <3>2. CASE p # Head(todo)
      <4>1. cache'[p] = cache[p]
        BY <1>3, <3>2 DEF WInv, Types
      <4> QED BY <4>1 DEF WInv, CacheMatches
    <3> QED BY <3>1, <3>2
  <2> QED BY <2>1, <2>2, <2>3, <2>5 DEF WInv
<1>4. CASE /\ Exists(w)
           /\ ~Matching(w, Head(todo))
           /\ GoOn("scan")
           /\ UNCHANGED <<cache, items, w>>
  <2>1. /\ at' = "scan" /\ UNCHANGED <<world, title, list, op, todo, closed, killed, stable>>
        /\ StableMatches' /\ NothingToClose' /\ KillJustified'
    BY <1>1, <1>4, GoOnKeeps DEF At
  <2>2. Types'
    BY <1>4, <2>1 DEF WInv, Types, At
  <2>3. w \notin stable[Head(todo)]
    BY <1>1, <1>4 DEF WInv, StableMatches
  <2>4. StillToCome'
    BY <1>1, <1>4, <2>1, <2>3 DEF WInv, StillToCome
  <2>5. Engaged' /\ WindowStays'
    BY <1>1, <1>4, <2>1 DEF WInv, Engaged, WindowStays
  <2>6. CacheMatches'
    BY <1>4, <2>1, KeepsCache DEF serverVars
  <2> QED BY <2>1, <2>2, <2>4, <2>5, <2>6 DEF WInv
<1> QED BY <1>2, <1>3, <1>4 DEF GetWindowTitle

LEMMA UseWInv == WInv /\ Use => WInv'
<1> SUFFICES ASSUME WInv, Use PROVE WInv'
  OBVIOUS
<1>1. at = "use" /\ w \in Windows /\ todo \in Seq(PatternSet) /\ todo # <<>>
  BY DEF Use, WInv, Engaged, Types
<1>2. CASE op = "activate" /\ Exists(w) /\ GoOn("map") /\ UNCHANGED <<cache, items, w>>
  <2>1. /\ at' = "map" /\ UNCHANGED <<world, title, list, op, todo, closed, killed, stable>>
        /\ StableMatches' /\ NothingToClose' /\ KillJustified'
    BY <1>1, <1>2, GoOnKeeps DEF At
  <2>2. Types'
    BY <1>2, <2>1 DEF WInv, Types, At
  <2>3. Engaged' /\ StillToCome' /\ WindowStays'
    BY <1>1, <1>2, <2>1 DEF WInv, Engaged, StillToCome, WindowStays, Exists
  <2>4. CacheMatches'
    BY <1>2, <2>1, KeepsCache DEF serverVars
  <2> QED BY <2>1, <2>2, <2>3, <2>4 DEF WInv
<1>3. CASE op \in {"lower", "iconify", "hasFocus"} /\ NextTitle
  BY <1>1, <1>3, NextTitleWInv
<1>4. CASE op \in {"activate", "lower"} /\ ~Exists(w) /\ End
  <2>1. world.vanish
    BY <1>1, <1>4 DEF WInv, WindowStays
  <2> QED BY <1>4, <2>1, EndWInv
<1>5. CASE op = "close" /\ GoOnWith(Tail(todo), TRUE)
  BY <1>1, <1>5, GoOnWithWInv, TailElements
<1>6. CASE op = "hasFocus" /\ GoOnWith(<<>>, FALSE)
  <2>1. <<>> \in Seq(PatternSet)
    OBVIOUS
  <2> QED BY <1>1, <1>6, <2>1, GoOnWithWInv
<1> QED BY <1>2, <1>3, <1>4, <1>5, <1>6 DEF Use

LEMMA MapRaisedWInv == WInv /\ MapRaised => WInv'
<1> SUFFICES ASSUME WInv, MapRaised PROVE WInv'
  OBVIOUS
<1>1. at = "map" /\ op = "activate"
  BY DEF MapRaised, WInv, Engaged
<1>2. CASE Exists(w) /\ NextTitle
  BY <1>1, <1>2, NextTitleWInv
<1>3. CASE ~Exists(w) /\ End
  <2>1. world.vanish
    BY <1>1, <1>3 DEF WInv, WindowStays
  <2> QED BY <1>3, <2>1, EndWInv
<1> QED BY <1>2, <1>3 DEF MapRaised

LEMMA SlotWInv == WInv /\ Slot => WInv'
BY BeginWInv, PeekCacheWInv, GetClientListWInv, FetchWInv, NotFoundWInv,
   GetWindowTitleWInv, UseWInv, MapRaisedWInv DEF Slot

-----------------------------------------------------------------------------
(* The X server and the window manager                                     *)

(* What is remembered can only become less.                                *)
LEMMA RecallKeeps ==
  ASSUME WInv, Recall, UNCHANGED slotVars,
         list' \in Seq(Windows),
         title' \in [Windows -> Titles \cup {"unborn", "gone"}],
         UNCHANGED world, at # "ended"
  PROVE  /\ Types' /\ Engaged' /\ StableMatches' /\ StillToCome'
         /\ NothingToClose' /\ KillJustified'
<1>1. UNCHANGED <<cache, at, op, todo, items, w, closed, killed>>
  BY DEF slotVars
<1>2. stable' = [p \in PatternSet |->
                  {x \in stable[p] : x \in ToSet(list)' /\ Matching(x, p)'}]
  BY DEF Recall
<1>3. \A p \in PatternSet : stable'[p] \subseteq stable[p]
  BY <1>2
<1>4. Types'
  BY <1>1, <1>2 DEF WInv, Types
<1>5. Engaged'
  BY <1>1 DEF WInv, Engaged
<1>6. StableMatches'
  BY <1>2 DEF StableMatches
<1>7. StillToCome'
  <2>1. at \in {"scan", "title"} => Head(todo) \in PatternSet
    BY TailElements DEF WInv, Types, Engaged
  <2> QED BY <1>1, <1>3, <2>1 DEF WInv, StillToCome
<1>8. NothingToClose' /\ KillJustified'
  BY <1>1, <1>3 DEF WInv, NothingToClose, KillJustified
<1> QED BY <1>4, <1>5, <1>6, <1>7, <1>8

(* A window gets a title, which is its first one or that of a new window   *)
(* with its id, or another one, or it goes.                                *)
LEMMA SetTitleWInv ==
  ASSUME WInv, NEW x \in Windows, NEW t \in Titles \cup {"gone"}, SetTitle(x, t),
         t = "gone" => Exists(x) /\ (world.vanish \/ at = "idle"),
         t # "gone" => \/ title[x] = "unborn"
                       \/ world.reuse
                       \/ world.retitle
  PROVE  WInv'
<1>1. /\ title' = [title EXCEPT ![x] = t]
      /\ UNCHANGED <<world, list, cache, at, op, todo, items, w, closed, killed>>
      /\ UNCHANGED slotVars /\ Recall /\ at # "ended"
  BY DEF SetTitle, slotVars
<1>2. /\ list' \in Seq(Windows)
      /\ title' \in [Windows -> Titles \cup {"unborn", "gone"}]
      /\ \A y \in Windows : title'[y] = IF y = x THEN t ELSE title[y]
  BY <1>1 DEF WInv, Types
<1>3. /\ Types' /\ Engaged' /\ StableMatches' /\ StillToCome'
      /\ NothingToClose' /\ KillJustified'
  BY <1>1, <1>2, RecallKeeps
<1>4. t # "unborn"
  BY WindowAssumption
<1>5. "gone" \notin Titles /\ "unborn" \notin Titles
  BY WindowAssumption
<1>6. WindowStays'
  BY <1>1, <1>2 DEF WInv, WindowStays, Engaged, Exists
<1>7. CacheMatches'
  <2> SUFFICES ASSUME NEW p \in PatternSet, cache[p] # None
               PROVE  /\ title'[cache[p]] # "unborn"
                      /\ ~world.retitle /\ ~world.reuse /\ title'[cache[p]] \in Titles =>
                           MatchesPattern(title'[cache[p]], p)
    BY <1>1 DEF CacheMatches, Exists
  <2>1. cache[p] \in Windows
    BY DEF WInv, Types
  <2>2. /\ title[cache[p]] # "unborn"
        /\ ~world.retitle /\ ~world.reuse /\ title[cache[p]] \in Titles =>
             MatchesPattern(title[cache[p]], p)
    BY DEF WInv, CacheMatches, Exists
  <2>3. CASE cache[p] = x
    BY <1>2, <1>4, <1>5, <2>1, <2>2, <2>3
  <2>4. CASE cache[p] # x
    BY <1>2, <2>1, <2>2, <2>4
  <2> QED BY <2>3, <2>4
<1> QED BY <1>3, <1>6, <1>7 DEF WInv

(* The list changes, the windows do not.                                   *)
LEMMA ListWInv ==
  ASSUME WInv, Recall, UNCHANGED <<world, title, slotVars>>,
         list' \in Seq(Windows), at # "ended"
  PROVE  WInv'
<1>1. /\ Types' /\ Engaged' /\ StableMatches' /\ StillToCome'
      /\ NothingToClose' /\ KillJustified'
  BY RecallKeeps DEF WInv, Types
<1>2. WindowStays' /\ CacheMatches'
  BY DEF WInv, WindowStays, CacheMatches, Exists, slotVars
<1> QED BY <1>1, <1>2 DEF WInv

LEMMA ServerWInv == WInv /\ Server => WInv'
<1> SUFFICES ASSUME WInv, NEW x \in Windows,
                    \/ \E t \in Titles : Create(x, t) \/ Retitle(x, t)
                    \/ Destroy(x) \/ Manage(x) \/ Unmanage(x)
             PROVE  WInv'
  BY DEF Server
<1>1. ASSUME NEW t \in Titles, Create(x, t) \/ Retitle(x, t) PROVE WInv'
  BY <1>1, SetTitleWInv, WindowAssumption DEF Create, Retitle
<1>2. CASE Destroy(x)
  BY <1>2, SetTitleWInv DEF Destroy
<1>3. CASE Manage(x)
  <2>1. list' \in Seq(Windows)
    BY <1>3, AppendElements DEF Manage, WInv, Types
  <2> QED BY <1>3, <2>1, ListWInv DEF Manage
<1>4. CASE Unmanage(x)
  <2>1. list' \in Seq(Windows)
    BY <1>4, RemoveAtTyped DEF Unmanage, WInv, Types
  <2> QED BY <1>4, <2>1, ListWInv DEF Unmanage
<1> QED BY <1>1, <1>2, <1>3, <1>4

-----------------------------------------------------------------------------
(* Theorems                                                                *)

LEMMA InitWInv == Init => WInv
<1> SUFFICES ASSUME Init PROVE WInv
  OBVIOUS
<1>1. Types
  <2>1. /\ title \in [Windows -> Titles \cup {"unborn", "gone"}]
        /\ cache \in [PatternSet -> Windows \cup {None}]
        /\ stable \in [PatternSet -> SUBSET Windows]
    BY DEF Init
  <2>2. list \in Seq(Windows) /\ todo \in Seq(PatternSet) /\ items \in Seq(Windows)
    BY DEF Init
  <2>3. /\ world \in Worlds /\ at \in At /\ op \in Operations
        /\ w \in Windows \cup {None} /\ closed \in BOOLEAN /\ killed \in BOOLEAN
    BY DEF Init, At, Operations
  <2> QED BY <2>1, <2>2, <2>3 DEF Types
<1>2. Engaged /\ StillToCome /\ NothingToClose /\ KillJustified
  BY DEF Init, Engaged, StillToCome, NothingToClose, KillJustified
<1>3. StableMatches /\ WindowStays /\ CacheMatches
  BY DEF Init, StableMatches, WindowStays, CacheMatches
<1> QED BY <1>1, <1>2, <1>3 DEF WInv

LEMMA NextWInv == WInv /\ [Next]_vars => WInv'
<1> SUFFICES ASSUME WInv, [Next]_vars PROVE WInv'
  OBVIOUS
<1>1. CASE Next
  BY <1>1, SlotWInv, ServerWInv DEF Next
<1>2. CASE UNCHANGED vars
  <2>1. UNCHANGED <<world, title, list, cache, at, op, todo, items, w, closed,
                    killed, stable>>
    BY <1>2 DEF vars, serverVars, slotVars
  <2>2. Types' /\ Engaged'
    BY <2>1 DEF WInv, Types, Engaged
  <2>3. StableMatches' /\ CacheMatches'
    BY <2>1, KeepsStable, KeepsCache DEF serverVars
  <2>4. StillToCome' /\ NothingToClose' /\ KillJustified' /\ WindowStays'
    BY <2>1 DEF WInv, StillToCome, NothingToClose, KillJustified, WindowStays, Exists
  <2> QED BY <2>2, <2>3, <2>4 DEF WInv
<1> QED BY <1>1, <1>2

(* The invariant the other theorems follow from.                           *)
THEOREM WindowInvariance == Spec => []WInv
BY InitWInv, NextWInv, PTL DEF Spec

(* The state of the search is well formed: wherever a slot deals with a    *)
(* window, getWindowFromName has found one.                                *)
THEOREM WindowTypes == Spec => []SearchTypeOK
<1>1. WInv => SearchTypeOK
  BY DEF WInv, Engaged, SearchTypeOK
<1> QED BY <1>1, WindowInvariance, PTL

(* getWindowFromName returns 0 only if no window that matches was in the   *)
(* list all the time, whatever the windows did while it searched.          *)
THEOREM MatchesAreFound == Spec => []NotOverlooked
<1>1. WInv => NotOverlooked
  BY NoElements DEF WInv, StillToCome, NotOverlooked
<1> QED BY <1>1, WindowInvariance, PTL

(* closeApplication signals the process only if no window with any of the  *)
(* titles was there all the time.                                          *)
THEOREM KillsAreJustified == Spec => []KillJustified
<1>1. WInv => KillJustified
  BY DEF WInv
<1> QED BY <1>1, WindowInvariance, PTL

(* Stale ids in the cache and in the list of windows never end the program *)
(* where windows go only between operations.                               *)
THEOREM StaleIdsAreHarmless == Spec => []SurvivesStaleIds
<1>1. WInv => SurvivesStaleIds
  BY DEF WInv, WindowStays, SurvivesStaleIds
<1> QED BY <1>1, WindowInvariance, PTL

(* The only ways to a window are peekCache, which has one that exists, and *)
(* getWindowTitle, which has one that matches.                             *)
LEMMA FoundStep ==
  ASSUME WInv, [Next]_vars, at # "use", at' = "use", ~world.retitle, ~world.reuse
  PROVE  Matching(w, Head(todo))'
<1>1. ASSUME NEW o \in Operations, Begin(o) PROVE FALSE
  BY <1>1 DEF Begin
<1>2. GetClientList \/ Fetch => FALSE
  BY DEF GetClientList, Fetch, GoOn
<1>3. NotFound => FALSE
  BY DEF NotFound, NextTitle, GoOnWith
<1>4. MapRaised \/ Use => FALSE
  BY DEF MapRaised, NextTitle, GoOnWith, End, Use
<1>5. ~Server /\ ~UNCHANGED vars
  BY DEF Server, Create, Retitle, Destroy, Manage, Unmanage, SetTitle, vars, slotVars
<1>6. CASE PeekCache
  <2>1. /\ at = "peek" /\ cache[Head(todo)] # None /\ Exists(cache[Head(todo)])
        /\ w' = cache[Head(todo)] /\ UNCHANGED <<title, todo>>
    BY <1>6 DEF PeekCache, GoOn, serverVars
  <2>2. Head(todo) \in PatternSet
    BY <2>1, TailElements DEF WInv, Engaged, Types
  <2> QED BY <2>1, <2>2 DEF WInv, CacheMatches, Matching, Exists
<1>7. CASE GetWindowTitle
  <2>1. Matching(w, Head(todo)) /\ UNCHANGED <<title, todo, w>>
    BY <1>7 DEF GetWindowTitle, GoOn, End, serverVars
  <2> QED BY <2>1 DEF Matching, Exists
<1> QED BY <1>1, <1>2, <1>3, <1>4, <1>5, <1>6, <1>7 DEF Next, Slot

(* Where titles and ids are for ever, the window that getWindowFromName    *)
(* returns, found in the cache or in the list, has a title that matches.   *)
THEOREM WindowsMatch == Spec => ReturnsMatch
<1>1. WInv /\ [Next]_vars =>
        [at # "use" /\ at' = "use" /\ ~world.retitle /\ ~world.reuse =>
           Matching(w, Head(todo))']_vars
  BY FoundStep
<1> QED BY <1>1, WindowInvariance, PTL DEF Spec, ReturnsMatch

=============================================================================
