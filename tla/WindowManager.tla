---------------------------- MODULE WindowManager ----------------------------
(***************************************************************************)
(* How a slot finds the windows of its application.  For each title of the *)
(* icon the slot asks its WindowManager for a window, which is looked for  *)
(* in a cache and then in the list of all windows, and acts upon it.       *)
(*                                                                         *)
(* Every question to the X server is a step: the windows come, go and      *)
(* change their titles in between.  A request that names a window that is  *)
(* gone is answered by an X error, which ends the program, except in       *)
(* isValid, where an error handler is installed.                           *)
(***************************************************************************)
EXTENDS Naturals, Sequences, SequencesExt

CONSTANTS
  Windows,      \* window ids
  Titles,       \* window titles
  Patterns,     \* the titles of the icon, a sequence of patterns
  MatchesPattern(_, _),  \* does a title match a pattern?
  None,         \* no window
  Worlds        \* how the windows may behave, a set of Habits

(* Windows change their titles; the X server reuses the id of a window that*)
(* is gone; windows go while the slot deals with them.                     *)
Habits == [retitle : BOOLEAN, reuse : BOOLEAN, vanish : BOOLEAN]

PatternSet == ToSet(Patterns)

ASSUME WindowAssumption ==
  /\ Patterns \in Seq(PatternSet) /\ Patterns # <<>>
  /\ None \notin Windows
  /\ {"unborn", "gone"} \cap Titles = {}
  /\ Worlds \subseteq Habits

Operations == {"activate", "iconify", "lower", "close", "hasFocus"}

VARIABLES
  world,    \* the habits of this behaviour
  title,    \* [Windows -> title of the window, "unborn" or "gone"]
  list,     \* _NET_CLIENT_LIST, kept by the window manager
  cache,    \* [PatternSet -> window found before, None if there is none]
  at,       \* where the slot is, see At
  op,       \* what it does with the windows
  todo,     \* the titles it has not dealt with, the first is being looked up
  items,    \* the part of the fetched list that is not examined
  w,        \* the window in question
  closed,   \* closeApplication has asked a window to close
  killed,   \* closeApplication has signalled the process
  stable    \* [PatternSet -> windows listed and matching since op began]

serverVars == <<world, title, list>>
slotVars   == <<cache, at, op, todo, items, w, closed, killed>>
vars       == <<serverVars, slotVars, stable>>

At == {"idle",   \* no operation is going on
       "peek",   \* before peekCache
       "list",   \* before getClientList
       "scan",   \* before the next isValid of getWindowFromName
       "title",  \* before getWindowTitle of w
       "use",    \* w was returned by getWindowFromName
       "map",    \* activateWindow has read the workspace of w
       "ended"}  \* an X error has ended the program

Types ==
  /\ world \in Worlds
  /\ title \in [Windows -> Titles \cup {"unborn", "gone"}]
  /\ list \in Seq(Windows)
  /\ cache \in [PatternSet -> Windows \cup {None}]
  /\ at \in At
  /\ op \in Operations
  /\ todo \in Seq(PatternSet)
  /\ items \in Seq(Windows)
  /\ w \in Windows \cup {None}
  /\ closed \in BOOLEAN /\ killed \in BOOLEAN
  /\ stable \in [PatternSet -> SUBSET Windows]

(* All values are in their types; an operation in progress has a title to  *)
(* deal with, and a window wherever it makes a request about one: where    *)
(* getWindowFromName returns 0 the slot goes on to the next title.         *)
SearchTypeOK ==
  /\ Types
  /\ at \notin {"idle", "ended"} => todo # <<>>
  /\ at \in {"title", "use", "map"} => w \in Windows

Exists(x) == title[x] \in Titles
Matching(x, p) == Exists(x) /\ MatchesPattern(title[x], p)

Init ==
  /\ world \in Worlds
  /\ title = [x \in Windows |-> "unborn"]
  /\ list = <<>>
  /\ cache = [p \in PatternSet |-> None]
  /\ at = "idle"
  /\ op = "activate"
  /\ todo = <<>>
  /\ items = <<>>
  /\ w = None
  /\ closed = FALSE
  /\ killed = FALSE
  /\ stable = [p \in PatternSet |-> {}]

-----------------------------------------------------------------------------
(* Slot                                                                    *)

Begin(o) ==
  /\ at = "idle"
  /\ at' = "peek"
  /\ op' = o
  /\ todo' = Patterns
  /\ closed' = FALSE
  /\ killed' = FALSE
  /\ stable' = [p \in PatternSet |-> {x \in ToSet(list) : Matching(x, p)}]
  /\ UNCHANGED <<serverVars, cache, items, w>>

(* FAULT: the process is signalled whatever has been asked to close.       *)
GoOnKilling(rest, asked) ==
  /\ todo' = rest
  /\ at' = IF rest = <<>> THEN "idle" ELSE "peek"
  /\ closed' = (closed \/ asked)
  /\ killed' = (rest = <<>> /\ op = "close")
  /\ w' = None
  /\ items' = <<>>
  /\ UNCHANGED <<serverVars, cache, op, stable>>

(* On to the titles in rest, or the end of the operation: closeApplication *)
(* signals the process if no window was asked to close.                    *)
GoOnWith(rest, asked) ==
  /\ todo' = rest
  /\ at' = IF rest = <<>> THEN "idle" ELSE "peek"
  /\ closed' = (closed \/ asked)
  /\ killed' = (rest = <<>> /\ op = "close" /\ ~closed')
  /\ w' = None
  /\ items' = <<>>
  /\ UNCHANGED <<serverVars, cache, op, stable>>

NextTitle == GoOnWith(Tail(todo), FALSE)

End ==
  /\ at' = "ended"
  /\ UNCHANGED <<serverVars, cache, op, todo, items, w, closed, killed, stable>>

GoOn(place) ==
  /\ at' = place
  /\ UNCHANGED <<serverVars, op, todo, closed, killed, stable>>

(* XIconifyWindow and closeWindow send a message to the root window, which *)
(* is no error if w is gone.  hasFocus compares w with the active window.  *)
Use ==
  /\ at = "use"
  /\ \/ op = "activate" /\ Exists(w) /\ GoOn("map") /\ UNCHANGED <<cache, items, w>>
     \/ op = "lower" /\ Exists(w) /\ NextTitle
     \/ op \in {"activate", "lower"} /\ ~Exists(w) /\ End
     \/ op = "iconify" /\ NextTitle
     \/ op = "close" /\ GoOnWith(Tail(todo), TRUE)
     \/ op = "hasFocus" /\ (NextTitle \/ GoOnWith(<<>>, FALSE))

(* XMapRaised, the end of activateWindow                                   *)
MapRaised ==
  /\ at = "map"
  /\ \/ Exists(w) /\ NextTitle
     \/ ~Exists(w) /\ End

-----------------------------------------------------------------------------
(* WindowManager::getWindowFromName                                        *)

(* FAULT: the window is not checked.                                       *)
PeekCacheUnchecked ==
  LET cached == cache[Head(todo)] IN
  /\ at = "peek"
  /\ IF cached # None
     THEN GoOn("use") /\ w' = cached
     ELSE GoOn("list") /\ UNCHANGED w
  /\ UNCHANGED <<cache, items>>

(* peekCache.  Its erase( it, it ) leaves the cache as it is.              *)
PeekCache ==
  LET cached == cache[Head(todo)] IN
  /\ at = "peek"
  /\ IF cached # None /\ Exists(cached)
     THEN GoOn("use") /\ w' = cached
     ELSE GoOn("list") /\ UNCHANGED w
  /\ UNCHANGED <<cache, items>>

GetClientList ==
  /\ at = "list"
  /\ items' = list
  /\ GoOn("scan")
  /\ UNCHANGED <<cache, w>>

(* FAULT: fetch stops before the first item of the list.                   *)
FetchButFirst ==
  /\ at = "scan"
  /\ items # <<>>
  /\ items' = Front(items)
  /\ IF Len(items) > 1 /\ Exists(Last(items))
     THEN GoOn("title") /\ w' = Last(items)
     ELSE GoOn("scan") /\ UNCHANGED w
  /\ UNCHANGED cache

(* WindowList::fetch takes the list from its end.                          *)
Fetch ==
  /\ at = "scan"
  /\ items # <<>>
  /\ items' = Front(items)
  /\ IF Exists(Last(items))
     THEN GoOn("title") /\ w' = Last(items)
     ELSE GoOn("scan") /\ UNCHANGED w
  /\ UNCHANGED cache

(* FAULT: what getWindowFromName returns is used without a look at it.     *)
NotFoundUsed ==
  /\ at = "scan"
  /\ items = <<>>
  /\ GoOn("use")
  /\ w' = None
  /\ UNCHANGED <<cache, items>>

(* getWindowFromName returns 0.                                            *)
NotFound ==
  /\ at = "scan"
  /\ items = <<>>
  /\ NextTitle

(* getWindowTitle, matchesPattern and updateCache.                         *)
GetWindowTitle ==
  /\ at = "title"
  /\ \/ ~Exists(w) /\ End
     \/ /\ Matching(w, Head(todo))
        /\ cache' = [cache EXCEPT ![Head(todo)] = w]
        /\ GoOn("use")
        /\ UNCHANGED <<items, w>>
     \/ /\ Exists(w)
        /\ ~Matching(w, Head(todo))
        /\ GoOn("scan")
        /\ UNCHANGED <<cache, items, w>>

Slot ==
  \/ \E o \in Operations : Begin(o)
  \/ PeekCache \/ GetClientList \/ Fetch \/ NotFound \/ GetWindowTitle
  \/ Use \/ MapRaised

-----------------------------------------------------------------------------
(* The X server and the window manager                                     *)

(* The windows that are still listed and matching.                         *)
Recall ==
  stable' = [p \in PatternSet |->
              {x \in stable[p] : x \in ToSet(list)' /\ Matching(x, p)'}]

SetTitle(x, t) ==
  /\ at # "ended"
  /\ title' = [title EXCEPT ![x] = t]
  /\ UNCHANGED <<world, list, slotVars>>
  /\ Recall

Create(x, t) ==
  /\ title[x] = "unborn" \/ (world.reuse /\ title[x] = "gone")
  /\ SetTitle(x, t)

Retitle(x, t) == world.retitle /\ Exists(x) /\ title[x] # t /\ SetTitle(x, t)

Destroy(x) ==
  Exists(x) /\ (world.vanish \/ at = "idle") /\ SetTitle(x, "gone")

(* The window manager learns of both later on.                             *)
Manage(x) ==
  /\ at # "ended"
  /\ Exists(x)
  /\ ~Contains(list, x)
  /\ list' = Append(list, x)
  /\ UNCHANGED <<world, title, slotVars>>
  /\ Recall

Unmanage(x) ==
  /\ at # "ended"
  /\ ~Exists(x)
  /\ \E i \in DOMAIN list : list[i] = x /\ list' = RemoveAt(list, i)
  /\ UNCHANGED <<world, title, slotVars>>
  /\ Recall

Server ==
  \E x \in Windows :
    \/ \E t \in Titles : Create(x, t) \/ Retitle(x, t)
    \/ Destroy(x) \/ Manage(x) \/ Unmanage(x)

Next == Slot \/ Server

Spec == Init /\ [][Next]_vars

-----------------------------------------------------------------------------
(* Properties                                                              *)

(* getWindowFromName does not return 0 if a window that matches was in the *)
(* list all the time since the operation began.                            *)
NotOverlooked == at = "scan" /\ items = <<>> => stable[Head(todo)] = {}

(* closeApplication does not signal the process of an application that has *)
(* had a window with one of the titles all the time: such a window, or the *)
(* one that is cached for its title, was asked to close.                   *)
KillJustified == killed => \A p \in PatternSet : stable[p] = {}

(* The window getWindowFromName returns has a title that matches, as long  *)
(* as titles do not change and ids are not reused: the title of a cached   *)
(* window is not looked at again.                                          *)
ReturnsMatch ==
  [][at # "use" /\ at' = "use" /\ ~world.retitle /\ ~world.reuse =>
       Matching(w, Head(todo))']_vars

(* Window ids that are out of date, in the cache or in the list, do not    *)
(* end the program: isValid has sorted them out.  It takes a window that   *)
(* goes in the midst of an operation.                                      *)
SurvivesStaleIds == ~world.vanish => at # "ended"

=============================================================================
