# bbdock in TLA+

bbdock shows PNG icons in the slit of Blackbox/Fluxbox, launches the programs
behind them, marks the ones that run and raises, iconifies or closes their
windows. This directory holds a TLA+ specification of it, configurations for
TLC and proofs for TLAPS. Paths are those of the repository (`src/Dock.cc` is
the dock's event loop); `PROJECT.json` maps each definition to its lines.

## Inventory

| Component | State | Operations | Modelled in |
| --- | --- | --- | --- |
| `Dock` (`Dock.cc`) | chain of slots, settings | the event loop `run`: dispatch of X events to slots, a tick for every slot whenever no event is pending, `select` with a timeout | `Dock`, `EventLoop` |
| Remote control (`Dock::send`, `Dock::client`) | a property for each kind of message on the dock's window | `bbdock -x`, `bbdock -i` | `RemoteControl` |
| `Slot` (`Slot.cc`) | `pid`, `fading`, the image with its saved background, `invalid`, `visibility` | `exec`, `tick`, `draw`, `setIcon`, `iconifyApplication`, `lowerApplication`, `closeApplication`, `hasFocus`, `getBackground` | `Slot`, `Fading`, `Background` |
| `WindowManager` (one in every slot) | a cache from title patterns to windows | search of a window by its title, activation, closing, `matchesPattern` | `WindowManager`, `MatchesPattern` |
| `Render` | none | blending of icons, the active mark, in 16, 24 and 32 bits | `Mark`, `Blend` |
| `main.cc` | none | options, records of `.bbdockrc` | `CommandLine` |
| `Icon` | image, command, titles, idle time | getters, `setImage` | a record in `CommandLine`; constants and a field of a slot in `Slot` |
| `loadIcon` | the image in memory | reading a PNG with libpng, the expansion of grey images | `GreyImage` (the expansion) |
| autotools files | | | not modelled |

How they interact. The dock is one thread. `Dock::run` takes an X event, finds
the slot of its window and calls a method of it, which runs to its end; between
two events it calls `Slot::tick` of all slots in turn and then waits up to 250 ms.
A slot acts upon three things that others act upon too: the process table
(`fork`, `waitpid`, `kill`), the windows of the applications (by way of its
`WindowManager`) and the slit, whose picture is the background of the icon.
Other instances of bbdock reach the dock with a window property and a
ClientMessage; the owner of the selection answers a middle click with an event
of its own, at any later time. An exception in any of this reaches `main`, which
returns: the dock is gone, its children live on.

What is hard:

* A child can end, stop, continue and be replaced by a foreign process with the
  same id at any point between two ticks, while the slot holds its `pid`.
* `fading` is at once the picture of the icon and the lock that keeps it from
  being launched again. It is only released by ticks, with rounded arithmetic.
* The icon's picture is the result of exclusive-or operations upon a background
  that may not be readable at the time.
* Requests of several clients share one property; reading, acting and deleting
  are three steps.
* An X event can be where `select` does not see it, in Xlib's queue, and a request can be
  where the server does not see it, in Xlib's output buffer. The grey state measures
  time in ticks, which events cause, too.
* The slit is moved, hidden and covered while a slot asks where it is and reads it;
  what the slot knows of it are events that come later.
* Pixels are blended with truncated quotients in bytes that wrap around, and upon
  pictures that were blended before.
* Windows change between any two questions to the X server, and the cache and the
  window list name windows that are gone.

What makes each component correct:

* Slot and Dock: the slot's pid is its own unreleased child; signals reach
  only such children; an exclusive icon has one instance; an icon is launched
  by a click unless it is starting or active; greyed-out icons wake up; ended
  programs are noticed; pictures follow the state.
* Remote control: a request is carried out once, and not lost.
* WindowManager: the window returned matches; none is overlooked; a process is
  only signalled when it has no window to ask; stale ids do no harm.
* Render: the mark lies where the settings say, inside the image, and is what a
  click on the cross is compared with; blended colours stay in range and do not flicker.
* Event loop: no event, picture, tick or end of a program waits longer than one timeout.
* Command line: no operand and no field is read or written beyond its array.

`PROJECT.json` lists all hazards with their lines and the properties that cover
them.

## Modules

`Fading` is the arithmetic of the grey state. 1.05 is 21/20; 256/1.05^k is
computed in fixed point. Both give the same integers as the program's doubles
for all fading values and idle times up to 200 s.

`Slot` has a record `slot[s]` per icon with the members that change, the
process table (`proc`, and `owner`, the slot that forked a process), the ids
that were sent SIGTERM (`sigterm`), the application windows (`win`, `focus`) and
the slit. Each method is an operator. A picture is what can be told of it: does
the mark show, which fading value was the icon rendered with, is it on a clean
background. A method is one step, as the dock is one thread; what others do to
processes and windows in the midst of it is the subject of `WindowManager`.

`Dock` (extends `Slot`) has the pending event, the position of the tick loop
(`cursor`) and the unanswered selections, an action for each event handler, and
the environment: arriving events, children and foreign processes, windows,
focus, slit. It states the properties.

`Launcher` is the abstract specification: each icon is idle, starting or running, and
stands for one program, which no other icon stands for. An exclusive icon is launched
only when idle, any other when it is not starting; starting ends with time or with the
program; a failure ends everything. `Dock` implements it with `state[s]` being idle for
`pid = 0`, starting for `fading < Complete` and running otherwise, and the `pid` for the
program (`ImplementsLauncher`).

`RemoteControl` has one step for each request to the X server: the client's
XChangeProperty and XSendEvent; the dock's XGetWindowProperty, the action, and
XDeleteProperty. A request is known by its client. What a null property does to
`strcasecmp` and `strtok` is a choice between a crash and nothing. It stands
apart from `Dock`, whose `ExecuteIcon` and `ChangeIcon` take a message that has
been read. There is one window to put the property on: `send` takes the
topmost of the dock's.

`WindowManager` refines the window side of a slot: the loop over the icon's
titles in `exec`, `iconifyApplication`, `lowerApplication`, `closeApplication`
and `hasFocus`, with a step for each question to the server. Matching is a
constant relation. An X error outside `isValid` ends the program. A behaviour
begins in a `world` that says whether windows are retitled, ids reused and windows
may vanish in the midst of an operation; two properties hold in some of them only.
`stable` remembers the windows that have matched and been listed since the operation began;
only properties read it.

`EventLoop` refines the loop of `Dock::run`: XPending, XNextEvent with a handler, the tick
of one slot, `select`, and time. A handler or a tick may or may not ask the server for
something, which moves all events from the connection to Xlib's queue, and may or
may not draw, which leaves a request in the output buffer. One icon, without titles, can be
launched and counts its ticks; its fading is that of `Fading`. Its program ends at any time
(`Exit`), and `ended` is how long the end has waited for the waitpid of `Slot::tick`
(`TickFirst`), which releases the slot in the midst of the grey state too (`Release`). `Delivery` is the abstract specification: a
queue of ages, no age above the timeout. `EventLoop` implements it, fairness
included (`Delivers`).

`Background` refines `Slot::getBackground`: XGetWindowAttributes and XGetSubImage are two
steps between which the slit can change, and events for the slot are in a queue. A
background is known by the place it was read at. `vanish` says of a behaviour whether the slit
may be hidden between the two requests, in which case the X error ends the program.

`CommandLine` is `main`: the option loop with `argc` and `argv` on their own, as they are
moved on apart from each other, and the icons of records from the arguments or the file.
A string is a sequence of words; `Strings` has `strspn`, `strchr` and `strtok`. What is read
behind an array, through a null pointer, or of `argv` behind its end is `"crashed"`.

`MatchesPattern` is `WindowManager::matchesPattern`, a step for each turn of its loop.
`Matches` is the reference definition of what the wildcards mean: by `Reach`, a recursive
function, the part of the title that each part of the pattern can stand for. Both are about
the arguments of the call (`call`), which only the reference definition and the properties
read again once the loop runs; a `?` that Star skips is `Void`.

`Mark` has the bytes of an image, of which `activeMark` inverts those of the mark, a row
in each step, starting at `getOffset`. It may be called on a restored background or on
top of the last picture, as `Slot::draw` does. `InArea` is the test of `Dock::run` for
clicks on the cross, which `AreaIsCross` compares with the pixels drawn (`Drawn`); `Dock` takes
its outcome as the `onMark` of a click.

`Blend` has a channel of one pixel and the picture it is drawn upon: a background, or the last
picture where the slit could not be read. `marked` says that `activeMark` inverts this pixel,
which it does under the icon while the program runs (`WithMark`, in `Draw` between the
background and the icon, as in `Slot::draw`), until its end (`Ended`). `opaque` and `ghosted` divide by 255 in
doubles; where the exact quotient is an integer the double may be just below it, so that
there is a choice between the quotient and one less. With 16 bits a
channel loses its lower bits (`Kept`).

`GreyImage` has the bytes of the image that `loadIcon` expands from two bytes for each pixel to
four, within one block. Each byte is known by what it stands for.

`MCDock`, `MCRemoteControl`, `MCWindowManager`, `MCConfiguration` (options, records and
patterns, where a title is matched that came out of a record) and `MCImages` (`Mark`, `Blend`,
`GreyImage`, `Background`: each behaviour is one of a single module) define the
instances. `EventLoop` needs none.
`DockProofs`, `RemoteProofs`, `EventLoopProofs`, `WindowProofs`, `BackgroundProofs`,
`ImageProofs`, `CommandLineProofs` and `FadingProofs` hold the proofs. Recursion that is proved
about is that of functions (`Quotient`, `Role`, `Titles`, `Reach`), whose values follow from
`FadingProofs`. Operators with the comment
FAULT are wrong versions of the definition after them; each shows that a
property notices such an error.

## Runs

| Run | Checks | Instance |
| --- | --- | --- |
| `Lifecycle` | `TypeOK`, `NoStrayKill`, `PidTracksChild`, `GreyIsTracked`, `OneInstance`, `ImplementsLauncher`; under fairness `FadeEnds`, `ExclusiveReaped`, `CloseNoticed` | one exclusive and one plain icon, 2 pids |
| `Pictures` | `PictureCurrent`, `ClickLaunches` | 3 icons, two with the same command, one with none; slit hidden, obscured, moved; stopped children; messages |
| `EventLoop` | `TypeOK`, `PromptPictures`, `IdleKept`, `TicksKeepPace`, `EndNoticed`, `Delivers` (a refinement, under fairness) | 2 slots, 3 waiting events, a timeout of 3 units |
| `Requests` | `AtMostOnce`, `OnlyRequests`, `RequestKept`, `NoneStranded`; under fairness `LoneRequestServed` | three rival `-x` requests and a lone `-i` |
| `WindowSearch` | `SearchTypeOK`, `NotOverlooked`, `KillJustified`, `SurvivesStaleIds`, `ReturnsMatch` | 2 window ids, 3 titles, 2 patterns, three worlds |
| `Configuration` | `CommandTypeOK`, `CompleteNeverCrashes`, `LastPaddingWins`, `SlotsReversed`, `DecidesRight` | up to 4 of 12 arguments; up to 2 of 7 records in a file; patterns up to 4 and titles up to 3 characters |
| `Images` | `InsideImage`, `MarkPlaced`, `ExpandedInPlace`, `InRange`, `FadesIn`, `BackgroundCurrent`, `Settled`, `SurvivesHiddenSlit` | 4 marks, 3 color depths, 12 sizes, 36 margins; 12 grey images; 3 levels, 5 alphas, 2 idle times, pixels under the mark and beside it; 2 places of the slit |

Five runs end in a violation, each of something the documentation says:

| Run | Violates | What happens |
| --- | --- | --- |
| `LongIdle` | `FadeEnds` | An idle time of 13 s or more starts the fade-in below 20, where 1.05 f truncates to f: the icon stays grey until its program ends. |
| `StoppedChild` | `OneInstance` | `waitpid` with WUNTRACED reports a stopped child; the slot drops it and launches another. |
| `HiddenSlit` | `MarkShown` | With the slit off the screen each redraw inverts the mark again. |
| `LostRequest` | `EveryRequestServed` | A second request replaces the first; its event finds no property. |
| `CrossArea` | `AreaIsCross` | The area that closes the application is the box of the cross moved by one pixel to the right and down (`x > l`, `Dock.cc:226`): the first row and column of the "clickable" cross (`ChangeLog:60`) do not react. |

More disagreements are the reason for the limits of some properties:

* With the cross mark, the default, a click into the mark's area calls `closeApplication`
  also when the icon is not running and no cross is shown, and launches nothing
  (`Dock.cc:226-231`; `README.md:6` has icons "from which you can launch"). `ClickLaunches` is
  therefore checked with the play mark.
* `hasFocus` does not look at `pid`: with `-l`, an active window of another program
  with the icon's title turns the first click into the click action, which does
  nothing without a `pid` (`Dock.cc:236`, `Slot.cc:399`). `Pictures` has no `-l`.
* A cached window is returned without a second look at its title
  (`WindowManager.cc:123`). `ReturnsMatch` speaks of worlds where titles stay and
  ids are not reused.
* `Render16::activeMark` goes from row to row by the width of the icon, and the right margin of
  `getOffset` does not reckon with the padding of lines either: with 16 bits and an odd width
  a mark is skewed (`Render.cc:318`; `ChangeLog:96` has the code "tested and fixed").
  `Render24::activeMark` does not go on over unset pixels: the gaps of the mark close and its
  rows shift (`Render.cc:457`). `MarkPlaced` is about 32 bits and about 16 with even widths;
  `InsideImage` is about all.
* Where a margin does not fit into the icon, the mark is drawn without it but the area
  for clicks stays where it was. `AreaIsCross` does not speak of such margins.
* A mark in an icon that has no room for it is written behind the image (`Render.cc:146`);
  `InsideImage` and `MarkPlaced` are about icons that have room.
* Every event makes the loop tick once more, so a grey icon wakes up before its idle time
  if the mouse moves over the dock (`README.md:49` has "miliseconds", `Slot.cc:374` counts
  ticks). It also wakes up when its program ends, as it should (`ChangeLog:101`,
  `EndNoticed`). `IdleKept` speaks of quiet times; `TicksKeepPace` of all.
* A plain icon that is launched again forgets its last child, which stays a zombie when it
  ends (`Slot.cc:217`). `ExclusiveReaped` is about exclusive icons.
* The pattern `*?` is read as `*`, and of what stands behind a `*` only the last occurrence
  is tried (`WindowManager.cc:284`, `:301`): `*a?` rejects the title `aa`, although titles are
  "matched exactly (with wildcards)" (`ChangeLog:47`). `DecidesRight` reads `*?` the same way
  (`Void`) and is limited to simple patterns for the titles that are rejected.
* When the operand of the last option is missing, `--argc` goes to 0 and the loop's own
  below it: after its complaint the program reads behind `argv` (`main.cc:148`, `:219`).
  A record with more than three delimiters writes `fields[4]` (`main.cc:82`).
  `CompleteNeverCrashes` is about command lines and files without either.
* `-m` sets the padding, too, so an earlier `-p` is lost, but `-m play` leaves that of an earlier
  `-m` (`main.cc:230`). `LastPaddingWins` says what follows.
* The loops of `loadIcon` count with `--y` and `--x` and leave the last row and the first
  column of a grey image unexpanded (`Slot.cc:467`); `ExpandedInPlace` is about the others.
  `memcpy` takes four bytes for each pixel of rows that have two (`Slot.cc:463`).
* A background is read through a covering window if its VisibilityNotify is still
  pending (`BackgroundCurrent` excepts this), and a slit that is hidden between
  XGetWindowAttributes and XGetSubImage ends the dock with an X error
  (`SurvivesHiddenSlit` is about behaviours without `vanish`).

Bounds. The slots only meet in the process table and in the search for a command, so two
or three of them show their interplay; two process ids are enough for two children, or
for a child and a foreign process, and for the reuse of an id by the other slot or by a
foreign process. `Pictures` has one, as its clicks and pictures need no second child.
The event queue is cut to one event: events are handled one after the other and the next
may arrive at once. The idle times are "fastest" of `main.cc` and 750 ms, whose fade-in
oversteps `Complete`; `LongIdle` takes 13 s. A request is made once by each client, so
the queue of `RemoteControl` is bounded by their number. `WindowManager` has two ids
that can be reused, so any number of windows one after the other; its three worlds are
everything, no new titles and no reuse, and no window going while the slot deals with
it. In `EventLoop` a timeout of three units lets events arrive early and late in it, a
third waiting event lets one stay behind while another is handled, and the slot that is
launched has another one beside it; events that were launches are in the queue with
others. `Configuration` has command lines with two options that have operands or three
options and a record, and patterns with two wildcards that have characters between and
around them. `Images` has icons that are just as large as a mark, larger and smaller,
even and odd widths (with and without padding), and margins that fit and that do not;
the properties speak of icons that have room for the mark, as the code has no test for
others. Its levels and alphas are the ends of their ranges and values that round each
way; its idle times start the fade-in at two places; three pending events are a move,
a visibility and an exposure in all orders. Images of one row or one column are those
where the loops of `loadIcon` end at once. The finite instances of `RemoteControl` stop
when all requests are served, `WindowManager` and `Background` stop at an X error,
`CommandLine`, `MatchesPattern` and `GreyImage` when they are done, so deadlock is not
checked in their runs; in `EventLoop` and `Dock` it is, with a stutter for a dock that
has ended.

Fairness. `FairSpec` of `Dock` assumes that the thread is scheduled (weak fairness of
the tick loop and of the handlers), that the event queue runs empty again and
again (strong fairness of `StartTicking`: the user and the X server are slower
than the dock, while under a flood of events `run` never ticks) and that a process
that was sent SIGTERM and is not stopped ends. `FadeEnds` and `ExclusiveReaped`
need none of the last. In `RemoteControl` the clients and the dock are scheduled.
In `EventLoop` the dock is scheduled and time goes on (weak fairness of `Dock` and of
`Pass`): the process runs whenever it does not sleep in `select`.

## Proofs

Each theorem is about every value of the constants that fulfils the assumptions of its module,
which TLC evaluates in the runs. What they ask for beyond types is named below.

| Theorems | Properties | For any |
| --- | --- | --- |
| `DockProofs` | `TypeOK`, `NoStrayKill`, `PidTracksChild`, `GreyIsTracked`, `PictureCurrent`, `OneInstance`, `ClickLaunches`, `ImplementsLauncher`; `StaysGrey` | number of slots, process ids, commands, images and settings |
| `RemoteProofs` | `AtMostOnce`, `OnlyRequests`, `RequestKept`, `NoneStranded` | set of clients |
| `EventLoopProofs` | `TypeOK`, `PromptPictures`, `TicksKeepPace`, `EndNoticed`, `IdleKept`, `D!Ordered` | timeout, number of slots and of waiting events, idle times |
| `WindowProofs` | `SearchTypeOK`, `NotOverlooked`, `KillJustified`, `SurvivesStaleIds`, `ReturnsMatch` | windows, titles, patterns and way of matching, `Patterns` not being empty |
| `CommandLineProofs` | `CommandTypeOK`, `CompleteNeverCrashes`, `LastPaddingWins`, `SlotsReversed` | command line, file and loadable images |
| `CommandLineProofs` (`MatchesPattern`) | `DecidesRight` | characters and their lower-case forms, patterns, titles up to any `MaxTitle` |
| `FadingProofs` | `LongIdleNeverEnds` | idle time |
| `ImageProofs` (`Mark`) | `InsideImage`, `MarkPlaced`; `AreaIsShifted` | margins, size of the icon that has room for the mark |
| `ImageProofs` (`Blend`) | `InRange`, `FadesIn` | colours, alphas and idle times |
| `ImageProofs` (`GreyImage`) | `ExpandedInPlace` | size of the image, which is not empty |
| `BackgroundProofs`, `ImageProofs` | `BackgroundCurrent`, `Settled`, `SurvivesHiddenSlit` | places of the slit, number of pending events |

**Dock.** `OneInstance` holds if no child is ever stopped, and `ClickLaunches` with a mark that
is not clickable and without a click action, as in the runs. The inductive invariant `Inv`
adds three facts to the properties. A free process id
has no owner (`FreeIsOwnerless`): without it a foreign process could take the id of
a child that was signalled. A child of an exclusive slot is the one its `pid`
names (`ExclusiveTracked`), which `OneInstance` does not say and which makes the guard
of `exec` sufficient; it holds as long as nothing is stopped (`NeverStopped`). The
steps are grouped by what they change: nothing but the surroundings
(`ObjectsUnchanged`), a slot that keeps its pid (`SlotKeepsPid`), an exception
(`DockFails`), the process table (`ProcessChanges`); `Fork` and `Tick`, which tie a
process to a slot and release it, are proved by themselves. All drawing goes through
`DrawnCurrent`: after `draw( true )` a picture on a clean background is up to
date, whatever it was. The refinement has a lemma for each method that changes a
phase, and one that all other steps stutter; that a launch takes a
program of its own is `PidTracksChild` once more. A click that is handled reaches `fork`
because an icon without a process is not grey, which is `GreyIsTracked`.

`LongIdle` shows that an idle time of 13 s has no end. `LongIdleNeverEnds` says which have
none: `Quotient[52]` is not below `FadeFloor`, `Quotient[53]` is, and quotients never grow
(`QuotientDecreases`). `LongIdleStaysGrey` says what becomes of such an icon: while the slot has a
pid, its fading value is the one of its launch, whatever ticks, clicks, changes of the icon
and redraws come (`StaysGrey`); that a click on it launches nothing is then the guard of `exec`.

**Remote control.** For `AtMostOnce` the invariant says where a request that was carried out
can still be: only in the property that the dock is about to delete, so no later event
reads it. `RequestKept` is about a client whose message nobody else sends. `Followed` says
where its request is: it has no trace before its first step; then the property is its own until
the dock has read it, and one event at most is in the queue (`LoneFollowed`). `NoneStranded` is
inductive with it: the event is sent after the property is written, and once the dock has taken
an event of that kind from the queue it goes on to delete the property.

**Event loop.** `LInv` says why `select` may sleep although it does not see Xlib's queue: the
loop over the slots begins with an empty queue and an empty output buffer (XPending has
seen to that), so whatever is there when `select` begins has just come, and its age and
what is left of the timeout are never more than the timeout (`QueueWaits`,
`OutputWaits`). In the same way the ticks are ahead of the time by what is left
(`TicksAhead`), and so is the end of a program that the loop over the slots has passed by
(`EndWaits`), from which `EndNoticed` follows; a program that ends in a grey state makes it one
that is not quiet (`EndIsLoud`). For the refinement the ages of queue and connection, one behind the
other, are followed through each step. `IdleKept` needs the other direction: in quiet times there
is just one tick in each timeout (`OneTickEach`), and a tick takes back at most one of the
powers of 1.05 that `FadeOffset` has divided by (`FadesInTime`), so that the ticks of the
idle time cannot make it opaque. What `Quotient` computes is in `FadingProofs`, which states
induction with a set where the library has an operator, proves from it that primitive
recursion has one solution, and applies that to the definition.

**Windows.** `StillToCome` is the core of `NotOverlooked`: the windows that have matched since
the operation began are among those that are not examined yet. `NothingToClose` carries that over
the loop of `closeApplication` through all titles, at whose end the process is signalled.
`WindowStays` and `CacheMatches` say what a world without vanishing, or without new titles and
reused ids, is good for.

**Background.** What the slot believes of the slit may be wrong, but then its events correct it
(`SlitKnown`, `ToBeDrawn`, `ToBeMoved`). That needs a fact about the queue: the news that the
slit is no longer covered are followed at once by an Expose (`UncoveredExposed`). The
theorems of `BackgroundProofs` are about `Background` itself; `ImageProofs` takes them over by
an instance to the properties the run checks.

**Images.** For `ExpandedInPlace` the image has a part that is still as libpng has left it
(`Unread`) and one that is done (`Written`), and the pointers are where the counters are, so that
a written byte is one that was read. For `InsideImage` there is always room for the columns of
the mark and its rows to come (`WalkInside`), also where the padding of lines skews
it. `HalfDrawn` says which rows have been inverted so far; `MarkPlaced` follows when all are, and
so does `AreaIsShifted`, which says for all icons what `CrossArea` shows for one: the area is
the box of the cross, one pixel further. `InRange` and `FadesIn` are about truncated quotients of products
(`PartOfWay`, `PartsGrow`), also where the quotient may be one less; the mark turns a channel in the range of all that went into a
picture into one that is in it too (`WithMarkInHull`); `PictureOfFading` ties the
channel in the image to the fading value it was drawn with.

**Command line.** `Role` says of each argument what it is to the reader of a manual: an option, an
operand or a record. `Counted` relates `argc` and `argv`, which the program counts apart from
each other, to it. `PaddingKnown` does the same with the padding after each argument, and
`SlotsSoFar` with the chain of icons after each record. `CommandLineAssumption` says that
arguments and lines are sequences.

**Patterns.** In the loop, `o` characters of the pattern and `n` of the title have been read, and
`n` is in `Reach[o]` (`Reads`): so what is accepted is meant. For what is rejected the
invariant says why no other way of reading the title was lost (`NothingLost`). Before the first
star there is no choice (`NoChoice`). Behind the last occurrence of the one stretch of literal
characters that a simple pattern has there either ends the pattern, where taking the last is
right if anything is (`LastChoice`), or only wildcards follow, which take everything
(`AnyChoice`). `Unknown` is for a character that is none of `Chars`: at such a one none of the
steps is enabled, in the model the loop stands still, and nothing is decided. `PatternAssumption`
says that the wildcards are no characters of titles; titles with wildcards in them are not in
the model.

Model-checked only:

* Liveness, which the prover does not reach: `FadeEnds`, `ExclusiveReaped`,
  `CloseNoticed`, `LoneRequestServed` and the fairness in `Delivers`.
* That doubles give the same integers as `Quotient`: it is a fact about the program, not about
  the model.

## Plan

Every invariant that a passing run checks, and every action property, is a theorem. What is left:

* the liveness properties named above, once a prover reaches them;
* `MarkPlaced` for lines with padding and `DecidesRight` for all patterns, once `Render16` and
  `matchesPattern` have been changed to do what they say.

## Not modelled

libpng and the layout of pixels in memory beyond what `Mark` and `GreyImage` need; the creation
and destruction of windows and their hints; the wording of messages; workspaces in
`activateWindow` (a step that no property could tell from the activation); the
expansion of `~` and the name of the configuration file; property sizes above 4096 bytes; more
than one dock on a display; `exec` failing in the child, which the dock sees as a
child that ends; the generated autotools files.
