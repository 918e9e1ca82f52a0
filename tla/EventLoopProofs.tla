--------------------------- MODULE EventLoopProofs ---------------------------
(***************************************************************************)
(* Proofs of the safety properties of EventLoop: for any timeout, any      *)
(* number of slots and of waiting events, and any idle times.              *)
(***************************************************************************)
EXTENDS EventLoop, FadingProofs, TLAPS

(* Time only passes while the connection is empty.                         *)
SocketFresh == \A i \in DOMAIN socket : socket[i].age = 0

(* What the loop over the slots finds in Xlib's queue has come in the      *)
(* course of it, so that all of it can wait for select to return.          *)
QueueWaits ==
  \A i \in DOMAIN queue :
    /\ queue[i].age <= Timeout
    /\ at = "tick" => queue[i].age = 0
    /\ at = "asleep" => queue[i].age + left <= Timeout

(* The same of the output buffer: XPending has flushed it before the loop. *)
OutputWaits ==
  output # None =>
    /\ output <= Timeout
    /\ at = "tick" => output = 0
    /\ at = "asleep" => output + left <= Timeout

(* Once the first slot has ticked, the ticks are ahead of the time by as   *)
(* much as select may still take.                                          *)
TicksAhead ==
  /\ elapsed <= ticks * Timeout
  /\ at = "tick" /\ cursor > 1 /\ Grey => elapsed + Timeout <= ticks * Timeout
  /\ at = "asleep" /\ Grey => elapsed + left <= ticks * Timeout

(* The same of the end of the program: the first slot waits for it before  *)
(* select is called.                                                       *)
EndWaits ==
  ended # None =>
    /\ ended <= Timeout
    /\ at = "tick" /\ cursor > 1 => ended = 0
    /\ at = "asleep" => ended + left <= Timeout

LInv ==
  TypeOK /\ SocketFresh /\ QueueWaits /\ OutputWaits /\ TicksAhead /\ EndWaits

(* Each tick takes back one of the powers that FadeOffset has divided by,  *)
(* at most: it is truncated.  Only the end of the program cuts it short.   *)
FadesInTime ==
  ticks <= IdleTicks(idle) /\ (Grey \/ (quiet /\ ticks > 0)) =>
    fading * FixedPoint <= Quotient[IdleTicks(idle) + 1 - ticks]

(* As long as no event arrives there is one tick in each timeout.          *)
OneTickEach ==
  /\ quiet /\ Grey =>
       /\ queue = <<>> /\ socket = <<>>
       /\ at = "pending" \/ (at = "tick" /\ cursor = 1) => elapsed = ticks * Timeout
       /\ at = "tick" /\ cursor > 1 => elapsed + Timeout = ticks * Timeout
       /\ at = "asleep" => elapsed + left = ticks * Timeout
  /\ quiet /\ ~Grey /\ ticks > 0 => elapsed + Timeout >= ticks * Timeout

(* A grey icon whose program has ended is no longer quiet.                 *)
EndIsLoud == ended # None /\ Grey => ~quiet

KInv == FadesInTime /\ OneTickEach /\ EndIsLoud

-----------------------------------------------------------------------------
(* Lemmas about what the steps are made of                                 *)

(* The elements of a sequence that is put behind another.                  *)
LEMMA Joined ==
  ASSUME NEW s \in Seq(Events), NEW t \in Seq(Events)
  PROVE  /\ s \o t \in Seq(Events)
         /\ Len(s \o t) = Len(s) + Len(t)
         /\ \A i \in DOMAIN (s \o t) :
              (s \o t)[i] = IF i <= Len(s) THEN s[i] ELSE t[i - Len(s)]
         /\ \A i \in DOMAIN (s \o t) : i \notin DOMAIN s => i - Len(s) \in DOMAIN t
OBVIOUS

LEMMA OlderTyped ==
  ASSUME NEW s \in Seq(Events)
  PROVE  /\ Older(s) \in Seq(Events)
         /\ Len(Older(s)) = Len(s)
         /\ \A i \in DOMAIN s : Older(s)[i].age = s[i].age + 1
<1>1. ASSUME NEW e \in Events
      PROVE  /\ [e EXCEPT !.age = @ + 1] \in Events
             /\ [e EXCEPT !.age = @ + 1].age = e.age + 1
  BY DEF Events
<1>2. Len(s) \in Nat /\ DOMAIN s = 1..Len(s) /\ \A i \in DOMAIN s : s[i] \in Events
  OBVIOUS
<1>3. \A i \in DOMAIN s :
        /\ [s[i] EXCEPT !.age = @ + 1] \in Events
        /\ [s[i] EXCEPT !.age = @ + 1].age = s[i].age + 1
  BY <1>1, <1>2
<1>4. Older(s) = [i \in 1..Len(s) |-> [s[i] EXCEPT !.age = @ + 1]]
  BY <1>2 DEF Older
<1>5. Older(s) \in [1..Len(s) -> Events]
  BY <1>2, <1>3, <1>4
<1>6. Older(s) \in Seq(Events) /\ Len(Older(s)) = Len(s)
  BY <1>2, <1>5
<1> QED BY <1>2, <1>3, <1>4, <1>6

(* Requests of a handler or a tick keep what is said of events and of the  *)
(* output, waiting being what is left in the queue.                        *)
LEMMA RequestsWait ==
  ASSUME LInv, at \in {"next", "tick"}, NEW waiting \in Seq(Events),
         \A i \in DOMAIN waiting :
           waiting[i].age <= Timeout /\ (at = "tick" => waiting[i].age = 0),
         NEW asks \in BOOLEAN, NEW draws \in BOOLEAN,
         Requests(waiting, asks, draws)
  PROVE  /\ queue' \in Seq(Events) /\ socket' \in Seq(Events)
         /\ output' \in Nat \cup {None}
         /\ SocketFresh'
         /\ \A i \in DOMAIN queue' :
              queue'[i].age <= Timeout /\ (at = "tick" => queue'[i].age = 0)
         /\ output' # None =>
              output' <= Timeout /\ (at = "tick" => output' = 0)
         /\ queue' \o socket' = waiting \o socket
<1> USE LoopAssumption DEF LInv
<1>1. /\ output' \in Nat \cup {None}
      /\ output' # None =>
           output' <= Timeout /\ (at = "tick" => output' = 0)
  BY DEF Requests, OutputWaits, TypeOK
<1>2. CASE asks
  <2>1. queue' = waiting \o socket /\ socket' = <<>>
    BY <1>2 DEF Requests
  <2>2. queue' \in Seq(Events) /\ socket' \in Seq(Events)
    BY <2>1 DEF TypeOK
  <2>3. \A i \in DOMAIN queue' :
          queue'[i].age <= Timeout /\ (at = "tick" => queue'[i].age = 0)
    BY <2>1, Joined DEF TypeOK, SocketFresh
  <2>4. queue' \o socket' = waiting \o socket
    BY <2>1, <2>2
  <2>5. SocketFresh'
    BY <2>1 DEF SocketFresh
  <2> QED BY <1>1, <2>2, <2>3, <2>4, <2>5
<1>3. CASE ~asks
  <2>1. queue' = waiting /\ socket' = socket
    BY <1>3 DEF Requests
  <2> QED BY <1>1, <2>1 DEF TypeOK, SocketFresh
<1> QED BY <1>2, <1>3

-----------------------------------------------------------------------------
(* The invariant                                                           *)

LEMMA InitLInv == Init => LInv
<1> SUFFICES ASSUME Init PROVE LInv
  OBVIOUS
<1>1. <<>> \in Seq(Events)
  OBVIOUS
<1>2. TypeOK
  <2>1. Complete \in 0..Complete /\ 0 \in 0..Timeout /\ 1 \in 1..(N + 1)
    BY LoopAssumption DEF Complete
  <2>2. ~Grey
    <3>1. Complete \in Nat
      BY SMT DEF Complete
    <3> QED BY <3>1 DEF Init, Grey
  <2> QED BY <1>1, <2>1, <2>2 DEF Init, TypeOK
<1>3. SocketFresh /\ QueueWaits /\ OutputWaits /\ EndWaits
  BY DEF Init, SocketFresh, QueueWaits, OutputWaits, EndWaits
<1>4. TicksAhead
  BY LoopAssumption DEF Init, TicksAhead
<1> QED BY <1>2, <1>3, <1>4 DEF LInv

LEMMA XPendingLInv == LInv /\ XPending => LInv'
<1> SUFFICES ASSUME LInv, XPending PROVE LInv'
  OBVIOUS
<1> USE LoopAssumption DEF LInv
<1>1. /\ at = "pending" /\ at' \in {"next", "tick"} /\ cursor' = 1
      /\ at' = "next" => queue' # <<>>
      /\ at' = "tick" => queue' = <<>>
      /\ UNCHANGED <<left, iconVars>>
  BY DEF XPending
<1>2. CASE queue = <<>>
  <2>1. queue' = socket /\ socket' = <<>> /\ output' = None
    BY <1>2 DEF XPending
  <2>2. TypeOK'
    BY <1>1, <2>1 DEF TypeOK, iconVars, Grey
  <2>3. SocketFresh' /\ QueueWaits' /\ OutputWaits'
    BY <1>1, <2>1 DEF SocketFresh, QueueWaits, OutputWaits
  <2>4. TicksAhead' /\ EndWaits'
    BY <1>1 DEF TicksAhead, EndWaits, iconVars, Grey
  <2> QED BY <2>2, <2>3, <2>4
<1>3. CASE queue # <<>>
  <2>1. UNCHANGED <<socket, queue, output>>
    BY <1>3 DEF XPending, xlibVars
  <2>2. TypeOK'
    BY <1>1, <2>1 DEF TypeOK, iconVars, Grey
  <2>3. at' = "next"
    BY <1>1, <1>3, <2>1
  <2>4. SocketFresh' /\ QueueWaits' /\ OutputWaits'
    BY <2>1, <2>3 DEF SocketFresh, QueueWaits, OutputWaits
  <2>5. TicksAhead' /\ EndWaits'
    BY <1>1 DEF TicksAhead, EndWaits, iconVars, Grey
  <2> QED BY <2>2, <2>4, <2>5
<1> QED BY <1>2, <1>3

LEMMA NextEventLInv ==
  ASSUME LInv, NEW asks \in BOOLEAN, NEW draws \in BOOLEAN,
         NextEvent(asks, draws)
  PROVE  LInv' /\ queue' \o socket' = Tail(queue) \o socket /\ queue # <<>>
<1> USE LoopAssumption DEF LInv
<1>1. /\ at = "next" /\ at' = "pending" /\ UNCHANGED <<cursor, left>>
      /\ Requests(Tail(queue), asks, draws)
  BY DEF NextEvent
<1>2. queue # <<>> /\ Tail(queue) \in Seq(Events)
  BY <1>1 DEF TypeOK
<1>3. \A i \in DOMAIN Tail(queue) : Tail(queue)[i].age <= Timeout
  BY <1>2 DEF TypeOK, QueueWaits
<1>4. /\ queue' \in Seq(Events) /\ socket' \in Seq(Events)
      /\ output' \in Nat \cup {None}
      /\ SocketFresh'
      /\ \A i \in DOMAIN queue' : queue'[i].age <= Timeout
      /\ output' # None => output' <= Timeout
      /\ queue' \o socket' = Tail(queue) \o socket
  BY <1>1, <1>2, <1>3, RequestsWait
<1>5. \/ UNCHANGED iconVars
      \/ \E i \in Idles : Launch(i)
  BY DEF NextEvent
<1>6. CASE UNCHANGED iconVars
  <2>1. TypeOK'
    BY <1>1, <1>4, <1>6 DEF TypeOK, iconVars, Grey
  <2>2. TicksAhead' /\ EndWaits'
    BY <1>1, <1>6 DEF TicksAhead, EndWaits, iconVars, Grey
  <2>3. QueueWaits' /\ OutputWaits'
    BY <1>1, <1>4 DEF QueueWaits, OutputWaits
  <2> QED BY <1>2, <1>4, <2>1, <2>2, <2>3
<1>7. ASSUME NEW i \in Idles, Launch(i)
      PROVE  LInv'
  <2>1. quiet' \in BOOLEAN
    <3>1. quiet' = (queue' \o socket' = <<>>)
      BY <1>7 DEF Launch
    <3> QED BY <3>1, Zenon
  <2>2. /\ idle' = i /\ fading' = FadeOffset(i) /\ ticks' = 0 /\ elapsed' = 0
        /\ pid' = TRUE /\ ended' = None
    BY <1>7 DEF Launch
  <2>3. fading' \in 0..Complete
    <3>1. i \in Nat /\ FadeOffset(i) \in 0..(Complete - 1)
      BY FadeOffsetGrey
    <3> QED BY <2>2, <3>1, SMT DEF Complete
  <2>6. TypeOK'
    BY <1>1, <1>4, <2>1, <2>2, <2>3 DEF TypeOK
  <2>4. TicksAhead' /\ EndWaits'
    BY <1>1, <2>2 DEF TicksAhead, EndWaits
  <2>5. QueueWaits' /\ OutputWaits'
    BY <1>1, <1>4 DEF QueueWaits, OutputWaits
  <2> QED BY <1>4, <2>6, <2>4, <2>5
<1> QED BY <1>2, <1>4, <1>5, <1>6, <1>7

LEMMA TickLInv ==
  ASSUME LInv, NEW asks \in BOOLEAN, NEW draws \in BOOLEAN,
         Tick(asks, draws)
  PROVE  LInv' /\ queue' \o socket' = queue \o socket
<1> USE LoopAssumption DEF LInv
<1>1. /\ at = "tick" /\ cursor <= N /\ cursor' = cursor + 1
      /\ UNCHANGED <<at, left, idle, elapsed, quiet>>
      /\ Requests(queue, asks, draws)
  BY DEF Tick
<1>2. /\ queue' \in Seq(Events) /\ socket' \in Seq(Events)
      /\ output' \in Nat \cup {None}
      /\ SocketFresh'
      /\ \A i \in DOMAIN queue' : queue'[i].age <= Timeout /\ queue'[i].age = 0
      /\ output' # None => output' <= Timeout /\ output' = 0
      /\ queue' \o socket' = queue \o socket
  BY <1>1, RequestsWait DEF TypeOK, QueueWaits
<1>3. QueueWaits' /\ OutputWaits'
  BY <1>1, <1>2 DEF QueueWaits, OutputWaits
<1>4. CASE cursor = 1 /\ ended # None
  <2>1. pid' = FALSE /\ ended' = None /\ fading' = Complete /\ ticks' = ticks
    BY <1>4 DEF Tick, TickFirst, Release
  <2>2. Complete \in 0..Complete /\ ~(Complete < Complete)
    BY SMT DEF Complete
  <2>3. ~Grey'
    BY <2>1, <2>2 DEF Grey
  <2>4. TypeOK'
    <3>1. /\ fading' \in 0..Complete /\ ticks' \in Nat
          /\ pid' \in BOOLEAN /\ ended' \in Nat \cup {None}
      BY <2>1, <2>2, Zenon DEF TypeOK
    <3>2. Grey' \/ ended' # None => pid'
      BY <2>1, <2>3
    <3> QED BY <1>1, <1>2, <3>1, <3>2 DEF TypeOK
  <2>5. TicksAhead' /\ EndWaits'
    BY <1>1, <2>1, <2>3 DEF TicksAhead, EndWaits
  <2> QED BY <1>2, <1>3, <2>4, <2>5
<1>5. CASE cursor = 1 /\ ended = None /\ Grey
  <2>1. fading' = FadeStep(fading) /\ ticks' = ticks + 1 /\ UNCHANGED <<pid, ended>>
    BY <1>5 DEF Tick, TickFirst, FadeIn
  <2>2. fading' \in 0..Complete
    BY <2>1, FadeStepTyped DEF TypeOK
  <2>3. TypeOK'
    BY <1>1, <1>2, <1>5, <2>1, <2>2 DEF TypeOK
  <2>4. (ticks + 1) * Timeout = ticks * Timeout + Timeout /\ ticks * Timeout \in Nat
    BY DEF TypeOK
  <2>5. elapsed' + Timeout <= ticks' * Timeout
    BY <1>1, <2>1, <2>4 DEF TicksAhead, TypeOK
  <2>6. TicksAhead'
    BY <1>1, <2>1, <2>3, <2>4, <2>5 DEF TicksAhead, TypeOK
  <2>7. EndWaits'
    BY <1>5, <2>1 DEF EndWaits
  <2> QED BY <1>2, <1>3, <2>3, <2>6, <2>7
<1>6. CASE (cursor = 1 /\ ended = None /\ ~Grey) \/ cursor # 1
  <2>1. UNCHANGED <<pid, ended, fading, ticks>>
    BY <1>6 DEF Tick, TickFirst
  <2>2. TypeOK'
    BY <1>1, <1>2, <2>1 DEF TypeOK, Grey
  <2>3. TicksAhead'
    BY <1>1, <1>6, <2>1 DEF TicksAhead, TypeOK, Grey
  <2>4. EndWaits'
    BY <1>1, <1>6, <2>1 DEF EndWaits, TypeOK
  <2> QED BY <1>2, <1>3, <2>2, <2>3, <2>4
<1> QED BY <1>4, <1>5, <1>6, <1>2

LEMMA SelectLInv == LInv /\ Select => LInv'
<1> SUFFICES ASSUME LInv, Select PROVE LInv'
  OBVIOUS
<1> USE LoopAssumption DEF LInv
<1>1. /\ at = "tick" /\ cursor = N + 1 /\ at' = "asleep" /\ left' = Timeout
      /\ UNCHANGED <<xlibVars, cursor, iconVars>>
  BY DEF Select
<1>2. TypeOK'
  BY <1>1 DEF TypeOK, xlibVars, iconVars, Grey
<1>3. SocketFresh'
  BY <1>1 DEF SocketFresh, xlibVars
<1>4. QueueWaits'
  BY <1>1 DEF QueueWaits, xlibVars
<1>5. OutputWaits'
  BY <1>1 DEF OutputWaits, xlibVars
<1>6. TicksAhead'
  BY <1>1 DEF TicksAhead, iconVars, Grey
<1>7. EndWaits'
  BY <1>1 DEF EndWaits, iconVars, TypeOK
<1> QED BY <1>2, <1>3, <1>4, <1>5, <1>6, <1>7

LEMMA WakeLInv == LInv /\ Wake => LInv'
<1> SUFFICES ASSUME LInv, Wake PROVE LInv'
  OBVIOUS
<1> USE DEF LInv
<1>1. at' = "pending" /\ UNCHANGED <<xlibVars, cursor, left, iconVars>>
  BY DEF Wake
<1>2. TypeOK'
  BY <1>1 DEF TypeOK, xlibVars, iconVars, Grey
<1>3. SocketFresh' /\ QueueWaits' /\ OutputWaits'
  BY <1>1 DEF SocketFresh, QueueWaits, OutputWaits, xlibVars
<1>4. TicksAhead' /\ EndWaits'
  BY <1>1 DEF TicksAhead, EndWaits, iconVars, Grey
<1> QED BY <1>2, <1>3, <1>4

LEMMA ArriveLInv ==
  ASSUME LInv, NEW launches \in BOOLEAN, Arrive(launches)
  PROVE  LInv'
<1> USE DEF LInv
<1> DEFINE e == [age |-> 0, launches |-> launches]
<1>1. /\ socket' = Append(socket, e)
      /\ UNCHANGED <<queue, output, loopVars, idle, fading, pid, ended, ticks, elapsed>>
  BY DEF Arrive
<1>2. e \in Events
  BY DEF Events
<1>3. quiet' \in BOOLEAN
  <2>1. quiet' = (quiet /\ ~Grey)
    BY DEF Arrive
  <2> QED BY <2>1, Zenon
<1> HIDE DEF e
<1>4. TypeOK'
  BY <1>1, <1>2, <1>3 DEF TypeOK, loopVars, Grey
<1>5. SocketFresh'
  <2>1. e.age = 0
    BY DEF e
  <2> QED BY <1>1, <1>2, <2>1 DEF SocketFresh, TypeOK
<1>6. QueueWaits' /\ OutputWaits'
  BY <1>1 DEF QueueWaits, OutputWaits, loopVars
<1>7. TicksAhead' /\ EndWaits'
  BY <1>1 DEF TicksAhead, EndWaits, loopVars, Grey
<1> QED BY <1>4, <1>5, <1>6, <1>7

LEMMA ExitLInv == LInv /\ Exit => LInv'
<1> SUFFICES ASSUME LInv, Exit PROVE LInv'
  OBVIOUS
<1> USE LoopAssumption DEF LInv
<1>1. /\ pid /\ ended' = 0
      /\ UNCHANGED <<loopVars, xlibVars, idle, fading, pid, ticks, elapsed>>
  BY DEF Exit
<1>2. quiet' \in BOOLEAN
  <2>1. quiet' = (quiet /\ ~Grey)
    BY DEF Exit
  <2> QED BY <2>1, Zenon
<1>3. TypeOK'
  BY <1>1, <1>2 DEF TypeOK, loopVars, xlibVars, Grey
<1>4. SocketFresh' /\ QueueWaits' /\ OutputWaits'
  BY <1>1 DEF SocketFresh, QueueWaits, OutputWaits, loopVars, xlibVars
<1>5. TicksAhead'
  BY <1>1 DEF TicksAhead, loopVars, Grey
<1>6. EndWaits'
  BY <1>1 DEF EndWaits, TypeOK, loopVars
<1> QED BY <1>3, <1>4, <1>5, <1>6

LEMMA PassLInv == LInv /\ Pass => LInv'
<1> SUFFICES ASSUME LInv, Pass PROVE LInv'
  OBVIOUS
<1> USE LoopAssumption DEF LInv
<1>1. /\ at = "asleep" /\ socket = <<>> /\ left > 0 /\ left' = left - 1
      /\ queue' = Older(queue)
      /\ output' = IF output = None THEN None ELSE output + 1
      /\ elapsed' = IF Grey THEN elapsed + 1 ELSE elapsed
      /\ ended' = IF ended = None THEN None ELSE ended + 1
      /\ UNCHANGED <<socket, at, cursor, idle, fading, pid, ticks, quiet>>
  BY DEF Pass
<1>2. /\ queue' \in Seq(Events) /\ DOMAIN queue' = DOMAIN queue
      /\ \A i \in DOMAIN queue : queue'[i].age = queue[i].age + 1
      /\ \A i \in DOMAIN queue : queue[i].age \in Nat
  <2>1. queue \in Seq(Events)
    BY DEF TypeOK
  <2>2. \A i \in DOMAIN queue : queue[i] \in Events
    BY <2>1
  <2> QED BY <1>1, <2>1, <2>2, OlderTyped DEF Events
<1>3. TypeOK'
  BY <1>1, <1>2 DEF TypeOK, Grey
<1>4. SocketFresh'
  BY <1>1 DEF SocketFresh
<1>5. QueueWaits'
  BY <1>1, <1>2 DEF QueueWaits, TypeOK
<1>6. OutputWaits'
  BY <1>1 DEF OutputWaits, TypeOK
<1>7. TicksAhead'
  <2>1. ticks * Timeout \in Nat
    BY DEF TypeOK
  <2>2. elapsed' <= ticks * Timeout
    BY <1>1, <2>1 DEF TicksAhead, TypeOK
  <2> QED BY <1>1, <2>1, <2>2 DEF TicksAhead, TypeOK, Grey
<1>8. EndWaits'
  BY <1>1 DEF EndWaits, TypeOK
<1> QED BY <1>3, <1>4, <1>5, <1>6, <1>7, <1>8

LEMMA NextLInv == LInv /\ [Next]_vars => LInv'
<1> SUFFICES ASSUME LInv, [Next]_vars PROVE LInv'
  OBVIOUS
<1>1. CASE UNCHANGED vars
  BY <1>1 DEF vars, loopVars, xlibVars, iconVars, LInv, TypeOK, SocketFresh,
              QueueWaits, OutputWaits, TicksAhead, EndWaits, Grey
<1>2. CASE Dock
  BY <1>2, XPendingLInv, SelectLInv, WakeLInv, NextEventLInv, TickLInv DEF Dock
<1>3. CASE Pass
  BY <1>3, PassLInv
<1>4. ASSUME NEW launches \in BOOLEAN, Arrive(launches)
      PROVE  LInv'
  BY <1>4, ArriveLInv
<1>5. CASE Exit
  BY <1>5, ExitLInv
<1> QED BY <1>1, <1>2, <1>3, <1>4, <1>5 DEF Next

LEMMA InitKInv == Init => KInv
<1> SUFFICES ASSUME Init PROVE KInv
  OBVIOUS
<1>1. fading = Complete /\ ticks = 0 /\ elapsed = 0 /\ ~quiet /\ ended = None
  BY DEF Init
<1>2. ~Grey
  <2>1. Complete \in Nat
    BY SMT DEF Complete
  <2> QED BY <1>1, <2>1 DEF Grey
<1> QED BY <1>1, <1>2 DEF KInv, FadesInTime, OneTickEach, EndIsLoud

LEMMA NoEvents ==
  ASSUME NEW s \in Seq(Events), NEW t \in Seq(Events)
  PROVE  s \o t = <<>> <=> s = <<>> /\ t = <<>>
<1>1. Len(s \o t) = Len(s) + Len(t) /\ Len(s) \in Nat /\ Len(t) \in Nat
  OBVIOUS
<1>2. \A r \in Seq(Events) : r = <<>> <=> Len(r) = 0
  OBVIOUS
<1>3. s \o t \in Seq(Events)
  OBVIOUS
<1> QED BY <1>1, <1>2, <1>3

LEMMA NextKInv == LInv /\ LInv' /\ KInv /\ [Next]_vars => KInv'
<1> SUFFICES ASSUME LInv, LInv', KInv, [Next]_vars PROVE KInv'
  OBVIOUS
<1> USE LoopAssumption
<1>1. /\ TypeOK /\ TypeOK'
      /\ IdleTicks(idle) \in Nat /\ ticks * Timeout \in Nat
      /\ idle \in Nat
  BY IdleTicksTyped DEF LInv, TypeOK
<1>2. CASE UNCHANGED vars
  BY <1>2 DEF vars, loopVars, xlibVars, iconVars, KInv, FadesInTime, OneTickEach, EndIsLoud, Grey
<1>3. CASE XPending
  BY <1>3 DEF XPending, xlibVars, iconVars, KInv, FadesInTime, OneTickEach, EndIsLoud, Grey
<1>4. CASE Select
  BY <1>1, <1>4 DEF Select, xlibVars, iconVars, KInv, FadesInTime, OneTickEach, EndIsLoud, Grey, TypeOK
<1>5. CASE Wake
  BY <1>1, <1>5 DEF Wake, xlibVars, iconVars, KInv, FadesInTime, OneTickEach, EndIsLoud, Grey, TypeOK
<1>6. CASE Pass
  <2>1. /\ at = "asleep" /\ socket = <<>> /\ left' = left - 1
        /\ queue' = Older(queue) /\ elapsed' = IF Grey THEN elapsed + 1 ELSE elapsed
        /\ ended' = IF ended = None THEN None ELSE ended + 1
        /\ UNCHANGED <<socket, at, cursor, idle, fading, pid, ticks, quiet>>
    BY <1>6 DEF Pass
  <2>2. queue = <<>> => queue' = <<>>
    BY <2>1 DEF Older
  <2> QED BY <1>1, <2>1, <2>2 DEF KInv, FadesInTime, OneTickEach, EndIsLoud, Grey, TypeOK
<1>7. ASSUME NEW launches \in BOOLEAN, Arrive(launches) PROVE KInv'
  <2>1. /\ quiet' => quiet /\ ~Grey
        /\ UNCHANGED <<queue, output, loopVars, idle, fading, pid, ended, ticks, elapsed>>
    BY <1>7 DEF Arrive
  <2> QED BY <2>1 DEF KInv, FadesInTime, OneTickEach, EndIsLoud, Grey, loopVars
<1>8. ASSUME NEW asks \in BOOLEAN, NEW draws \in BOOLEAN, NextEvent(asks, draws)
      PROVE  KInv'
  <2>1. at' = "pending" /\ UNCHANGED <<cursor, left>> /\ queue # <<>>
    BY <1>1, <1>8 DEF NextEvent, TypeOK
  <2>2. CASE UNCHANGED iconVars
    BY <2>1, <2>2 DEF iconVars, KInv, FadesInTime, OneTickEach, EndIsLoud, Grey
  <2>3. ASSUME NEW i \in Idles, Launch(i) PROVE KInv'
    <3>1. /\ idle' = i /\ fading' = FadeOffset(i) /\ ticks' = 0 /\ elapsed' = 0
          /\ ended' = None /\ quiet' = (queue' \o socket' = <<>>)
      BY <2>3 DEF Launch
    <3>2. quiet' => queue' = <<>> /\ socket' = <<>>
      BY <1>1, <3>1, NoEvents DEF TypeOK
    <3>3. OneTickEach'
      BY <2>1, <3>1, <3>2 DEF OneTickEach
    <3>4. i \in Nat /\ IdleTicks(i) \in Nat /\ IdleTicks(i) + 1 - 0 = IdleTicks(i) + 1
      BY IdleTicksTyped
    <3>5. FadesInTime'
      BY <3>1, <3>4, FadeOffsetGrey DEF FadesInTime
    <3> QED BY <3>1, <3>3, <3>5 DEF KInv, EndIsLoud
  <2> QED BY <1>8, <2>2, <2>3 DEF NextEvent
<1>9. ASSUME NEW asks \in BOOLEAN, NEW draws \in BOOLEAN, Tick(asks, draws)
      PROVE  KInv'
  <2>1. /\ at = "tick" /\ cursor' = cursor + 1
        /\ UNCHANGED <<at, left, idle, elapsed, quiet>>
        /\ queue' \o socket' = queue \o socket
    BY <1>9, TickLInv DEF Tick
  <2>2. queue = <<>> /\ socket = <<>> => queue' = <<>> /\ socket' = <<>>
    BY <1>1, <2>1, NoEvents DEF TypeOK
  <2>3. CASE cursor = 1 /\ ended = None /\ Grey
    <3>1. fading' = FadeStep(fading) /\ ticks' = ticks + 1 /\ ended' = None
      BY <1>9, <2>3 DEF Tick, TickFirst, FadeIn
    <3>2. (ticks + 1) * Timeout = ticks * Timeout + Timeout
      BY <1>1 DEF TypeOK
    <3>3. OneTickEach'
      BY <1>1, <2>1, <2>2, <2>3, <3>1, <3>2 DEF KInv, OneTickEach, TypeOK, Grey
    <3>4. FadesInTime'
      <4> SUFFICES ASSUME ticks + 1 <= IdleTicks(idle)
                   PROVE  fading' * FixedPoint <= Quotient[IdleTicks(idle) + 1 - (ticks + 1)]
        <5>1. idle' = idle /\ ticks' = ticks + 1
          BY <2>1, <3>1
        <5> QED BY <5>1 DEF FadesInTime
      <4> DEFINE n == IdleTicks(idle) - ticks
      <4>1. /\ n \in Nat /\ IdleTicks(idle) + 1 - ticks = n + 1
            /\ IdleTicks(idle) + 1 - (ticks + 1) = n
        <5>1. ticks \in Nat /\ IdleTicks(idle) \in Nat
          BY <1>1 DEF TypeOK
        <5> QED BY <5>1
      <4>2. fading * FixedPoint <= Quotient[n + 1]
        <5>1. ticks <= IdleTicks(idle)
          <6>1. ticks \in Nat /\ IdleTicks(idle) \in Nat
            BY <1>1 DEF TypeOK
          <6> QED BY <6>1
        <5>2. fading * FixedPoint <= Quotient[IdleTicks(idle) + 1 - ticks]
          BY <2>3, <5>1 DEF KInv, FadesInTime
        <5> QED BY <4>1, <5>2
      <4> HIDE DEF n
      <4> QED BY <1>1, <3>1, <4>1, <4>2, FadeStepBehind DEF TypeOK
    <3> QED BY <3>1, <3>3, <3>4 DEF KInv, EndIsLoud
  <2>4. CASE cursor = 1 /\ ended # None
    <3>1. ended' = None /\ fading' = Complete /\ ticks' = ticks
      BY <1>9, <2>4 DEF Tick, TickFirst, Release
    <3>2. ~(Complete < Complete)
      BY SMT DEF Complete
    <3>3. ~Grey'
      BY <3>1, <3>2 DEF Grey
    <3>4. CASE Grey
      BY <2>1, <2>4, <3>1, <3>3, <3>4 DEF KInv, FadesInTime, OneTickEach, EndIsLoud
    <3>5. CASE ~Grey
      <4>1. fading' = fading
        <5>1. ASSUME NEW c \in Nat, fading \in 0..c, ~(fading < c) PROVE fading = c
          BY <5>1
        <5>2. Complete \in Nat
          BY SMT DEF Complete
        <5> QED BY <1>1, <3>1, <3>5, <5>1, <5>2 DEF TypeOK, Grey
      <4> QED BY <2>1, <3>1, <3>3, <3>5, <4>1 DEF KInv, FadesInTime, OneTickEach, EndIsLoud
    <3> QED BY <3>4, <3>5
  <2>5. CASE (cursor = 1 /\ ended = None /\ ~Grey) \/ cursor # 1
    <3>1. UNCHANGED <<pid, ended, fading, ticks>>
      BY <1>9, <2>5 DEF Tick, TickFirst
    <3> QED BY <1>1, <2>1, <2>2, <2>5, <3>1
            DEF KInv, FadesInTime, OneTickEach, EndIsLoud, Grey, TypeOK
  <2> QED BY <2>3, <2>4, <2>5
<1>10. CASE Exit
  <2>1. /\ quiet' => quiet /\ ~Grey
        /\ UNCHANGED <<loopVars, xlibVars, idle, fading, pid, ticks, elapsed>>
    BY <1>10 DEF Exit
  <2> QED BY <2>1 DEF KInv, FadesInTime, OneTickEach, EndIsLoud, Grey, loopVars, xlibVars
<1> QED BY <1>2, <1>3, <1>4, <1>5, <1>6, <1>7, <1>8, <1>9, <1>10 DEF Next, Dock

(* Whatever waits, in Xlib's queue, in the output buffer or for a tick, has*)
(* only done so for as long as select leaves of the timeout.               *)
THEOREM LoopInvariance == Spec => []LInv
BY InitLInv, NextLInv, PTL DEF Spec

(* The variables of the loop of Dock::run keep their types.                *)
THEOREM LoopTypes == Spec => []TypeOK
<1>1. LInv => TypeOK
  BY DEF LInv
<1> QED BY <1>1, LoopInvariance, PTL

(* What is drawn or sent waits for one timeout at most, although only      *)
(* XPending flushes the output.                                            *)
THEOREM PicturesArePrompt == Spec => []PromptPictures
<1>1. LInv => PromptPictures
  BY DEF LInv, OutputWaits, PromptPictures
<1> QED BY <1>1, LoopInvariance, PTL

(* A grey icon gets a tick in each timeout, whatever events arrive.        *)
THEOREM TicksAreInTime == Spec => []TicksKeepPace
<1>1. LInv => TicksKeepPace
  BY DEF LInv, TicksAhead, TicksKeepPace
<1> QED BY <1>1, LoopInvariance, PTL

(* The end of a program is noticed within one timeout, grey or not.        *)
THEOREM EndsAreNoticed == Spec => []EndNoticed
<1>1. LInv => EndNoticed
  BY DEF LInv, EndWaits, EndNoticed
<1> QED BY <1>1, LoopInvariance, PTL

(* An icon that has become opaque has had more ticks than its idle time    *)
(* amounts to, which took one timeout each but the first.                  *)
LEMMA IdleKeptInv == LInv /\ KInv => IdleKept
<1> SUFFICES ASSUME LInv, KInv, quiet, ~Grey, ticks > 0
             PROVE  elapsed >= IdleTicks(idle) * Timeout
  BY DEF IdleKept
<1>0. /\ ticks \in Nat /\ elapsed \in Nat /\ fading \in 0..Complete
      /\ idle \in Nat /\ Timeout \in Nat
  BY LoopAssumption DEF LInv, TypeOK
<1>1. /\ ticks \in Nat /\ elapsed \in Nat /\ fading = 255 /\ idle \in Nat
      /\ IdleTicks(idle) \in Nat /\ Timeout \in Nat
  BY <1>0, IdleTicksTyped DEF Grey, Complete
<1>2. ticks > IdleTicks(idle)
  <2> SUFFICES ASSUME ticks <= IdleTicks(idle) PROVE FALSE
    BY <1>1
  <2>1. fading * FixedPoint <= Quotient[IdleTicks(idle) + 1 - ticks]
    BY DEF KInv, FadesInTime
  <2> DEFINE n == IdleTicks(idle) - ticks
  <2>2. n \in Nat /\ IdleTicks(idle) + 1 - ticks = n + 1
    BY <1>1
  <2>3. Quotient[n + 1] \in Nat /\ Quotient[n + 1] <= 63913204
    BY <2>2, QuotientFalls
  <2> QED BY <1>1, <2>1, <2>2, <2>3, SMT DEF FixedPoint
<1>3. elapsed + Timeout >= ticks * Timeout
  BY DEF KInv, OneTickEach
<1>4. PICK d \in Nat : ticks = IdleTicks(idle) + 1 + d
  <2>1. /\ ticks - IdleTicks(idle) - 1 \in Nat
        /\ ticks = IdleTicks(idle) + 1 + (ticks - IdleTicks(idle) - 1)
    BY <1>1, <1>2, SMT
  <2> QED BY <2>1
<1>5. /\ IdleTicks(idle) * Timeout \in Nat /\ d * Timeout \in Nat
      /\ ticks * Timeout = IdleTicks(idle) * Timeout + Timeout + d * Timeout
  <2>1. ASSUME NEW a \in Nat, NEW b \in Nat
        PROVE  /\ a * Timeout \in Nat
               /\ (a + 1 + b) * Timeout = a * Timeout + Timeout + b * Timeout
    BY <1>1, <2>1
  <2> QED BY <1>1, <1>4, <2>1
<1>6. ASSUME NEW a \in Nat, NEW b \in Nat, NEW c \in Nat,
             c = a + Timeout + b, elapsed + Timeout >= c
      PROVE  elapsed >= a
  BY <1>1, <1>6
<1> QED BY <1>1, <1>3, <1>5, <1>6

(* An icon is grey for its idle time at least, in whole ticks, if its      *)
(* program runs that long and no event makes the loop tick earlier.        *)
THEOREM GreyForIdleTime == Spec => []IdleKept
<1>1. Spec => [](LInv /\ KInv)
  BY LoopInvariance, InitKInv, NextKInv, PTL DEF Spec
<1> QED BY <1>1, IdleKeptInv, PTL

-----------------------------------------------------------------------------
(* EventLoop implements Delivery, except for its fairness.                 *)

Ages(s) == [i \in DOMAIN s |-> s[i].age]

LEMMA SameSequence ==
  ASSUME NEW s \in Seq(Nat), NEW t \in Seq(Nat), Len(s) = Len(t),
         \A i \in 1..Len(s) : s[i] = t[i]
  PROVE  s = t
OBVIOUS

LEMMA AgesTyped ==
  ASSUME NEW s \in Seq(Events)
  PROVE  /\ Ages(s) \in Seq(Nat) /\ Len(Ages(s)) = Len(s)
         /\ \A i \in 1..Len(s) : Ages(s)[i] = s[i].age
<1>1. Len(s) \in Nat /\ DOMAIN s = 1..Len(s) /\ \A i \in 1..Len(s) : s[i] \in Events
  OBVIOUS
<1>2. Ages(s) = [i \in 1..Len(s) |-> s[i].age]
  BY <1>1 DEF Ages
<1>3. \A i \in 1..Len(s) : s[i].age \in Nat
  BY <1>1 DEF Events
<1>4. Ages(s) \in [1..Len(s) -> Nat]
  BY <1>2, <1>3
<1> QED BY <1>1, <1>2, <1>4

LEMMA AgesOfTail ==
  ASSUME NEW s \in Seq(Events), s # <<>>
  PROVE  Ages(s) # <<>> /\ Ages(Tail(s)) = Tail(Ages(s))
<1>1. Tail(s) \in Seq(Events) /\ Len(Tail(s)) = Len(s) - 1 /\ Len(s) > 0
  OBVIOUS
<1>2. \A i \in 1..(Len(s) - 1) : Tail(s)[i] = s[i + 1]
  OBVIOUS
<1>3. /\ Ages(s) \in Seq(Nat) /\ Len(Ages(s)) = Len(s)
      /\ \A i \in 1..Len(s) : Ages(s)[i] = s[i].age
  BY AgesTyped
<1>4. /\ Ages(Tail(s)) \in Seq(Nat) /\ Len(Ages(Tail(s))) = Len(s) - 1
      /\ \A i \in 1..(Len(s) - 1) : Ages(Tail(s))[i] = s[i + 1].age
  BY <1>1, <1>2, AgesTyped
<1>5. /\ Tail(Ages(s)) \in Seq(Nat) /\ Len(Tail(Ages(s))) = Len(s) - 1
      /\ \A i \in 1..(Len(s) - 1) : Tail(Ages(s))[i] = s[i + 1].age
  BY <1>1, <1>3
<1>6. Ages(s) # <<>>
  BY <1>1, <1>3
<1>7. \A i \in 1..(Len(s) - 1) : Ages(Tail(s))[i] = Tail(Ages(s))[i]
  BY <1>4, <1>5
<1>8. Ages(Tail(s)) = Tail(Ages(s))
  BY <1>4, <1>5, <1>7, SameSequence
<1> QED BY <1>6, <1>8

LEMMA AgesOfAppend ==
  ASSUME NEW s \in Seq(Events), NEW e \in Events
  PROVE  Ages(Append(s, e)) = Append(Ages(s), e.age)
<1>1. Append(s, e) \in Seq(Events) /\ Len(Append(s, e)) = Len(s) + 1
  OBVIOUS
<1>2. \A i \in 1..(Len(s) + 1) : Append(s, e)[i] = IF i <= Len(s) THEN s[i] ELSE e
  OBVIOUS
<1>3. /\ Ages(s) \in Seq(Nat) /\ Len(Ages(s)) = Len(s)
      /\ \A i \in 1..Len(s) : Ages(s)[i] = s[i].age
  BY AgesTyped
<1>4. e.age \in Nat
  BY DEF Events
<1>5. /\ Ages(Append(s, e)) \in Seq(Nat)
      /\ Len(Ages(Append(s, e))) = Len(s) + 1
      /\ \A i \in 1..(Len(s) + 1) :
           Ages(Append(s, e))[i] = IF i <= Len(s) THEN s[i].age ELSE e.age
  BY <1>1, <1>2, AgesTyped
<1>6. /\ Append(Ages(s), e.age) \in Seq(Nat)
      /\ Len(Append(Ages(s), e.age)) = Len(s) + 1
      /\ \A i \in 1..(Len(s) + 1) :
           Append(Ages(s), e.age)[i] = IF i <= Len(s) THEN s[i].age ELSE e.age
  BY <1>3, <1>4
<1> QED BY <1>5, <1>6

LEMMA AgesOfOlder ==
  ASSUME NEW s \in Seq(Events)
  PROVE  Ages(Older(s)) = [i \in DOMAIN Ages(s) |-> Ages(s)[i] + 1]
BY AgesTyped, OlderTyped DEF Ages

LEMMA HandledFirst ==
  ASSUME NEW s \in Seq(Events), NEW t \in Seq(Events), s # <<>>
  PROVE  /\ s \o t # <<>> /\ s \o t \in Seq(Events)
         /\ Tail(s) \o t = Tail(s \o t)
OBVIOUS

LEMMA ArrivedLast ==
  ASSUME NEW s \in Seq(Events), NEW t \in Seq(Events), NEW e \in Events
  PROVE  s \o Append(t, e) = Append(s \o t, e)
OBVIOUS

LEMMA NothingElse ==
  ASSUME NEW s \in Seq(Events)
  PROVE  s \o <<>> = s /\ <<>> \o s = s
OBVIOUS

LEMMA DeliverySteps == LInv /\ [Next]_vars => [D!Next]_(Ages(Waiting))
<1> SUFFICES ASSUME LInv, [Next]_vars PROVE [D!Next]_(Ages(Waiting))
  OBVIOUS
<1>0. queue \in Seq(Events) /\ socket \in Seq(Events)
  BY DEF LInv, TypeOK
<1>1. ASSUME Waiting' = Waiting
      PROVE  Ages(Waiting)' = Ages(Waiting)
  BY <1>1 DEF Ages
<1>2. CASE UNCHANGED vars \/ Select \/ Wake \/ Exit
  BY <1>1, <1>2 DEF vars, xlibVars, Select, Wake, Exit, Waiting
<1>3. CASE XPending
  <2>1. Waiting' = Waiting
    BY <1>0, <1>3, NothingElse DEF XPending, xlibVars, Waiting
  <2> QED BY <1>1, <2>1
<1>4. ASSUME NEW asks \in BOOLEAN, NEW draws \in BOOLEAN, Tick(asks, draws)
      PROVE  Ages(Waiting)' = Ages(Waiting)
  BY <1>1, <1>4, TickLInv DEF Waiting
<1>5. ASSUME NEW asks \in BOOLEAN, NEW draws \in BOOLEAN, NextEvent(asks, draws)
      PROVE  D!Handle
  <2>1. Waiting' = Tail(Waiting) /\ Waiting # <<>> /\ Waiting \in Seq(Events)
    BY <1>0, <1>5, NextEventLInv, HandledFirst DEF Waiting
  <2>2. Ages(Waiting) # <<>> /\ Ages(Waiting)' = Tail(Ages(Waiting))
    BY <2>1, AgesOfTail DEF Ages
  <2> QED BY <2>2 DEF D!Handle, Ages
<1>6. ASSUME NEW launches \in BOOLEAN, Arrive(launches)
      PROVE  D!Arrive
  <2> DEFINE e == [age |-> 0, launches |-> launches]
  <2>1. e \in Events /\ e.age = 0
    BY DEF Events
  <2>2. queue' = queue /\ socket' = Append(socket, e)
    BY <1>6 DEF Arrive
  <2> HIDE DEF e
  <2>3. Waiting' = Append(Waiting, e) /\ Waiting \in Seq(Events)
    BY <1>0, <2>1, <2>2, ArrivedLast DEF Waiting
  <2>4. Ages(Waiting') = Append(Ages(Waiting), 0)
    BY <2>1, <2>3, AgesOfAppend
  <2> QED BY <2>4 DEF D!Arrive, Ages
<1>7. CASE Pass
  <2>1. /\ socket = <<>> /\ socket' = <<>> /\ at = "asleep" /\ left > 0
        /\ queue' = Older(queue) /\ Older(queue) \in Seq(Events)
    BY <1>0, <1>7, OlderTyped DEF Pass
  <2>2. Waiting = queue /\ Waiting' = Older(queue)
    BY <1>0, <2>1, NothingElse DEF Waiting
  <2>3. \A i \in DOMAIN queue : queue[i].age < Timeout
    <3>1. \A i \in DOMAIN queue : queue[i].age \in Nat
      <4>1. \A i \in DOMAIN queue : queue[i] \in Events
        BY <1>0
      <4> QED BY <4>1 DEF Events
    <3> QED BY <2>1, <3>1, LoopAssumption DEF LInv, QueueWaits, TypeOK
  <2>4. /\ DOMAIN Ages(queue) = DOMAIN queue
        /\ \A i \in DOMAIN queue : Ages(queue)[i] = queue[i].age
    BY DEF Ages
  <2>5. Ages(Waiting') = [i \in DOMAIN Ages(Waiting) |-> Ages(Waiting)[i] + 1]
    BY <1>0, <2>2, AgesOfOlder
  <2>6. \A i \in DOMAIN Ages(Waiting) : Ages(Waiting)[i] < Timeout
    BY <2>2, <2>3, <2>4
  <2>7. D!Pass
    BY <2>5, <2>6 DEF D!Pass, Ages
  <2> QED BY <2>7 DEF D!Next
<1> QED
  BY <1>2, <1>3, <1>4, <1>5, <1>6, <1>7 DEF Next, Dock, D!Next

(* Events are handled in the order of their arrival, none after a longer   *)
(* wait than one timeout: the steps of Delivers, without its fairness.     *)
THEOREM EventsAreDelivered == Spec => D!Ordered
<1>1. Init => D!Init
  BY DEF Init, Waiting, D!Init
<1>2. LInv /\ [Next]_vars => [D!Next]_([i \in DOMAIN Waiting |-> Waiting[i].age])
  BY DeliverySteps DEF Ages
<1> QED BY <1>1, <1>2, LoopInvariance, PTL DEF Spec, D!Ordered

=============================================================================
