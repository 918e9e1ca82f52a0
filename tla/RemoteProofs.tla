---------------------------- MODULE RemoteProofs ----------------------------
(***************************************************************************)
(* Proofs about RemoteControl, for any set of clients.                     *)
(***************************************************************************)
EXTENDS RemoteControl, TLAPS

(* A property holds a request that was made by that message, and one that  *)
(* has been carried out only as long as the dock has yet to delete it.     *)
PropertiesFresh ==
  \A m \in Messages : \A c \in Clients :
    property[m] = c =>
      /\ Message[c] = m
      /\ client[c] # "starting"
      /\ performed[c] = 0 \/ dock.at = "ended"
           \/ (dock.at = "handled" /\ dock.msg = m)

(* What the dock has read has not been carried out yet.                    *)
ReadFresh ==
  dock.at = "read" /\ dock.prop # None =>
    /\ Message[dock.prop] = dock.msg
    /\ client[dock.prop] # "starting"
    /\ performed[dock.prop] = 0

OnceMade ==
  \A c \in Clients :
    performed[c] <= 1 /\ (performed[c] > 0 => client[c] # "starting")

RInv == TypeOK /\ PropertiesFresh /\ ReadFresh /\ OnceMade

LEMMA InitRInv == Init => RInv
BY RemoteAssumption
   DEF Init, RInv, TypeOK, PropertiesFresh, ReadFresh, OnceMade, DockState

LEMMA NextRInv == RInv /\ [Next]_vars => RInv'
<1> SUFFICES ASSUME RInv, [Next]_vars PROVE RInv'
  OBVIOUS
<1> USE RemoteAssumption DEF RInv
<1>1. ASSUME NEW c \in Clients, ChangeProperty(c)
      PROVE  RInv'
  <2>1. TypeOK'
    BY <1>1 DEF TypeOK, ChangeProperty
  <2>2. PropertiesFresh'
    BY <1>1 DEF TypeOK, ChangeProperty, PropertiesFresh, OnceMade
  <2>3. ReadFresh'
    BY <1>1 DEF TypeOK, ChangeProperty, ReadFresh, DockState
  <2>4. OnceMade'
    BY <1>1 DEF TypeOK, ChangeProperty, OnceMade
  <2> QED BY <2>1, <2>2, <2>3, <2>4
<1>2. ASSUME NEW c \in Clients, SendEvent(c) \/ FindNoDock(c)
      PROVE  RInv'
  <2>1. TypeOK'
    <3>1. Append(queue, Message[c]) \in Seq(Messages)
      BY DEF TypeOK
    <3> QED BY <1>2, <3>1 DEF TypeOK, SendEvent, FindNoDock
  <2>2. PropertiesFresh'
    BY <1>2 DEF TypeOK, SendEvent, FindNoDock, PropertiesFresh
  <2>3. ReadFresh'
    BY <1>2 DEF TypeOK, SendEvent, FindNoDock, ReadFresh, DockState
  <2>4. OnceMade'
    BY <1>2 DEF TypeOK, SendEvent, FindNoDock, OnceMade
  <2> QED BY <2>1, <2>2, <2>3, <2>4
<1>3. CASE GetProperty
  <2>1. Head(queue) \in Messages /\ Tail(queue) \in Seq(Messages)
    BY <1>3 DEF GetProperty, TypeOK
  <2>2. dock' \in DockState
    BY <1>3, <2>1 DEF GetProperty, TypeOK, DockState
  <2>3. TypeOK'
    BY <1>3, <2>1, <2>2 DEF GetProperty, TypeOK
  <2>4. PropertiesFresh'
    BY <1>3 DEF GetProperty, PropertiesFresh
  <2>5. ReadFresh'
    BY <1>3, <2>1 DEF GetProperty, TypeOK, ReadFresh, PropertiesFresh
  <2>6. OnceMade'
    BY <1>3 DEF GetProperty, OnceMade
  <2> QED BY <2>3, <2>4, <2>5, <2>6
<1>4. CASE Perform
  <2>1. dock.prop \in Clients /\ dock.msg \in Messages
    BY <1>4 DEF Perform, TypeOK, DockState
  <2>2. dock' \in DockState
    BY <1>4, <2>1 DEF Perform, DockState
  <2>3. TypeOK'
    BY <1>4, <2>1, <2>2 DEF Perform, TypeOK
  <2>4. PropertiesFresh'
    BY <1>4, <2>1 DEF Perform, TypeOK, PropertiesFresh, ReadFresh
  <2>5. ReadFresh'
    BY <1>4 DEF Perform, ReadFresh
  <2>6. OnceMade'
    BY <1>4, <2>1 DEF Perform, TypeOK, OnceMade, ReadFresh
  <2> QED BY <2>3, <2>4, <2>5, <2>6
<1>5. CASE PerformNothing
  <2>1. dock.msg \in Messages
    BY <1>5 DEF PerformNothing, TypeOK, DockState
  <2>2. dock' \in DockState
    BY <1>5, <2>1 DEF PerformNothing, DockState
  <2>3. TypeOK'
    BY <1>5, <2>2 DEF PerformNothing, TypeOK
  <2>4. PropertiesFresh' /\ ReadFresh' /\ OnceMade'
    BY <1>5 DEF PerformNothing, PropertiesFresh, ReadFresh, OnceMade
  <2> QED BY <2>3, <2>4
<1>6. CASE DeleteProperty
  <2>1. dock.msg \in Messages
    BY <1>6 DEF DeleteProperty, TypeOK, DockState
  <2>2. TypeOK'
    BY <1>6, <2>1 DEF DeleteProperty, TypeOK, DockState
  <2>3. PropertiesFresh'
    BY <1>6, <2>1 DEF DeleteProperty, TypeOK, PropertiesFresh
  <2>4. ReadFresh' /\ OnceMade'
    BY <1>6 DEF DeleteProperty, ReadFresh, OnceMade
  <2> QED BY <2>2, <2>3, <2>4
<1>7. CASE UNCHANGED vars
  BY <1>7 DEF vars, TypeOK, PropertiesFresh, ReadFresh, OnceMade
<1> QED
  BY <1>1, <1>2, <1>3, <1>4, <1>5, <1>6, <1>7 DEF Next, Client, Send

(* A request that was carried out can only still be in the property the    *)
(* dock is about to delete.                                                *)
THEOREM RemoteInvariance == Spec => []RInv
BY InitRInv, NextRInv, PTL DEF Spec

(* No request is carried out twice.                                        *)
THEOREM RequestsAtMostOnce == Spec => []AtMostOnce
<1>1. RInv => AtMostOnce
  BY DEF RInv, OnceMade, AtMostOnce
<1> QED BY <1>1, RemoteInvariance, PTL

(* Nothing is carried out that was not asked for.                          *)
THEOREM OnlyWhatWasAsked == Spec => []OnlyRequests
<1>1. RInv => OnlyRequests
  BY DEF RInv, OnceMade, ReadFresh, OnlyRequests
<1> QED BY <1>1, RemoteInvariance, PTL

-----------------------------------------------------------------------------
(* RequestKept                                                             *)

Busy(m) == dock.at \in {"read", "handled"} /\ dock.msg = m

Queued(m) == \E i \in DOMAIN queue : queue[i] = m

(* What there is of a kind of message only one client sends: no trace of   *)
(* it before its event, then the event once, and then the dock, which      *)
(* finds the property as c has written it.                                 *)
Followed(c) ==
  LET m == Message[c] IN
  /\ client[c] # "done" => ~Queued(m) /\ ~Busy(m)
  /\ client[c] = "written" /\ dock.at # "ended" => property[m] = c
  /\ \A i, j \in DOMAIN queue : queue[i] = m /\ queue[j] = m => i = j
  /\ Queued(m) /\ dock.at # "ended" => property[m] = c /\ ~Busy(m)
  /\ dock.at = "read" /\ dock.msg = m => dock.prop = c
  /\ dock.at = "handled" /\ dock.msg = m => performed[c] > 0
  /\ Waiting(c) => Queued(m) \/ Busy(m)

LoneFollowed == \A c \in Clients : Unrivalled(c) => Followed(c)

LEMMA AppendedQueue ==
  ASSUME NEW q \in Seq(Messages), NEW e \in Messages
  PROVE  /\ DOMAIN Append(q, e) = 1..(Len(q) + 1) /\ DOMAIN q = 1..Len(q)
         /\ Len(q) \in Nat /\ Append(q, e)[Len(q) + 1] = e
         /\ \A i \in 1..Len(q) : Append(q, e)[i] = q[i]
OBVIOUS

LEMMA ShortenedQueue ==
  ASSUME NEW q \in Seq(Messages), q # <<>>
  PROVE  /\ DOMAIN Tail(q) = 1..(Len(q) - 1) /\ DOMAIN q = 1..Len(q)
         /\ Len(q) \in Nat \ {0} /\ Head(q) = q[1]
         /\ \A i \in 1..(Len(q) - 1) : Tail(q)[i] = q[i + 1]
OBVIOUS

(* The steps of one client, of which c is the same or has another message. *)
LEMMA SendFollowed ==
  ASSUME RInv, NEW c \in Clients, Unrivalled(c), Followed(c),
         NEW d \in Clients, Send(d)
  PROVE  Followed(c)'
<1> DEFINE m == Message[c]
<1> USE RemoteAssumption
<1>1. m \in Messages /\ (d # c => Message[d] # m)
  BY DEF Unrivalled
<1>2. CASE ChangeProperty(d)
  <2>1. /\ client[d] = "starting" /\ dock.at # "ended"
        /\ client' = [client EXCEPT ![d] = "written"]
        /\ property' = [property EXCEPT ![Message[d]] = d]
        /\ UNCHANGED <<queue, dock, performed>>
    BY <1>2 DEF ChangeProperty
  <2>2. CASE d = c
    <3>1. ~Queued(m) /\ ~Busy(m)
      BY <2>1, <2>2 DEF Followed
    <3>2. client'[c] = "written" /\ property'[m] = c
      BY <1>1, <2>1, <2>2 DEF RInv, TypeOK
    <3> QED BY <2>1, <3>1, <3>2 DEF Followed, Queued, Busy, Waiting
  <2>3. CASE d # c
    <3>1. client'[c] = client[c] /\ property'[m] = property[m]
      BY <1>1, <2>1, <2>3 DEF RInv, TypeOK
    <3> QED BY <2>1, <3>1 DEF Followed, Queued, Busy, Waiting
  <2> QED BY <2>2, <2>3
<1>3. CASE SendEvent(d)
  <2>1. /\ client[d] = "written" /\ dock.at # "ended"
        /\ client' = [client EXCEPT ![d] = "done"]
        /\ queue' = Append(queue, Message[d])
        /\ UNCHANGED <<property, dock, performed>>
    BY <1>3 DEF SendEvent
  <2>2. queue \in Seq(Messages) /\ Message[d] \in Messages
    BY DEF RInv, TypeOK
  <2>3. CASE d = c
    <3>1. ~Queued(m) /\ ~Busy(m) /\ property[m] = c
      BY <2>1, <2>3 DEF Followed
    <3>2. client'[c] = "done"
      BY <2>1, <2>3 DEF RInv, TypeOK
    <3>3. Queued(m)'
      BY <2>1, <2>2, <2>3, AppendedQueue DEF Queued
    <3>4. \A i, j \in DOMAIN queue' : queue'[i] = m /\ queue'[j] = m => i = j
      BY <2>1, <2>2, <2>3, <3>1, AppendedQueue DEF Queued
    <3> QED BY <2>1, <3>1, <3>2, <3>3, <3>4 DEF Followed, Busy, Waiting
  <2>4. CASE d # c
    <3>1. client'[c] = client[c]
      BY <2>1, <2>4 DEF RInv, TypeOK
    <3>2. Message[d] # m
      BY <1>1, <2>4
    <3>3. Queued(m)' <=> Queued(m)
      BY <2>1, <2>2, <3>2, AppendedQueue DEF Queued
    <3>4. \A i, j \in DOMAIN queue' : queue'[i] = m /\ queue'[j] = m => i = j
      BY <2>1, <2>2, <3>2, AppendedQueue DEF Followed
    <3> QED BY <2>1, <3>1, <3>3, <3>4 DEF Followed, Busy, Waiting
  <2> QED BY <2>3, <2>4
<1>4. CASE FindNoDock(d)
  BY <1>4 DEF FindNoDock, Followed, Queued, Busy, Waiting, RInv, TypeOK
<1> QED BY <1>2, <1>3, <1>4 DEF Send

(* The steps of the dock.                                                  *)
LEMMA ClientFollowed ==
  ASSUME RInv, NEW c \in Clients, Unrivalled(c), Followed(c), Client
  PROVE  Followed(c)'
<1> DEFINE m == Message[c]
<1> USE RemoteAssumption
<1>1. m \in Messages
  OBVIOUS
<1>2. CASE GetProperty
  <2>1. /\ dock.at = "waiting" /\ queue # <<>> /\ queue' = Tail(queue)
        /\ dock' = [at |-> "read", msg |-> Head(queue),
                    prop |-> property[Head(queue)]]
        /\ UNCHANGED <<client, property, performed>>
    BY <1>2 DEF GetProperty
  <2>2. queue \in Seq(Messages)
    BY DEF RInv, TypeOK
  <2>3. \A i, j \in DOMAIN queue' : queue'[i] = m /\ queue'[j] = m => i = j
    BY <2>1, <2>2, ShortenedQueue DEF Followed
  <2>4. CASE Head(queue) = m
    <3>1. Queued(m) /\ property[m] = c /\ client[c] = "done"
      <4>1. Queued(m)
        BY <2>1, <2>2, <2>4, ShortenedQueue DEF Queued
      <4> QED BY <2>1, <4>1 DEF Followed, RInv, TypeOK
    <3>2. ~Queued(m)'
      BY <2>1, <2>2, <2>4, ShortenedQueue DEF Followed, Queued
    <3>3. Busy(m)' /\ dock'.prop = c /\ dock'.at = "read"
      BY <2>1, <2>4, <3>1 DEF Busy
    <3> QED BY <2>1, <2>3, <3>1, <3>2, <3>3 DEF Followed, Waiting
  <2>5. CASE Head(queue) # m
    <3>1. Queued(m)' <=> Queued(m)
      <4>1. ASSUME NEW i \in 1..Len(queue), queue[i] = m
            PROVE  i - 1 \in DOMAIN queue' /\ queue'[i - 1] = m
        BY <2>1, <2>2, <2>5, <4>1, ShortenedQueue
      <4>2. ASSUME NEW i \in DOMAIN queue', queue'[i] = m
            PROVE  i + 1 \in DOMAIN queue /\ queue[i + 1] = m
        BY <2>1, <2>2, <4>2, ShortenedQueue
      <4>3. DOMAIN queue = 1..Len(queue)
        BY <2>2
      <4> QED BY <4>1, <4>2, <4>3 DEF Queued
    <3>2. ~Busy(m)' /\ ~Busy(m) /\ dock'.msg # m /\ dock'.at = "read"
      BY <2>1, <2>5 DEF Busy
    <3> QED BY <2>1, <2>3, <3>1, <3>2 DEF Followed, Waiting
  <2> QED BY <2>4, <2>5
<1>3. CASE Perform
  <2>1. /\ dock.at = "read" /\ dock.prop \in Clients
        /\ performed' = [performed EXCEPT ![dock.prop] = @ + 1]
        /\ \/ dock' = [at |-> "handled", msg |-> dock.msg]
           \/ dock' = [at |-> "ended"]
        /\ UNCHANGED <<client, property, queue>>
    BY <1>3 DEF Perform, RInv, TypeOK, DockState
  <2>2. performed'[c] >= performed[c] /\ performed[c] \in Nat
        /\ performed'[c] \in Nat /\ (dock.prop = c => performed'[c] > 0)
    BY <2>1 DEF RInv, TypeOK
  <2> QED BY <2>1, <2>2 DEF Followed, Queued, Busy, Waiting
<1>4. CASE PerformNothing
  <2>1. /\ dock.at = "read" /\ dock.prop = None
        /\ \/ dock' = [at |-> "handled", msg |-> dock.msg]
           \/ dock' = [at |-> "ended"]
        /\ UNCHANGED <<client, property, queue, performed>>
    BY <1>4 DEF PerformNothing
  <2>2. dock.msg # m
    BY <2>1 DEF Followed
  <2> QED BY <2>1, <2>2 DEF Followed, Queued, Busy, Waiting
<1>5. CASE DeleteProperty
  <2>1. /\ dock.at = "handled" /\ dock.msg \in Messages
        /\ property' = [property EXCEPT ![dock.msg] = None]
        /\ dock' = [at |-> "waiting"]
        /\ UNCHANGED <<client, queue, performed>>
    BY <1>5 DEF DeleteProperty, RInv, TypeOK, DockState
  <2>2. dock.msg # m => property'[m] = property[m]
    BY <1>1, <2>1 DEF RInv, TypeOK
  <2> QED BY <2>1, <2>2 DEF Followed, Queued, Busy, Waiting, RInv, TypeOK
<1> QED BY <1>2, <1>3, <1>4, <1>5 DEF Client

LEMMA InitFollowed == Init => LoneFollowed
BY RemoteAssumption
   DEF Init, LoneFollowed, Followed, Queued, Busy, Waiting

LEMMA NextFollowed == RInv /\ LoneFollowed /\ [Next]_vars => LoneFollowed'
<1> SUFFICES ASSUME RInv, LoneFollowed, [Next]_vars,
                    NEW c \in Clients, Unrivalled(c)
             PROVE  Followed(c)'
  BY DEF LoneFollowed, Unrivalled
<1>1. Followed(c)
  BY DEF LoneFollowed
<1>2. CASE UNCHANGED vars
  BY <1>1, <1>2 DEF vars, Followed, Queued, Busy, Waiting
<1> QED BY <1>1, <1>2, SendFollowed, ClientFollowed DEF Next

LEMMA InitStranded == Init => NoneStranded
BY RemoteAssumption DEF Init, NoneStranded

LEMMA NextStranded == RInv /\ NoneStranded /\ [Next]_vars => NoneStranded'
<1> USE RemoteAssumption
<1> SUFFICES ASSUME RInv, NoneStranded, [Next]_vars, NEW c \in Clients,
                    NEW m \in Messages, m = Message[c],
                    property'[m] = c, client'[c] = "done", dock'.at # "ended"
             PROVE  Queued(m)' \/ Busy(m)'
  BY DEF NoneStranded, Queued, Busy
<1>0. /\ TypeOK
      /\ property[m] = c /\ client[c] = "done" /\ dock.at # "ended"
           => Queued(m) \/ Busy(m)
  BY DEF RInv, NoneStranded, Queued, Busy
<1>1. ASSUME NEW d \in Clients, ChangeProperty(d) PROVE Queued(m)' \/ Busy(m)'
  <2>1. d # c
    BY <1>1 DEF ChangeProperty, RInv, TypeOK
  <2>2. property[m] = c /\ client[c] = "done"
    BY <1>0, <1>1, <2>1 DEF ChangeProperty, TypeOK
  <2> QED BY <1>0, <1>1, <2>2 DEF ChangeProperty, Queued, Busy
<1>2. ASSUME NEW d \in Clients, SendEvent(d) PROVE Queued(m)' \/ Busy(m)'
  <2>1. /\ queue \in Seq(Messages) /\ Message[d] \in Messages
        /\ queue' = Append(queue, Message[d])
        /\ UNCHANGED <<property, dock, performed>>
    BY <1>0, <1>2 DEF SendEvent, TypeOK
  <2>2. Queued(m) \/ d = c => Queued(m)'
    BY <2>1, AppendedQueue DEF Queued
  <2>3. d # c => client[c] = "done"
    BY <1>0, <1>2 DEF SendEvent, TypeOK
  <2> QED BY <1>0, <2>1, <2>2, <2>3 DEF Busy
<1>3. ASSUME NEW d \in Clients, FindNoDock(d) PROVE Queued(m)' \/ Busy(m)'
  BY <1>3 DEF FindNoDock
<1>4. CASE GetProperty
  <2>1. /\ queue \in Seq(Messages) /\ queue # <<>> /\ queue' = Tail(queue)
        /\ dock.at = "waiting"
        /\ dock' = [at |-> "read", msg |-> Head(queue), prop |-> property[Head(queue)]]
        /\ UNCHANGED <<client, property>>
    BY <1>0, <1>4 DEF GetProperty, TypeOK
  <2>2. Queued(m)
    BY <1>0, <2>1 DEF Busy
  <2>3. PICK i \in 1..Len(queue) : queue[i] = m
    BY <2>1, <2>2 DEF Queued
  <2>4. CASE i = 1
    <3>1. dock'.at = "read" /\ dock'.msg = m
      BY <2>1, <2>3, <2>4, ShortenedQueue
    <3> QED BY <3>1 DEF Busy
  <2>5. CASE i # 1
    <3>1. PICK j \in 1..(Len(queue) - 1) : i = j + 1
      <4>1. i - 1 \in 1..(Len(queue) - 1) /\ i = (i - 1) + 1
        BY <2>1, <2>3, <2>5
      <4> QED BY <4>1
    <3>2. j \in DOMAIN queue' /\ queue'[j] = m
      BY <2>1, <2>3, <3>1, ShortenedQueue
    <3> QED BY <3>2 DEF Queued
  <2> QED BY <2>4, <2>5
<1>5. CASE Perform \/ PerformNothing
  <2>1. /\ dock.at = "read" /\ dock' = [at |-> "handled", msg |-> dock.msg]
        /\ UNCHANGED <<client, property, queue>>
    BY <1>5 DEF Perform, PerformNothing
  <2> QED BY <1>0, <2>1 DEF Queued, Busy
<1>6. CASE DeleteProperty
  <2>1. /\ dock.at = "handled" /\ dock.msg \in Messages
        /\ property' = [property EXCEPT ![dock.msg] = None]
        /\ UNCHANGED <<client, queue>>
    BY <1>0, <1>6 DEF DeleteProperty, TypeOK, DockState
  <2>2. dock.msg # m
    BY <1>0, <2>1 DEF TypeOK
  <2>3. property[m] = c
    BY <1>0, <2>1, <2>2 DEF TypeOK
  <2> QED BY <1>0, <2>1, <2>2, <2>3 DEF Queued, Busy
<1>7. CASE UNCHANGED vars
  BY <1>0, <1>7 DEF vars, Queued, Busy
<1> QED
  BY <1>1, <1>2, <1>3, <1>4, <1>5, <1>6, <1>7 DEF Next, Client, Send

(* A request that was sent and is still in its property will be looked at: *)
(* its event, or another of its kind, is on its way or being handled.      *)
THEOREM NoRequestStranded == Spec => []NoneStranded
BY InitStranded, NextStranded, RemoteInvariance, PTL DEF Spec

(* Whatever other clients do through the other property, a request that is *)
(* on its way has its property until Dock::client has read it.             *)
THEOREM RequestsAreKept == Spec => []RequestKept
<1>1. RInv /\ LoneFollowed => RequestKept
  BY DEF RInv, TypeOK, LoneFollowed, Followed, Busy, RequestKept, Waiting, DockState
<1> QED BY <1>1, InitFollowed, NextFollowed, RemoteInvariance, PTL DEF Spec

=============================================================================
