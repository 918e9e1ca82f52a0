---------------------------- MODULE RemoteControl ----------------------------
(***************************************************************************)
(* How `bbdock -x' and `bbdock -i' reach the running dock.  Dock::send     *)
(* puts the request into a property of the dock's window, one property for *)
(* each kind of message and replacing what it holds, and then sends a      *)
(* ClientMessage event.  Dock::client reads the property when the event    *)
(* comes up, carries the request out and deletes the property.             *)
(*                                                                         *)
(* Every request to the X server is a step of its own: the server serves   *)
(* the connections of the clients and of the dock in any order.            *)
(***************************************************************************)
EXTENDS Naturals, Sequences

CONSTANTS
  Clients,   \* the invocations of `bbdock -x' or `bbdock -i'
  Message,   \* [Clients -> Messages], the message each of them sends
  None       \* no request

Messages == {"ExecuteIcon", "ChangeIcon"}

(* A request is known by the client that has sent it.                      *)
ASSUME RemoteAssumption ==
  /\ Message \in [Clients -> Messages]
  /\ None \notin Clients

VARIABLES
  client,     \* [Clients -> how far Dock::send has come]
  property,   \* [Messages -> request in the property, None if it is deleted]
  queue,      \* the ClientMessage events on their way to the dock
  dock,       \* what the dock is doing: see DockState
  performed   \* [Clients -> how often the request was carried out]

vars == <<client, property, queue, dock, performed>>

(* The dock waits for an event, has read the property (prop is None if it  *)
(* did not exist), has handled the request, or has crashed or exited.      *)
DockState ==
  [at : {"waiting", "ended"}]
    \cup [at : {"read"}, msg : Messages, prop : Clients \cup {None}]
    \cup [at : {"handled"}, msg : Messages]

TypeOK ==
  /\ client \in [Clients -> {"starting", "written", "done"}]
  /\ property \in [Messages -> Clients \cup {None}]
  /\ queue \in Seq(Messages)
  /\ dock \in DockState
  /\ performed \in [Clients -> Nat]

Init ==
  /\ client = [c \in Clients |-> "starting"]
  /\ property = [m \in Messages |-> None]
  /\ queue = <<>>
  /\ dock = [at |-> "waiting"]
  /\ performed = [c \in Clients |-> 0]

-----------------------------------------------------------------------------
(* Dock::send                                                              *)

(* The dock's window is there to be found as long as the dock has not      *)
(* ended: XChangeProperty with PropModeReplace.                            *)
ChangeProperty(c) ==
  /\ client[c] = "starting"
  /\ dock.at # "ended"
  /\ client' = [client EXCEPT ![c] = "written"]
  /\ property' = [property EXCEPT ![Message[c]] = c]
  /\ UNCHANGED <<queue, dock, performed>>

SendEvent(c) ==
  /\ client[c] = "written"
  /\ dock.at # "ended"
  /\ client' = [client EXCEPT ![c] = "done"]
  /\ queue' = Append(queue, Message[c])
  /\ UNCHANGED <<property, dock, performed>>

(* Without a window of bbdock Dock::send returns and nobody is told.       *)
FindNoDock(c) ==
  /\ client[c] # "done"
  /\ dock.at = "ended"
  /\ client' = [client EXCEPT ![c] = "done"]
  /\ UNCHANGED <<property, queue, dock, performed>>

-----------------------------------------------------------------------------
(* Dock::client                                                            *)

(* FAULT: the kind of the message is not looked at.                        *)
GetAnyProperty ==
  /\ dock.at = "waiting"
  /\ queue # <<>>
  /\ queue' = Tail(queue)
  /\ \E m \in Messages :
       dock' = [at |-> "read", msg |-> Head(queue), prop |-> property[m]]
  /\ UNCHANGED <<client, property, performed>>

(* FAULT: the events behind the first are thrown away.                     *)
GetPropertyDiscarding ==
  /\ dock.at = "waiting"
  /\ queue # <<>>
  /\ queue' = <<>>
  /\ dock' = [at |-> "read", msg |-> Head(queue), prop |-> property[Head(queue)]]
  /\ UNCHANGED <<client, property, performed>>

GetProperty ==
  /\ dock.at = "waiting"
  /\ queue # <<>>
  /\ queue' = Tail(queue)
  /\ dock' = [at |-> "read", msg |-> Head(queue), prop |-> property[Head(queue)]]
  /\ UNCHANGED <<client, property, performed>>

(* The slot with the command is looked up, executed or given its icon: the *)
(* exception of a failing fork or of an unusable image ends the dock.      *)
Perform ==
  /\ dock.at = "read"
  /\ dock.prop # None
  /\ performed' = [performed EXCEPT ![dock.prop] = @ + 1]
  /\ dock' \in {[at |-> "handled", msg |-> dock.msg], [at |-> "ended"]}
  /\ UNCHANGED <<client, property, queue>>

(* A property that does not exist is a null pointer.  strcasecmp crashes   *)
(* on it.  strtok takes it for a request to go on with its last string,    *)
(* which has been freed: it crashes, or it finds nothing there.            *)
PerformNothing ==
  /\ dock.at = "read"
  /\ dock.prop = None
  /\ \/ dock' = [at |-> "ended"]
     \/ /\ dock.msg = "ChangeIcon"
        /\ dock' = [at |-> "handled", msg |-> dock.msg]
  /\ UNCHANGED <<client, property, queue, performed>>

(* FAULT: the property is kept.                                            *)
KeepProperty ==
  /\ dock.at = "handled"
  /\ dock' = [at |-> "waiting"]
  /\ UNCHANGED <<client, property, queue, performed>>

(* FAULT: the properties of all messages are deleted.                      *)
DeleteAllProperties ==
  /\ dock.at = "handled"
  /\ property' = [m \in Messages |-> None]
  /\ dock' = [at |-> "waiting"]
  /\ UNCHANGED <<client, queue, performed>>

DeleteProperty ==
  /\ dock.at = "handled"
  /\ property' = [property EXCEPT ![dock.msg] = None]
  /\ dock' = [at |-> "waiting"]
  /\ UNCHANGED <<client, queue, performed>>

-----------------------------------------------------------------------------

Send(c) == ChangeProperty(c) \/ SendEvent(c) \/ FindNoDock(c)

Client == GetProperty \/ Perform \/ PerformNothing \/ DeleteProperty

Next == Client \/ \E c \in Clients : Send(c)

Spec == Init /\ [][Next]_vars

(* The clients and the dock are processes that are scheduled.              *)
FairSpec ==
  /\ Spec
  /\ WF_vars(Client)
  /\ \A c \in Clients : WF_vars(Send(c))

-----------------------------------------------------------------------------
(* Properties                                                              *)

(* No request is carried out twice, however the steps of the clients and   *)
(* of the dock interleave: an event never finds a property that was read   *)
(* before.                                                                 *)
AtMostOnce == \A c \in Clients : performed[c] <= 1

(* What is carried out was asked for, through the message it was asked by. *)
OnlyRequests ==
  /\ \A c \in Clients : performed[c] > 0 => client[c] # "starting"
  /\ dock.at = "read" /\ dock.prop # None => Message[dock.prop] = dock.msg

(* A request whose event is on its way, or that the dock is working on, is *)
(* never without the property it is to be read from, unless another        *)
(* request of the same kind is around.                                     *)
Unrivalled(c) == \A d \in Clients \ {c} : Message[d] # Message[c]

Waiting(c) ==
  /\ client[c] = "done"
  /\ performed[c] = 0
  /\ dock.at # "ended"

RequestKept ==
  \A c \in Clients :
    Unrivalled(c) /\ Waiting(c) =>
      \/ property[Message[c]] = c
      \/ dock.at = "read" /\ dock.prop = c

(* No request is left behind: as long as one that was sent is in its       *)
(* property, an event is on its way or the dock is at work that will look  *)
(* at it, or delete it for the sake of a rival.                            *)
NoneStranded ==
  \A c \in Clients :
    property[Message[c]] = c /\ client[c] = "done" /\ dock.at # "ended" =>
      \/ \E i \in DOMAIN queue : queue[i] = Message[c]
      \/ dock.at \in {"read", "handled"} /\ dock.msg = Message[c]

(* A request that has no rival is carried out, unless the dock ends over   *)
(* the others: Dock::client does not delete what it has not read.          *)
LoneRequestServed ==
  \A c \in Clients :
    Unrivalled(c) => <>(performed[c] > 0 \/ dock.at = "ended")

(* Every request is carried out.                                           *)
EveryRequestServed == \A c \in Clients : <>(performed[c] > 0)

=============================================================================
