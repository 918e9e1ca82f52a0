--------------------------- MODULE MCRemoteControl ---------------------------
(***************************************************************************)
(* Instances of RemoteControl for TLC.                                     *)
(***************************************************************************)
EXTENDS RemoteControl, TLC

CONSTANTS x1, x2, x3, i1

(* Three rivals for one property, and a request that is alone with its own.*)
MCMessage == x1 :> "ExecuteIcon" @@ x2 :> "ExecuteIcon" @@
             x3 :> "ExecuteIcon" @@ i1 :> "ChangeIcon"
RivalMessage == x1 :> "ExecuteIcon" @@ x2 :> "ExecuteIcon"

=============================================================================
