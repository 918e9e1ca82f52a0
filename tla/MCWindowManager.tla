--------------------------- MODULE MCWindowManager ---------------------------
(***************************************************************************)
(* Instances of WindowManager for TLC.                                     *)
(***************************************************************************)
EXTENDS WindowManager

CONSTANTS a, b

(* An icon with two titles, and a window title neither of them matches.    *)
MCTitles == {"editor", "mail", "other"}
MCPatterns == <<"editor", "mail">>
MCMatches(t, p) == t = p

(* Everything may happen; a window keeps its title and its id; windows stay*)
(* while the slot deals with them.                                         *)
MCWorlds ==
  {[retitle |-> TRUE, reuse |-> TRUE, vanish |-> TRUE],
   [retitle |-> FALSE, reuse |-> FALSE, vanish |-> TRUE],
   [retitle |-> TRUE, reuse |-> TRUE, vanish |-> FALSE]}

=============================================================================
