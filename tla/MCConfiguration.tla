--------------------------- MODULE MCConfiguration ---------------------------
(***************************************************************************)
(* What the user writes, from the command line and the configuration file  *)
(* to the titles of an icon, each of which is then compared with the title *)
(* of a window: instances of CommandLine and MatchesPattern for TLC.       *)
(***************************************************************************)
EXTENDS CommandLine

CONSTANTS
  Chars, Lower(_),   \* see MatchesPattern
  Compared,          \* the command lines whose titles are compared
  MaxOptions, MaxPattern, MaxTitle   \* bounds on lengths

VARIABLES call, pattern, literal, result

M == INSTANCE MatchesPattern

ASSUME PatternAssumption == M!CharsAssumption /\ MaxTitle \in Nat

callVars == <<call, pattern, literal, result>>

Strings(S, n) == UNION {[1..k -> S] : k \in 0..n}

MCChars == {"a", "A", "b"}
MCLower(c) == IF c = "A" THEN "a" ELSE c

MCNumerals == [n \in {"0", "3", "250"} |->
                 CASE n = "0" -> 0 [] n = "3" -> 3 [] n = "250" -> 250]

MCLoadable == {<<"icon">>}

(* Options, operands and records in any order.                             *)
MCArguments ==
  {<<"-v">>, <<"-c">>, <<"-p">>, <<"-m">>, <<"-l">>, <<"-i">>,
   <<"3", "/", "0">>, <<"3">>, <<"dots">>, <<"play">>, <<"close">>,
   <<"icon", ":", "xterm">>}

(* Records with all numbers of fields, whole and damaged.                  *)
MCRecords ==
  {<<>>, <<"icon">>, <<"broken", ":", "xterm">>,
   <<"icon", "#", ":", "xterm">>,
   <<"icon", ":", "xterm", ":", ";", ":", "lame">>,
   <<"icon", ":", "xterm", ":", "b", ";", ":", "250">>,
   <<"icon", ":", "xterm", ":", ":", "fast", ":", "fast">>}

(* An icon with a title to be compared, with and without -c.               *)
Titled ==
  {sensitive \o << <<"icon", ":", "xterm", ":">> \o p >> :
     sensitive \in {<<>>, << <<"-c">> >>},
     p \in Strings(Chars \cup {"*", "?"}, MaxPattern)}

MCCommandLines ==
  Strings(MCArguments, MaxOptions) \cup Strings(MCRecords, 2) \cup Titled

MCFiles == {NoFile} \cup Strings(MCRecords, 2)

MCInit == Init /\ (args # <<>> => file = NoFile) /\ M!Init

(* A slot looks for the window of one of its titles.                       *)
Compare ==
  /\ at = "run" /\ result = "none" /\ args \in Compared
  /\ \E s \in Range(slots), t \in Strings(Chars, MaxTitle) :
       \E p \in Range(s.titles) : M!Call(p, t, settings.casesensitive)
  /\ UNCHANGED commandVars

MCNext ==
  \/ Next /\ UNCHANGED callVars
  \/ Compare
  \/ M!Next /\ UNCHANGED commandVars

MCSpec == MCInit /\ [][MCNext]_<<commandVars, callVars>>

(* matchesPattern accepts no title that its pattern does not mean, and     *)
(* rejects none that it means, if there is but one stretch of literal      *)
(* characters behind its first star; a ? behind a star counts for nothing. *)
DecidesRight == M!DecidesRight

=============================================================================
