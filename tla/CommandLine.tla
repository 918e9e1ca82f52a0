----------------------------- MODULE CommandLine -----------------------------
(***************************************************************************)
(* main: the loop over the options, which counts argc down and moves argv  *)
(* on, each on its own and once more for an operand; and the icons of the  *)
(* records that follow, or of the configuration file.                      *)
(*                                                                         *)
(* Arguments and lines are strings in the sense of Strings.  argv is the   *)
(* index of the argument it points to, 0 is the program's name.            *)
(***************************************************************************)
EXTENDS Strings

CONSTANTS
  CommandLines,  \* sequences of arguments
  Files,         \* sequences of lines, or NoFile
  NoFile,
  Loadable,      \* the images that can be loaded
  Numerals       \* words that are numbers: [numeral -> value]

(* All arguments, and what may become a record: one of them or a line.     *)
Arguments == UNION {Range(c) : c \in CommandLines}
Lines == Arguments \cup UNION {Range(f) : f \in Files \ {NoFile}}

ASSUME CommandLineAssumption ==
  /\ CommandLines \subseteq Seq(Arguments)
  /\ Files \ {NoFile} \subseteq Seq(Lines)
  /\ \A l \in Lines : l \in Seq(Range(l))
  /\ \A n \in DOMAIN Numerals : Numerals[n] \in Int

Options == {"-h", "-v", "-d", "-m", "-p", "-r", "-l", "-c", "-i", "-x"}
WithOperand == {"-d", "-m", "-p", "-r", "-l", "-i", "-x"}
ClickActions == {"nothing", "iconify", "lower", "close"}
MarkTypes == {"play", "dots", "corner", "cross"}

IsOption(a) == a # <<>> /\ Head(a) \in Options

Atoi(s) ==
  IF s # <<>> /\ Head(s) \in DOMAIN Numerals THEN Numerals[Head(s)] ELSE 0

VARIABLES
  args,      \* the command line
  file,      \* the configuration file
  argc, argv,
  settings,
  at,        \* "options", "fork", "icons", "run", or how the program ends:
             \* "exit", "sent" (a message to another dock), "crashed"
  lines,     \* the records to be added
  slots      \* the icons of Dock::first and the slots chained to it

commandVars == <<args, file, argc, argv, settings, at, lines, slots>>

Defaults ==
  [width |-> 64, height |-> 64, marktype |-> "cross", left |-> -1, top |-> 0,
   left_click |-> "nothing", right_click |-> "iconify",
   casesensitive |-> FALSE]

Init ==
  /\ args \in CommandLines /\ file \in Files
  /\ argc = Len(args) + 1 /\ argv = 0
  /\ settings = Defaults
  /\ at = "options"
  /\ lines = <<>> /\ slots = <<>>

-----------------------------------------------------------------------------
(* The options                                                             *)

Margins(type) ==
  CASE type \in {"dots", "corner"} -> [left |-> -1, top |-> -1]
    [] type = "cross" -> [left |-> -1, top |-> 0]
    [] OTHER -> [left |-> settings.left, top |-> settings.top]

(* FAULT: the type is set alone.                                           *)
SetMarkTypeOnly(s) ==
  IF s \in {<<t>> : t \in MarkTypes}
  THEN settings' = [settings EXCEPT !.marktype = Head(s)]
  ELSE UNCHANGED settings

(* A mark other than play comes with margins of its own.                   *)
SetMarkType(s) ==
  IF s \in {<<t>> : t \in MarkTypes}
  THEN settings' = [settings EXCEPT !.marktype = Head(s),
                                    !.left = Margins(Head(s)).left,
                                    !.top = Margins(Head(s)).top]
  ELSE UNCHANGED settings

(* Two numbers; an operand without the second is only complained about.    *)
SetPair(s, c, first, second) ==
  IF Token(s, c) # <<>> /\ RestOf(s, c) # <<>>
  THEN settings' = [settings EXCEPT ![first] = Atoi(Token(s, c)),
                                    ![second] = Atoi(RestOf(s, c))]
  ELSE UNCHANGED settings

SetAction(s, click) ==
  IF s \in {<<a>> : a \in ClickActions}
  THEN settings' = [settings EXCEPT ![click] = Head(s)]
  ELSE UNCHANGED settings

(* Does the option end the program as a message to another dock?           *)
Sends(o, s) ==
  o = "-x" \/ (o = "-i" /\ Token(s, ":") # <<>> /\ RestOf(s, ":") # <<>>)

Perform(o, s) ==
  /\ CASE o = "-d" -> SetPair(s, "x", "width", "height")
       [] o = "-p" -> SetPair(s, "/", "left", "top")
       [] o = "-m" -> SetMarkType(s)
       [] o = "-r" -> SetAction(s, "right_click")
       [] o = "-l" -> SetAction(s, "left_click")
       [] OTHER -> UNCHANGED settings
  /\ at' = IF Sends(o, s) THEN "sent" ELSE at

(* FAULT: argc is not counted down for the operand.                        *)
TakeUncounted(o) ==
  /\ IF argc = 2
     THEN argv' = argv + 1 /\ argc' = 0 /\ UNCHANGED <<settings, at>>
     ELSE argv' = argv + 2 /\ argc' = argc - 1 /\ Perform(o, args[argv + 2])
  /\ UNCHANGED <<args, file, lines, slots>>

(* An option and its operand; if that is missing, argc is down to 0.       *)
Take(o) ==
  /\ IF argc = 2
     THEN argv' = argv + 1 /\ argc' = 0 /\ UNCHANGED <<settings, at>>
     ELSE argv' = argv + 2 /\ argc' = argc - 2 /\ Perform(o, args[argv + 2])
  /\ UNCHANGED <<args, file, lines, slots>>

Alone(o) ==
  /\ IF o = "-c"
     THEN settings' = [settings EXCEPT !.casesensitive = TRUE] /\ UNCHANGED at
     ELSE at' = "exit" /\ UNCHANGED settings
  /\ argv' = argv + 1 /\ argc' = argc - 1
  /\ UNCHANGED <<args, file, lines, slots>>

(* The head of the loop: --argc is not 0, and *(++argv) is an option.      *)
Option ==
  /\ at = "options" /\ argc # 1 /\ argv < Len(args)
  /\ IsOption(args[argv + 1])
  /\ LET o == Head(args[argv + 1])
     IN  IF o \in WithOperand THEN Take(o) ELSE Alone(o)

LastOption ==
  /\ at = "options"
  /\ \/ argc = 1 /\ UNCHANGED argv
     \/ argc # 1 /\ argv < Len(args) /\ ~IsOption(args[argv + 1]) /\ argv' = argv + 1
  /\ argc' = argc - 1
  /\ at' = "fork"
  /\ UNCHANGED <<args, file, settings, lines, slots>>

(* *(++argv) is the null pointer at the end of argv, or behind it.         *)
ReadBehindArguments ==
  /\ at = "options" /\ argc # 1 /\ argv >= Len(args)
  /\ at' = "crashed"
  /\ UNCHANGED <<args, file, argc, argv, settings, lines, slots>>

-----------------------------------------------------------------------------
(* The icons                                                               *)

(* What is left of a record in front of a comment.                         *)
Cut(r) == Before(r, "#")

Delimiters(r) == Cardinality({i \in DOMAIN Cut(r) : Cut(r)[i] = ":"})

(* fields[n] of add, for a record with at least n delimiters.              *)
Field(r, n) ==
  LET rest[k \in 0..3] ==
        IF k = 0 THEN Cut(r) ELSE After(rest[k - 1], ":")
  IN  Before(rest[n], ":")

(* Icon::tokenize: the stretches between the semicolons that are not empty.*)
Titles(s) ==
  LET tokens[i \in 0..Len(s)] ==
        IF i = 0 THEN <<>>
        ELSE IF s[i] = ";" THEN tokens[i - 1]
        ELSE IF i = 1 \/ s[i - 1] = ";" THEN Append(tokens[i - 1], <<s[i]>>)
        ELSE Front(tokens[i - 1]) \o <<Append(Last(tokens[i - 1]), s[i])>>
  IN  tokens[Len(s)]

NamedTimes == [fast |-> 500, fastest |-> 250, slow |-> 5000, lame |-> 10000]

(* A number becomes an unsigned int, a negative one a very large one.      *)
Unsigned(n) == IF n >= 0 THEN n ELSE n % 2^32

IdleTime(s) ==
  IF s \in {<<t>> : t \in DOMAIN NamedTimes} THEN NamedTimes[Head(s)]
  ELSE IF Unsigned(Atoi(s)) > 0 THEN Unsigned(Atoi(s)) ELSE NamedTimes.slow

IconOf(r) ==
  [image |-> Field(r, 0), command |-> Field(r, 1),
   titles |-> Titles(Field(r, 2)), idle |-> IdleTime(Field(r, 3))]

(* FAULT: the chain is kept in the order of the records.                   *)
AddLast(r) ==
  IF IconOf(r).image \in Loadable
  THEN slots' = Append(slots, IconOf(r)) /\ UNCHANGED at
  ELSE at' = "exit" /\ UNCHANGED slots

(* Dock::add, where an image that cannot be loaded is an exception.        *)
DockAdd(r) ==
  IF IconOf(r).image \in Loadable
  THEN slots' = <<IconOf(r)>> \o slots /\ UNCHANGED at
  ELSE at' = "exit" /\ UNCHANGED slots

(* The parent returns, or fork fails; the child counts argc down.          *)
Fork ==
  /\ at = "fork"
  /\ \/ at' = "exit" /\ UNCHANGED lines
     \/ argc = 0 /\ file = NoFile /\ at' = "exit" /\ UNCHANGED lines
     \/ argc = 0 /\ file # NoFile /\ at' = "icons" /\ lines' = file
     \/ argc > 0 /\ at' = "icons" /\ lines' = SubSeq(args, argv, argv + argc - 1)
  /\ UNCHANGED <<args, file, argc, argv, settings, slots>>

(* FAULT: the array of fields is too short for the idle time.              *)
AddShort ==
  /\ at = "icons" /\ lines # <<>>
  /\ LET r == Head(lines) IN
     \/ /\ Delimiters(r) = 0
        /\ at' = IF argc > 0 THEN "exit" ELSE at
        /\ UNCHANGED slots
     \/ Delimiters(r) > 0 /\ DockAdd(r)
     \/ Delimiters(r) > 2 /\ at' = "crashed" /\ UNCHANGED slots
  /\ lines' = Tail(lines)
  /\ UNCHANGED <<args, file, argc, argv, settings>>

(* add: a record without a command is an error on the command line only,   *)
(* and one with too many fields writes behind the array of them.           *)
Add ==
  /\ at = "icons" /\ lines # <<>>
  /\ LET r == Head(lines) IN
     \/ /\ Delimiters(r) = 0
        /\ at' = IF argc > 0 THEN "exit" ELSE at
        /\ UNCHANGED slots
     \/ Delimiters(r) > 0 /\ DockAdd(r)
     \/ Delimiters(r) > 3 /\ at' = "crashed" /\ UNCHANGED slots
  /\ lines' = Tail(lines)
  /\ UNCHANGED <<args, file, argc, argv, settings>>

(* Dock::run returns at once without a slot.                               *)
Run ==
  /\ at = "icons" /\ lines = <<>>
  /\ at' = IF slots = <<>> THEN "exit" ELSE "run"
  /\ UNCHANGED <<args, file, argc, argv, settings, lines, slots>>

Next == Option \/ LastOption \/ ReadBehindArguments \/ Fork \/ Add \/ Run

-----------------------------------------------------------------------------
(* Properties                                                              *)

(* argc and argv, which are moved on in six places, agree on the argument  *)
(* that comes next, unless an operand is missing.                          *)
CommandTypeOK ==
  /\ at \in {"options", "fork", "icons", "run", "exit", "sent", "crashed"}
  /\ argc \in 0..(Len(args) + 1) /\ argv \in 0..Len(args)
  /\ at = "options" =>
       argc + argv = Len(args) + 1 \/ (argc = 0 /\ argv = Len(args))
  /\ settings.marktype \in MarkTypes
  /\ {settings.left_click, settings.right_click} \subseteq ClickActions
  /\ \A i \in DOMAIN slots : slots[i].image \in Loadable /\ slots[i].idle > 0

(* Which arguments are read as options and which as their operands, said   *)
(* without argc and argv: the records begin where one is neither.          *)
Role ==
  LET role[i \in 0..Len(args)] ==
        IF i = 0 THEN "alone"
        ELSE IF role[i - 1] = "operated" THEN "operand"
        ELSE IF role[i - 1] = "record" \/ ~IsOption(args[i]) THEN "record"
        ELSE IF Head(args[i]) \in WithOperand THEN "operated" ELSE "alone"
  IN  role

Given(o) == {i \in 1..(Len(args) - 1) : Role[i] = "operated" /\ Head(args[i]) = o}

Records ==
  LET given == {i \in DOMAIN args : Role[i] = "record"}
  IN  IF given = {} THEN (IF file = NoFile THEN <<>> ELSE file)
      ELSE From(args, Min(given) - 1)

(* The program reads no argument that is not there and writes no field     *)
(* that is not there, except when the operand of the last option is missing*)
(* or a record has more delimiters than the usage text allows.             *)
CompleteNeverCrashes ==
  at = "crashed" =>
    Role[Len(args)] = "operated" \/ \E r \in Range(Records) : Delimiters(r) > 3

(* The padding is that of the last -p, unless an -m comes after it that    *)
(* has a padding of its own.                                               *)
LastPaddingWins ==
  LET p == {i \in Given("-p") :
              Token(args[i + 1], "/") # <<>> /\ RestOf(args[i + 1], "/") # <<>>}
      m == {i \in Given("-m") :
              args[i + 1] \in {<<"dots">>, <<"corner">>, <<"cross">>}}
      last == Max(p \cup m)
      padding == <<settings.left, settings.top>>
  IN  at \in {"fork", "icons", "run"} =>
        padding = IF p \cup m = {} THEN <<-1, 0>>
                  ELSE IF last \in p
                  THEN <<Atoi(Token(args[last + 1], "/")),
                         Atoi(RestOf(args[last + 1], "/"))>>
                  ELSE IF args[last + 1] = <<"cross">> THEN <<-1, 0>>
                  ELSE <<-1, -1>>

(* A dock that runs has a slot for each record that has a command, the one *)
(* that was added last being the first, and an icon is exclusive, having   *)
(* titles, just when its record names one.                                 *)
SlotsReversed ==
  LET valid == {k \in DOMAIN Records : Delimiters(Records[k]) > 0}
      place(k) == Cardinality({m \in valid : m >= k})
  IN  at = "run" =>
        /\ Len(slots) = Cardinality(valid)
        /\ \A k \in valid :
             LET r == Records[k]
                 icon == slots[place(k)]
             IN  /\ icon.image = Field(r, 0) /\ icon.command = Field(r, 1)
                 /\ icon.titles # <<>> <=> ToSet(Field(r, 2)) \ {";"} # {}

=============================================================================
