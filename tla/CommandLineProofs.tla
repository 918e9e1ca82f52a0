-------------------------- MODULE CommandLineProofs --------------------------
(***************************************************************************)
(* Proofs about main and matchesPattern: for any command line, any         *)
(* configuration file, any pattern and any title.                          *)
(***************************************************************************)
EXTENDS MCConfiguration, FadingProofs, FiniteSetTheorems

-----------------------------------------------------------------------------
(* The roles of the arguments                                              *)

Roles == {"alone", "operated", "operand", "record"}

(* The role of an argument after one of the role r.                        *)
RoleAfter(r, a) ==
  IF r = "operated" THEN "operand"
  ELSE IF r = "record" \/ ~IsOption(a) THEN "record"
  ELSE IF Head(a) \in WithOperand THEN "operated" ELSE "alone"

LEMMA RoleAfterTyped ==
  ASSUME NEW r \in Roles, NEW a
  PROVE  RoleAfter(r, a) \in Roles
BY DEF RoleAfter, Roles

(* The recursive function Role is what its definition says.                *)
LEMMA RolesExist ==
  ASSUME Len(args) \in Nat
  PROVE  \E role : role = [i \in 0..Len(args) |->
                             IF i = 0 THEN "alone"
                             ELSE RoleAfter(role[i - 1], args[i])]
<1> DEFINE T == Nat \X Roles
           step == [p \in T |-> <<p[1] + 1, RoleAfter(p[2], args[p[1] + 1])>>]
<1>1. step \in [T -> T]
  BY RoleAfterTyped
<1>2. <<0, "alone">> \in T
  BY DEF Roles
<1>3. PICK f : Recursive(f, T, <<0, "alone">>, step)
  <2> HIDE DEF T, step
  <2> QED BY <1>1, <1>2, RecursionExists
<1>4. ASSUME NEW n \in Nat
      PROVE  /\ f[n + 1][1] = f[n][1] + 1
             /\ f[n + 1][2] = RoleAfter(f[n][2], args[f[n][1] + 1])
  <2>1. f[n] \in T /\ f[n + 1] = step[f[n]]
    BY <1>3 DEF Recursive
  <2> QED BY <2>1
<1>5. \A n \in Nat : f[n][1] = n
  <2> DEFINE S == {n \in Nat : f[n][1] = n}
  <2>1. 0 \in S
    BY <1>3 DEF Recursive
  <2>2. ASSUME NEW n \in Nat, n \in S PROVE n + 1 \in S
    <3>1. f[n + 1][1] = f[n][1] + 1
      BY <1>4
    <3> QED BY <2>2, <3>1
  <2>3. Nat \subseteq S
    <3> HIDE DEF S
    <3> QED BY <2>1, <2>2, SetInduction
  <2> QED BY <2>3
<1> DEFINE role == [i \in 0..Len(args) |-> f[i][2]]
           R == [i \in 0..Len(args) |->
                   IF i = 0 THEN "alone" ELSE RoleAfter(role[i - 1], args[i])]
<1>6. ASSUME NEW i \in 0..Len(args) PROVE role[i] = R[i]
  <2>1. CASE i = 0
    BY <1>3, <2>1 DEF Recursive
  <2>2. CASE i # 0
    <3>1. i - 1 \in Nat /\ i - 1 \in 0..Len(args) /\ (i - 1) + 1 = i
      BY <2>2
    <3>2. f[(i - 1) + 1][2] = RoleAfter(f[i - 1][2], args[f[i - 1][1] + 1])
      BY <1>4, <3>1
    <3>3. f[i][2] = RoleAfter(f[i - 1][2], args[i])
      BY <1>5, <3>1, <3>2
    <3> QED BY <2>2, <3>1, <3>3
  <2> QED BY <2>1, <2>2
<1>7. role = R
  BY <1>6
<1> QED BY <1>7

LEMMA RoleValues ==
  ASSUME Len(args) \in Nat
  PROVE  /\ Role[0] = "alone"
         /\ \A i \in 1..Len(args) : Role[i] = RoleAfter(Role[i - 1], args[i])
<1> DEFINE R(g) == [i \in 0..Len(args) |->
                      IF i = 0 THEN "alone" ELSE RoleAfter(g[i - 1], args[i])]
<1>1. Role = CHOOSE g : g = R(g)
  BY DEF Role, RoleAfter
<1>2. \E g : g = R(g)
  BY RolesExist
<1>3. Role = R(Role)
  <2> HIDE DEF R
  <2> QED BY <1>1, <1>2
<1> QED BY <1>3

(* What follows a record is one, too.                                      *)
LEMMA RecordsLast ==
  ASSUME Len(args) \in Nat, NEW i \in 0..Len(args), NEW j \in 0..Len(args),
         i <= j, Role[i] = "record"
  PROVE  Role[j] = "record"
<1> DEFINE S == {n \in Nat : i + n <= Len(args) => Role[i + n] = "record"}
<1>1. 0 \in S
  BY SMT
<1>2. ASSUME NEW n \in Nat, n \in S PROVE n + 1 \in S
  <2> SUFFICES ASSUME i + (n + 1) <= Len(args)
               PROVE  Role[i + (n + 1)] = "record"
    OBVIOUS
  <2> DEFINE k == i + (n + 1)
  <2>1. k \in 1..Len(args) /\ k - 1 = i + n /\ i + n <= Len(args)
    OBVIOUS
  <2>2. Role[i + n] = "record"
    BY <1>2, <2>1
  <2> HIDE DEF k
  <2>3. Role[k] = RoleAfter(Role[k - 1], args[k])
    BY <2>1, RoleValues
  <2>4. Role[k] = RoleAfter("record", args[k])
    BY <2>1, <2>2, <2>3
  <2>5. Role[k] = "record"
    BY <2>4 DEF RoleAfter
  <2> QED BY <2>5 DEF k
<1>3. Nat \subseteq S
  <2> HIDE DEF S
  <2> QED BY <1>1, <1>2, SetInduction
<1>4. j - i \in Nat /\ i + (j - i) = j /\ j <= Len(args)
  OBVIOUS
<1>5. j - i \in S
  BY <1>3, <1>4
<1> QED BY <1>4, <1>5

(* Role, of a command line that is given.                                  *)
RoleOf(a) ==
  CHOOSE role :
    role = [i \in 0..Len(a) |->
              IF i = 0 THEN "alone"
              ELSE IF role[i - 1] = "operated" THEN "operand"
              ELSE IF role[i - 1] = "record" \/ ~IsOption(a[i]) THEN "record"
              ELSE IF Head(a[i]) \in WithOperand THEN "operated" ELSE "alone"]

LEMMA RolesStay == UNCHANGED args => Role' = Role
<1>1. Role = RoleOf(args)
  BY DEF Role, RoleOf
<1>2. Role' = RoleOf(args')
  BY DEF Role, RoleOf
<1> QED BY <1>1, <1>2

-----------------------------------------------------------------------------
(* The invariant                                                           *)

Settings ==
  [width : Int, height : Int, marktype : MarkTypes, left : Int, top : Int,
   left_click : ClickActions, right_click : ClickActions,
   casesensitive : BOOLEAN]

Icons == {i \in {IconOf(r) : r \in Lines} : i.image \in Loadable}

CommandTypes ==
  /\ args \in Seq(Arguments) /\ file \in Files
  /\ settings \in Settings
  /\ argc \in 0..(Len(args) + 1) /\ argv \in 0..Len(args)
  /\ at \in {"options", "fork", "icons", "run", "exit", "sent", "crashed"}
  /\ lines \in Seq(Lines) /\ slots \in Seq(Icons)

(* argc is the number of arguments from argv on, or an operand is missing; *)
(* argv is behind the operands of all options before it.                   *)
Counted ==
  /\ at = "options" /\ argc > 0 =>
       argc + argv = Len(args) + 1 /\ Role[argv] \in {"alone", "operand"}
  /\ at = "options" /\ argc = 0 =>
       argv = Len(args) /\ Role[argv] = "operated"
  /\ at = "fork" /\ argc > 0 =>
       /\ argc + argv = Len(args) + 1 /\ argv > 0
       /\ Role[argv] = "record" /\ Role[argv - 1] # "record"
  /\ at = "fork" /\ argc = 0 => Role[Len(args)] # "record"

RecordsLeft == at = "icons" => Range(lines) \subseteq Range(Records)

(* The options that set the padding, and what they set.                    *)
Paddings ==
  {i \in Given("-p") : Token(args[i + 1], "/") # <<>> /\ RestOf(args[i + 1], "/") # <<>>}

MarkPaddings ==
  {i \in Given("-m") : args[i + 1] \in {<<"dots">>, <<"corner">>, <<"cross">>}}

PaddingOf(i) ==
  IF i \in Paddings
  THEN <<Atoi(Token(args[i + 1], "/")), Atoi(RestOf(args[i + 1], "/"))>>
  ELSE IF args[i + 1] = <<"cross">> THEN <<-1, 0>> ELSE <<-1, -1>>

PaddingBefore(k) ==
  LET given == {i \in Paddings \cup MarkPaddings : i < k}
  IN  IF given = {} THEN <<-1, 0>> ELSE PaddingOf(Max(given))

PaddingKnown ==
  /\ at = "options" /\ argc > 0 =>
       <<settings.left, settings.top>> = PaddingBefore(argv)
  /\ at \in {"fork", "icons", "run"} =>
       <<settings.left, settings.top>> = PaddingBefore(Len(args))

CInv ==
  /\ CommandTypes
  /\ Counted
  /\ RecordsLeft
  /\ PaddingKnown
  /\ CompleteNeverCrashes

-----------------------------------------------------------------------------
(* The options                                                             *)

(* What the next argument is, and the one behind it.                       *)
LEMMA NextRole ==
  ASSUME CInv, at = "options", argc > 1
  PROVE  /\ args \in Seq(Arguments) /\ Len(args) \in Nat
         /\ argc \in Nat /\ argv \in Nat /\ argc + argv = Len(args) + 1
         /\ argv + 1 \in 1..Len(args)
         /\ Role[argv] \in {"alone", "operand"}
         /\ ~IsOption(args[argv + 1]) => Role[argv + 1] = "record"
         /\ IsOption(args[argv + 1]) =>
              IF Head(args[argv + 1]) \in WithOperand
              THEN /\ Role[argv + 1] = "operated"
                   /\ argc > 2 => Role[argv + 2] = "operand"
              ELSE Role[argv + 1] = "alone"
<1>1. /\ args \in Seq(Arguments) /\ Len(args) \in Nat
      /\ argc \in Nat /\ argv \in Nat
      /\ argc + argv = Len(args) + 1 /\ Role[argv] \in {"alone", "operand"}
  BY DEF CInv, CommandTypes, Counted
<1>2. argv + 1 \in 1..Len(args) /\ (argv + 1) - 1 = argv
  BY <1>1
<1>3. Role[argv + 1] = RoleAfter(Role[argv], args[argv + 1])
  <2> DEFINE i == argv + 1
  <2>1. i \in 1..Len(args) /\ i - 1 = argv
    BY <1>2
  <2> HIDE DEF i
  <2>2. Role[i] = RoleAfter(Role[i - 1], args[i])
    BY <1>1, <2>1, RoleValues
  <2> QED BY <2>1, <2>2 DEF i
<1>4. ASSUME argc > 2
      PROVE  Role[argv + 2] = RoleAfter(Role[argv + 1], args[argv + 2])
  <2> DEFINE i == argv + 2
  <2>1. i \in 1..Len(args) /\ i - 1 = argv + 1
    BY <1>1, <1>4
  <2> HIDE DEF i
  <2>2. Role[i] = RoleAfter(Role[i - 1], args[i])
    BY <1>1, <2>1, RoleValues
  <2> QED BY <2>1, <2>2 DEF i
<1> QED BY <1>1, <1>2, <1>3, <1>4 DEF RoleAfter

LEMMA MaxIs ==
  ASSUME NEW S, S \subseteq Int, NEW x \in S, \A y \in S : y <= x
  PROVE  Max(S) = x
<1>1. \A z \in S : (\A y \in S : z >= y) => z = x
  OBVIOUS
<1>2. \A y \in S : x >= y
  OBVIOUS
<1> QED BY <1>1, <1>2 DEF Max

(* The padding does not depend on arguments that are no such options.      *)
LEMMA SamePadding ==
  ASSUME NEW j \in Nat, NEW k \in Nat, j <= k,
         \A i \in Paddings \cup MarkPaddings : i < k => i < j
  PROVE  PaddingBefore(k) = PaddingBefore(j)
<1>1. \A i \in Paddings \cup MarkPaddings : i \in Nat
  BY DEF Paddings, MarkPaddings, Given
<1>2. {i \in Paddings \cup MarkPaddings : i < k} = {i \in Paddings \cup MarkPaddings : i < j}
  BY <1>1
<1> QED BY <1>2, Zenon DEF PaddingBefore

(* The last option that sets the padding is the one that counts.           *)
LEMMA LastPadding ==
  ASSUME NEW j \in Paddings \cup MarkPaddings
  PROVE  PaddingBefore(j + 1) = PaddingOf(j)
<1> DEFINE given == {i \in Paddings \cup MarkPaddings : i < j + 1}
<1>1. \A i \in Paddings \cup MarkPaddings : i \in Nat
  BY DEF Paddings, MarkPaddings, Given
<1>2. j \in given /\ given \subseteq Int /\ \A i \in given : i <= j
  BY <1>1
<1>3. PaddingBefore(j + 1) = IF given = {} THEN <<-1, 0>> ELSE PaddingOf(Max(given))
  BY DEF PaddingBefore
<1> HIDE DEF given
<1>4. Max(given) = j
  BY <1>2, MaxIs
<1> QED BY <1>2, <1>3, <1>4

LEMMA PaddingsStay ==
  ASSUME UNCHANGED args
  PROVE  /\ Paddings' = Paddings /\ MarkPaddings' = MarkPaddings
         /\ PaddingBefore(argv)' = PaddingBefore(argv')
         /\ PaddingBefore(Len(args))' = PaddingBefore(Len(args))
<1>1. Role' = Role
  BY RolesStay
<1>2. Paddings' = Paddings /\ MarkPaddings' = MarkPaddings
  BY <1>1 DEF Paddings, MarkPaddings, Given
<1>3. \A i : PaddingOf(i)' = PaddingOf(i)
  BY <1>2 DEF PaddingOf
<1> QED BY <1>2, <1>3, Zenon DEF PaddingBefore

LEMMA AtoiTyped == \A s : Atoi(s) \in Int
BY CommandLineAssumption DEF Atoi

(* What Perform leaves in the settings, for each option.                   *)
LEMMA PerformSettings ==
  ASSUME settings \in Settings, NEW o \in WithOperand, NEW s, Perform(o, s)
  PROVE  /\ settings' \in Settings
         /\ <<settings'.left, settings'.top>> =
              IF o = "-p" /\ Token(s, "/") # <<>> /\ RestOf(s, "/") # <<>>
              THEN <<Atoi(Token(s, "/")), Atoi(RestOf(s, "/"))>>
              ELSE IF o = "-m" /\ s \in {<<"dots">>, <<"corner">>}
              THEN <<-1, -1>>
              ELSE IF o = "-m" /\ s = <<"cross">>
              THEN <<-1, 0>>
              ELSE <<settings.left, settings.top>>
<1> USE DEF Settings
<1>1. CASE o = "-d"
  BY <1>1, AtoiTyped DEF Perform, SetPair
<1>2. CASE o = "-p"
  BY <1>2, AtoiTyped DEF Perform, SetPair
<1>3. CASE o = "-m"
  <2>1. SetMarkType(s)
    BY <1>3 DEF Perform
  <2>2. CASE s \notin {<<t>> : t \in MarkTypes}
    BY <1>3, <2>1, <2>2 DEF SetMarkType, MarkTypes
  <2>3. ASSUME NEW t \in MarkTypes, s = <<t>>
        PROVE  /\ settings' \in Settings
               /\ <<settings'.left, settings'.top>> =
                    IF t \in {"dots", "corner"} THEN <<-1, -1>>
                    ELSE IF t = "cross" THEN <<-1, 0>>
                    ELSE <<settings.left, settings.top>>
    <3>1. settings' = [settings EXCEPT !.marktype = t, !.left = Margins(t).left,
                                       !.top = Margins(t).top]
      BY <2>1, <2>3 DEF SetMarkType
    <3>2. /\ Margins(t).left \in Int /\ Margins(t).top \in Int
          /\ <<Margins(t).left, Margins(t).top>> =
                    IF t \in {"dots", "corner"} THEN <<-1, -1>>
                    ELSE IF t = "cross" THEN <<-1, 0>>
                    ELSE <<settings.left, settings.top>>
      BY <2>3 DEF Margins, MarkTypes
    <3> QED BY <3>1, <3>2
  <2>4. ASSUME NEW t \in MarkTypes, s = <<t>>
        PROVE  /\ s \in {<<"dots">>, <<"corner">>} <=> t \in {"dots", "corner"}
               /\ s = <<"cross">> <=> t = "cross"
    BY <2>4
  <2>5. CASE s \in {<<t>> : t \in MarkTypes}
    BY <1>3, <2>3, <2>4, <2>5
  <2> QED BY <2>2, <2>5
<1>4. CASE o = "-r" \/ o = "-l"
  <2>1. PICK click \in {"right_click", "left_click"} : SetAction(s, click)
    BY <1>4 DEF Perform
  <2>2. CASE s \in {<<a>> : a \in ClickActions}
    BY <1>4, <2>1, <2>2 DEF SetAction
  <2>3. CASE s \notin {<<a>> : a \in ClickActions}
    BY <1>4, <2>1, <2>3 DEF SetAction
  <2> QED BY <2>2, <2>3
<1>5. CASE o = "-i" \/ o = "-x"
  BY <1>5 DEF Perform
<1> QED BY <1>1, <1>2, <1>3, <1>4, <1>5 DEF WithOperand

LEMMA PerformPadding ==
  ASSUME CInv, at = "options", argc > 2, IsOption(args[argv + 1]),
         NEW o \in WithOperand, o = Head(args[argv + 1]),
         Perform(o, args[argv + 2])
  PROVE  /\ settings' \in Settings
         /\ <<settings'.left, settings'.top>> = PaddingBefore(argv + 2)
<1> DEFINE i == argv + 1
           s == args[argv + 2]
<1>1. /\ argc \in Nat /\ argv \in Nat /\ argc + argv = Len(args) + 1
      /\ Len(args) \in Nat
      /\ Role[argv] \in {"alone", "operand"} /\ Role[i] = "operated"
  <2>1. argc > 1
    BY DEF CInv, CommandTypes
  <2> QED BY <2>1, NextRole
<1>2. /\ i \in 1..(Len(args) - 1) /\ i + 1 = argv + 2 /\ args[i + 1] = s
  BY <1>1
<1>3. settings \in Settings /\ <<settings.left, settings.top>> = PaddingBefore(argv)
  BY <1>1 DEF CInv, CommandTypes, PaddingKnown
<1>4. i \in Paddings <=> o = "-p" /\ Token(s, "/") # <<>> /\ RestOf(s, "/") # <<>>
  BY <1>1, <1>2 DEF Paddings, Given
<1>5. i \in MarkPaddings <=> o = "-m" /\ s \in {<<"dots">>, <<"corner">>, <<"cross">>}
  BY <1>1, <1>2 DEF MarkPaddings, Given
<1>6. CASE i \in Paddings \cup MarkPaddings
  <2>1. PaddingBefore(i + 1) = PaddingOf(i)
    BY <1>6, LastPadding
  <2> HIDE DEF i, s
  <2>2. PaddingOf(i) = IF i \in Paddings
                       THEN <<Atoi(Token(s, "/")), Atoi(RestOf(s, "/"))>>
                       ELSE IF s = <<"cross">> THEN <<-1, 0>> ELSE <<-1, -1>>
    BY <1>2, Zenon DEF PaddingOf
  <2> QED BY <1>2, <1>3, <1>4, <1>5, <1>6, <2>1, <2>2, PerformSettings DEF s
<1>7. CASE i \notin Paddings \cup MarkPaddings
  <2>1. argv \notin Paddings \cup MarkPaddings
    BY <1>1 DEF Paddings, MarkPaddings, Given
  <2>2. \A j \in Paddings \cup MarkPaddings : j \in Nat
    BY DEF Paddings, MarkPaddings, Given
  <2>3. \A j \in Paddings \cup MarkPaddings : j < argv + 2 => j < argv
    BY <1>1, <1>7, <2>1, <2>2
  <2>4. PaddingBefore(argv + 2) = PaddingBefore(argv)
    BY <1>1, <2>3, SamePadding
  <2>5. <<settings'.left, settings'.top>> = <<settings.left, settings.top>>
    BY <1>3, <1>4, <1>5, <1>7, PerformSettings
  <2> QED BY <1>3, <2>4, <2>5, PerformSettings
<1> QED BY <1>6, <1>7

LEMMA TakeCInv ==
  ASSUME CInv, at = "options", argc > 1, IsOption(args[argv + 1]),
         NEW o \in WithOperand, o = Head(args[argv + 1]), Take(o)
  PROVE  CInv'
<1>1. /\ args \in Seq(Arguments) /\ Len(args) \in Nat
      /\ argc \in Nat /\ argv \in Nat /\ argc + argv = Len(args) + 1
      /\ Role[argv + 1] = "operated"
      /\ argc > 2 => Role[argv + 2] = "operand"
  BY NextRole
<1>2. UNCHANGED <<args, file, lines, slots>> /\ Role' = Role
  BY RolesStay DEF Take
<1>3. CASE argc = 2
  <2>1. argv' = argv + 1 /\ argc' = 0 /\ UNCHANGED <<settings, at>>
    BY <1>3 DEF Take
  <2>2. CommandTypes'
    BY <1>1, <1>2, <1>3, <2>1 DEF CInv, CommandTypes
  <2>3. Counted'
    BY <1>1, <1>2, <1>3, <2>1 DEF Counted
  <2> QED BY <2>1, <2>2, <2>3 DEF CInv, RecordsLeft, PaddingKnown, CompleteNeverCrashes
<1>4. CASE argc > 2
  <2>1. /\ argv' = argv + 2 /\ argc' = argc - 2 /\ Perform(o, args[argv + 2])
    BY <1>4 DEF Take
  <2>2. at' \in {"options", "sent"}
    BY <2>1 DEF Perform
  <2>3. /\ settings' \in Settings
        /\ <<settings'.left, settings'.top>> = PaddingBefore(argv + 2)
    BY <1>4, <2>1, PerformPadding
  <2>4. CommandTypes'
    BY <1>1, <1>2, <1>4, <2>1, <2>2, <2>3 DEF CInv, CommandTypes
  <2>5. Counted'
    BY <1>1, <1>2, <1>4, <2>1, <2>2 DEF Counted
  <2>6. PaddingKnown'
    <3>1. PaddingBefore(argv)' = PaddingBefore(argv + 2)
      BY <1>2, <2>1, PaddingsStay
    <3> QED BY <2>2, <2>3, <3>1 DEF PaddingKnown
  <2> QED BY <2>2, <2>4, <2>5, <2>6 DEF CInv, RecordsLeft, CompleteNeverCrashes
<1> QED BY <1>1, <1>3, <1>4

LEMMA AloneCInv ==
  ASSUME CInv, at = "options", argc > 1, IsOption(args[argv + 1]),
         NEW o, o \notin WithOperand, o = Head(args[argv + 1]), Alone(o)
  PROVE  CInv'
<1>1. /\ args \in Seq(Arguments) /\ Len(args) \in Nat
      /\ argc \in Nat /\ argv \in Nat /\ argc + argv = Len(args) + 1
      /\ Role[argv] \in {"alone", "operand"} /\ Role[argv + 1] = "alone"
  BY NextRole
<1>2. UNCHANGED <<args, file, lines, slots>> /\ Role' = Role
  BY RolesStay DEF Alone
<1>3. argv' = argv + 1 /\ argc' = argc - 1 /\ at' \in {"options", "exit"}
  BY DEF Alone
<1>4. /\ settings' \in Settings
      /\ settings'.left = settings.left /\ settings'.top = settings.top
  <2>1. settings \in Settings
    BY DEF CInv, CommandTypes
  <2> QED BY <2>1 DEF Alone, Settings
<1>5. CommandTypes'
  BY <1>1, <1>2, <1>3, <1>4 DEF CInv, CommandTypes
<1>6. Counted'
  BY <1>1, <1>2, <1>3 DEF Counted
<1>7. PaddingKnown'
  <2>1. argv \notin Paddings \cup MarkPaddings
    BY <1>1 DEF Paddings, MarkPaddings, Given
  <2>2. \A j \in Paddings \cup MarkPaddings : j \in Nat
    BY DEF Paddings, MarkPaddings, Given
  <2>3. \A j \in Paddings \cup MarkPaddings : j < argv + 1 => j < argv
    BY <1>1, <2>1, <2>2
  <2>4. PaddingBefore(argv + 1) = PaddingBefore(argv)
    BY <1>1, <2>3, SamePadding
  <2>5. PaddingBefore(argv)' = PaddingBefore(argv + 1)
    BY <1>2, <1>3, PaddingsStay
  <2> QED BY <1>1, <1>3, <1>4, <2>4, <2>5 DEF CInv, PaddingKnown
<1> QED BY <1>3, <1>5, <1>6, <1>7 DEF CInv, RecordsLeft, CompleteNeverCrashes

LEMMA OptionCInv == CInv /\ Option => CInv'
<1> SUFFICES ASSUME CInv, Option PROVE CInv'
  OBVIOUS
<1>1. at = "options" /\ argc > 1 /\ IsOption(args[argv + 1])
  BY DEF Option, CInv, CommandTypes, Counted
<1> DEFINE o == Head(args[argv + 1])
<1>2. CASE o \in WithOperand
  BY <1>1, <1>2, TakeCInv DEF Option
<1>3. CASE o \notin WithOperand
  BY <1>1, <1>3, AloneCInv DEF Option
<1> QED BY <1>2, <1>3

LEMMA LastOptionCInv == CInv /\ LastOption => CInv'
<1> SUFFICES ASSUME CInv, LastOption PROVE CInv'
  OBVIOUS
<1>1. /\ at = "options" /\ at' = "fork" /\ argc' = argc - 1
      /\ UNCHANGED <<args, file, settings, lines, slots>>
  BY DEF LastOption
<1>2. Role' = Role
  BY <1>1, RolesStay
<1>3. Len(args) \in Nat /\ argc \in Nat /\ argv \in 0..Len(args)
  BY DEF CInv, CommandTypes
<1>4. PaddingBefore(Len(args))' = PaddingBefore(Len(args))
  BY <1>1, PaddingsStay
<1>5. \A j \in Paddings \cup MarkPaddings : j \in 1..(Len(args) - 1) /\ Role[j] = "operated"
  BY DEF Paddings, MarkPaddings, Given
<1>6. CASE argc = 1 /\ UNCHANGED argv
  <2>1. argv = Len(args) /\ Role[argv] \in {"alone", "operand"}
    BY <1>1, <1>3, <1>6 DEF CInv, Counted
  <2>2. CommandTypes' /\ Counted'
    BY <1>1, <1>2, <1>3, <1>6, <2>1 DEF CInv, CommandTypes, Counted
  <2>3. PaddingKnown'
    BY <1>1, <1>4, <1>6, <2>1 DEF CInv, PaddingKnown
  <2> QED BY <1>1, <2>2, <2>3 DEF CInv, RecordsLeft, CompleteNeverCrashes
<1>7. CASE /\ argc # 1 /\ argv < Len(args) /\ ~IsOption(args[argv + 1])
           /\ argv' = argv + 1
  <2>1. argc > 1
    BY <1>1, <1>3, <1>7 DEF CInv, Counted
  <2>2. /\ argc + argv = Len(args) + 1 /\ argv + 1 \in 1..Len(args)
        /\ Role[argv] \in {"alone", "operand"} /\ Role[argv + 1] = "record"
    BY <1>1, <1>7, <2>1, NextRole
  <2>3. CommandTypes'
    BY <1>1, <1>3, <1>7, <2>1, <2>2 DEF CInv, CommandTypes
  <2>4. Counted'
    <3>1. argv' - 1 = argv /\ argc' + argv' = Len(args) + 1 /\ argc' > 0 /\ argv' > 0
      BY <1>1, <1>3, <1>7, <2>1, <2>2
    <3> QED BY <1>1, <1>2, <1>7, <2>2, <3>1 DEF Counted
  <2>5. PaddingKnown'
    <3>1. ASSUME NEW j \in Paddings \cup MarkPaddings, ~(j < argv) PROVE FALSE
      <4>1. CASE j = argv
        BY <1>5, <2>2, <4>1
      <4>2. CASE j > argv
        BY <1>3, <1>5, <2>2, <3>1, <4>2, RecordsLast
      <4> QED BY <1>3, <1>5, <3>1, <4>1, <4>2
    <3>2. PaddingBefore(Len(args)) = PaddingBefore(argv)
      BY <1>3, <3>1, SamePadding
    <3> QED BY <1>1, <1>3, <1>4, <2>1, <3>2 DEF CInv, PaddingKnown
  <2> QED BY <1>1, <2>3, <2>4, <2>5 DEF CInv, RecordsLeft, CompleteNeverCrashes
<1> QED BY <1>6, <1>7 DEF LastOption

LEMMA ReadBehindCInv == CInv /\ ReadBehindArguments => CInv'
<1> SUFFICES ASSUME CInv, ReadBehindArguments PROVE CInv'
  OBVIOUS
<1>1. /\ at = "options" /\ argc # 1 /\ argv >= Len(args) /\ at' = "crashed"
      /\ UNCHANGED <<args, file, argc, argv, settings, lines, slots>>
  BY DEF ReadBehindArguments
<1>2. argv = Len(args) /\ Role[argv] = "operated"
  BY <1>1 DEF CInv, CommandTypes, Counted
<1>3. CompleteNeverCrashes'
  <2>1. Role' = Role
    BY <1>1, RolesStay
  <2> QED BY <1>1, <1>2, <2>1 DEF CompleteNeverCrashes
<1>4. CommandTypes'
  BY <1>1 DEF CInv, CommandTypes
<1> QED BY <1>1, <1>3, <1>4 DEF CInv, Counted, RecordsLeft, PaddingKnown

-----------------------------------------------------------------------------
(* The icons                                                               *)

LEMMA IdleTimePositive ==
  ASSUME NEW s
  PROVE  IdleTime(s) > 0
<1>1. CASE s \in {<<t>> : t \in DOMAIN NamedTimes}
  BY <1>1 DEF IdleTime, NamedTimes
<1>2. CASE s \notin {<<t>> : t \in DOMAIN NamedTimes}
  BY <1>2 DEF IdleTime, NamedTimes
<1> QED BY <1>1, <1>2

(* Records are what begins at argv, or the file.                           *)
LEMMA RecordsAre ==
  ASSUME CInv, at = "fork"
  PROVE  /\ argc > 0 => Records = SubSeq(args, argv, argv + argc - 1)
         /\ argc = 0 /\ file # NoFile => Records = file
<1> DEFINE given == {i \in DOMAIN args : Role[i] = "record"}
<1>1. /\ args \in Seq(Arguments) /\ Len(args) \in Nat /\ DOMAIN args = 1..Len(args)
      /\ argc \in Nat /\ argv \in Nat
  BY DEF CInv, CommandTypes
<1>2. Records = IF given = {} THEN (IF file = NoFile THEN <<>> ELSE file)
                ELSE From(args, Min(given) - 1)
  BY DEF Records
<1>3. CASE argc > 0
  <2>1. /\ argc + argv = Len(args) + 1 /\ argv \in 1..Len(args)
        /\ Role[argv] = "record" /\ Role[argv - 1] # "record"
    BY <1>1, <1>3 DEF CInv, Counted
  <2>2. argv \in given /\ given \subseteq Int
    BY <1>1, <2>1
  <2>3. ASSUME NEW i \in given, ~(argv <= i) PROVE FALSE
    BY <1>1, <2>1, <2>3, RecordsLast
  <2>4. \A i \in given : argv <= i
    BY <2>3
  <2> HIDE DEF given
  <2>5. Min(given) = argv
    <3>1. \A z \in given : (\A y \in given : z <= y) => z = argv
      BY <2>2, <2>4
    <3> QED BY <2>2, <2>4, <3>1 DEF Min
  <2>6. Min(given) - 1 + 1 = argv /\ argv + argc - 1 = Len(args)
    BY <1>1, <2>1, <2>5
  <2> QED BY <1>1, <1>2, <1>3, <2>2, <2>6 DEF From
<1>4. CASE argc = 0
  <2>1. Role[Len(args)] # "record"
    BY <1>4 DEF CInv, Counted
  <2>2. ASSUME NEW i \in given PROVE FALSE
    BY <1>1, <2>1, RecordsLast
  <2>3. given = {}
    BY <2>2
  <2> QED BY <1>1, <1>2, <1>4, <2>3
<1> QED BY <1>1, <1>3, <1>4

LEMMA ForkCInv == CInv /\ Fork => CInv'
<1> SUFFICES ASSUME CInv, Fork PROVE CInv'
  OBVIOUS
<1>1. /\ at = "fork" /\ at' \in {"exit", "icons"}
      /\ UNCHANGED <<args, file, argc, argv, settings, slots>>
  BY DEF Fork
<1>2. /\ args \in Seq(Arguments) /\ Len(args) \in Nat
      /\ argc \in Nat /\ argv \in Nat /\ file \in Files /\ lines \in Seq(Lines)
      /\ Arguments \subseteq Lines
  BY DEF CInv, CommandTypes, Lines
<1>3. Role' = Role /\ Records' = Records
  <2>1. Role' = Role
    BY <1>1, RolesStay
  <2> QED BY <1>1, <2>1 DEF Records
<1>4. /\ lines' \in Seq(Lines)
      /\ at' = "icons" => lines' = Records
  <2>1. CASE UNCHANGED lines /\ at' = "exit"
    BY <1>2, <2>1
  <2>2. CASE argc = 0 /\ file # NoFile /\ at' = "icons" /\ lines' = file
    <3>1. file \in Seq(Lines)
      BY <1>2, <2>2, CommandLineAssumption
    <3> QED BY <1>1, <2>2, <3>1, RecordsAre
  <2>3. CASE argc > 0 /\ at' = "icons" /\ lines' = SubSeq(args, argv, argv + argc - 1)
    <3>1. argv \in 1..Len(args) /\ argv + argc - 1 = Len(args)
      BY <1>1, <1>2, <2>3 DEF CInv, Counted
    <3>2. lines' \in Seq(Arguments)
      BY <1>2, <2>3, <3>1
    <3>3. lines' \in Seq(Lines)
      BY <1>2, <3>2
    <3> QED BY <1>1, <2>3, <3>3, RecordsAre
  <2> QED BY <2>1, <2>2, <2>3 DEF Fork
<1>5. CommandTypes'
  BY <1>1, <1>4 DEF CInv, CommandTypes
<1>6. RecordsLeft'
  BY <1>3, <1>4 DEF RecordsLeft
<1>7. PaddingKnown'
  <2>1. PaddingBefore(Len(args))' = PaddingBefore(Len(args))
    BY <1>1, PaddingsStay
  <2> QED BY <1>1, <2>1 DEF CInv, PaddingKnown
<1> QED BY <1>1, <1>5, <1>6, <1>7 DEF CInv, Counted, CompleteNeverCrashes

LEMMA DockAddSlots ==
  ASSUME slots \in Seq(Icons), NEW r \in Lines, DockAdd(r)
  PROVE  slots' \in Seq(Icons) /\ (at' = at \/ at' = "exit")
<1>1. CASE IconOf(r).image \in Loadable
  <2>1. IconOf(r) \in Icons
    BY <1>1 DEF Icons
  <2>2. slots' = <<IconOf(r)>> \o slots /\ at' = at
    BY <1>1 DEF DockAdd
  <2> HIDE DEF IconOf
  <2>3. <<IconOf(r)>> \in Seq(Icons)
    BY <2>1
  <2> QED BY <2>2, <2>3
<1>2. CASE IconOf(r).image \notin Loadable
  BY <1>2 DEF DockAdd
<1> QED BY <1>1, <1>2

LEMMA AddCInv == CInv /\ Add => CInv'
<1> SUFFICES ASSUME CInv, Add PROVE CInv'
  OBVIOUS
<1> DEFINE r == Head(lines)
<1>1. /\ at = "icons" /\ lines # <<>> /\ lines' = Tail(lines)
      /\ UNCHANGED <<args, file, argc, argv, settings>>
  BY DEF Add
<1>2. lines \in Seq(Lines) /\ slots \in Seq(Icons) /\ Range(lines) \subseteq Range(Records)
  BY <1>1 DEF CInv, CommandTypes, RecordsLeft
<1>3. r \in Lines /\ r \in Range(lines) /\ lines' \in Seq(Lines)
  BY <1>1, <1>2 DEF Range
<1>4. Range(lines') \subseteq Range(lines)
  <2>1. \A i \in DOMAIN Tail(lines) : /\ i + 1 \in DOMAIN lines
                                     /\ Tail(lines)[i] = lines[i + 1]
    BY <1>1, <1>2
  <2> QED BY <1>1, <2>1 DEF Range
<1>5. Role' = Role /\ Records' = Records
  <2>1. Role' = Role
    BY <1>1, RolesStay
  <2> QED BY <1>1, <2>1 DEF Records
<1>6. /\ slots' \in Seq(Icons)
      /\ \/ at' \in {"icons", "exit"}
         \/ at' = "crashed" /\ Delimiters(r) > 3
  <2> HIDE DEF r
  <2>1. CASE /\ Delimiters(r) = 0
             /\ at' = IF argc > 0 THEN "exit" ELSE at
             /\ UNCHANGED slots
    BY <1>1, <1>2, <2>1
  <2>2. CASE Delimiters(r) > 0 /\ DockAdd(r)
    BY <1>1, <1>2, <1>3, <2>2, DockAddSlots
  <2>3. CASE Delimiters(r) > 3 /\ at' = "crashed" /\ UNCHANGED slots
    BY <1>2, <2>3
  <2> QED BY <2>1, <2>2, <2>3 DEF Add, r
<1>7. CommandTypes'
  BY <1>1, <1>3, <1>6 DEF CInv, CommandTypes
<1>8. RecordsLeft'
  BY <1>2, <1>4, <1>5 DEF RecordsLeft
<1>9. PaddingKnown'
  <2>1. PaddingBefore(Len(args))' = PaddingBefore(Len(args))
    BY <1>1, PaddingsStay
  <2> QED BY <1>1, <1>6, <2>1 DEF CInv, PaddingKnown
<1>10. CompleteNeverCrashes'
  <2> HIDE DEF r
  <2> QED BY <1>2, <1>3, <1>5, <1>6 DEF CompleteNeverCrashes
<1> QED BY <1>6, <1>7, <1>8, <1>9, <1>10 DEF CInv, Counted

LEMMA RunCInv == CInv /\ Run => CInv'
<1> SUFFICES ASSUME CInv, Run PROVE CInv'
  OBVIOUS
<1>1. /\ at = "icons" /\ at' \in {"exit", "run"}
      /\ UNCHANGED <<args, file, argc, argv, settings, lines, slots>>
  BY DEF Run
<1>2. CommandTypes'
  BY <1>1 DEF CInv, CommandTypes
<1>3. PaddingKnown'
  <2>1. PaddingBefore(Len(args))' = PaddingBefore(Len(args))
    BY <1>1, PaddingsStay
  <2> QED BY <1>1, <2>1 DEF CInv, PaddingKnown
<1> QED BY <1>1, <1>2, <1>3 DEF CInv, Counted, RecordsLeft, CompleteNeverCrashes

-----------------------------------------------------------------------------
(* Fields and titles                                                       *)

(* Span is a length, of what is in S and no more.                          *)
LEMMA SpanIs ==
  ASSUME NEW s, Len(s) \in Nat, NEW S
  PROVE  /\ Span(s, S) \in 0..Len(s)
         /\ \A i \in 1..Span(s, S) : s[i] \in S
         /\ Span(s, S) = Len(s) \/ s[Span(s, S) + 1] \notin S
<1> DEFINE P == {k \in 0..Len(s) : k = Len(s) \/ s[k + 1] \notin S}
<1>1. Len(s) \in P /\ P \subseteq Nat
  OBVIOUS
<1>2. \E x \in P : \A y \in P : x <= y
  <2> DEFINE less == {ss \in Nat \X Nat : ss[1] < ss[2]}
  <2>1. IsWellFoundedOn(less, Nat)
    BY NatLessThanWellFounded DEF OpToRel
  <2>2. PICK x \in P : \A y \in P : ~(<<y, x>> \in less)
    <3> HIDE DEF P
    <3> QED BY <1>1, <2>1, WFMin
  <2>3. \A y \in P : ~(y < x)
    BY <1>1, <2>2
  <2> QED BY <1>1, <2>3
<1> DEFINE n == Min(P)
<1>3. n \in P /\ \A y \in P : n <= y
  <2> HIDE DEF P
  <2> QED BY <1>2 DEF Min
<1>4. Span(s, S) = n
  BY DEF Span
<1> HIDE DEF n
<1>5. ASSUME NEW i \in 1..n PROVE s[i] \in S
  <2>1. i - 1 \in 0..Len(s) /\ i - 1 < n /\ i - 1 # Len(s) /\ (i - 1) + 1 = i
    BY <1>3
  <2>2. i - 1 \notin P
    <3> HIDE DEF P
    <3>1. n \in Nat
      BY <1>1, <1>3
    <3>2. i - 1 \in P => n <= i - 1
      BY <1>3
    <3> QED BY <2>1, <3>1, <3>2
  <2> QED BY <2>1, <2>2
<1> QED BY <1>3, <1>4, <1>5

(* Strings is the same for matchesPattern.                                 *)
LEMMA SameSpan == \A s, S : M!Span(s, S) = Span(s, S)
BY DEF Span, M!Span, Min, M!Min

LEMMA PartsTyped ==
  ASSUME NEW A, NEW s \in Seq(A), NEW c
  PROVE  Before(s, c) \in Seq(A) /\ After(s, c) \in Seq(A)
<1> DEFINE n == Span(s, ToSet(s) \ {c})
<1>1. n \in 0..Len(s) /\ Len(s) \in Nat
  BY SpanIs
<1> HIDE DEF n
<1>2. SubSeq(s, 1, n) \in Seq(A)
  BY <1>1
<1>3. SubSeq(s, n + 2, Len(s)) \in Seq(A)
  BY <1>1
<1>4. n + 2 = (n + 1) + 1
  BY <1>1
<1> QED BY <1>2, <1>3, <1>4, Zenon DEF n, Before, After, From

LEMMA FieldTyped ==
  ASSUME NEW A, NEW r \in Seq(A), NEW n \in 0..3
  PROVE  Field(r, n) \in Seq(A)
<1> DEFINE R(g) == [k \in 0..3 |->
                      IF k = 0 THEN Cut(r) ELSE After(g[k - 1], ":")]
           rest == CHOOSE g : g = R(g)
           one == After(Cut(r), ":")
           two == After(one, ":")
           three == After(two, ":")
           h == [k \in 0..3 |-> IF k = 0 THEN Cut(r) ELSE IF k = 1 THEN one
                                ELSE IF k = 2 THEN two ELSE three]
<1>1. h = R(h)
  <2> HIDE DEF one, two, three
  <2>1. h[0] = Cut(r) /\ h[1] = one /\ h[2] = two /\ h[3] = three
    OBVIOUS
  <2>2. /\ After(h[0], ":") = one /\ After(h[1], ":") = two
        /\ After(h[2], ":") = three
    BY <2>1 DEF one, two, three
  <2>3. \A k \in 0..3 : h[k] = R(h)[k]
    <3> SUFFICES ASSUME NEW k \in 0..3 PROVE h[k] = R(h)[k]
      OBVIOUS
    <3>1. k = 0 \/ k = 1 \/ k = 2 \/ k = 3
      OBVIOUS
    <3> HIDE DEF h
    <3>2. R(h)[0] = Cut(r) /\ R(h)[1] = After(h[0], ":")
      OBVIOUS
    <3>3. R(h)[2] = After(h[1], ":") /\ R(h)[3] = After(h[2], ":")
      OBVIOUS
    <3> HIDE DEF R
    <3> QED BY <2>1, <2>2, <3>1, <3>2, <3>3
  <2> QED BY <2>3
<1>2. rest = R(rest)
  <2> HIDE DEF R, h
  <2> QED BY <1>1
<1> HIDE DEF rest, one, two, three, h
<1>3. /\ rest[0] = Cut(r) /\ rest[1] = After(rest[0], ":")
      /\ rest[2] = After(rest[1], ":") /\ rest[3] = After(rest[2], ":")
  BY <1>2
<1>4. Cut(r) \in Seq(A)
  BY PartsTyped DEF Cut
<1>5. rest[1] \in Seq(A)
  BY <1>3, <1>4, PartsTyped
<1>6. rest[2] \in Seq(A)
  BY <1>3, <1>5, PartsTyped
<1>7. rest[3] \in Seq(A)
  BY <1>3, <1>6, PartsTyped
<1>8. rest[n] \in Seq(A)
  BY <1>3, <1>4, <1>5, <1>6, <1>7
<1>9. Field(r, n) = Before(rest[n], ":")
  BY DEF Field, rest
<1> QED BY <1>8, <1>9, PartsTyped

(* The tokens of one more character.                                       *)
TokensAfter(t, s, i, c) ==
  IF s[i] = c THEN t
  ELSE IF i = 1 \/ s[i - 1] = c THEN Append(t, <<s[i]>>)
  ELSE Front(t) \o <<Append(Last(t), s[i])>>

(* Strings, where the provers do not take apart sequences of them.         *)
Word(A) == Seq(A)

LEMMA WordsGrow ==
  ASSUME NEW A, NEW a \in A
  PROVE  <<a>> \in Word(A) /\ \A w \in Word(A) : Append(w, a) \in Word(A)
BY DEF Word

(* There are tokens just when there is a character for one.                *)
Tokens(t, s, i, A, c) ==
  /\ t \in Seq(Word(A))
  /\ t # <<>> <=> \E j \in 1..i : s[j] # c

LEMMA TokensGrow ==
  ASSUME NEW A, NEW s \in Seq(A), NEW c, NEW i \in 1..Len(s), NEW t,
         Tokens(t, s, i - 1, A, c)
  PROVE  Tokens(TokensAfter(t, s, i, c), s, i, A, c)
<1>1. t \in Seq(Word(A)) /\ s[i] \in A /\ i \in Nat
  BY DEF Tokens
<1>2. /\ 1..i = (1..(i - 1)) \cup {i}
      /\ t # <<>> <=> \E j \in 1..(i - 1) : s[j] # c
  BY <1>1 DEF Tokens
<1>3. CASE s[i] = c
  <2>1. TokensAfter(t, s, i, c) = t
    BY <1>3 DEF TokensAfter
  <2> QED BY <1>1, <1>2, <1>3, <2>1 DEF Tokens
<1>4. CASE s[i] # c /\ (i = 1 \/ s[i - 1] = c)
  <2>1. TokensAfter(t, s, i, c) = Append(t, <<s[i]>>)
    BY <1>4 DEF TokensAfter
  <2> DEFINE word == <<s[i]>>
  <2>2. word \in Word(A)
    BY <1>1, WordsGrow
  <2> HIDE DEF word
  <2>3. Append(t, word) \in Seq(Word(A)) /\ Append(t, word) # <<>>
    BY <1>1, <2>2
  <2> QED BY <1>2, <1>4, <2>1, <2>3 DEF Tokens, word
<1>5. CASE s[i] # c /\ i # 1 /\ s[i - 1] # c
  <2>1. TokensAfter(t, s, i, c) = Front(t) \o <<Append(Last(t), s[i])>>
    BY <1>5 DEF TokensAfter
  <2>2. i - 1 \in 1..(i - 1)
    BY <1>1, <1>5
  <2>3. t # <<>>
    BY <1>2, <1>5, <2>2
  <2>4. Front(t) \in Seq(Word(A)) /\ Last(t) \in Word(A)
    BY <1>1, <2>3 DEF Front, Last
  <2> DEFINE word == Append(Last(t), s[i])
             front == Front(t)
  <2>5. word \in Word(A) /\ front \in Seq(Word(A))
    BY <1>1, <2>4, WordsGrow
  <2> HIDE DEF word, front
  <2>6. front \o <<word>> \in Seq(Word(A)) /\ front \o <<word>> # <<>>
    BY <2>5
  <2> QED BY <1>2, <1>5, <2>1, <2>6 DEF Tokens, word, front
<1> QED BY <1>3, <1>4, <1>5

LEMMA NoTokens ==
  ASSUME NEW A, NEW s, NEW c
  PROVE  Tokens(<<>>, s, 0, A, c)
<1>1. 1..0 = {}
  OBVIOUS
<1>2. <<>> \in Seq(Word(A))
  OBVIOUS
<1> QED BY <1>1, <1>2, Zenon DEF Tokens

LEMMA TokensFound ==
  ASSUME NEW A, NEW s \in Seq(A), NEW c, NEW tokens,
         tokens = CHOOSE g : g = [i \in 0..Len(s) |-> IF i = 0 THEN <<>>
                                    ELSE TokensAfter(g[i - 1], s, i, c)]
  PROVE  /\ tokens[Len(s)] \in Seq(Word(A))
         /\ tokens[Len(s)] # <<>> <=> ToSet(s) \ {c} # {}
<1> DEFINE R(g) == [i \in 0..Len(s) |->
                      IF i = 0 THEN <<>> ELSE TokensAfter(g[i - 1], s, i, c)]
           T == Nat \X Seq(Word(A))
           next(p) == <<p[1] + 1, TokensAfter(p[2], s, p[1] + 1, c)>>
           step == [p \in T |-> IF next(p) \in T THEN next(p) ELSE p]
<1>1. step \in [T -> T] /\ <<0, <<>> >> \in T
  <2>1. <<>> \in Seq(Word(A))
    OBVIOUS
  <2>2. <<0, <<>> >> \in T
    BY <2>1
  <2> HIDE DEF next, T
  <2> QED BY <2>2
<1>2. PICK f : Recursive(f, T, <<0, <<>> >>, step)
  <2> HIDE DEF T, step
  <2> QED BY <1>1, RecursionExists
<1>3. \A n \in Nat : n <= Len(s) => f[n][1] = n /\ Tokens(f[n][2], s, n, A, c)
  <2> DEFINE S == {n \in Nat : n <= Len(s) => f[n][1] = n /\ Tokens(f[n][2], s, n, A, c)}
  <2>1. 0 \in S
    <3>1. f[0][1] = 0 /\ f[0][2] = <<>>
      BY <1>2 DEF Recursive
    <3> QED BY <3>1, NoTokens
  <2>2. ASSUME NEW n \in Nat, n \in S PROVE n + 1 \in S
    <3> SUFFICES ASSUME n + 1 <= Len(s)
                 PROVE  f[n + 1][1] = n + 1 /\ Tokens(f[n + 1][2], s, n + 1, A, c)
      OBVIOUS
    <3>1. f[n][1] = n /\ Tokens(f[n][2], s, n, A, c)
      BY <2>2
    <3>2. n + 1 \in 1..Len(s) /\ (n + 1) - 1 = n
      OBVIOUS
    <3>3. Tokens(TokensAfter(f[n][2], s, n + 1, c), s, n + 1, A, c)
      BY <3>1, <3>2, TokensGrow
    <3>4. next(f[n]) = <<n + 1, TokensAfter(f[n][2], s, n + 1, c)>>
      BY <3>1
    <3>5. next(f[n]) \in T
      BY <3>3, <3>4 DEF Tokens
    <3>6. f[n] \in T /\ f[n + 1] = step[f[n]]
      BY <1>2 DEF Recursive
    <3> HIDE DEF T, next
    <3>7. f[n + 1] = next(f[n])
      BY <3>5, <3>6
    <3> QED BY <3>3, <3>4, <3>7
  <2>3. Nat \subseteq S
    <3> HIDE DEF S
    <3> QED BY <2>1, <2>2, SetInduction
  <2> QED BY <2>3
<1>4. \E g : g = R(g)
  <2> DEFINE g == [i \in 0..Len(s) |-> f[i][2]]
  <2>1. ASSUME NEW i \in 0..Len(s), i # 0
        PROVE  f[i][2] = TokensAfter(f[i - 1][2], s, i, c)
    <3>1. i - 1 \in Nat /\ (i - 1) + 1 = i /\ i - 1 <= Len(s) /\ i \in 1..Len(s)
      BY <2>1
    <3>2. f[i - 1][1] = i - 1 /\ Tokens(f[i - 1][2], s, i - 1, A, c)
      BY <1>3, <3>1
    <3>3. Tokens(TokensAfter(f[i - 1][2], s, i, c), s, i, A, c)
      BY <3>1, <3>2, TokensGrow
    <3>4. next(f[i - 1]) = <<i, TokensAfter(f[i - 1][2], s, i, c)>>
      BY <3>1, <3>2
    <3>5. next(f[i - 1]) \in T
      BY <3>3, <3>4 DEF Tokens
    <3>6. f[i - 1] \in T /\ f[(i - 1) + 1] = step[f[i - 1]]
      BY <1>2, <3>1 DEF Recursive
    <3> HIDE DEF T, next
    <3>7. f[i] = next(f[i - 1])
      BY <3>1, <3>5, <3>6
    <3> QED BY <3>4, <3>7
  <2>2. \A i \in 0..Len(s) : g[i] = R(g)[i]
    <3> SUFFICES ASSUME NEW i \in 0..Len(s) PROVE g[i] = R(g)[i]
      OBVIOUS
    <3>1. CASE i = 0
      BY <1>2, <3>1 DEF Recursive
    <3>2. CASE i # 0
      <4>1. i - 1 \in 0..Len(s)
        BY <3>2
      <4> QED BY <2>1, <3>2, <4>1
    <3> QED BY <3>1, <3>2
  <2>3. g = R(g)
    BY <2>2
  <2> QED BY <2>3
<1>5. tokens = R(tokens)
  <2> HIDE DEF R
  <2> QED BY <1>4
<1>7. /\ tokens[0] = <<>>
      /\ \A i \in 1..Len(s) : tokens[i] = TokensAfter(tokens[i - 1], s, i, c)
  <2>1. 0 \in 0..Len(s) /\ \A i \in 1..Len(s) : i \in 0..Len(s) /\ i # 0
    OBVIOUS
  <2> QED BY ONLY <1>5, <2>1, Zenon
<1> DEFINE S == {n \in Nat : n <= Len(s) => Tokens(tokens[n], s, n, A, c)}
<1>8. 0 \in S
  BY <1>7, NoTokens
<1>9. ASSUME NEW n \in Nat, n \in S PROVE n + 1 \in S
  <2> SUFFICES ASSUME n + 1 <= Len(s) PROVE Tokens(tokens[n + 1], s, n + 1, A, c)
    OBVIOUS
  <2>1. n + 1 \in 1..Len(s) /\ (n + 1) - 1 = n /\ Tokens(tokens[n], s, n, A, c)
    BY <1>9
  <2>2. tokens[n + 1] = TokensAfter(tokens[n], s, n + 1, c)
    BY <1>7, <2>1
  <2> QED BY <2>1, <2>2, TokensGrow
<1>10. Nat \subseteq S
  <2> HIDE DEF S
  <2> QED BY <1>8, <1>9, SetInduction
<1>11. Tokens(tokens[Len(s)], s, Len(s), A, c)
  BY <1>10
<1>12. ToSet(s) = {s[j] : j \in 1..Len(s)}
  BY DEF ToSet
<1> QED BY <1>11, <1>12 DEF Tokens

(* An icon has titles just when its field has more than semicolons.        *)
LEMMA TitlesFound ==
  ASSUME NEW A, NEW s \in Seq(A)
  PROVE  /\ Titles(s) \in Seq(Word(A))
         /\ Titles(s) # <<>> <=> ToSet(s) \ {";"} # {}
<1> DEFINE Found(c) ==
      LET tokens == CHOOSE g : g = [i \in 0..Len(s) |-> IF i = 0 THEN <<>>
                                      ELSE TokensAfter(g[i - 1], s, i, c)]
      IN  /\ tokens[Len(s)] \in Seq(Word(A))
          /\ tokens[Len(s)] # <<>> <=> ToSet(s) \ {c} # {}
<1>1. \A c : Found(c)
  BY TokensFound
<1>2. Found(";")
  <2> HIDE DEF Found
  <2> QED BY <1>1, Zenon
<1> QED BY <1>2 DEF Titles, TokensAfter

-----------------------------------------------------------------------------
(* The slots of the records                                                *)

(* How many records have been dealt with.                                  *)
Taken == Len(Records) - Len(lines)

(* The records with a command among the first d, and the places of their   *)
(* icons in the chain.                                                     *)
Valid(d) == {k \in 1..d : Delimiters(Records[k]) > 0}
Place(k, d) == Cardinality({m \in Valid(d) : m >= k})

SlotsSoFar ==
  /\ at \in {"options", "fork"} => slots = <<>>
  /\ at \in {"icons", "run"} =>
       /\ Records \in Seq(Lines) /\ Len(lines) <= Len(Records)
       /\ \A j \in 1..Len(lines) : lines[j] = Records[Taken + j]
       /\ Len(slots) = Cardinality(Valid(Taken))
       /\ \A k \in Valid(Taken) : slots[Place(k, Taken)] = IconOf(Records[k])
  /\ at = "run" => lines = <<>>

LEMMA ValidFinite ==
  ASSUME NEW d \in Nat, NEW k
  PROVE  /\ IsFiniteSet(Valid(d)) /\ IsFiniteSet({m \in Valid(d) : m >= k})
         /\ Cardinality(Valid(d)) \in Nat /\ Place(k, d) \in Nat
         /\ Place(k, d) <= Cardinality(Valid(d))
<1>1. IsFiniteSet(1..d)
  BY FS_Interval
<1>2. Valid(d) \in SUBSET (1..d)
  BY DEF Valid
<1>3. IsFiniteSet(Valid(d))
  BY <1>1, <1>2, FS_Subset
<1>4. {m \in Valid(d) : m >= k} \in SUBSET Valid(d)
  OBVIOUS
<1>5. /\ IsFiniteSet({m \in Valid(d) : m >= k})
      /\ Cardinality({m \in Valid(d) : m >= k}) <= Cardinality(Valid(d))
  BY <1>3, <1>4, FS_Subset
<1> QED BY <1>3, <1>5, FS_CardinalityType DEF Place

(* A record without a command takes no place.                              *)
LEMMA PlacesStayPut ==
  ASSUME NEW d \in Nat, Delimiters(Records[d + 1]) = 0
  PROVE  Valid(d + 1) = Valid(d) /\ \A k : Place(k, d + 1) = Place(k, d)
<1>1. 1..(d + 1) = (1..d) \cup {d + 1}
  OBVIOUS
<1>2. ~(Delimiters(Records[d + 1]) > 0)
  BY SMT
<1>3. Valid(d + 1) = Valid(d)
  BY <1>1, <1>2 DEF Valid
<1> QED BY <1>3 DEF Place

(* One with a command moves all others by a place.                         *)
LEMMA PlacesMove ==
  ASSUME NEW d \in Nat, Delimiters(Records[d + 1]) > 0
  PROVE  /\ Valid(d + 1) = Valid(d) \cup {d + 1}
         /\ Cardinality(Valid(d + 1)) = Cardinality(Valid(d)) + 1
         /\ Place(d + 1, d + 1) = 1
         /\ \A k \in Valid(d) :
              /\ Place(k, d + 1) = Place(k, d) + 1
              /\ Place(k, d) \in 1..Cardinality(Valid(d))
<1>1. 1..(d + 1) = (1..d) \cup {d + 1}
  OBVIOUS
<1>2. Valid(d + 1) = Valid(d) \cup {d + 1}
  BY <1>1 DEF Valid
<1>3. d + 1 \notin Valid(d) /\ Valid(d) \subseteq 1..d
  BY DEF Valid
<1>4. Cardinality(Valid(d + 1)) = Cardinality(Valid(d)) + 1
  BY <1>2, <1>3, ValidFinite, FS_AddElement
<1>5. Place(d + 1, d + 1) = 1
  <2>1. {m \in Valid(d + 1) : m >= d + 1} = {d + 1}
    BY <1>2, <1>3
  <2> QED BY <2>1, FS_Singleton DEF Place
<1>6. ASSUME NEW k \in Valid(d)
      PROVE  /\ Place(k, d + 1) = Place(k, d) + 1
             /\ Place(k, d) \in 1..Cardinality(Valid(d))
  <2> DEFINE K == {m \in Valid(d) : m >= k}
  <2>1. {m \in Valid(d + 1) : m >= k} = K \cup {d + 1}
    BY <1>2, <1>3
  <2>2. IsFiniteSet(K) /\ d + 1 \notin K /\ k \in K
    <3>1. IsFiniteSet(K)
      BY ValidFinite
    <3>2. k \in Int /\ k >= k
      BY <1>3
    <3> QED BY <1>3, <3>1, <3>2
  <2>3. Place(k, d) = Cardinality(K)
    BY DEF Place
  <2> HIDE DEF K
  <2>4. Place(k, d + 1) = Place(k, d) + 1
    BY <2>1, <2>2, <2>3, FS_AddElement DEF Place
  <2>5. Place(k, d) # 0
    BY <2>2, <2>3, FS_EmptySet
  <2>6. /\ Place(k, d) \in Nat /\ Cardinality(Valid(d)) \in Nat
        /\ Place(k, d) <= Cardinality(Valid(d))
    BY ValidFinite
  <2> QED BY <2>4, <2>5, <2>6
<1> QED BY <1>2, <1>4, <1>5, <1>6

LEMMA SlotsStay ==
  ASSUME UNCHANGED <<args, file, lines, slots>>
  PROVE  /\ Records' = Records /\ Taken' = Taken
         /\ \A d : Valid(d)' = Valid(d)
         /\ \A k, d : Place(k, d)' = Place(k, d)
<1>1. Role' = Role
  BY RolesStay
<1>2. Records' = Records
  BY <1>1 DEF Records
<1> QED BY <1>2 DEF Taken, Valid, Place

LEMMA OptionSlots == SlotsSoFar /\ (Option \/ LastOption \/ ReadBehindArguments) => SlotsSoFar'
<1> SUFFICES ASSUME SlotsSoFar, Option \/ LastOption \/ ReadBehindArguments
             PROVE  SlotsSoFar'
  OBVIOUS
<1>1. /\ at = "options" /\ slots' = slots
      /\ at' \in {"options", "fork", "sent", "exit", "crashed"}
  BY DEF Option, Take, Alone, Perform, LastOption, ReadBehindArguments
<1> QED BY <1>1 DEF SlotsSoFar

LEMMA ForkSlots == CInv /\ SlotsSoFar /\ Fork => SlotsSoFar'
<1> SUFFICES ASSUME CInv, SlotsSoFar, Fork PROVE SlotsSoFar'
  OBVIOUS
<1>1. /\ at = "fork" /\ at' \in {"exit", "icons"} /\ slots = <<>>
      /\ UNCHANGED <<args, file, argc, argv, settings, slots>>
  BY DEF Fork, SlotsSoFar
<1>2. Records' = Records
  <2>1. Role' = Role
    BY <1>1, RolesStay
  <2> QED BY <1>1, <2>1 DEF Records
<1>3. CASE at' = "exit"
  BY <1>3 DEF SlotsSoFar
<1>4. CASE at' = "icons"
  <2>1. lines' = Records /\ lines' \in Seq(Lines)
    <3>1. CInv'
      BY ForkCInv
    <3>2. lines' \in Seq(Lines)
      BY <3>1 DEF CInv, CommandTypes
    <3> QED BY <1>1, <1>4, <3>2, RecordsAre DEF Fork, CInv, CommandTypes
  <2>2. Records' \in Seq(Lines) /\ Len(lines') = Len(Records') /\ Taken' = 0
    BY <1>2, <2>1 DEF Taken
  <2>3. Valid(0)' = {}
    BY DEF Valid
  <2>4. Valid(Taken)' = {}
    BY <2>2, <2>3 DEF Valid
  <2>5. \A j \in 1..Len(lines') : lines'[j] = Records'[Taken' + j]
    BY <1>2, <2>1, <2>2
  <2>6. Len(slots') = Cardinality(Valid(Taken)')
    <3>1. Len(slots') = 0
      BY <1>1
    <3> QED BY <2>4, <3>1, FS_EmptySet
  <2>7. (\A k \in Valid(Taken) : slots[Place(k, Taken)] = IconOf(Records[k]))'
    BY <2>4, Zenon
  <2>8. Len(lines') <= Len(Records')
    BY <2>2
  <2>9. at' \notin {"options", "fork", "run"}
    BY <1>4
  <2> QED BY <2>2, <2>5, <2>6, <2>7, <2>8, <2>9, Zenon DEF SlotsSoFar
<1> QED BY <1>1, <1>3, <1>4

LEMMA AddSlots == CInv /\ SlotsSoFar /\ Add => SlotsSoFar'
<1> SUFFICES ASSUME CInv, SlotsSoFar, Add, at' = "icons" PROVE SlotsSoFar'
  BY DEF Add, DockAdd, SlotsSoFar
<1> DEFINE d == Taken
           r == Records[d + 1]
<1>1. /\ at = "icons" /\ lines # <<>> /\ lines' = Tail(lines)
      /\ UNCHANGED <<args, file, argc, argv, settings>>
      /\ lines \in Seq(Lines) /\ slots \in Seq(Icons)
  BY DEF Add, CInv, CommandTypes
<1>2. Records' = Records
  <2>1. Role' = Role
    BY <1>1, RolesStay
  <2> QED BY <1>1, <2>1 DEF Records
<1>3. /\ Records \in Seq(Lines) /\ Len(lines) <= Len(Records)
      /\ \A j \in 1..Len(lines) : lines[j] = Records[d + j]
      /\ Len(slots) = Cardinality(Valid(d))
      /\ \A k \in Valid(d) : slots[Place(k, d)] = IconOf(Records[k])
  BY <1>1 DEF SlotsSoFar
<1>4. /\ Len(lines) \in Nat \ {0} /\ Len(Records) \in Nat /\ Head(lines) = lines[1]
      /\ Len(lines') = Len(lines) - 1
      /\ \A j \in 1..Len(lines') : lines'[j] = lines[j + 1] /\ j + 1 \in 1..Len(lines)
  BY <1>1, <1>3
<1>5. d \in Nat /\ Taken' = d + 1
  BY <1>2, <1>3, <1>4 DEF Taken
<1> HIDE DEF d
<1>6. Head(lines) = r
  BY <1>3, <1>4
<1>7. \A j \in 1..Len(lines') : lines'[j] = Records[(d + 1) + j]
  <2> SUFFICES ASSUME NEW j \in 1..Len(lines') PROVE lines'[j] = Records[(d + 1) + j]
    OBVIOUS
  <2>1. lines'[j] = Records[d + (j + 1)]
    BY <1>3, <1>4
  <2>2. d + (j + 1) = (d + 1) + j
    BY <1>5
  <2> QED BY <2>1, <2>2
<1>8. Len(lines') <= Len(Records)
  BY <1>3, <1>4
<1>9. /\ Len(slots') = Cardinality(Valid(d + 1))
      /\ \A k \in Valid(d + 1) : slots'[Place(k, d + 1)] = IconOf(Records[k])
  <2>1. CASE Delimiters(r) = 0 /\ UNCHANGED slots
    BY <1>3, <1>5, <2>1, PlacesStayPut
  <2>2. CASE Delimiters(r) > 0 /\ slots' = <<IconOf(r)>> \o slots
    <3>1. /\ Valid(d + 1) = Valid(d) \cup {d + 1}
          /\ Cardinality(Valid(d + 1)) = Cardinality(Valid(d)) + 1
          /\ Place(d + 1, d + 1) = 1
          /\ \A k \in Valid(d) : /\ Place(k, d + 1) = Place(k, d) + 1
                                 /\ Place(k, d) \in 1..Cardinality(Valid(d))
      BY <1>5, <2>2, PlacesMove
    <3> DEFINE icon == IconOf(r)
    <3>2. slots' = <<icon>> \o slots
      BY <2>2
    <3> HIDE DEF icon, r
    <3>3. /\ Len(slots') = Len(slots) + 1 /\ slots'[1] = icon
          /\ \A i \in 1..Len(slots) : slots'[i + 1] = slots[i]
      BY <1>1, <3>2
    <3>4. ASSUME NEW k \in Valid(d)
          PROVE  slots'[Place(k, d + 1)] = IconOf(Records[k])
      <4>1. slots'[Place(k, d) + 1] = slots[Place(k, d)]
        BY <1>3, <3>1, <3>3
      <4> QED BY <1>3, <3>1, <4>1
    <3>5. slots'[Place(d + 1, d + 1)] = IconOf(Records[d + 1])
      BY <3>1, <3>3 DEF icon, r
    <3> QED BY <1>3, <3>1, <3>3, <3>4, <3>5
  <2> QED BY <1>1, <1>6, <2>1, <2>2, Zenon DEF Add, DockAdd
<1>10. Valid(Taken)' = Valid(d + 1) /\ \A k : Place(k, Taken)' = Place(k, d + 1)
  BY <1>2, <1>5 DEF Valid, Place
<1>11. /\ Records' \in Seq(Lines) /\ Len(lines') <= Len(Records')
       /\ \A j \in 1..Len(lines') : lines'[j] = Records'[Taken' + j]
  BY <1>2, <1>3, <1>5, <1>7, <1>8
<1>12. Len(slots') = Cardinality(Valid(Taken)')
  BY <1>9, <1>10
<1>13. (\A k \in Valid(Taken) : slots[Place(k, Taken)] = IconOf(Records[k]))'
  BY <1>2, <1>9, <1>10
<1>14. at' \notin {"options", "fork", "run"}
  OBVIOUS
<1> QED BY <1>11, <1>12, <1>13, <1>14, Zenon DEF SlotsSoFar

LEMMA RunSlots == SlotsSoFar /\ Run => SlotsSoFar'
<1> SUFFICES ASSUME SlotsSoFar, Run PROVE SlotsSoFar'
  OBVIOUS
<1>1. /\ at = "icons" /\ at' \in {"exit", "run"} /\ lines = <<>>
      /\ UNCHANGED <<args, file, lines, slots>>
  BY DEF Run
<1> QED BY <1>1, SlotsStay DEF SlotsSoFar

-----------------------------------------------------------------------------
(* What a pattern can stand for                                            *)

Words == UNION {Range(l) : l \in Lines}

Pattern == call.pattern
Title == call.title

Called == /\ Pattern \in Seq(Words) /\ Title \in Seq(Chars)
          /\ Len(Pattern) \in Nat /\ Len(Title) \in Nat

(* One more character of the pattern.                                      *)
Onward(i, S) ==
  IF M!Void(i) THEN S
  ELSE IF Pattern[i] = "*" THEN {k \in 0..Len(Title) : \E h \in S : h <= k}
  ELSE {k \in 1..Len(Title) :
          k - 1 \in S /\ (Pattern[i] = "?" \/ M!Same(Pattern[i], Title[k]))}

(* The recursive function Reach is what its definition says.               *)
LEMMA ReachValues ==
  ASSUME Called
  PROVE  /\ M!Reach[0] = {0}
         /\ \A i \in 0..Len(Pattern) : M!Reach[i] \subseteq 0..Len(Title)
         /\ \A i \in 1..Len(Pattern) : M!Reach[i] = Onward(i, M!Reach[i - 1])
<1> DEFINE n == Len(Pattern)
           T == SUBSET (0..Len(Title))
           R(g) == [i \in 0..Len(Pattern) |->
                      IF i = 0 THEN {0} ELSE Onward(i, g[i - 1])]
           step == [x \in (1..n) \X T |-> Onward(x[1], x[2])]
<1>1. M!Reach = CHOOSE g : g = R(g)
  BY DEF M!Reach, Onward, Pattern, Title
<1>2. n \in Nat /\ {0} \in T
  BY DEF Called
<1>3. step \in [(1..n) \X T -> T]
  <2>1. \A i \in 1..n, S \in T : Onward(i, S) \in T
    BY DEF Onward
  <2> QED BY <2>1
<1>4. PICK f : Indexed(f, n, T, {0}, step)
  <2> HIDE DEF n, T, step
  <2> QED BY <1>2, <1>3, IndexedExists
<1>5. f = R(f)
  <2>1. f \in [0..n -> T] /\ f[0] = {0}
    BY <1>4 DEF Indexed
  <2>2. ASSUME NEW i \in 0..n PROVE f[i] = R(f)[i]
    <3>1. CASE i = 0
      BY <2>1, <3>1
    <3>2. CASE i # 0
      <4>1. i - 1 \in 0..n /\ i \in 1..n
        BY <1>2, <3>2
      <4>2. f[i - 1] \in T /\ f[i] = step[<<i, f[i - 1]>>]
        BY <1>4, <2>1, <4>1 DEF Indexed
      <4>3. f[i] = Onward(i, f[i - 1])
        <5> HIDE DEF T, n
        <5> QED BY <4>1, <4>2
      <4> QED BY <3>2, <4>3
    <3> QED BY <3>1, <3>2
  <2> QED BY <2>1, <2>2
<1>6. M!Reach = R(M!Reach)
  <2> HIDE DEF R
  <2> QED BY <1>1, <1>5
<1>7. /\ M!Reach[0] = {0}
      /\ \A i \in 1..Len(Pattern) : M!Reach[i] = Onward(i, M!Reach[i - 1])
  <2>1. 0 \in 0..Len(Pattern) /\ \A i \in 1..Len(Pattern) : i \in 0..Len(Pattern) /\ i # 0
    BY <1>2
  <2> QED BY ONLY <1>6, <2>1, Zenon
<1> DEFINE U == {m \in Nat : m <= n => M!Reach[m] \in T}
<1>8. 0 \in U
  BY <1>2, <1>7
<1>9. ASSUME NEW m \in Nat, m \in U PROVE m + 1 \in U
  <2> SUFFICES ASSUME m + 1 <= n PROVE M!Reach[m + 1] \in T
    OBVIOUS
  <2>1. M!Reach[m] \in T /\ m + 1 \in 1..n /\ (m + 1) - 1 = m
    BY <1>2, <1>9
  <2>2. M!Reach[m + 1] = Onward(m + 1, M!Reach[m])
    BY <1>7, <2>1
  <2> QED BY <2>1, <2>2 DEF Onward
<1>10. Nat \subseteq U
  <2> HIDE DEF U
  <2> QED BY <1>8, <1>9, SetInduction
<1>11. \A i \in 0..Len(Pattern) : M!Reach[i] \in T
  BY <1>2, <1>10
<1> QED BY <1>7, <1>11

(* Where no part of the title is left, none will be.                       *)
LEMMA NothingReached ==
  ASSUME Called, NEW i \in 0..Len(Pattern), M!Reach[i] = {}
  PROVE  M!Reach[Len(Pattern)] = {}
<1> DEFINE S == {m \in Nat : i + m <= Len(Pattern) => M!Reach[i + m] = {}}
<1>1. 0 \in S
  BY DEF Called
<1>2. ASSUME NEW m \in Nat, m \in S PROVE m + 1 \in S
  <2> SUFFICES ASSUME i + (m + 1) <= Len(Pattern) PROVE M!Reach[i + (m + 1)] = {}
    OBVIOUS
  <2> DEFINE k == i + (m + 1)
  <2>1. k \in 1..Len(Pattern) /\ k - 1 = i + m /\ M!Reach[i + m] = {}
    BY <1>2 DEF Called
  <2> HIDE DEF k
  <2>2. M!Reach[k] = Onward(k, {})
    BY <2>1, ReachValues
  <2>3. M!Reach[k] = {}
    BY <2>2 DEF Onward
  <2> QED BY <2>3 DEF k
<1>3. Nat \subseteq S
  <2> HIDE DEF S
  <2> QED BY <1>1, <1>2, SetInduction
<1>4. Len(Pattern) - i \in Nat /\ i + (Len(Pattern) - i) = Len(Pattern)
  BY DEF Called
<1>5. Len(Pattern) - i \in S
  BY <1>3, <1>4
<1> QED BY <1>4, <1>5

(* A ? counts for nothing just if the character before it is a *, or a ?   *)
(* that counts for nothing.                                                *)
LEMMA VoidAfter ==
  ASSUME NEW i \in Nat \ {0}
  PROVE  M!Void(i + 1) <=> Pattern[i + 1] = "?" /\ (Pattern[i] = "*" \/ M!Void(i))
<1> USE DEF Pattern
<1>1. ASSUME M!Void(i + 1), Pattern[i] # "*" PROVE M!Void(i)
  <2>1. PICK j \in 1..((i + 1) - 1) :
          Pattern[j] = "*" /\ \A k \in (j + 1)..((i + 1) - 1) : Pattern[k] = "?"
    BY <1>1 DEF M!Void
  <2>2. j # i
    BY <1>1, <2>1
  <2>3. j \in 1..(i - 1) /\ i \in (j + 1)..((i + 1) - 1)
    BY <2>1, <2>2
  <2>4. \A k \in (j + 1)..(i - 1) : k \in (j + 1)..((i + 1) - 1)
    BY <2>3
  <2> QED BY <2>1, <2>3, <2>4 DEF M!Void
<1>2. ASSUME Pattern[i + 1] = "?", Pattern[i] = "*" PROVE M!Void(i + 1)
  <2>1. i \in 1..((i + 1) - 1) /\ (i + 1)..((i + 1) - 1) = {}
    OBVIOUS
  <2> QED BY <1>2, <2>1 DEF M!Void
<1>3. ASSUME Pattern[i + 1] = "?", M!Void(i) PROVE M!Void(i + 1)
  <2>1. PICK j \in 1..(i - 1) :
          Pattern[j] = "*" /\ \A k \in (j + 1)..(i - 1) : Pattern[k] = "?"
    BY <1>3 DEF M!Void
  <2>2. Pattern[i] = "?"
    BY <1>3 DEF M!Void
  <2>3. \A k \in (j + 1)..((i + 1) - 1) : k = i \/ k \in (j + 1)..(i - 1)
    BY <2>1
  <2>4. j \in 1..((i + 1) - 1)
    BY <2>1
  <2> QED BY <1>3, <2>1, <2>2, <2>3, <2>4 DEF M!Void
<1>4. M!Void(i + 1) => Pattern[i + 1] = "?"
  BY DEF M!Void
<1> QED BY <1>1, <1>2, <1>3, <1>4

(* Wildcards that begin with a * stand for anything.                       *)
LEMMA WildcardsReach ==
  ASSUME Called, NEW o \in Nat, NEW m \in Nat, m > 0, o + m <= Len(Pattern),
         Pattern[o + 1] = "*",
         \A i \in 1..m : Pattern[o + i] \in M!Wildcards
  PROVE  M!Reach[o + m] = {k \in 0..Len(Title) : \E h \in M!Reach[o] : h <= k}
<1> DEFINE Up == {k \in 0..Len(Title) : \E h \in M!Reach[o] : h <= k}
           Skipped(i) == M!Reach[i] = Up /\ (Pattern[i] = "*" \/ M!Void(i))
           S == {n \in Nat : n + 1 <= m => Skipped(o + (n + 1))}
<1>1. M!Reach[o] \subseteq 0..Len(Title) /\ Len(Title) \in Nat /\ Len(Pattern) \in Nat
  <2>1. o \in 0..Len(Pattern)
    BY DEF Called
  <2> QED BY <2>1, ReachValues DEF Called
<1>2. 0 \in S
  <2>1. o + 1 \in 1..Len(Pattern) /\ (o + 1) - 1 = o
    BY <1>1
  <2>2. M!Reach[o + 1] = Onward(o + 1, M!Reach[o])
    BY <2>1, ReachValues
  <2>3. ~M!Void(o + 1)
    BY DEF M!Void, Pattern
  <2>4. M!Reach[o + 1] = Up
    BY <2>2, <2>3 DEF Onward
  <2> QED BY <2>4
<1>3. ASSUME NEW n \in Nat, n \in S PROVE n + 1 \in S
  <2> SUFFICES ASSUME (n + 1) + 1 <= m PROVE Skipped(o + ((n + 1) + 1))
    OBVIOUS
  <2> DEFINE i == o + (n + 1)
  <2>1. /\ i \in Nat \ {0} /\ i + 1 \in 1..Len(Pattern) /\ (i + 1) - 1 = i
        /\ i + 1 = o + ((n + 1) + 1) /\ (n + 1) + 1 \in 1..m /\ n + 1 <= m
    BY <1>1
  <2>2. Skipped(i)
    BY <1>3, <2>1
  <2>3. Pattern[i + 1] \in M!Wildcards
    BY <2>1
  <2>4. M!Reach[i + 1] = Onward(i + 1, Up)
    <3> HIDE DEF i, Up
    <3> QED BY <2>1, <2>2, ReachValues
  <2>5. Skipped(i + 1)
    <3> HIDE DEF i
    <3>1. CASE Pattern[i + 1] = "*"
      <4>1. ~M!Void(i + 1)
        BY <3>1 DEF M!Void, Pattern
      <4>2. M!Reach[i + 1] = {k \in 0..Len(Title) : \E h \in Up : h <= k}
        BY <2>4, <3>1, <4>1 DEF Onward
      <4>3. {k \in 0..Len(Title) : \E h \in Up : h <= k} = Up
        <5>1. ASSUME NEW k \in 0..Len(Title), NEW h \in Up, h <= k PROVE k \in Up
          <6>1. PICK g \in M!Reach[o] : g <= h
            BY <5>1
          <6>2. g \in Int /\ h \in Int /\ g <= k
            BY <1>1, <5>1, <6>1
          <6> QED BY <6>1, <6>2
        <5>2. \A k \in Up : k <= k
          BY <1>1
        <5> QED BY <5>1, <5>2
      <4> QED BY <3>1, <4>2, <4>3
    <3>2. CASE Pattern[i + 1] = "?"
      <4>1. M!Void(i + 1)
        BY <2>1, <2>2, <3>2, VoidAfter
      <4> QED BY <2>4, <4>1 DEF Onward
    <3> QED BY <2>3, <3>1, <3>2 DEF M!Wildcards
  <2> QED BY <2>1, <2>5
<1>4. Nat \subseteq S
  <2> HIDE DEF S
  <2> QED BY <1>2, <1>3, SetInduction
<1>5. m - 1 \in S /\ (m - 1) + 1 = m
  BY <1>4
<1> QED BY <1>5

(* Other characters stand for themselves.                                  *)
LEMMA LettersReach ==
  ASSUME Called, NEW o \in Nat, NEW q \in Nat, o + q <= Len(Pattern),
         \A i \in 1..q : Pattern[o + i] \in Chars
  PROVE  M!Reach[o + q] =
           {k \in q..Len(Title) :
              /\ k - q \in M!Reach[o]
              /\ \A x \in 1..q : M!Same(Pattern[o + x], Title[(k - q) + x])}
<1> DEFINE Read(n) ==
             {k \in n..Len(Title) :
                /\ k - n \in M!Reach[o]
                /\ \A x \in 1..n : M!Same(Pattern[o + x], Title[(k - n) + x])}
           Good(n) == M!Reach[o + n] = Read(n)
           S == {n \in Nat : n <= q => Good(n)}
<1>1. M!Reach[o] \subseteq 0..Len(Title) /\ Len(Title) \in Nat /\ Len(Pattern) \in Nat
  <2>1. o \in 0..Len(Pattern)
    BY DEF Called
  <2> QED BY <2>1, ReachValues DEF Called
<1>2. 0 \in S
  <2>1. \A k \in 0..Len(Title) : k - 0 = k
    BY <1>1
  <2>2. Read(0) = M!Reach[o]
    BY <1>1, <2>1
  <2> QED BY <2>2
<1>3. ASSUME NEW n \in Nat, n \in S PROVE n + 1 \in S
  <2> HIDE DEF Good
  <2> SUFFICES ASSUME n + 1 <= q PROVE Good(n + 1)
    OBVIOUS
  <2> DEFINE i == o + (n + 1)
  <2>1. i \in 1..Len(Pattern) /\ i - 1 = o + n /\ n + 1 \in 1..q /\ n <= q
    BY <1>1
  <2>2. M!Reach[i - 1] = Read(n)
    BY <1>3, <2>1 DEF Good
  <2>3. Pattern[i] \in Chars /\ Pattern[i] # "*" /\ Pattern[i] # "?" /\ ~M!Void(i)
    BY <2>1, PatternAssumption DEF M!CharsAssumption, M!Wildcards, M!Void, Pattern
  <2>4. M!Reach[i] = Onward(i, Read(n))
    <3> HIDE DEF i, Read
    <3> QED BY <2>1, <2>2, ReachValues
  <2>5. M!Reach[i] = {k \in 1..Len(Title) : k - 1 \in Read(n) /\ M!Same(Pattern[i], Title[k])}
    <3> HIDE DEF i, Read
    <3> QED BY <2>3, <2>4 DEF Onward
  <2>6. ASSUME NEW k \in 1..Len(Title)
        PROVE  k - 1 \in Read(n) /\ M!Same(Pattern[i], Title[k]) <=> k \in Read(n + 1)
    <3>1. /\ k \in Int /\ (k - 1) - n = k - (n + 1)
          /\ (k - (n + 1)) + (n + 1) = k
          /\ k - 1 \in n..Len(Title) <=> k \in (n + 1)..Len(Title)
          /\ 1..(n + 1) = (1..n) \cup {n + 1}
      BY <1>1
    <3> DEFINE d == k - (n + 1)
    <3>2. k - 1 \in Read(n) <=>
            /\ k \in (n + 1)..Len(Title) /\ d \in M!Reach[o]
            /\ \A x \in 1..n : M!Same(Pattern[o + x], Title[d + x])
      BY <3>1
    <3>3. k \in Read(n + 1) <=>
            /\ k \in (n + 1)..Len(Title) /\ d \in M!Reach[o]
            /\ \A x \in 1..(n + 1) : M!Same(Pattern[o + x], Title[d + x])
      OBVIOUS
    <3>4. Pattern[o + (n + 1)] = Pattern[i] /\ Title[d + (n + 1)] = Title[k]
      BY <3>1
    <3> HIDE DEF Read, d, i
    <3> QED BY <3>1, <3>2, <3>3, <3>4
  <2>7. Read(n + 1) \subseteq 1..Len(Title)
    BY <1>1
  <2>8. M!Reach[i] = Read(n + 1)
    <3> HIDE DEF Read, i
    <3>1. \A k : k \in M!Reach[i] <=> k \in Read(n + 1)
      BY <2>5, <2>6, <2>7, Zenon
    <3> QED BY <3>1
  <2> QED BY <2>8 DEF Good
<1>4. Nat \subseteq S
  <2> HIDE DEF S
  <2> QED BY <1>2, <1>3, SetInduction
<1>5. q \in S
  BY <1>4
<1> QED BY <1>5

-----------------------------------------------------------------------------
(* matchesPattern                                                          *)

(* What matchesPattern has read of the pattern and the title.              *)
Reads(o, n) ==
  /\ o \in 0..Len(Pattern) /\ n \in M!Reach[o]
  /\ pattern = M!From(Pattern, o) /\ literal = M!From(Title, n)
  /\ o < Len(Pattern) => ~M!Void(o + 1)

(* Why nothing is lost by having read n characters of the title for the    *)
(* first o of a simple pattern: there was no choice, or the pattern ends   *)
(* and so does the title if it can, or anything is right from here on.  A  *)
(* character the program does not know of would be read again and again.   *)
NoChoice(o, n) == (\A j \in 1..o : Pattern[j] # "*") /\ M!Reach[o] = {n}
LastChoice(o, n) == o = Len(Pattern) /\ (Len(Title) \in M!Reach[o] => n = Len(Title))
AnyChoice(o) ==
  /\ o < Len(Pattern) /\ Pattern[o + 1] = "*"
  /\ \A k \in (o + 1)..Len(Pattern) : Pattern[k] \in M!Wildcards
Unknown(o) == o < Len(Pattern) /\ Pattern[o + 1] \notin Chars \cup M!Wildcards

NothingLost(o, n) ==
  NoChoice(o, n) \/ LastChoice(o, n) \/ AnyChoice(o) \/ Unknown(o)

PatternInv ==
  /\ Called
  /\ result = "open" =>
       \E o, n : Reads(o, n) /\ (M!Simple(Pattern) => NothingLost(o, n))
  /\ M!DecidesRight

ReachOf(c) ==
  CHOOSE reach :
    reach = [i \in 0..Len(c.pattern) |->
       IF i = 0 THEN {0}
       ELSE IF /\ c.pattern[i] = "?"
               /\ \E j \in 1..(i - 1) :
                    c.pattern[j] = "*" /\ \A k \in (j + 1)..(i - 1) : c.pattern[k] = "?"
       THEN reach[i - 1]
       ELSE IF c.pattern[i] = "*"
       THEN {k \in 0..Len(c.title) : \E h \in reach[i - 1] : h <= k}
       ELSE {k \in 1..Len(c.title) :
               /\ k - 1 \in reach[i - 1]
               /\ \/ c.pattern[i] = "?"
                  \/ c.pattern[i] = c.title[k]
                  \/ ~c.casesensitive /\ Lower(c.pattern[i]) = Lower(c.title[k])}]

(* What the pattern can stand for depends on the arguments alone.          *)
LEMMA ReachStays == UNCHANGED call => M!Reach' = M!Reach
<1>1. M!Reach = ReachOf(call)
  BY DEF M!Reach, M!Void, M!Same, ReachOf
<1>2. M!Reach' = ReachOf(call')
  BY DEF M!Reach, M!Void, M!Same, ReachOf
<1> QED BY <1>1, <1>2

(* Another turn of the loop.                                               *)
LEMMA GoingOn ==
  ASSUME Called, M!DecidesRight, UNCHANGED call, result' = "open", NEW o, NEW n,
         Reads(o, n)', M!Simple(Pattern) => NothingLost(o, n)
  PROVE  PatternInv'
<1>1. Called' /\ (M!Simple(Pattern)' <=> M!Simple(Pattern))
  BY DEF Called, Pattern, Title, M!Simple
<1>2. NothingLost(o, n)' <=> NothingLost(o, n)
  BY ReachStays
     DEF NothingLost, NoChoice, LastChoice, AnyChoice, Unknown, Pattern, Title
<1>3. M!DecidesRight'
  BY DEF M!DecidesRight
<1> QED BY <1>1, <1>2, <1>3 DEF PatternInv

(* A return.                                                               *)
LEMMA Deciding ==
  ASSUME Called, UNCHANGED call,
         \/ result' = "true" /\ M!Matches
         \/ result' = "false" /\ (M!Simple(Pattern) => ~M!Matches)
  PROVE  PatternInv'
<1>1. Called' /\ (M!Simple(Pattern)' <=> M!Simple(Pattern))
  BY DEF Called, Pattern, Title, M!Simple
<1>2. M!Matches' <=> M!Matches
  BY ReachStays DEF M!Matches
<1>3. M!DecidesRight'
  BY <1>1, <1>2 DEF M!DecidesRight, Pattern
<1> QED BY <1>1, <1>3 DEF PatternInv

(* What is left of a sequence.                                             *)
LEMMA FromIs ==
  ASSUME NEW A, NEW s \in Seq(A), NEW n \in 0..Len(s)
  PROVE  /\ M!From(s, n) \in Seq(A) /\ Len(M!From(s, n)) = Len(s) - n
         /\ Len(M!From(s, n)) \in Nat
         /\ \A i \in 1..(Len(s) - n) : M!From(s, n)[i] = s[n + i]
         /\ \A k \in 0..(Len(s) - n) : M!From(M!From(s, n), k) = M!From(s, n + k)
<1>1. /\ Len(s) \in Nat
      /\ \A k \in 0..Len(s) :
           /\ SubSeq(s, k + 1, Len(s)) \in Seq(A)
           /\ Len(SubSeq(s, k + 1, Len(s))) = Len(s) - k
           /\ \A i \in 1..(Len(s) - k) : SubSeq(s, k + 1, Len(s))[i] = s[k + i]
  OBVIOUS
<1>2. \A k \in 0..Len(s) : /\ M!From(s, k) \in Seq(A) /\ Len(M!From(s, k)) = Len(s) - k
                           /\ \A i \in 1..(Len(s) - k) : M!From(s, k)[i] = s[k + i]
  BY <1>1 DEF M!From
<1>3. ASSUME NEW k \in 0..(Len(s) - n) PROVE M!From(M!From(s, n), k) = M!From(s, n + k)
  <2> DEFINE t == M!From(s, n)
  <2>1. t \in Seq(A) /\ Len(t) = Len(s) - n /\ k \in 0..Len(t) /\ n + k \in 0..Len(s)
    BY <1>1, <1>2
  <2>2. \A i \in 1..Len(t) : t[i] = s[n + i]
    BY <1>2, <2>1
  <2> HIDE DEF t
  <2> DEFINE u == SubSeq(t, k + 1, Len(t))
             v == SubSeq(s, (n + k) + 1, Len(s))
  <2>3. /\ u \in Seq(A) /\ Len(u) = Len(t) - k
        /\ \A i \in 1..(Len(t) - k) : u[i] = t[k + i]
    BY <2>1
  <2>4. /\ v \in Seq(A) /\ Len(v) = Len(s) - (n + k)
        /\ \A i \in 1..(Len(s) - (n + k)) : v[i] = s[(n + k) + i]
    BY <1>1, <2>1
  <2> HIDE DEF u, v
  <2>5. Len(u) = Len(v) /\ Len(u) \in Nat
    BY <1>1, <2>1, <2>3, <2>4
  <2>6. \A i \in 1..Len(u) : u[i] = v[i]
    <3> SUFFICES ASSUME NEW i \in 1..Len(u) PROVE u[i] = v[i]
      OBVIOUS
    <3>1. /\ k + i \in 1..Len(t) /\ n + (k + i) = (n + k) + i
          /\ i \in 1..(Len(t) - k) /\ i \in 1..(Len(s) - (n + k))
      BY <1>1, <2>1, <2>3
    <3>2. u[i] = t[k + i] /\ t[k + i] = s[n + (k + i)]
      BY <2>2, <2>3, <3>1
    <3>3. v[i] = s[(n + k) + i]
      BY <2>4, <3>1
    <3> QED BY <3>1, <3>2, <3>3
  <2>7. u = v
    <3>1. ASSUME NEW x \in Seq(A), NEW y \in Seq(A), Len(x) = Len(y),
                 \A i \in 1..Len(x) : x[i] = y[i]
          PROVE  x = y
      BY <3>1
    <3> QED BY <2>3, <2>4, <2>5, <2>6, <3>1
  <2> QED BY <2>7 DEF u, v, t, M!From
<1> QED BY <1>1, <1>2, <1>3

(* What is left of the pattern and of the title.                           *)
LEMMA LeftToRead ==
  ASSUME Called, NEW o, NEW n, Reads(o, n)
  PROVE  /\ o \in 0..Len(Pattern) /\ n \in 0..Len(Title)
         /\ pattern \in Seq(Words) /\ Len(pattern) = Len(Pattern) - o
         /\ \A i \in 1..(Len(Pattern) - o) : pattern[i] = Pattern[o + i]
         /\ pattern = <<>> <=> o = Len(Pattern)
         /\ pattern # <<>> => o < Len(Pattern) /\ Head(pattern) = Pattern[o + 1]
         /\ literal \in Seq(Chars) /\ Len(literal) = Len(Title) - n
         /\ \A i \in 1..(Len(Title) - n) : literal[i] = Title[n + i]
         /\ literal = <<>> <=> n = Len(Title)
         /\ literal # <<>> => n < Len(Title) /\ Head(literal) = Title[n + 1]
<1>1. o \in 0..Len(Pattern) /\ n \in 0..Len(Title)
  BY ReachValues DEF Reads
<1>2. /\ pattern \in Seq(Words) /\ Len(pattern) = Len(Pattern) - o
      /\ \A i \in 1..(Len(Pattern) - o) : pattern[i] = Pattern[o + i]
  BY <1>1, FromIs DEF Reads, Called
<1>3. /\ literal \in Seq(Chars) /\ Len(literal) = Len(Title) - n
      /\ \A i \in 1..(Len(Title) - n) : literal[i] = Title[n + i]
  BY <1>1, FromIs DEF Reads, Called
<1>4. ASSUME NEW A, NEW s \in Seq(A), NEW L \in Nat, NEW k \in 0..L, Len(s) = L - k,
             NEW S, \A i \in 1..(L - k) : s[i] = S[k + i]
      PROVE  s = <<>> <=> k = L
  BY <1>4
<1>5. ASSUME NEW A, NEW s \in Seq(A), NEW L \in Nat, NEW k \in 0..L, Len(s) = L - k,
             NEW S, \A i \in 1..(L - k) : s[i] = S[k + i], s # <<>>
      PROVE  k < L /\ Head(s) = S[k + 1]
  <2>1. k < L
    BY <1>4, <1>5
  <2>2. 1 \in 1..(L - k) /\ Head(s) = s[1]
    BY <1>5, <2>1
  <2> QED BY <1>5, <2>1, <2>2
<1>6. Len(Pattern) \in Nat /\ Len(Title) \in Nat
  BY DEF Called
<1>7. /\ pattern = <<>> <=> o = Len(Pattern)
      /\ literal = <<>> <=> n = Len(Title)
  BY <1>1, <1>2, <1>3, <1>4, <1>6
<1>8. pattern # <<>> => o < Len(Pattern) /\ Head(pattern) = Pattern[o + 1]
  BY <1>1, <1>2, <1>5, <1>6
<1>9. literal # <<>> => n < Len(Title) /\ Head(literal) = Title[n + 1]
  BY <1>1, <1>3, <1>5, <1>6
<1> QED BY <1>1, <1>2, <1>3, <1>7, <1>8, <1>9

(* The two pointers are moved on.                                          *)
LEMMA Forward ==
  ASSUME Called, UNCHANGED call, NEW o, NEW n, Reads(o, n),
         NEW p \in 0..(Len(Pattern) - o), NEW l \in 0..(Len(Title) - n), M!GoOn(p, l),
         n + l \in M!Reach[o + p], o + p < Len(Pattern) => ~M!Void((o + p) + 1)
  PROVE  Reads(o + p, n + l)'
<1>1. o \in 0..Len(Pattern) /\ n \in 0..Len(Title)
  BY LeftToRead
<1>2. Len(Pattern) \in Nat /\ Len(Title) \in Nat
  BY DEF Called
<1>3. pattern' = M!From(pattern, p) /\ literal' = M!From(literal, l)
  BY DEF M!GoOn
<1>4. pattern' = M!From(Pattern, o + p)
  BY <1>1, <1>3, FromIs DEF Reads, Called
<1>5. literal' = M!From(Title, n + l)
  BY <1>1, <1>3, FromIs DEF Reads, Called
<1>6. o + p \in 0..Len(Pattern)
  BY <1>1, <1>2
<1>7. Pattern' = Pattern /\ Title' = Title /\ M!Reach' = M!Reach
  BY ReachStays DEF Pattern, Title
<1>8. M!Void((o + p) + 1)' <=> M!Void((o + p) + 1)
  BY DEF M!Void
<1> QED BY <1>4, <1>5, <1>6, <1>7, <1>8 DEF Reads

(* At the end of the pattern all of the title has to be read.              *)
LEMMA EndOfPatternInv ==
  ASSUME PatternInv, result = "open", M!EndOfPattern
  PROVE  PatternInv'
<1>1. PICK o, n : Reads(o, n) /\ (M!Simple(Pattern) => NothingLost(o, n))
  BY DEF PatternInv
<1>2. Called /\ o = Len(Pattern) /\ n \in M!Reach[o] /\ (literal = <<>> <=> n = Len(Title))
  BY <1>1, LeftToRead DEF PatternInv, M!EndOfPattern, Reads
<1>3. UNCHANGED call /\ result' = IF literal = <<>> THEN "true" ELSE "false"
  BY DEF M!EndOfPattern, M!Return
<1>4. CASE n = Len(Title)
  <2>1. M!Matches
    BY <1>2, <1>4 DEF M!Matches, Pattern, Title
  <2> QED BY <1>2, <1>3, <1>4, <2>1, Deciding
<1>5. CASE n # Len(Title)
  <2>1. ASSUME NothingLost(o, n) PROVE ~M!Matches
    <3>1. Len(Title) \notin M!Reach[o]
      BY <1>2, <1>5, <2>1 DEF NothingLost, NoChoice, LastChoice, AnyChoice, Unknown, Called
    <3> QED BY <1>2, <3>1 DEF M!Matches, Pattern, Title
  <2> QED BY <1>1, <1>2, <1>3, <1>5, <2>1, Deciding
<1> QED BY <1>4, <1>5

(* A character that stands for one of the title.                           *)
LEMMA OneCharacterInv ==
  ASSUME PatternInv, result = "open", UNCHANGED call,
         NEW o, NEW n, Reads(o, n), M!Simple(Pattern) => NothingLost(o, n),
         o < Len(Pattern), Pattern[o + 1] \in Chars \cup {"?"},
         NEW fits \in BOOLEAN,
         fits <=> n < Len(Title) /\ (Pattern[o + 1] = "?"
                                       \/ M!Same(Pattern[o + 1], Title[n + 1])),
         ~fits => M!Return(FALSE),
         fits => M!GoOn(1, 1)
  PROVE  PatternInv'
<1>1. /\ Called /\ o \in 0..Len(Pattern) /\ n \in 0..Len(Title) /\ n \in M!Reach[o]
      /\ Len(Pattern) \in Nat /\ Len(Title) \in Nat
  BY LeftToRead DEF PatternInv, Called, Reads
<1>2. Pattern[o + 1] # "*" /\ ~M!Void(o + 1)
  BY PatternAssumption DEF M!CharsAssumption, M!Wildcards, Reads
<1>3. M!Reach[o + 1] =
        {k \in 1..Len(Title) :
           k - 1 \in M!Reach[o] /\ (Pattern[o + 1] = "?" \/ M!Same(Pattern[o + 1], Title[k]))}
  <2>1. o + 1 \in 1..Len(Pattern) /\ (o + 1) - 1 = o
    BY <1>1
  <2>2. M!Reach[o + 1] = Onward(o + 1, M!Reach[o])
    BY <1>1, <2>1, ReachValues
  <2> QED BY <1>2, <2>2 DEF Onward
<1>4. NothingLost(o, n) => NoChoice(o, n)
  <2>1. ~LastChoice(o, n)
    BY DEF LastChoice
  <2>2. ~AnyChoice(o)
    BY <1>2 DEF AnyChoice
  <2>3. ~Unknown(o)
    BY DEF Unknown, M!Wildcards
  <2> QED BY <2>1, <2>2, <2>3 DEF NothingLost
<1>5. CASE ~fits
  <2>1. ASSUME NoChoice(o, n) PROVE ~M!Matches
    <3>1. M!Reach[o + 1] = {}
      <4> SUFFICES ASSUME NEW k \in 1..Len(Title), k - 1 = n,
                          Pattern[o + 1] = "?" \/ M!Same(Pattern[o + 1], Title[k])
                   PROVE  FALSE
        BY <1>3, <2>1 DEF NoChoice
      <4>1. k = n + 1 /\ n < Len(Title)
        BY <1>1
      <4> QED BY <1>5, <4>1
    <3>2. o + 1 \in 0..Len(Pattern)
      BY <1>1
    <3>3. M!Reach[Len(Pattern)] = {}
      BY <1>1, <3>1, <3>2, NothingReached
    <3> QED BY <3>3 DEF M!Matches, Pattern, Title
  <2>2. result' = "false"
    BY <1>5 DEF M!Return
  <2> QED BY <1>1, <1>4, <2>1, <2>2, Deciding
<1>6. CASE fits
  <2>1. n + 1 \in 1..Len(Title) /\ (n + 1) - 1 = n
    BY <1>1, <1>6
  <2>2. n + 1 \in M!Reach[o + 1]
    BY <1>1, <1>3, <1>6, <2>1
  <2>3. ~M!Void((o + 1) + 1)
    <3>1. o + 1 \in Nat \ {0}
      BY <1>1
    <3> QED BY <1>2, <3>1, VoidAfter
  <2>4. Reads(o + 1, n + 1)'
    <3>1. 1 \in 0..(Len(Pattern) - o) /\ 1 \in 0..(Len(Title) - n)
      BY <1>1, <1>6
    <3> QED BY <1>1, <1>6, <2>2, <2>3, <3>1, Forward
  <2>5. ASSUME NoChoice(o, n) PROVE NoChoice(o + 1, n + 1)
    <3>1. \A j \in 1..(o + 1) : j \in 1..o \/ j = o + 1
      BY <1>1
    <3>2. \A j \in 1..(o + 1) : Pattern[j] # "*"
      BY <1>2, <2>5, <3>1 DEF NoChoice
    <3>3. \A k \in 1..Len(Title) : k - 1 \in M!Reach[o] => k = n + 1
      BY <1>1, <2>5 DEF NoChoice
    <3>4. M!Reach[o + 1] = {n + 1}
      BY <1>3, <2>2, <3>3
    <3> QED BY <3>2, <3>4 DEF NoChoice
  <2>6. result' = "open" /\ M!DecidesRight
    BY <1>6 DEF M!GoOn, PatternInv
  <2> QED BY <1>1, <1>4, <2>4, <2>5, <2>6, GoingOn DEF NothingLost
<1> QED BY <1>5, <1>6

(* A ? stands for any character.                                           *)
LEMMA OneInv ==
  ASSUME PatternInv, result = "open", M!One
  PROVE  PatternInv'
<1>1. PICK o, n : Reads(o, n) /\ (M!Simple(Pattern) => NothingLost(o, n))
  BY DEF PatternInv
<1> DEFINE fits == n < Len(Title)
<1>2. /\ o < Len(Pattern) /\ Pattern[o + 1] = "?"
      /\ n \in 0..Len(Title) /\ Len(Title) \in Nat /\ (literal = <<>> <=> n = Len(Title))
  BY <1>1, LeftToRead DEF PatternInv, Called, M!One
<1>3. /\ ~fits => M!Return(FALSE)
      /\ fits => M!GoOn(1, 1)
  <2>1. fits <=> ~(literal = <<>>)
    BY <1>2
  <2> HIDE DEF fits
  <2> QED BY <2>1, Zenon DEF M!One
<1>4. UNCHANGED call
  BY <1>3 DEF M!Return, M!GoOn
<1> QED BY <1>1, <1>2, <1>3, <1>4, OneCharacterInv

(* A literal character stands for itself.                                  *)
LEMMA LiteralInv ==
  ASSUME PatternInv, result = "open", M!Literal
  PROVE  PatternInv'
<1>1. PICK o, n : Reads(o, n) /\ (M!Simple(Pattern) => NothingLost(o, n))
  BY DEF PatternInv
<1> DEFINE fits == n < Len(Title) /\ M!Same(Pattern[o + 1], Title[n + 1])
<1>2. /\ o < Len(Pattern) /\ Pattern[o + 1] \in Chars /\ Head(pattern) = Pattern[o + 1]
      /\ n \in 0..Len(Title) /\ Len(Title) \in Nat /\ (literal = <<>> <=> n = Len(Title))
      /\ literal # <<>> => Head(literal) = Title[n + 1]
  BY <1>1, LeftToRead DEF PatternInv, Called, M!Literal
<1>3. Pattern[o + 1] # "?"
  BY <1>2, PatternAssumption DEF M!CharsAssumption, M!Wildcards
<1>4. /\ ~fits => M!Return(FALSE)
      /\ fits => M!GoOn(1, 1)
  <2>1. fits <=> ~(literal = <<>> \/ ~M!Same(Head(pattern), Head(literal)))
    BY <1>2
  <2> HIDE DEF fits
  <2> QED BY <2>1, Zenon DEF M!Literal
<1>5. UNCHANGED call
  BY <1>4 DEF M!Return, M!GoOn
<1> QED BY <1>1, <1>2, <1>3, <1>4, <1>5, OneCharacterInv

(* There is a last occurrence.                                             *)
LEMMA MaxFound ==
  ASSUME NEW b \in Nat, NEW S, S \subseteq 0..b, S # {}
  PROVE  M!Max(S) \in S /\ \A y \in S : y <= M!Max(S)
<1> DEFINE P == {b - x : x \in S}
           less == {ss \in Nat \X Nat : ss[1] < ss[2]}
<1>1. P \subseteq Nat /\ P # {}
  <2>1. \A x \in S : b - x \in Nat
    OBVIOUS
  <2>2. PICK x : x \in S
    OBVIOUS
  <2>3. b - x \in P
    BY <2>2
  <2> QED BY <2>1, <2>3
<1>2. IsWellFoundedOn(less, Nat)
  BY NatLessThanWellFounded DEF OpToRel
<1>3. PICK d \in P : \A e \in P : ~(<<e, d>> \in less)
  <2> HIDE DEF P, less
  <2> QED BY <1>1, <1>2, WFMin
<1>4. PICK x \in S : d = b - x
  <2>1. d \in P
    BY <1>3
  <2> QED BY <2>1
<1>5. \A y \in S : x >= y
  <2> SUFFICES ASSUME NEW y \in S PROVE x >= y
    OBVIOUS
  <2>1. b - y \in P /\ b - y \in Nat /\ d \in Nat /\ x \in Int /\ y \in Int
    BY <1>1, <1>4
  <2>2. ~(b - y < d)
    BY <1>3, <2>1
  <2> QED BY <1>4, <2>1, <2>2
<1>6. M!Max(S) \in S /\ \A y \in S : M!Max(S) >= y
  BY <1>5 DEF M!Max
<1>7. M!Max(S) \in Int /\ \A y \in S : y \in Int
  <2>1. S \subseteq Int
    OBVIOUS
  <2> QED BY <1>6, <2>1, Zenon
<1> QED BY <1>6, <1>7

(* What Star finds: m wildcards, and q other characters behind them.       *)
StarFinds(o, n, m, q, found) ==
  /\ m \in 1..(Len(Pattern) - o) /\ q \in 0..((Len(Pattern) - o) - m)
  /\ Pattern[o + 1] = "*" /\ \A i \in 1..m : Pattern[o + i] \in M!Wildcards
  /\ o + m < Len(Pattern) => Pattern[(o + m) + 1] \notin M!Wildcards
  /\ \A i \in 1..q : Pattern[(o + m) + i] \in Chars
  /\ (o + m) + q < Len(Pattern) => Pattern[((o + m) + q) + 1] \notin Chars
  /\ found = {k \in 0..((Len(Title) - n) - q) :
                \A i \in 1..q : M!Same(Pattern[(o + m) + i], Title[(n + k) + i])}

(* What a run of wildcards that begins with a * and the characters behind  *)
(* it can stand for is told by the occurrences of these characters.        *)
LEMMA StarReach ==
  ASSUME Called, NEW o \in 0..Len(Pattern), NEW n \in M!Reach[o],
         NEW m, NEW q, NEW found, StarFinds(o, n, m, q, found)
  PROVE  /\ \A k \in found : (n + k) + q \in M!Reach[(o + m) + q]
         /\ M!Reach[o] = {n} => \A z \in M!Reach[(o + m) + q] : (z - q) - n \in found
<1> DEFINE w == o + m
           Up == {k \in 0..Len(Title) : \E h \in M!Reach[o] : h <= k}
<1>0. /\ Len(Pattern) \in Nat /\ Len(Title) \in Nat
      /\ o \in Nat /\ m \in Nat /\ m > 0 /\ q \in Nat /\ (o + m) + q <= Len(Pattern)
      /\ Pattern[o + 1] = "*" /\ \A i \in 1..m : Pattern[o + i] \in M!Wildcards
      /\ \A i \in 1..q : Pattern[(o + m) + i] \in Chars
      /\ found = {k \in 0..((Len(Title) - n) - q) :
                    \A i \in 1..q : M!Same(Pattern[(o + m) + i], Title[(n + k) + i])}
  BY DEF StarFinds, Called
<1>1. w \in Nat /\ w <= Len(Pattern) /\ n \in 0..Len(Title)
  BY <1>0, ReachValues
<1>2. M!Reach[w] = Up
  <2>1. o + m <= Len(Pattern)
    BY <1>1
  <2>2. /\ Called /\ o \in Nat /\ m \in Nat /\ m > 0 /\ Pattern[o + 1] = "*"
        /\ \A i \in 1..m : Pattern[o + i] \in M!Wildcards
    BY <1>0
  <2> QED BY ONLY <2>1, <2>2, WildcardsReach
<1>3. M!Reach[w + q] =
        {k \in q..Len(Title) :
           /\ k - q \in M!Reach[w]
           /\ \A x \in 1..q : M!Same(Pattern[w + x], Title[(k - q) + x])}
  <2> HIDE DEF w, Up
  <2>1. w + q <= Len(Pattern) /\ \A i \in 1..q : Pattern[w + i] \in Chars
    BY <1>0 DEF w
  <2>2. Called /\ w \in Nat /\ q \in Nat
    BY <1>0, <1>1
  <2> QED BY ONLY <2>1, <2>2, LettersReach
<1> HIDE DEF w
<1>4. ASSUME NEW k \in found PROVE (n + k) + q \in M!Reach[w + q]
  <2> DEFINE z == (n + k) + q
  <2>1. k \in 0..((Len(Title) - n) - q)
    BY <1>0
  <2>2. z \in q..Len(Title) /\ z - q = n + k /\ n + k \in 0..Len(Title) /\ n <= n + k
    BY <1>0, <1>1, <2>1
  <2>3. n + k \in M!Reach[w]
    BY <1>2, <2>2
  <2>4. \A x \in 1..q : M!Same(Pattern[w + x], Title[(n + k) + x])
    BY <1>0 DEF w
  <2> HIDE DEF z, Up
  <2>5. z \in M!Reach[w + q]
    BY <1>3, <2>2, <2>3, <2>4
  <2> QED BY <2>5 DEF z
<1>5. ASSUME M!Reach[o] = {n}, NEW z \in M!Reach[w + q] PROVE (z - q) - n \in found
  <2>1. /\ z \in q..Len(Title) /\ z - q \in M!Reach[w]
        /\ \A x \in 1..q : M!Same(Pattern[w + x], Title[(z - q) + x])
    <3> HIDE DEF Up
    <3> QED BY <1>3, <1>5
  <2>2. n <= z - q
    BY <1>2, <1>5, <2>1
  <2> DEFINE k == (z - q) - n
  <2>3. k \in 0..((Len(Title) - n) - q) /\ n + k = z - q
    BY <1>0, <1>1, <2>1, <2>2
  <2> HIDE DEF k
  <2>4. k \in found
    BY <1>0, <2>1, <2>3 DEF w
  <2> QED BY <2>4 DEF k
<1> QED BY <1>4, <1>5 DEF w

(* The three ways on from a *.                                             *)
LEMMA StarCases ==
  ASSUME Called, NEW o, NEW n, Reads(o, n), M!Star
  PROVE  \E m, q, found :
           /\ StarFinds(o, n, m, q, found)
           /\ \/ o + m = Len(Pattern) /\ M!Return(TRUE)
              \/ o + m < Len(Pattern) /\ found = {} /\ M!Return(FALSE)
              \/ /\ o + m < Len(Pattern) /\ found # {}
                 /\ M!GoOn(m + q, M!Max(found) + q)
<1> DEFINE m == M!Span(pattern, M!Wildcards)
           match == M!From(pattern, m)
           q == M!Span(match, Chars)
           word == SubSeq(match, 1, q)
           found == M!Occurrences(word)
<1>1. /\ o \in 0..Len(Pattern) /\ n \in 0..Len(Title)
      /\ Len(Pattern) \in Nat /\ Len(Title) \in Nat
      /\ pattern \in Seq(Words) /\ Len(pattern) = Len(Pattern) - o
      /\ \A i \in 1..(Len(Pattern) - o) : pattern[i] = Pattern[o + i]
      /\ Len(literal) = Len(Title) - n
      /\ \A i \in 1..(Len(Title) - n) : literal[i] = Title[n + i]
  BY LeftToRead DEF Called
<1>2. o < Len(Pattern) /\ Pattern[o + 1] = "*"
  BY LeftToRead DEF M!Star
<1>3. /\ m \in 0..(Len(Pattern) - o)
      /\ \A i \in 1..m : pattern[i] \in M!Wildcards
      /\ m = Len(Pattern) - o \/ pattern[m + 1] \notin M!Wildcards
  <2>1. Len(pattern) \in Nat
    BY <1>1
  <2> QED BY <1>1, <2>1, SpanIs, SameSpan DEF m
<1> HIDE DEF m
<1>4. /\ m \in 1..(Len(Pattern) - o)
      /\ \A i \in 1..m : Pattern[o + i] \in M!Wildcards
      /\ o + m < Len(Pattern) => Pattern[(o + m) + 1] \notin M!Wildcards
  <2>1. m # 0
    <3>1. pattern[1] = Pattern[o + 1]
      BY <1>1, <1>2
    <3> QED BY <1>1, <1>2, <1>3, <3>1 DEF M!Wildcards
  <2>2. \A i \in 1..m : i \in 1..(Len(Pattern) - o)
    BY <1>1, <1>3
  <2>3. o + m < Len(Pattern) =>
          m + 1 \in 1..(Len(Pattern) - o) /\ o + (m + 1) = (o + m) + 1 /\ m # Len(Pattern) - o
    BY <1>1, <1>3
  <2>4. \A i \in 1..m : Pattern[o + i] = pattern[i]
    BY <1>1, <2>2
  <2>5. o + m < Len(Pattern) => Pattern[(o + m) + 1] = pattern[m + 1]
    BY <1>1, <2>3
  <2>6. m \in 1..(Len(Pattern) - o)
    BY <1>1, <1>3, <2>1
  <2> QED BY <1>3, <2>3, <2>4, <2>5, <2>6
<1>5. /\ match \in Seq(Words) /\ Len(match) = (Len(Pattern) - o) - m
      /\ \A i \in 1..((Len(Pattern) - o) - m) : match[i] = Pattern[(o + m) + i]
  <2>1. m \in 0..Len(pattern)
    BY <1>1, <1>3
  <2>2. /\ match \in Seq(Words) /\ Len(match) = Len(pattern) - m
        /\ \A i \in 1..(Len(pattern) - m) : match[i] = pattern[m + i]
    BY <1>1, <2>1, FromIs
  <2>3. ASSUME NEW i \in 1..((Len(Pattern) - o) - m)
        PROVE  match[i] = Pattern[(o + m) + i]
    <3>1. m + i \in 1..(Len(Pattern) - o) /\ o + (m + i) = (o + m) + i
      BY <1>1, <1>3
    <3> QED BY <1>1, <2>2, <3>1
  <2> QED BY <1>1, <2>2, <2>3
<1> HIDE DEF match
<1>6. match = <<>> <=> o + m = Len(Pattern)
  <2>1. match = <<>> <=> Len(match) = 0
    BY <1>5
  <2> QED BY <1>1, <1>3, <1>5, <2>1
<1>7. /\ q \in 0..((Len(Pattern) - o) - m)
      /\ \A i \in 1..q : match[i] \in Chars
      /\ q = (Len(Pattern) - o) - m \/ match[q + 1] \notin Chars
  <2>1. Len(match) \in Nat
    BY <1>5
  <2> QED BY <1>5, <2>1, SpanIs, SameSpan DEF q
<1> HIDE DEF q
<1>8. /\ \A i \in 1..q : Pattern[(o + m) + i] \in Chars /\ match[i] = Pattern[(o + m) + i]
      /\ (o + m) + q < Len(Pattern) => Pattern[((o + m) + q) + 1] \notin Chars
  <2>1. \A i \in 1..q : i \in 1..((Len(Pattern) - o) - m)
    BY <1>1, <1>3, <1>7
  <2>2. (o + m) + q < Len(Pattern) =>
          /\ q + 1 \in 1..((Len(Pattern) - o) - m) /\ q # (Len(Pattern) - o) - m
          /\ (o + m) + (q + 1) = ((o + m) + q) + 1
    BY <1>1, <1>3, <1>7
  <2>3. (o + m) + q < Len(Pattern) => match[q + 1] = Pattern[((o + m) + q) + 1]
    BY <1>5, <2>2
  <2>4. \A i \in 1..q : match[i] = Pattern[(o + m) + i]
    BY <1>5, <2>1
  <2> QED BY <1>7, <2>2, <2>3, <2>4
<1>9. Len(word) = q /\ DOMAIN word = 1..q /\ \A i \in 1..q : word[i] = match[i]
  BY <1>1, <1>3, <1>5, <1>7
<1> HIDE DEF word
<1>10. found = {k \in 0..((Len(Title) - n) - q) :
                  \A i \in 1..q : M!Same(Pattern[(o + m) + i], Title[(n + k) + i])}
  <2>1. ASSUME NEW k \in 0..((Len(Title) - n) - q), NEW i \in 1..q
        PROVE  word[i] = Pattern[(o + m) + i] /\ literal[k + i] = Title[(n + k) + i]
    <3>1. k + i \in 1..(Len(Title) - n) /\ n + (k + i) = (n + k) + i
      BY <1>1, <1>7
    <3> QED BY <1>1, <1>8, <1>9, <3>1
  <2>2. found = {k \in 0..((Len(Title) - n) - q) :
                   \A i \in 1..q : M!Same(word[i], literal[k + i])}
    BY <1>1, <1>9 DEF M!Occurrences
  <2> QED BY <2>1, <2>2
<1> HIDE DEF found
<1>11. StarFinds(o, n, m, q, found)
  BY <1>2, <1>4, <1>7, <1>8, <1>10 DEF StarFinds
<1>12. /\ match = <<>> => M!Return(TRUE)
       /\ match # <<>> /\ found = {} => M!Return(FALSE)
       /\ match # <<>> /\ found # {} => M!GoOn(m + q, M!Max(found) + q)
  <2>1. IF match = <<>> THEN M!Return(TRUE)
        ELSE IF found = {} THEN M!Return(FALSE)
        ELSE M!GoOn(m + q, M!Max(found) + q)
    BY DEF M!Star, m, match, q, word, found
  <2> QED BY <2>1, Zenon
<1>13. o + m <= Len(Pattern) /\ o + m \in Nat
  BY <1>1, <1>3
<1>14. \/ o + m = Len(Pattern) /\ M!Return(TRUE)
       \/ o + m < Len(Pattern) /\ found = {} /\ M!Return(FALSE)
       \/ /\ o + m < Len(Pattern) /\ found # {}
          /\ M!GoOn(m + q, M!Max(found) + q)
  <2>1. o + m = Len(Pattern) \/ o + m < Len(Pattern)
    BY <1>1, <1>13
  <2> QED BY <1>6, <1>12, <2>1, Zenon
<1> QED BY <1>11, <1>14, Zenon

(* A * stands for what it can: where it must, for all there is up to the   *)
(* last occurrence of what follows.                                        *)
LEMMA StarInv ==
  ASSUME PatternInv, result = "open", M!Star
  PROVE  PatternInv'
<1>1. PICK o, n : Reads(o, n) /\ (M!Simple(Pattern) => NothingLost(o, n))
  BY DEF PatternInv
<1>2. PICK m, q, found :
        /\ StarFinds(o, n, m, q, found)
        /\ \/ o + m = Len(Pattern) /\ M!Return(TRUE)
           \/ o + m < Len(Pattern) /\ found = {} /\ M!Return(FALSE)
           \/ /\ o + m < Len(Pattern) /\ found # {}
              /\ M!GoOn(m + q, M!Max(found) + q)
  BY <1>1, StarCases DEF PatternInv
<1>3. /\ Called /\ o \in 0..Len(Pattern) /\ n \in 0..Len(Title) /\ n \in M!Reach[o]
      /\ Len(Pattern) \in Nat /\ Len(Title) \in Nat
  BY <1>1, LeftToRead DEF PatternInv, Called, Reads
<1>4. /\ m \in 1..(Len(Pattern) - o) /\ q \in 0..((Len(Pattern) - o) - m)
      /\ Pattern[o + 1] = "*" /\ \A i \in 1..m : Pattern[o + i] \in M!Wildcards
      /\ o + m < Len(Pattern) => Pattern[(o + m) + 1] \notin M!Wildcards
      /\ \A i \in 1..q : Pattern[(o + m) + i] \in Chars
      /\ (o + m) + q < Len(Pattern) => Pattern[((o + m) + q) + 1] \notin Chars
  BY <1>2 DEF StarFinds
<1> DEFINE w == o + m
           e == w + q
<1>5. w \in Nat /\ e \in 0..Len(Pattern) /\ w <= Len(Pattern) /\ o < Len(Pattern)
  BY <1>3, <1>4
<1>6. /\ \A k \in found : (n + k) + q \in M!Reach[e]
      /\ M!Reach[o] = {n} => \A z \in M!Reach[e] : (z - q) - n \in found
  BY <1>2, <1>3, StarReach
<1>7. NothingLost(o, n) /\ w < Len(Pattern) => NoChoice(o, n)
  <2>1. ~LastChoice(o, n)
    BY <1>5 DEF LastChoice
  <2>2. w < Len(Pattern) => ~AnyChoice(o)
    <3>1. w < Len(Pattern) => w + 1 \in (o + 1)..Len(Pattern)
      BY <1>3, <1>4
    <3> QED BY <1>4, <3>1 DEF AnyChoice
  <2>3. ~Unknown(o)
    BY <1>4 DEF Unknown, M!Wildcards
  <2> QED BY <2>1, <2>2, <2>3 DEF NothingLost
<1>8. CASE w = Len(Pattern) /\ M!Return(TRUE)
  <2>1. M!Reach[o + m] = {k \in 0..Len(Title) : \E h \in M!Reach[o] : h <= k}
    <3>1. o \in Nat /\ m \in Nat /\ m > 0 /\ o + m <= Len(Pattern)
      BY <1>3, <1>4, <1>5
    <3> QED BY <1>3, <1>4, <3>1, WildcardsReach
  <2>2. Len(Title) \in M!Reach[Len(Pattern)]
    BY <1>3, <1>8, <2>1
  <2>3. M!Matches
    BY <2>2 DEF M!Matches, Pattern, Title
  <2>4. UNCHANGED call /\ result' = "true"
    BY <1>8 DEF M!Return
  <2> QED BY <1>3, <2>3, <2>4, Deciding
<1>9. CASE w < Len(Pattern) /\ found = {} /\ M!Return(FALSE)
  <2>1. ASSUME NoChoice(o, n) PROVE ~M!Matches
    <3>1. M!Reach[e] = {}
      BY <1>6, <1>9, <2>1 DEF NoChoice
    <3>2. M!Reach[Len(Pattern)] = {}
      BY <1>3, <1>5, <3>1, NothingReached
    <3> QED BY <3>2 DEF M!Matches, Pattern, Title
  <2>2. UNCHANGED call /\ result' = "false"
    BY <1>9 DEF M!Return
  <2> QED BY <1>1, <1>3, <1>7, <1>9, <2>1, <2>2, Deciding
<1>10. CASE w < Len(Pattern) /\ found # {} /\ M!GoOn(m + q, M!Max(found) + q)
  <2> DEFINE x == M!Max(found)
             z == (n + x) + q
  <2>1. found \subseteq 0..((Len(Title) - n) - q)
    BY <1>2 DEF StarFinds
  <2>2. /\ x \in found /\ x \in 0..((Len(Title) - n) - q)
        /\ \A y \in found : y <= x
    <3>1. PICK k \in found : TRUE
      BY <1>10
    <3>2. k \in 0..((Len(Title) - n) - q)
      BY <2>1, <3>1
    <3>3. (Len(Title) - n) - q \in Nat
      <4>1. q \in Int /\ n \in Int
        BY <1>3, <1>4
      <4> QED BY <1>3, <3>2, <4>1
    <3> QED BY <1>10, <2>1, <3>3, MaxFound
  <2> HIDE DEF x
  <2>3. z \in M!Reach[e]
    BY <1>6, <2>2
  <2>4. e < Len(Pattern) => ~M!Void(e + 1)
    <3> SUFFICES ASSUME e < Len(Pattern), M!Void(e + 1) PROVE FALSE
      OBVIOUS
    <3>1. Pattern[e + 1] = "?"
      BY DEF M!Void, Pattern
    <3>2. q # 0
      BY <1>3, <1>4, <3>1 DEF M!Wildcards
    <3>3. Pattern[e] \in Chars
      <4>1. q \in 1..q
        BY <1>3, <1>4, <3>2
      <4> QED BY <1>4, <4>1
    <3>4. Pattern[e] # "*" /\ Pattern[e] # "?"
      BY <3>3, PatternAssumption DEF M!CharsAssumption, M!Wildcards
    <3>5. e \in Nat \ {0}
      BY <1>4, <1>5, <3>2
    <3>6. Pattern[e] = "*" \/ M!Void(e)
      <4> HIDE DEF e
      <4> QED BY <3>5, VoidAfter
    <3> QED BY <3>4, <3>6 DEF M!Void, Pattern
  <2>5. UNCHANGED call /\ result' = "open" /\ M!DecidesRight
    BY <1>10 DEF M!GoOn, PatternInv
  <2>6. Reads(e, z)'
    <3>1. /\ m + q \in 0..(Len(Pattern) - o) /\ x + q \in 0..(Len(Title) - n)
          /\ n + (x + q) = z /\ o + (m + q) = e
      BY <1>3, <1>4, <2>2
    <3>2. M!GoOn(m + q, x + q)
      BY <1>10 DEF x
    <3> HIDE DEF e, z
    <3> QED BY <1>1, <1>3, <2>3, <2>4, <2>5, <3>1, <3>2, Forward
  <2>7. ASSUME M!Simple(Pattern), NoChoice(o, n) PROVE NothingLost(e, z)
    <3>1. CASE q = 0
      <4>1. e = w
        BY <1>3, <1>4, <3>1
      <4>2. Unknown(e)
        BY <1>4, <1>10, <4>1 DEF Unknown
      <4> QED BY <4>2 DEF NothingLost
    <3>2. CASE q # 0 /\ e = Len(Pattern)
      <4>1. ASSUME Len(Title) \in M!Reach[e] PROVE z = Len(Title)
        <5>1. (Len(Title) - q) - n \in found
          BY <1>6, <2>7, <4>1 DEF NoChoice
        <5>2. (Len(Title) - q) - n <= x
          BY <2>2, <5>1
        <5> QED BY <1>3, <1>4, <2>2, <5>2
      <4>2. LastChoice(e, z)
        BY <3>2, <4>1 DEF LastChoice
      <4> QED BY <4>2 DEF NothingLost
    <3>3. CASE q # 0 /\ e < Len(Pattern) /\ Pattern[e + 1] \notin M!Wildcards
      <4>1. Unknown(e)
        BY <1>4, <3>3 DEF Unknown
      <4> QED BY <4>1 DEF NothingLost
    <3>4. CASE q # 0 /\ e < Len(Pattern) /\ Pattern[e + 1] \in M!Wildcards
      <4>1. Pattern[e] \in Chars
        <5>1. q \in 1..q
          BY <1>4, <3>4
        <5> QED BY <1>4, <5>1
      <4>2. o + 1 \in DOMAIN Pattern /\ e \in DOMAIN Pattern /\ o + 1 < e
        <5>1. DOMAIN Pattern = 1..Len(Pattern)
          BY <1>3 DEF Called
        <5> QED BY <1>3, <1>4, <1>5, <3>4, <5>1
      <4>3. Pattern[e + 1] = "*" /\ \A k \in (e + 1)..Len(Pattern) : Pattern[k] \in M!Wildcards
        <5> DEFINE i == o + 1
        <5>1. i \in DOMAIN Pattern /\ i < e /\ Pattern[i] = "*"
          BY <1>4, <4>2
        <5> HIDE DEF i, e
        <5> QED BY <2>7, <3>4, <4>1, <4>2, <5>1 DEF M!Simple
      <4>4. AnyChoice(e)
        BY <3>4, <4>3 DEF AnyChoice
      <4> QED BY <4>4 DEF NothingLost
    <3>5. e = Len(Pattern) \/ e < Len(Pattern)
      BY <1>5
    <3> QED BY <3>1, <3>2, <3>3, <3>4, <3>5
  <2>8. M!Simple(Pattern) => NothingLost(e, z)
    BY <1>1, <1>7, <1>10, <2>7
  <2> HIDE DEF e, z
  <2> QED BY <1>3, <2>5, <2>6, <2>8, GoingOn
<1> QED BY <1>2, <1>8, <1>9, <1>10

(* The first 0 characters of a pattern stand for nothing, in a next state, *)
(* too.                                                                    *)
StartsAtNothing == M!Reach[0] = {0}

LEMMA StartsThere == Called' => StartsAtNothing'
<1>1. Called => StartsAtNothing
  BY ReachValues DEF StartsAtNothing
<1> QED BY <1>1, PTL

(* A slot's title becomes the pattern.                                     *)
LEMMA CompareInv ==
  ASSUME CInv, Compare
  PROVE  PatternInv'
<1>1. PICK s \in Range(slots), t \in Strings(Chars, MaxTitle) :
        \E p \in Range(s.titles) : M!Call(p, t, settings.casesensitive)
  BY DEF Compare
<1>2. PICK p \in Range(s.titles) : M!Call(p, t, settings.casesensitive)
  BY <1>1
<1>3. p \in Seq(Words)
  <2>1. slots \in Seq(Icons)
    BY DEF CInv, CommandTypes
  <2>2. s \in Icons
    BY <2>1 DEF Range
  <2>3. PICK r \in Lines : s = IconOf(r)
    BY <2>2 DEF Icons
  <2>4. r \in Seq(Range(r)) /\ Range(r) \subseteq Words
    BY CommandLineAssumption DEF Words
  <2>5. Field(r, 2) \in Seq(Range(r))
    BY <2>4, FieldTyped
  <2>6. s.titles = Titles(Field(r, 2))
    BY <2>3 DEF IconOf
  <2>7. s.titles \in Seq(Word(Range(r)))
    BY <2>5, <2>6, TitlesFound
  <2>8. p \in Word(Range(r))
    BY <2>7 DEF Range
  <2> QED BY <2>4, <2>8 DEF Word
<1>4. t \in Seq(Chars)
  <2>1. PICK k \in 0..MaxTitle : t \in [1..k -> Chars]
    BY DEF Strings
  <2>2. k \in Nat
    BY <2>1, PatternAssumption
  <2> QED BY <2>1, <2>2
<1>5. /\ call' = [pattern |-> p, title |-> t, casesensitive |-> settings.casesensitive]
      /\ pattern' = p /\ literal' = t /\ result' = "open"
  BY <1>2 DEF M!Call
<1>6. Pattern' = p /\ Title' = t
  BY <1>5 DEF Pattern, Title
<1>7. Called'
  BY <1>3, <1>4, <1>6 DEF Called
<1>8. M!Reach'[0] = {0}
  BY <1>7, StartsThere DEF StartsAtNothing
<1>9. Reads(0, 0)'
  <2>1. 0 \in 0..Len(p) /\ M!From(p, 0) = p /\ M!From(t, 0) = t
    BY <1>3, <1>4 DEF M!From
  <2>2. ~M!Void(0 + 1)'
    <3>1. 1..((0 + 1) - 1) = {}
      OBVIOUS
    <3> QED BY <3>1 DEF M!Void
  <2> QED BY <1>5, <1>6, <1>8, <2>1, <2>2 DEF Reads
<1>10. NoChoice(0, 0)'
  <2>1. 1..0 = {}
    OBVIOUS
  <2> QED BY <1>8, <2>1 DEF NoChoice
<1>11. M!DecidesRight'
  BY <1>5 DEF M!DecidesRight
<1> QED BY <1>5, <1>7, <1>9, <1>10, <1>11 DEF PatternInv, NothingLost

(* Any turn of the loop.                                                   *)
LEMMA MatchInv ==
  ASSUME PatternInv, M!Next
  PROVE  PatternInv'
BY StarInv, OneInv, LiteralInv, EndOfPatternInv DEF M!Next

(* main leaves the comparison alone.                                       *)
LEMMA StutterPattern ==
  ASSUME PatternInv, UNCHANGED callVars
  PROVE  PatternInv'
<1>1. UNCHANGED call /\ UNCHANGED <<pattern, literal, result>>
  BY DEF callVars
<1>2. Called' /\ (M!Simple(Pattern)' <=> M!Simple(Pattern))
  BY <1>1 DEF PatternInv, Called, Pattern, Title, M!Simple
<1>3. M!Reach' = M!Reach
  BY <1>1, ReachStays
<1>4. Pattern' = Pattern /\ Title' = Title
  BY <1>1 DEF Pattern, Title
<1>5. \A o, n : /\ Reads(o, n)' <=> Reads(o, n)
                /\ NothingLost(o, n)' <=> NothingLost(o, n)
  <2>1. \A i : M!Void(i)' <=> M!Void(i)
    BY <1>1 DEF M!Void
  <2>2. \A o, n : Reads(o, n)' <=> Reads(o, n)
    BY <1>1, <1>3, <1>4, <2>1, Zenon DEF Reads
  <2>3. \A o, n : NothingLost(o, n)' <=> NothingLost(o, n)
    BY <1>3, <1>4 DEF NothingLost, NoChoice, LastChoice, AnyChoice, Unknown
  <2> QED BY <2>2, <2>3
<1>6. M!DecidesRight'
  BY <1>1, <1>2, <1>3 DEF PatternInv, M!DecidesRight, M!Matches, Pattern
<1> QED BY <1>1, <1>2, <1>5, <1>6 DEF PatternInv

LEMMA InitPattern == M!Init => PatternInv
BY DEF M!Init, PatternInv, Called, Pattern, Title, M!DecidesRight

-----------------------------------------------------------------------------
(* Theorems                                                                *)

LEMMA InitCInv == Init => CInv
<1> SUFFICES ASSUME Init PROVE CInv
  OBVIOUS
<1>1. args \in Seq(Arguments) /\ Len(args) \in Nat
  BY CommandLineAssumption DEF Init
<1>2. CommandTypes
  BY <1>1 DEF Init, CommandTypes, Settings, Defaults, MarkTypes, ClickActions
<1>3. Counted
  BY <1>1, RoleValues DEF Init, Counted
<1>4. PaddingKnown
  <2>1. {i \in Paddings \cup MarkPaddings : i < 0} = {}
    BY DEF Paddings, MarkPaddings, Given
  <2>2. PaddingBefore(0) = <<-1, 0>>
    BY <2>1 DEF PaddingBefore
  <2> QED BY <2>2 DEF Init, PaddingKnown, Defaults
<1> QED BY <1>2, <1>3, <1>4 DEF CInv, Init, RecordsLeft, CompleteNeverCrashes

LEMMA StutterCInv == CInv /\ UNCHANGED commandVars => CInv'
<1> SUFFICES ASSUME CInv, UNCHANGED commandVars PROVE CInv'
  OBVIOUS
<1>1. UNCHANGED <<args, file, argc, argv, settings, at, lines, slots>>
  BY DEF commandVars
<1>2. Role' = Role /\ Records' = Records
  <2>1. Role' = Role
    BY <1>1, RolesStay
  <2> QED BY <1>1, <2>1 DEF Records
<1>3. CommandTypes' /\ Counted' /\ RecordsLeft' /\ CompleteNeverCrashes'
  BY <1>1, <1>2 DEF CInv, CommandTypes, Counted, RecordsLeft, CompleteNeverCrashes
<1>4. PaddingKnown'
  BY <1>1, PaddingsStay DEF CInv, PaddingKnown
<1> QED BY <1>3, <1>4 DEF CInv

(* The invariant the other theorems follow from.                           *)
THEOREM CommandInvariance == MCSpec => []CInv
<1>1. MCInit => CInv
  BY InitCInv DEF MCInit
<1>2. CInv /\ [MCNext]_<<commandVars, callVars>> => CInv'
  <2>1. CInv /\ Next => CInv'
    BY OptionCInv, LastOptionCInv, ReadBehindCInv, ForkCInv, AddCInv, RunCInv DEF Next
  <2> QED BY <2>1, StutterCInv DEF MCNext, Compare
<1> QED BY <1>1, <1>2, PTL DEF MCSpec

(* argc and argv, which main moves on in six places, agree on the argument *)
(* that comes next, for any command line.                                  *)
THEOREM CommandLineTypes == MCSpec => []CommandTypeOK
<1>1. CInv => CommandTypeOK
  <2> SUFFICES ASSUME CInv PROVE CommandTypeOK
    OBVIOUS
  <2>1. \A i \in DOMAIN slots : slots[i].image \in Loadable /\ slots[i].idle > 0
    <3> SUFFICES ASSUME NEW i \in DOMAIN slots
                 PROVE  slots[i].image \in Loadable /\ slots[i].idle > 0
      OBVIOUS
    <3>1. slots[i] \in Icons
      BY DEF CInv, CommandTypes
    <3>2. PICK r \in Lines : slots[i] = IconOf(r)
      BY <3>1 DEF Icons
    <3> QED BY <3>1, <3>2, IdleTimePositive DEF Icons, IconOf
  <2> QED BY <2>1 DEF CInv, CommandTypes, Counted, CommandTypeOK, Settings
<1> QED BY <1>1, CommandInvariance, PTL

(* main reads no argument and writes no field that is not there, except    *)
(* after a last option without its operand or with too many delimiters.    *)
THEOREM CompleteLinesAreSafe == MCSpec => []CompleteNeverCrashes
<1>1. CInv => CompleteNeverCrashes
  BY DEF CInv
<1> QED BY <1>1, CommandInvariance, PTL

(* The padding is that of the last option that sets one, -p or -m.         *)
THEOREM PaddingIsTheLast == MCSpec => []LastPaddingWins
<1>1. CInv => LastPaddingWins
  <2> SUFFICES ASSUME CInv, at \in {"fork", "icons", "run"}
               PROVE  LastPaddingWins
    BY DEF LastPaddingWins
  <2>1. <<settings.left, settings.top>> = PaddingBefore(Len(args))
    BY DEF CInv, PaddingKnown
  <2>2. {i \in Paddings \cup MarkPaddings : i < Len(args)} = Paddings \cup MarkPaddings
    <3>1. Len(args) \in Nat
      BY DEF CInv, CommandTypes
    <3> QED BY <3>1 DEF Paddings, MarkPaddings, Given
  <2>3. <<settings.left, settings.top>> =
          IF Paddings \cup MarkPaddings = {} THEN <<-1, 0>>
          ELSE PaddingOf(Max(Paddings \cup MarkPaddings))
    BY <2>1, <2>2 DEF PaddingBefore
  <2> QED BY <2>3, Zenon DEF LastPaddingWins, PaddingOf, Paddings, MarkPaddings
<1> QED BY <1>1, CommandInvariance, PTL

(* The slots are those of the records that have been taken.               *)
THEOREM SlotsInvariance == MCSpec => []SlotsSoFar
<1>1. MCInit => SlotsSoFar
  BY DEF MCInit, Init, SlotsSoFar
<1>2. SlotsSoFar /\ UNCHANGED commandVars => SlotsSoFar'
  BY SlotsStay DEF SlotsSoFar, commandVars
<1>3. CInv /\ SlotsSoFar /\ [MCNext]_<<commandVars, callVars>> => SlotsSoFar'
  <2>1. CInv /\ SlotsSoFar /\ Next => SlotsSoFar'
    BY OptionSlots, ForkSlots, AddSlots, RunSlots DEF Next
  <2> QED BY <1>2, <2>1 DEF MCNext, Compare
<1> QED BY <1>1, <1>3, CommandInvariance, PTL DEF MCSpec

(* Each record with a command, from any command line or file, has its icon,*)
(* counted from the end of the chain; others have none.                    *)
THEOREM RecordsHaveSlots == MCSpec => []SlotsReversed
<1>1. CInv /\ SlotsSoFar => SlotsReversed
  <2> SUFFICES ASSUME CInv, SlotsSoFar, at = "run" PROVE SlotsReversed
    BY DEF SlotsReversed
  <2> DEFINE valid == {k \in DOMAIN Records : Delimiters(Records[k]) > 0}
  <2>1. /\ Records \in Seq(Lines) /\ lines = <<>>
        /\ Len(slots) = Cardinality(Valid(Taken))
        /\ \A k \in Valid(Taken) : slots[Place(k, Taken)] = IconOf(Records[k])
    BY DEF SlotsSoFar
  <2>2. Taken = Len(Records) /\ DOMAIN Records = 1..Len(Records)
    BY <2>1 DEF Taken
  <2>3. valid = Valid(Taken)
    BY <2>2 DEF Valid
  <2>4. \A k : Place(k, Taken) = Cardinality({m \in valid : m >= k})
    BY <2>3 DEF Place
  <2>5. ASSUME NEW k \in valid
        PROVE  LET r == Records[k]
                   icon == slots[Cardinality({m \in valid : m >= k})]
               IN  /\ icon.image = Field(r, 0) /\ icon.command = Field(r, 1)
                   /\ icon.titles # <<>> <=> ToSet(Field(r, 2)) \ {";"} # {}
    <3> DEFINE r == Records[k]
    <3>1. slots[Cardinality({m \in valid : m >= k})] = IconOf(r)
      BY <2>1, <2>3, <2>4
    <3>2. r \in Lines
      BY <2>1
    <3> HIDE DEF r
    <3>3. r \in Seq(Range(r))
      BY <3>2, CommandLineAssumption
    <3>4. Field(r, 2) \in Seq(Range(r))
      BY <3>3, FieldTyped
    <3>5. Titles(Field(r, 2)) # <<>> <=> ToSet(Field(r, 2)) \ {";"} # {}
      BY <3>4, TitlesFound
    <3>6. /\ IconOf(r).image = Field(r, 0) /\ IconOf(r).command = Field(r, 1)
          /\ IconOf(r).titles = Titles(Field(r, 2))
      BY DEF IconOf
    <3> QED BY <3>1, <3>5, <3>6, Zenon DEF r
  <2>6. Len(slots) = Cardinality(valid)
    BY <2>1, <2>3
  <2> HIDE DEF valid
  <2> QED BY <2>5, <2>6, Zenon DEF SlotsReversed, valid
<1> QED BY <1>1, CommandInvariance, SlotsInvariance, PTL

(* What has been read of a pattern and a title, and why nothing is lost by *)
(* having read so much of the title.                                       *)
THEOREM PatternInvariance == MCSpec => []PatternInv
<1>1. MCInit => PatternInv
  BY InitPattern DEF MCInit
<1>2. CInv /\ PatternInv /\ [MCNext]_<<commandVars, callVars>> => PatternInv'
  <2> SUFFICES ASSUME CInv, PatternInv, [MCNext]_<<commandVars, callVars>> PROVE PatternInv'
    OBVIOUS
  <2>1. Compare \/ M!Next \/ UNCHANGED callVars
    BY DEF MCNext
  <2> QED BY <2>1, CompareInv, MatchInv, StutterPattern
<1> QED BY <1>1, <1>2, CommandInvariance, PTL DEF MCSpec

(* No pattern and no title, however long, makes matchesPattern accept what *)
(* the wildcards do not mean, or reject what a simple pattern means.       *)
THEOREM AcceptsAndRejects == MCSpec => []DecidesRight
<1>1. PatternInv => DecidesRight
  BY DEF PatternInv, DecidesRight
<1> QED BY <1>1, PatternInvariance, PTL

=============================================================================
