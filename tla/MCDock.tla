------------------------------- MODULE MCDock -------------------------------
(***************************************************************************)
(* Instances of Dock for TLC.                                              *)
(***************************************************************************)
EXTENDS Dock

CONSTANTS xterm, firefox, nothing, plain, changed, broken

(* Two icons: slot 1 (added last) is exclusive, slot 2 is not.             *)
MCCommand == <<firefox, xterm>>
MCExclusive == {1}
MCIcons == {plain}
MCFirstIcon == [s \in Slots |-> plain]

(* The idle time "fastest" of main.cc, and one whose fade-in oversteps.    *)
MCFadeStart == <<FadeOffset(250), FadeOffset(750)>>

(* What a user can do to launch, raise and close programs.                 *)
LauncherInputs ==
  {Click(s, b, m) : s \in Slots, b \in {1, 3}, m \in {FALSE}}
    \cup {Click(1, 1, TRUE)}

(* A single exclusive icon.                                                *)
OneCommand == <<firefox>>
FastFadeStart == <<FadeOffset(500)>>
LongFadeStart == <<FadeOffset(13000)>>
LeftClicks == {Click(1, 1, m) : m \in BOOLEAN}

(* The first two icons run the same command, the third has no command.     *)
SharedCommand == <<firefox, firefox, nothing>>
SharedFadeStart == [s \in Slots |-> FadeOffset(250)]
RemoteIcons == {plain, changed, broken}
RemoteLoadable == {plain, changed}
RemoteInputs ==
  {ExecuteMessage(firefox)} \cup {ChangeMessage(firefox, i) : i \in Icons}
    \cup {Click(s, 1, m) : s \in {1, 3}, m \in BOOLEAN}
    \cup {Click(1, 3, FALSE), Click(2, 2, FALSE),
          WindowEvent("SelectionNotify", 2)}

(* The same, and everything else that makes the first icon change its      *)
(* picture.                                                                *)
PictureInputs ==
  RemoteInputs
    \cup {WindowEvent("Expose", 1), WindowEvent("ConfigureNotify", 1)}
    \cup {Visibility(1, v) : v \in {"unobscured", "obscured"}}

(* A single icon whose picture changes in every way.                       *)
DrawingIcons == {plain, changed}
DrawingInputs ==
  {Click(1, 1, FALSE), Click(1, 3, FALSE), WindowEvent("Expose", 1),
   WindowEvent("ConfigureNotify", 1), ChangeMessage(firefox, changed)}
    \cup {Visibility(1, v) : v \in {"unobscured", "obscured"}}

=============================================================================
