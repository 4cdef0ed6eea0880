----------------------------- MODULE Navigation -----------------------------
(***************************************************************************)
(* The screens of the kiosk (shell-src/qml/Main.qml): the current view,    *)
(* the stack that goBack() pops, and the Menu button that toggles between  *)
(* the home screen and the view it was pressed in.  Actions of this module *)
(* say what happens to the view; what a change of view does to others is   *)
(* said where they are composed.                                           *)
(***************************************************************************)
EXTENDS Integers, Sequences

CONSTANTS
  Section,     \* the tiles of the home screen but the Quran menu
  Branch,      \* the views one opens from a section or from the Quran menu
  MaxStack     \* bound: the length of screenStack

ASSUME ViewsAssumption ==
  {"splash", "home", "quranmenu", "quranreader", "systeminfo"}
    \cap (Section \cup Branch) = {}
ASSUME StackAssumption == MaxStack \in Nat

View == {"splash", "home", "quranmenu", "quranreader", "systeminfo"} \cup Section \cup Branch

VARIABLES
  view,         \* currentView
  stack,        \* screenStack
  menuOrigin    \* menuOrigin, "" when there is none

navVars == <<view, stack, menuOrigin>>

NavTypeOK == view \in View /\ stack \in Seq(View) /\ menuOrigin \in View \cup {""}

AtSplash == view = "splash" /\ stack = <<>> /\ menuOrigin = ""

\* navigateTo(): the view that is left goes onto the stack.
NavigateTo(v) ==
  /\ stack' = IF view = "splash" THEN stack ELSE Append(stack, view)
  /\ Len(stack') <= MaxStack
  /\ view' = v

\* Back to where one came from.
GoBack ==
  /\ view # "splash"
  /\ IF stack = <<>>
       THEN view' = "home" /\ UNCHANGED stack
       ELSE /\ view' = stack[Len(stack)]
            /\ stack' = SubSeq(stack, 1, Len(stack) - 1)
  /\ UNCHANGED menuOrigin

\* The splash screen's timer, and the "Done" and "back to home" buttons of
\* the sections that assign currentView themselves.
ShowHome ==
  /\ view \in {"splash"} \cup Section
  /\ view' = "home"
  /\ UNCHANGED <<stack, menuOrigin>>

PressHome ==
  /\ view # "splash"
  /\ view' = "home" /\ stack' = <<>> /\ menuOrigin' = ""

ToggleMenu ==
  /\ view # "splash"
  /\ IF view = "home" /\ menuOrigin # ""
       THEN view' = menuOrigin /\ menuOrigin' = "" /\ UNCHANGED stack
       ELSE menuOrigin' = view /\ NavigateTo("home")

\* A tile or a link, other than the ones into the Quran reader.
Open(v) ==
  /\ \/ view = "home" /\ v \in Section \cup {"quranmenu"}
     \/ view \in Section \cup {"quranmenu"} /\ v \in Branch
     \/ view # "splash" /\ v = "systeminfo"
  /\ NavigateTo(v)
  /\ UNCHANGED menuOrigin

Move ==
  \/ GoBack \/ ShowHome \/ PressHome \/ ToggleMenu
  \/ \E v \in View : Open(v)
=============================================================================
