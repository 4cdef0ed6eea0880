----------------------------- MODULE ReaderProofs ---------------------------
(***************************************************************************)
(* Proofs about Reader, for any number of verses and reciters, whatever    *)
(* audio is available, and any views.                                      *)
(*                                                                         *)
(* The argument: outside the reader the player is silent, because each way *)
(* out stops it (AudioUnderControl is inductive as it stands with TypeOK); *)
(* the one operation that plays outside the reader opens it in the same    *)
(* step.  While a selection is used its current entry is the verse that is *)
(* loaded, playing or not, and its reciter is a real one.                  *)
(***************************************************************************)
EXTENDS Reader, SequenceTheorems, TLAPS

\* Every entry of the selection that is played has audio.
Complete == \A i \in DOMAIN playlist, r \in Reciter : <<playlist[i], r>> \in Available

\* Stronger than SelectionIsHeard: true of a paused and of a stopped player too.
EntryIsLoaded == using => reciter \in Reciter /\ (Complete => verse = playlist[pos + 1])

PlayerInv == PlayerTypeOK /\ EntryIsLoaded

IInv == TypeOK /\ EntryIsLoaded /\ AudioUnderControl

PlayerState == {"stopped", "playing", "paused"}

-----------------------------------------------------------------------------
(* Selections and the player, whatever the screen does.                    *)

\* Selections are sequences of verses, no longer than the Quran.
LEMMA SelectionSeq ==
  ASSUME NEW s \in Selection
  PROVE  s \in Seq(Verse) /\ Len(s) \in 0..LastVerse
<1>1. PICK n \in 0..LastVerse : s \in [1..n -> Verse]
  BY DEF Selection
<1>2. n \in Nat
  BY VersesAssumption
<1> QED BY <1>1, <1>2

LEMMA EmptySelection == <<>> \in Selection
<1>1. <<>> \in [1..0 -> Verse]
  OBVIOUS
<1>2. 0 \in 0..LastVerse
  BY VersesAssumption
<1>3. <<>> \in UNION {[1..n -> Verse] : n \in 0..LastVerse}
  BY <1>1, <1>2
<1>4. \A i, j \in DOMAIN <<>> : i < j => <<>>[i] < <<>>[j]
  OBVIOUS
<1> QED BY <1>3, <1>4 DEF Selection

LEMMA LoadTypes ==
  ASSUME PlayerTypeOK, NEW v \in Verse, NEW r \in Reciter \cup {NoReciter},
         NEW meanwhile \in PlayerState, LoadAndPlay(v, r, meanwhile)
  PROVE  verse' \in Verse /\ media' \in Media \cup {NoMedia} /\ state' \in PlayerState
<1>1. CASE r # NoReciter /\ <<v, r>> \in Available
  BY <1>1 DEF LoadAndPlay, PlayerState, Media
<1>2. CASE ~(r # NoReciter /\ <<v, r>> \in Available)
  BY <1>2 DEF LoadAndPlay, PlayerTypeOK
<1> QED BY <1>1, <1>2

\* With audio for it, what is loaded is what was asked for.
LEMMA LoadFinds ==
  ASSUME NEW v \in Verse, NEW r \in Reciter, NEW meanwhile,
         LoadAndPlay(v, r, meanwhile), <<v, r>> \in Available
  PROVE  verse' = v
BY RecitersAssumption DEF LoadAndPlay

LEMMA ClearedTypes ==
  ASSUME ClearSelection
  PROVE  ~using' /\ playlist' \in Selection /\ pos' \in -1..LastVerse /\ using' \in BOOLEAN
<1>1. using' = FALSE /\ playlist' = <<>> /\ pos' = -1
  BY DEF ClearSelection
<1>2. playlist' \in Selection
  BY <1>1, EmptySelection, Zenon
<1>3. pos' \in -1..LastVerse
  BY <1>1, VersesAssumption
<1> QED BY <1>1, <1>2, <1>3

LEMMA StopInv ==
  ASSUME PlayerInv, Stop
  PROVE  PlayerInv' /\ state' = "stopped"
<1>1. ~using' /\ playlist' \in Selection /\ pos' \in -1..LastVerse /\ using' \in BOOLEAN
  BY ClearedTypes DEF Stop
<1> QED BY <1>1 DEF PlayerInv, PlayerTypeOK, EntryIsLoaded, Stop

LEMMA PlayVerseInv ==
  ASSUME PlayerInv, NEW v \in Verse, NEW r \in Reciter \cup {NoReciter}, PlayVerse(v, r)
  PROVE  PlayerInv'
<1>1. verse' \in Verse /\ media' \in Media \cup {NoMedia} /\ state' \in PlayerState
  BY LoadTypes DEF PlayVerse, PlayerInv, PlayerTypeOK, PlayerState
<1>2. ~using' /\ playlist' \in Selection /\ pos' \in -1..LastVerse /\ using' \in BOOLEAN
  BY ClearedTypes DEF PlayVerse
<1> QED BY <1>1, <1>2 DEF PlayVerse, PlayerInv, PlayerTypeOK, EntryIsLoaded, PlayerState

LEMMA SimpleInv ==
  ASSUME PlayerInv, Pause \/ Resume \/ Again \/ MediaFails
                      \/ (\E m \in LoopMode : SetLoopMode(m)) \/ UNCHANGED playerVars
  PROVE  PlayerInv'
BY DEF PlayerInv, PlayerTypeOK, EntryIsLoaded, Complete, Pause, Resume, Again, MediaFails,
       SetLoopMode, playerVars

LEMMA PlaySelectionInv ==
  ASSUME PlayerInv, NEW s \in Selection, NEW r \in Reciter, PlaySelection(s, r)
  PROVE  PlayerInv' /\ using'
<1>1. s \in Seq(Verse) /\ Len(s) \in 1..LastVerse /\ 1 \in DOMAIN s /\ s[1] \in Verse
  BY SelectionSeq, EmptySeq, VersesAssumption DEF PlaySelection
<1>2. LoadAndPlay(s[1], r, state)
  BY DEF PlaySelection
<1>3. verse' \in Verse /\ media' \in Media \cup {NoMedia} /\ state' \in PlayerState
  BY <1>1, <1>2, LoadTypes DEF PlayerInv, PlayerTypeOK, PlayerState
<1>4. /\ playlist' = s /\ pos' = 0 /\ using' = TRUE /\ reciter' = r
      /\ UNCHANGED loopMode
  BY DEF PlaySelection
<1>5. PlayerTypeOK'
  BY <1>1, <1>3, <1>4, VersesAssumption DEF PlayerInv, PlayerTypeOK, PlayerState
<1>6. Complete' => <<s[1], r>> \in Available
  BY <1>1, <1>4 DEF Complete
<1>7. Complete' => verse' = playlist'[pos' + 1]
  BY <1>1, <1>2, <1>4, <1>6, LoadFinds
<1> QED BY <1>4, <1>5, <1>7 DEF PlayerInv, EntryIsLoaded

LEMMA SetReciterInv ==
  ASSUME PlayerInv, NEW r \in Reciter, SetReciter(r)
  PROVE  PlayerInv'
<1>1. CASE r = reciter
  BY <1>1, SimpleInv DEF SetReciter
<1>2. CASE r # reciter
  <2>1. /\ reciter' = r /\ UNCHANGED <<loopMode, playlist, pos, using>>
        /\ LoadAndPlay(verse, r, state) \/ UNCHANGED <<verse, media, state>>
    BY <1>2 DEF SetReciter
  <2>2. verse' \in Verse /\ media' \in Media \cup {NoMedia} /\ state' \in PlayerState
    BY <2>1, LoadTypes DEF PlayerInv, PlayerTypeOK, PlayerState
  <2>3. verse' = verse
    BY <2>1 DEF LoadAndPlay
  <2> QED BY <2>1, <2>2, <2>3
          DEF PlayerInv, PlayerTypeOK, EntryIsLoaded, Complete, PlayerState
<1> QED BY <1>1, <1>2

LEMMA AdvancePlaylistInv ==
  ASSUME PlayerInv, using, AdvancePlaylist
  PROVE  PlayerInv'
<1>1. playlist \in Seq(Verse) /\ Len(playlist) \in 0..LastVerse
  BY SelectionSeq DEF PlayerInv, PlayerTypeOK
<1>2. pos \in Int /\ pos + 1 \in 1..Len(playlist) /\ LastVerse \in Nat
  BY <1>1, VersesAssumption DEF PlayerInv, PlayerTypeOK
<1>3. CASE pos + 1 >= Len(playlist) /\ loopMode = "Off"
  <2>1. pos' = pos + 1 /\ ~using' /\ using' \in BOOLEAN /\ state' = "stopped"
        /\ UNCHANGED <<verse, reciter, loopMode, playlist, media>>
    BY <1>3 DEF AdvancePlaylist
  <2>2. pos' \in -1..LastVerse
    BY <1>1, <1>2, <2>1
  <2> QED BY <2>1, <2>2 DEF PlayerInv, PlayerTypeOK, EntryIsLoaded
<1>4. CASE ~(pos + 1 >= Len(playlist) /\ loopMode = "Off")
  <2> DEFINE next == IF pos + 1 >= Len(playlist) THEN 0 ELSE pos + 1
  <2>1. next + 1 \in DOMAIN playlist /\ next \in -1..LastVerse /\ playlist[next + 1] \in Verse
    BY <1>1, <1>2
  <2>2. /\ pos' = next /\ LoadAndPlay(playlist[next + 1], reciter, "stopped")
        /\ UNCHANGED <<reciter, loopMode, playlist, using>>
    BY <1>4 DEF AdvancePlaylist
  <2> HIDE DEF next
  <2>3. verse' \in Verse /\ media' \in Media \cup {NoMedia} /\ state' \in PlayerState
    BY <2>1, <2>2, LoadTypes DEF PlayerInv, PlayerTypeOK, PlayerState
  <2>4. PlayerTypeOK'
    BY <2>1, <2>2, <2>3 DEF PlayerInv, PlayerTypeOK, PlayerState
  <2>5. reciter \in Reciter
    BY DEF PlayerInv, EntryIsLoaded
  <2>6. Complete' => <<playlist[next + 1], reciter>> \in Available
    BY <2>1, <2>2, <2>5 DEF Complete
  <2>7. Complete' => verse' = playlist[next + 1]
    BY <2>1, <2>2, <2>5, <2>6, LoadFinds
  <2> QED BY <2>2, <2>4, <2>5, <2>7 DEF PlayerInv, EntryIsLoaded
<1> QED BY <1>3, <1>4

LEMMA EndOfMediaInv ==
  ASSUME PlayerInv, EndOfMedia
  PROVE  PlayerInv'
<1>1. CASE loopMode = "RepeatVerse" /\ Again
  BY <1>1, SimpleInv
<1>2. CASE using /\ AdvancePlaylist
  BY <1>2, AdvancePlaylistInv
<1>3. CASE ~using /\ AdvanceToNextVerse
  <2> DEFINE following == IF verse = LastVerse THEN 1 ELSE verse + 1
  <2>1. following \in Verse
    BY VersesAssumption DEF PlayerInv, PlayerTypeOK, Verse
  <2>2. verse' \in Verse /\ media' \in Media \cup {NoMedia} /\ state' \in PlayerState
    BY <1>3, <2>1, LoadTypes DEF AdvanceToNextVerse, PlayerInv, PlayerTypeOK, PlayerState
  <2> QED BY <1>3, <2>2
          DEF AdvanceToNextVerse, PlayerInv, PlayerTypeOK, EntryIsLoaded, PlayerState
<1>4. CASE /\ state' = "stopped"
           /\ UNCHANGED <<verse, reciter, loopMode, playlist, pos, using, media>>
  BY <1>4 DEF PlayerInv, PlayerTypeOK, EntryIsLoaded, Complete
<1> QED BY <1>1, <1>2, <1>3, <1>4 DEF EndOfMedia

-----------------------------------------------------------------------------
(* The screens.                                                            *)

LEMMA NavigateToTypes ==
  ASSUME NavTypeOK, NEW v \in View, NavigateTo(v)
  PROVE  view' \in View /\ stack' \in Seq(View)
<1>1. CASE view = "splash"
  BY <1>1 DEF NavigateTo, NavTypeOK
<1>2. CASE view # "splash"
  <2>1. Append(stack, view) \in Seq(View)
    BY AppendProperties DEF NavTypeOK
  <2> QED BY <1>2, <2>1 DEF NavigateTo
<1> QED BY <1>1, <1>2

LEMMA GoBackTypes ==
  ASSUME NavTypeOK, GoBack
  PROVE  NavTypeOK'
<1>1. CASE stack = <<>>
  BY <1>1 DEF GoBack, NavTypeOK, View
<1>2. CASE stack # <<>>
  <2>1. stack \in Seq(View) /\ Len(stack) \in Nat \ {0}
    BY <1>2, EmptySeq DEF NavTypeOK
  <2>2. stack[Len(stack)] \in View
    BY <2>1
  <2>3. SubSeq(stack, 1, Len(stack) - 1) \in Seq(View)
    BY <2>1
  <2> QED BY <1>2, <2>2, <2>3 DEF GoBack, NavTypeOK
<1> QED BY <1>1, <1>2

LEMMA MoveTypes ==
  ASSUME NavTypeOK, Move
  PROVE  NavTypeOK'
<1>1. CASE GoBack
  BY <1>1, GoBackTypes
<1>2. CASE ShowHome
  BY <1>2 DEF ShowHome, NavTypeOK, View
<1>3. CASE PressHome
  <2>1. <<>> \in Seq(View)
    OBVIOUS
  <2> QED BY <1>3, <2>1 DEF PressHome, NavTypeOK, View
<1>4. CASE ToggleMenu
  <2>1. CASE view = "home" /\ menuOrigin # ""
    BY <1>4, <2>1 DEF ToggleMenu, NavTypeOK
  <2>2. CASE ~(view = "home" /\ menuOrigin # "")
    <3>1. menuOrigin' = view /\ NavigateTo("home")
      BY <1>4, <2>2 DEF ToggleMenu
    <3>2. "home" \in View
      BY DEF View
    <3> QED BY <3>1, <3>2, NavigateToTypes DEF NavTypeOK
  <2> QED BY <2>1, <2>2
<1>5. ASSUME NEW v \in View, Open(v)
      PROVE  NavTypeOK'
  BY <1>5, NavigateToTypes DEF Open, NavTypeOK
<1> QED BY <1>1, <1>2, <1>3, <1>4, <1>5 DEF Move

-----------------------------------------------------------------------------
(* The reader.                                                             *)

OwnTypeOK == selected \in Reciter \cup {NoReciter} /\ session \in BOOLEAN

\* Whatever a change of view means for the reader, its variables keep their types.
LEMMA FollowTypes ==
  ASSUME OwnTypeOK, PlayerTypeOK', pref' \in Reciter \cup {NoReciter}, ReaderFollows
  PROVE  OwnTypeOK'
<1>1. CASE Opened
  <2>1. session' \in BOOLEAN
    BY <1>1 DEF Opened, PlayerTypeOK
  <2>2. Preferred \in Reciter \cup {NoReciter}
    BY FirstAssumption DEF Preferred
  <2> QED BY <1>1, <2>1, <2>2 DEF Opened, OwnTypeOK, PlayerTypeOK
<1>2. CASE Closed
  BY <1>2 DEF Closed, OwnTypeOK
<1>3. CASE Stay
  BY <1>3 DEF Stay, OwnTypeOK
<1> QED BY <1>1, <1>2, <1>3 DEF ReaderFollows

LEMMA InitInv == Init => IInv
<1> SUFFICES ASSUME Init PROVE IInv
  OBVIOUS
<1>1. PlayerTypeOK
  <2>1. playlist \in Selection
    BY EmptySelection, Zenon DEF Init, Silent
  <2>2. verse \in Verse /\ pos \in -1..LastVerse
    BY VersesAssumption DEF Init, Silent, Verse
  <2> QED BY <2>1, <2>2 DEF Init, Silent, PlayerTypeOK, LoopMode
<1>2. NavTypeOK
  <2>1. <<>> \in Seq(View)
    OBVIOUS
  <2> QED BY <2>1 DEF Init, AtSplash, NavTypeOK, View
<1> QED BY <1>1, <1>2 DEF Init, Silent, IInv, TypeOK, EntryIsLoaded, AudioUnderControl

LEMMA NavigateInv ==
  ASSUME IInv, Navigate
  PROVE  IInv'
<1> USE DEF Navigate, IInv, TypeOK
<1>1. PlayerInv'
  BY StopInv, SimpleInv DEF PlayerInv, ViewChanged
<1>2. NavTypeOK'
  BY MoveTypes
<1>3. OwnTypeOK'
  BY <1>1, FollowTypes DEF PlayerInv, OwnTypeOK
<1>4. AudioUnderControl'
  <2>1. CASE InReader /\ view' # "quranreader"
    BY <2>1, StopInv DEF PlayerInv, ViewChanged, AudioUnderControl
  <2>2. CASE ~InReader
    BY <2>2 DEF ViewChanged, AudioUnderControl, playerVars
  <2>3. CASE InReader /\ view' = "quranreader"
    BY <2>3 DEF ViewChanged, AudioUnderControl, playerVars, ReaderFollows, Stay, InReader
  <2> QED BY <2>1, <2>2, <2>3
<1> QED BY <1>1, <1>2, <1>3, <1>4 DEF PlayerInv, OwnTypeOK

LEMMA BackButtonInv ==
  ASSUME IInv, BackButton
  PROVE  IInv'
<1> USE DEF BackButton, IInv, TypeOK
<1>1. PlayerInv' /\ state' = "stopped"
  BY StopInv DEF PlayerInv
<1>2. NavTypeOK'
  BY GoBackTypes
<1>3. OwnTypeOK'
  BY <1>1, FollowTypes DEF PlayerInv, OwnTypeOK
<1> QED BY <1>1, <1>2, <1>3 DEF PlayerInv, OwnTypeOK, AudioUnderControl

LEMMA OpenReaderInv ==
  ASSUME IInv, OpenReader
  PROVE  IInv'
<1> USE DEF OpenReader, IInv, TypeOK
<1>1. PlayerInv'
  BY SimpleInv DEF PlayerInv
<1>2. NavTypeOK'
  BY NavigateToTypes DEF NavTypeOK, View
<1>3. OwnTypeOK'
  BY <1>1, FollowTypes DEF PlayerInv, OwnTypeOK
<1>4. state' = "stopped"
  BY DEF AudioUnderControl, InReader, playerVars
<1> QED BY <1>1, <1>2, <1>3, <1>4 DEF PlayerInv, OwnTypeOK, AudioUnderControl

LEMMA SelectInMenuInv ==
  ASSUME IInv, NEW s \in Selection, NEW r \in Reciter, SelectInMenu(s, r)
  PROVE  IInv'
<1> USE DEF SelectInMenu, IInv, TypeOK
<1>1. PlayerInv' /\ using'
  BY PlaySelectionInv DEF PlayerInv
<1>2. NavTypeOK' /\ view' = "quranreader"
  BY NavigateToTypes DEF NavTypeOK, View, NavigateTo
<1>3. OwnTypeOK'
  BY <1>1, FollowTypes DEF PlayerInv, OwnTypeOK
<1>4. session'
  BY <1>1, <1>2 DEF ReaderFollows, InReader, Opened
<1> QED BY <1>1, <1>2, <1>3, <1>4 DEF PlayerInv, OwnTypeOK, AudioUnderControl, InReader

LEMMA SelectInReaderInv ==
  ASSUME IInv, NEW s \in Selection, NEW r \in Reciter, SelectInReader(s, r)
  PROVE  IInv'
<1> USE DEF SelectInReader, IInv, TypeOK
<1>1. PlayerInv'
  BY PlaySelectionInv DEF PlayerInv
<1> QED BY <1>1 DEF PlayerInv, NavTypeOK, navVars, AudioUnderControl, InReader

LEMMA ToggleInv ==
  ASSUME IInv, NEW v \in Verse, ToggleVersePlayback(v)
  PROVE  IInv'
<1> USE DEF ToggleVersePlayback, IInv, TypeOK
<1>1. PlayerInv'
  BY PlayVerseInv, SimpleInv DEF PlayerInv
<1> QED BY <1>1 DEF PlayerInv, NavTypeOK, navVars, AudioUnderControl, InReader

LEMMA BarInv ==
  ASSUME IInv, CycleLoopMode \/ CloseBar \/ (\E r \in Reciter : PickReciter(r))
  PROVE  IInv'
<1> USE DEF IInv, TypeOK, NavTypeOK, navVars, AudioUnderControl, InReader
<1>1. CASE CycleLoopMode
  <2>1. NextMode[loopMode] \in LoopMode
    BY DEF NextMode, LoopMode, PlayerTypeOK
  <2>2. PlayerInv'
    BY <1>1, <2>1, SimpleInv DEF CycleLoopMode, PlayerInv
  <2> QED BY <1>1, <2>2 DEF CycleLoopMode, PlayerInv
<1>2. CASE CloseBar
  <2>1. PlayerInv' /\ state' = "stopped"
    BY <1>2, StopInv DEF CloseBar, PlayerInv
  <2> QED BY <1>2, <2>1 DEF CloseBar, PlayerInv
<1>3. ASSUME NEW r \in Reciter, PickReciter(r)
      PROVE  IInv'
  <2>1. PlayerInv'
    BY <1>3, SetReciterInv DEF PickReciter, PlayerInv
  <2> QED BY <1>3, <2>1 DEF PickReciter, PlayerInv
<1> QED BY <1>1, <1>2, <1>3

LEMMA MediaEventInv ==
  ASSUME IInv, MediaEvent
  PROVE  IInv'
<1> USE DEF MediaEvent, IInv, TypeOK
<1>1. PlayerInv'
  BY EndOfMediaInv, SimpleInv DEF PlayerInv
<1>2. InReader /\ session
  BY DEF EndOfMedia, MediaFails, AudioUnderControl
<1> QED BY <1>1, <1>2 DEF PlayerInv, NavTypeOK, navVars, AudioUnderControl, InReader

LEMMA RestartInv ==
  ASSUME IInv, Restart
  PROVE  IInv'
<1>1. playlist' \in Selection
  BY EmptySelection, Zenon DEF Restart
<1>2. verse' = 1 /\ pos' = -1
  BY DEF Restart
<1>3. verse' \in Verse /\ pos' \in -1..LastVerse
  BY <1>2, VersesAssumption DEF Verse
<1>4. PlayerTypeOK'
  BY <1>1, <1>3 DEF Restart, PlayerTypeOK, LoopMode
<1>5. <<>> \in Seq(View)
  OBVIOUS
<1>6. NavTypeOK'
  BY <1>5 DEF Restart, NavTypeOK, View
<1> QED BY <1>4, <1>6
        DEF Restart, Closed, IInv, TypeOK, EntryIsLoaded, AudioUnderControl

LEMMA StepInv == IInv /\ [Next]_vars => IInv'
<1> SUFFICES ASSUME IInv, [Next]_vars PROVE IInv'
  OBVIOUS
<1>1. CASE Navigate
  BY <1>1, NavigateInv
<1>2. CASE ReaderStep
  BY <1>2, BackButtonInv, OpenReaderInv, BarInv, SelectInMenuInv, SelectInReaderInv, ToggleInv
     DEF ReaderStep
<1>3. CASE Restart
  BY <1>3, RestartInv
<1>4. CASE MediaEvent
  BY <1>4, MediaEventInv
<1>5. CASE UNCHANGED vars
  <2>1. PlayerInv'
    BY <1>5, SimpleInv DEF vars, IInv, TypeOK, PlayerInv
  <2> QED BY <1>5, <2>1
          DEF vars, navVars, playerVars, IInv, TypeOK, NavTypeOK, PlayerInv, AudioUnderControl, InReader
<1> QED BY <1>1, <1>2, <1>3, <1>4, <1>5 DEF Next, UserStep

LEMMA InvHolds == Spec => []IInv
BY InitInv, StepInv, PTL DEF Spec

-----------------------------------------------------------------------------
\* Player, screens and reader keep their types, and the position of a
\* selection in use is one of its entries.
THEOREM TypeCorrect == Spec => []TypeOK
<1>1. IInv => TypeOK
  BY DEF IInv
<1> QED BY <1>1, InvHolds, PTL

\* By no path through the screens is a recitation left without its controls.
THEOREM AudioAlwaysUnderControl == Spec => []AudioUnderControl
<1>1. IInv => AudioUnderControl
  BY DEF IInv
<1> QED BY <1>1, InvHolds, PTL

\* What is heard of a selection is the entry that the audio bar names.
THEOREM SelectionAlwaysHeard == Spec => []SelectionIsHeard
<1>1. IInv => SelectionIsHeard
  BY DEF IInv, EntryIsLoaded, Complete, SelectionIsHeard
<1> QED BY <1>1, InvHolds, PTL
=============================================================================
