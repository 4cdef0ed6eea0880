------------------------------- MODULE Reader -------------------------------
(***************************************************************************)
(* The Quran reader (QuranView.qml, QuranMenu.qml) where Navigation and    *)
(* Player meet: recitations are started from the reader or from the Quran  *)
(* menu, controlled with the reader's audio bar, and stopped by Main.qml   *)
(* whenever the reader is left.                                            *)
(***************************************************************************)
EXTENDS Player, Navigation

CONSTANT FirstReciter   \* the first entry of reciterList(), or NoReciter

ASSUME FirstAssumption == FirstReciter \in Reciter \cup {NoReciter}

VARIABLES
  selected,   \* selectedReciterId of the reader
  session,    \* audioSessionStarted: the audio bar is visible
  pref        \* the stored preference "reciterId"

vars == <<playerVars, navVars, selected, session, pref>>

InReader == view = "quranreader"

Init ==
  /\ Silent
  /\ AtSplash
  /\ selected = NoReciter
  /\ session = FALSE
  /\ pref \in Reciter \cup {NoReciter}

\* The preferred reciter, or the first one.
Preferred == IF pref' = NoReciter THEN FirstReciter ELSE pref'

\* Component.onCompleted of a new reader picks up a recitation that is on.
Opened ==
  /\ session' = (state' = "playing" \/ using')
  /\ selected' = IF session' /\ reciter' # NoReciter THEN reciter' ELSE Preferred

Closed == selected' = NoReciter /\ session' = FALSE

Stay == UNCHANGED <<selected, session>>

\* Which of the three a change of view means.
ReaderFollows ==
  \/ view' = "quranreader" /\ ~InReader /\ Opened
  \/ view' # "quranreader" /\ Closed
  \/ view' = "quranreader" /\ InReader /\ Stay

\* Mutant: recitations go on when the reader is left.
ViewChangedKeepsAudio == UNCHANGED playerVars

\* onCurrentViewChanged.
ViewChanged ==
  IF InReader /\ view' # "quranreader" THEN Stop ELSE UNCHANGED playerVars

-----------------------------------------------------------------------------
Navigate ==
  /\ Move
  /\ ViewChanged
  /\ UNCHANGED pref
  /\ ReaderFollows

\* The reader's own back button stops the recitation itself.
BackButton ==
  /\ InReader
  /\ GoBack
  /\ Stop
  /\ UNCHANGED pref
  /\ ReaderFollows

OpenReader ==
  /\ view = "quranmenu"
  /\ NavigateTo("quranreader")
  /\ UNCHANGED <<menuOrigin, playerVars, pref>>
  /\ ReaderFollows

\* QuranMenu's startSelectionPlayback(): play first, then open the reader.
SelectInMenu(verses, r) ==
  /\ view = "quranmenu"
  /\ PlaySelection(verses, r)
  /\ pref' = r
  /\ NavigateTo("quranreader")
  /\ UNCHANGED menuOrigin
  /\ ReaderFollows

SelectInReader(verses, r) ==
  /\ InReader
  /\ PlaySelection(verses, r)
  /\ pref' = r /\ selected' = r /\ session' = TRUE
  /\ UNCHANGED navVars

IsCurrentAudioVerse(v) == verse = v /\ reciter = selected

\* A verse's own button, or the bar's for the verse it shows.
ToggleVersePlayback(v) ==
  /\ InReader
  /\ selected # NoReciter \/ (session /\ v = verse)
  /\ IF ~IsCurrentAudioVerse(v) THEN PlayVerse(v, selected)
     ELSE IF state = "playing" THEN Pause ELSE Resume
  /\ session' = TRUE
  /\ UNCHANGED <<navVars, selected, pref>>

NextMode ==
  [m \in LoopMode |->
     CASE m = "Off" -> "RepeatVerse" [] m = "RepeatVerse" -> "RepeatRange" [] OTHER -> "Off"]

CycleLoopMode ==
  /\ InReader /\ session
  /\ SetLoopMode(NextMode[loopMode])
  /\ UNCHANGED <<navVars, selected, session, pref>>

PickReciter(r) ==
  /\ InReader /\ session
  /\ SetReciter(r)
  /\ pref' = r /\ selected' = r
  /\ UNCHANGED <<navVars, session>>

CloseBar ==
  /\ InReader /\ session
  /\ Stop
  /\ session' = FALSE
  /\ UNCHANGED <<navVars, selected, pref>>

MediaEvent ==
  /\ EndOfMedia \/ MediaFails
  /\ UNCHANGED <<navVars, selected, session, pref>>

RecitationEnds ==
  /\ EndOfMedia
  /\ UNCHANGED <<navVars, selected, session, pref>>

\* Esc or a crash, and systemd: only the preference is stored.
Restart ==
  /\ verse' = 1 /\ reciter' = NoReciter /\ loopMode' = "Off"
  /\ playlist' = <<>> /\ pos' = -1 /\ using' = FALSE
  /\ media' = NoMedia /\ state' = "stopped"
  /\ view' = "splash" /\ stack' = <<>> /\ menuOrigin' = ""
  /\ Closed
  /\ UNCHANGED pref

-----------------------------------------------------------------------------
ReaderStep ==
  \/ BackButton \/ OpenReader \/ CycleLoopMode \/ CloseBar
  \/ \E s \in Selection, r \in Reciter : SelectInMenu(s, r) \/ SelectInReader(s, r)
  \/ \E v \in Verse : ToggleVersePlayback(v)
  \/ \E r \in Reciter : PickReciter(r)

UserStep == Navigate \/ ReaderStep \/ Restart

Next == UserStep \/ MediaEvent

Spec == Init /\ [][Next]_vars

\* A recitation has an end, and the event loop delivers it.
FairSpec == Spec /\ WF_vars(RecitationEnds)

-----------------------------------------------------------------------------
(* Properties.                                                             *)

\* The variables stay in their domains, and the playlist position in the list.
TypeOK ==
  /\ PlayerTypeOK
  /\ NavTypeOK
  /\ selected \in Reciter \cup {NoReciter}
  /\ session \in BOOLEAN
  /\ pref \in Reciter \cup {NoReciter}

\* No recitation is ever left running "with no way to reach it again"
\* (Main.qml:226): whatever way the view changed, what plays or is paused has
\* the reader on the screen and its audio bar with the stop button.
AudioUnderControl == state # "stopped" => InReader /\ session

\* A selection is recited entry by entry: what is heard is the entry the bar
\* names ("2/5 selected"), across taps, changes of reciter and of loop mode,
\* if there is audio for the entries.
SelectionIsHeard ==
  /\ using /\ state = "playing"
  /\ \A i \in DOMAIN playlist, r \in Reciter : <<playlist[i], r>> \in Available
  => verse = playlist[pos + 1]

\* From some time on nobody touches the device.
LeftAlone == <>[][MediaEvent]_vars

\* "Off stops after one full pass" (audiobackend.h:81): left alone, a
\* recitation that repeats nothing comes to its end.
OffEnds == LeftAlone => []<>(state # "playing" \/ loopMode # "Off")

\* "anything else loops the whole list forever" (audiobackend.h:80): left
\* alone, every verse of a repeated selection comes round again and again.
WholeSelectionRecited ==
  LeftAlone =>
    \A v \in Verse :
      []<>(using /\ loopMode = "RepeatRange" /\ state = "playing"
             /\ (\E i \in DOMAIN playlist : playlist[i] = v) => verse = v)
=============================================================================
