------------------------------- MODULE Player -------------------------------
(***************************************************************************)
(* AudioBackend (shell-src/audiobackend.cpp): a verse or a selection of    *)
(* verses played by a QMediaPlayer, one after the other as the loop mode   *)
(* says.  All of it runs on the main thread; the end of a recitation       *)
(* arrives as an event between the handlers of the user's taps.            *)
(*                                                                         *)
(* Verses are numbered in the order of the Quran, so that nextVerse() is   *)
(* the successor.  Left out: positions inside a recitation, and ranges     *)
(* (setRange() has no caller, and m_hasRange stays false).                 *)
(***************************************************************************)
EXTENDS Integers, Sequences

CONSTANTS
  LastVerse,     \* the number of verses
  Reciter,       \* the reciters of the audio database
  NoReciter,     \* the empty reciter id
  NoMedia,       \* a QMediaPlayer without media
  Available      \* <<v, r>>: audioFilePath() finds verse v of reciter r

Verse == 1..LastVerse

ASSUME VersesAssumption == LastVerse \in Nat \ {0}
ASSUME RecitersAssumption == NoReciter \notin Reciter
ASSUME AvailableAssumption == Available \subseteq Verse \X Reciter

Media == [verse : Verse, reciter : Reciter]

ASSUME MediaAssumption == NoMedia \notin Media

VARIABLES
  verse,      \* m_surah, m_ayah
  reciter,    \* m_reciterId
  loopMode,   \* m_loopMode: "Off", "RepeatVerse" or "RepeatRange"
  playlist,   \* m_playlist
  pos,        \* m_playlistPos, counted from 0
  using,      \* m_usingPlaylist
  media,      \* what m_player has loaded
  state       \* m_player->state()

playerVars == <<verse, reciter, loopMode, playlist, pos, using, media, state>>

\* What versesForSelection() returns: verses without repetition, in order.
Selection ==
  {s \in UNION {[1..n -> Verse] : n \in 0..LastVerse} :
     \A i, j \in DOMAIN s : i < j => s[i] < s[j]}

LoopMode == {"Off", "RepeatVerse", "RepeatRange"}

PlayerTypeOK ==
  /\ verse \in Verse
  /\ reciter \in Reciter \cup {NoReciter}
  /\ loopMode \in LoopMode
  /\ playlist \in Selection /\ pos \in -1..LastVerse /\ using \in BOOLEAN
  /\ using => pos + 1 \in DOMAIN playlist
  /\ media \in Media \cup {NoMedia}
  /\ state \in {"stopped", "playing", "paused"}

Silent ==
  /\ verse = 1
  /\ reciter = NoReciter
  /\ loopMode = "Off"
  /\ playlist = <<>>
  /\ pos = -1
  /\ using = FALSE
  /\ media = NoMedia
  /\ state = "stopped"

-----------------------------------------------------------------------------
\* Without audio for the verse the handler returns early, and the player
\* goes on with what it is doing (`meanwhile').
LoadAndPlay(v, r, meanwhile) ==
  IF r # NoReciter /\ <<v, r>> \in Available
    THEN /\ verse' = v
         /\ media' = [verse |-> v, reciter |-> r]
         /\ state' = "playing"
    ELSE UNCHANGED <<verse, media>> /\ state' = meanwhile

\* Mutant: the selection is emptied and still in use.
ClearSelectionInUse == UNCHANGED using /\ playlist' = <<>> /\ pos' = -1

ClearSelection == using' = FALSE /\ playlist' = <<>> /\ pos' = -1

PlayVerse(v, r) ==
  /\ ClearSelection
  /\ reciter' = r
  /\ LoadAndPlay(v, r, state)
  /\ UNCHANGED loopMode

Pause ==
  /\ state' = "paused"
  /\ UNCHANGED <<verse, reciter, loopMode, playlist, pos, using, media>>

\* QMediaPlayer::play() does nothing without media.
Resume ==
  /\ state' = IF media = NoMedia THEN state ELSE "playing"
  /\ UNCHANGED <<verse, reciter, loopMode, playlist, pos, using, media>>

Stop ==
  /\ state' = "stopped"
  /\ ClearSelection
  /\ UNCHANGED <<verse, reciter, loopMode, media>>

SetLoopMode(m) ==
  /\ loopMode' = m
  /\ UNCHANGED <<verse, reciter, playlist, pos, using, media, state>>

PlaySelection(verses, r) ==
  /\ verses # <<>>
  /\ playlist' = verses
  /\ pos' = 0
  /\ using' = TRUE
  /\ reciter' = r
  /\ LoadAndPlay(verses[1], r, state)
  /\ UNCHANGED loopMode

SetReciter(r) ==
  IF r = reciter THEN UNCHANGED playerVars
  ELSE /\ reciter' = r
       /\ IF media # NoMedia THEN LoadAndPlay(verse, r, state)
                             ELSE UNCHANGED <<verse, media, state>>
       /\ UNCHANGED <<loopMode, playlist, pos, using>>

-----------------------------------------------------------------------------
(* onMediaStatusChanged(EndOfMedia): the player has stopped.               *)

Again ==
  /\ state' = "playing"
  /\ UNCHANGED <<verse, reciter, loopMode, playlist, pos, using, media>>

\* Mutant: "Off" is not looked at, and the selection starts over.
AdvancePlaylistForever ==
  LET next == IF pos + 1 >= Len(playlist) THEN 0 ELSE pos + 1
  IN  /\ pos' = next
      /\ LoadAndPlay(playlist[next + 1], reciter, "stopped")
      /\ UNCHANGED <<reciter, loopMode, playlist, using>>

\* Mutant: the entry is loaded before the position moves on.
AdvancePlaylistLate ==
  IF pos + 1 >= Len(playlist) /\ loopMode = "Off"
    THEN /\ pos' = pos + 1 /\ using' = FALSE /\ state' = "stopped"
         /\ UNCHANGED <<verse, reciter, loopMode, playlist, media>>
    ELSE /\ pos' = (pos + 1) % Len(playlist)
         /\ LoadAndPlay(playlist[pos + 1], reciter, "stopped")
         /\ UNCHANGED <<reciter, loopMode, playlist, using>>

\* Mutant: the selection starts over with its second entry.
AdvancePlaylistSkips ==
  IF pos + 1 >= Len(playlist) /\ loopMode = "Off"
    THEN /\ pos' = pos + 1 /\ using' = FALSE /\ state' = "stopped"
         /\ UNCHANGED <<verse, reciter, loopMode, playlist, media>>
    ELSE LET next == (pos + 1) % Len(playlist)
             skip == IF next = 0 /\ Len(playlist) > 1 THEN 1 ELSE next
         IN  /\ pos' = skip
             /\ LoadAndPlay(playlist[skip + 1], reciter, "stopped")
             /\ UNCHANGED <<reciter, loopMode, playlist, using>>

AdvancePlaylist ==
  IF pos + 1 >= Len(playlist) /\ loopMode = "Off"
    THEN /\ pos' = pos + 1 /\ using' = FALSE /\ state' = "stopped"
         /\ UNCHANGED <<verse, reciter, loopMode, playlist, media>>
    ELSE LET next == IF pos + 1 >= Len(playlist) THEN 0 ELSE pos + 1
         IN  /\ pos' = next
             /\ LoadAndPlay(playlist[next + 1], reciter, "stopped")
             /\ UNCHANGED <<reciter, loopMode, playlist, using>>

\* Without a range: from the last verse to the first.
AdvanceToNextVerse ==
  /\ LoadAndPlay(IF verse = LastVerse THEN 1 ELSE verse + 1, reciter, "stopped")
  /\ UNCHANGED <<reciter, loopMode, playlist, pos, using>>

EndOfMedia ==
  /\ state = "playing"
  /\ \/ loopMode = "RepeatVerse" /\ Again
     \/ loopMode # "RepeatVerse" /\ using /\ AdvancePlaylist
     \/ loopMode = "RepeatRange" /\ ~using /\ AdvanceToNextVerse
     \/ /\ loopMode = "Off" /\ ~using
        /\ state' = "stopped"
        /\ UNCHANGED <<verse, reciter, loopMode, playlist, pos, using, media>>

\* A file that cannot be decoded: QMediaPlayer stops with an error and
\* without an end of media.
MediaFails ==
  /\ state = "playing"
  /\ state' = "stopped"
  /\ UNCHANGED <<verse, reciter, loopMode, playlist, pos, using, media>>
=============================================================================
