-------------------------------- MODULE Mushaf -------------------------------
(***************************************************************************)
(* The scanned mushafs: MushafGallery.qml, MushafReader.qml and the place  *)
(* MushafBackend keeps of the last reading, where they meet Navigation.    *)
(*                                                                         *)
(* The gallery hands the edition and the page over in two properties of    *)
(* Main.qml that the new reader empties in the same handler: they are not  *)
(* state.  A reader that is left is destroyed after the next view is made. *)
(***************************************************************************)
EXTENDS Navigation

CONSTANTS
  Edition,    \* the mushafs of the database
  MinPage, MaxPage,   \* of each edition
  NoEdition   \* an empty name

ASSUME EditionAssumption ==
  /\ NoEdition \notin Edition
  /\ MinPage \in [Edition -> Nat \ {0}] /\ MaxPage \in [Edition -> Nat]
  /\ \A e \in Edition : MinPage[e] <= MaxPage[e]
ASSUME BranchAssumption == {"mushafgallery", "mushafreader"} \subseteq Branch

VARIABLES
  mushafName,   \* the edition in the reader
  currentPage,  \* and its page
  saved,        \* mushafProgress in the settings: [mushafName, pageNumber]
  card          \* lastProgress of the gallery, as of when it was opened

mushafVars == <<navVars, mushafName, currentPage, saved, card>>

Page == {1} \cup UNION {MinPage[e]..MaxPage[e] : e \in Edition}

Bookmark == [mushafName : Edition \cup {NoEdition}, pageNumber : Page]

\* lastProgress() is empty when the name is.
NoPlace == [mushafName |-> NoEdition, pageNumber |-> 1]

MushafTypeOK ==
  /\ NavTypeOK
  /\ mushafName \in Edition \cup {NoEdition} /\ currentPage \in Page
  /\ saved \in Bookmark /\ card \in Bookmark

InReader == view = "mushafreader"

MushafInit ==
  /\ AtSplash
  /\ mushafName = NoEdition /\ currentPage = 1
  /\ saved = NoPlace /\ card = NoPlace

Reset == mushafName' = NoEdition /\ currentPage' = 1

\* saveCurrentProgress(), whatever is in the reader.
Left == IF InReader THEN [mushafName |-> mushafName, pageNumber |-> currentPage] ELSE saved

\* What a change of view does to the reader and the gallery.  A way into the
\* reader other than the gallery brings no edition, whose only page is 1.
Moved ==
  IF view' = view
    THEN UNCHANGED <<mushafName, currentPage, saved, card>>
    ELSE /\ saved' = Left
         /\ Reset
         /\ IF view' = "mushafgallery" THEN card' \in {saved, saved'} ELSE card' = NoPlace

Navigate ==
  /\ GoBack \/ ShowHome \/ PressHome \/ ToggleMenu \/ \E v \in View \ {"mushafreader"} : Open(v)
  /\ Moved

\* The reader's own back button saves before it goes.
BackButton ==
  /\ InReader
  /\ GoBack
  /\ saved' = Left
  /\ IF view' = view THEN UNCHANGED <<mushafName, currentPage, card>>
       ELSE Reset /\ card' = IF view' = "mushafgallery" THEN saved' ELSE NoPlace

OpenMushaf(e, page) ==
  /\ view = "mushafgallery"
  /\ NavigateTo("mushafreader")
  /\ mushafName' = e /\ currentPage' = page
  /\ card' = NoPlace
  /\ UNCHANGED <<menuOrigin, saved>>

\* A tile of the gallery.
OpenTile(e) == OpenMushaf(e, MinPage[e])

\* "Continue reading".
ContinueMushaf == card.mushafName # NoEdition /\ OpenMushaf(card.mushafName, card.pageNumber)

\* The arrows, the edges of the page and the field for its number.
GoToPage(page) ==
  /\ InReader /\ mushafName # NoEdition
  /\ page \in MinPage[mushafName]..MaxPage[mushafName]
  /\ currentPage' = page
  /\ UNCHANGED <<navVars, mushafName, saved, card>>

MushafNext ==
  \/ Navigate \/ BackButton
  \/ \E e \in Edition : OpenTile(e)
  \/ ContinueMushaf
  \/ \E page \in Page : GoToPage(page)

MushafSpec == MushafInit /\ [][MushafNext]_mushafVars

-----------------------------------------------------------------------------
(* Properties.                                                             *)

\* "resume-last-page" (MushafReader.qml:6): once a page of an edition is
\* saved there is always one to resume from.
ProgressSurvives == [][saved.mushafName # NoEdition => saved'.mushafName # NoEdition]_mushafVars
=============================================================================
