---------------------------- MODULE HadithReader -----------------------------
(***************************************************************************)
(* The Hadith reader (HadithView.qml), the menu that opens it              *)
(* (HadithMenu.qml) and the queries of QuranBackend that fill it: a whole  *)
(* book loaded page by page as one scrolls, one topic of a book, or a      *)
(* reading list, with in-reader changes between the three.                 *)
(*                                                                         *)
(* A hadith is its id.  A list that is given new hadiths is taken to       *)
(* report its end (onAtYEndChanged) after the handler and not inside it,   *)
(* except while a reader is made.  Left out: a hadith's text, the          *)
(* full-text search that finds one, and which parts of a text are shown.   *)
(***************************************************************************)
EXTENDS Integers, FiniteSets, Sequences, Functions

CONSTANTS
  Catalogue,  \* the hadith database: [book, topic] of each id
  PageSize,   \* 30 in the code
  NoName      \* an empty book or topic

Hadith == DOMAIN Catalogue
Book == {Catalogue[h].book : h \in Hadith}
Topic == {Catalogue[h].topic : h \in Hadith}

ASSUME CatalogueAssumption ==
  Catalogue \in Seq([book : Book, topic : Topic])
ASSUME PageAssumption == PageSize \in Nat \ {0} /\ NoName \notin Book \cup Topic

VARIABLES
  open,         \* whether the reader is the current view
  behind,       \* whether goBack() or the Menu button leads to a reader
  mode,         \* "book", "topic" or "selection"
  book, topic,  \* what is read
  items,        \* the hadiths loaded
  lastLoadedId, \* where loadMore() goes on
  reachedEnd,   \* loadMore() found nothing
  currentId,    \* the hadith at the top of the screen, or 0
  selecting,    \* selectionMode
  selectedIds,  \* the ticked hadiths
  progress      \* hadithProgress/id in the settings, 0 when there is none

placeVars == <<mode, book, topic>>
pageVars == <<items, lastLoadedId, reachedEnd>>
tickVars == <<selecting, selectedIds>>
hadithVars == <<open, behind, placeVars, pageVars, currentId, tickVars, progress>>

HadithTypeOK ==
  /\ open \in BOOLEAN /\ behind \in BOOLEAN
  /\ mode \in {"book", "topic", "selection"}
  /\ book \in Book \cup {NoName} /\ topic \in Topic \cup {NoName}
  /\ items \in Seq(Hadith)
  /\ lastLoadedId \in Hadith \cup {0} /\ reachedEnd \in BOOLEAN
  /\ currentId \in Hadith \cup {0}
  /\ selecting \in BOOLEAN /\ selectedIds \subseteq Hadith
  /\ progress \in Hadith \cup {0}

-----------------------------------------------------------------------------
(* The queries.                                                            *)

\* A finite set of integers in ascending order: each at the place that the
\* number of the smaller ones says.
Ascending(S) ==
  [k \in 1..Cardinality(S) |-> CHOOSE x \in S : Cardinality({y \in S : y < x}) = k - 1]

\* ORDER BY id
ById(hadiths) == Ascending(hadiths)

OfTopic(b, t) == {h \in Hadith : Catalogue[h] = [book |-> b, topic |-> t]}

HadithsByTopic(b, t) == ById(OfTopic(b, t))

OfBook(b) == {h \in Hadith : Catalogue[h].book = b}

HadithsInBook(b, afterId) ==
  LET found == ById({h \in OfBook(b) : h > afterId})
  IN  SubSeq(found, 1, IF Len(found) < PageSize THEN Len(found) ELSE PageSize)

TopicsOf(b) == {Catalogue[h].topic : h \in OfBook(b)}

\* The topics that were ticked, without duplicates.
HadithsForSelection(b, topics) == ById(UNION {OfTopic(b, t) : t \in topics})

FirstId(hadiths) == IF hadiths = <<>> THEN 0 ELSE Head(hadiths)
LastId(hadiths) == IF hadiths = <<>> THEN 0 ELSE hadiths[Len(hadiths)]

-----------------------------------------------------------------------------
(* Opening and leaving.                                                    *)

HadithInit ==
  /\ open = FALSE /\ behind = FALSE
  /\ mode = "book" /\ book = NoName /\ topic = NoName
  /\ items = <<>> /\ lastLoadedId = 0 /\ reachedEnd = FALSE
  /\ currentId = 0
  /\ selecting = FALSE /\ selectedIds = {}
  /\ progress = 0

\* A new reader.  Its list, empty until onCompleted fills it, may already
\* have reported that it is at its end: loadMore() then found no book.
Opened(m, b, t, hadiths) ==
  /\ ~open /\ open' = TRUE
  /\ mode' = m /\ book' = b /\ topic' = t
  /\ items' = hadiths
  /\ lastLoadedId' = IF m = "book" THEN LastId(hadiths) ELSE 0
  /\ reachedEnd' \in BOOLEAN
  /\ currentId' = FirstId(hadiths)
  /\ selecting' = FALSE /\ selectedIds' = {}
  /\ UNCHANGED <<behind, progress>>

OpenBook(b) == Opened("book", b, NoName, HadithsInBook(b, 0))

\* A search result, a random hadith or the place that was saved when the menu
\* was made: the book from there on.
OpenAt(h) ==
  LET b == Catalogue[h].book IN Opened("book", b, NoName, HadithsInBook(b, h - 1))

OpenTopic(b, t) == t \in TopicsOf(b) /\ Opened("topic", b, t, HadithsByTopic(b, t))

OpenSelection(b, topics) ==
  /\ topics # {} /\ topics \subseteq TopicsOf(b)
  /\ Opened("selection", NoName, NoName, HadithsForSelection(b, topics))

\* Back into a reader that was left: what opened it was used up.
Return == behind /\ Opened("book", NoName, NoName, <<>>)

\* Its back button, the Back, Home and Menu buttons, the status bar.
Leave ==
  /\ open /\ open' = FALSE
  /\ behind' \in BOOLEAN
  /\ progress' = IF mode # "selection" /\ currentId > 0 THEN currentId ELSE progress
  /\ mode' = "book" /\ book' = NoName /\ topic' = NoName
  /\ items' = <<>> /\ lastLoadedId' = 0 /\ reachedEnd' = FALSE
  /\ currentId' = 0
  /\ selecting' = FALSE /\ selectedIds' = {}

-----------------------------------------------------------------------------
(* Inside the reader.                                                      *)

Scroll ==
  /\ open
  /\ currentId' \in Range(items)
  /\ UNCHANGED <<open, behind, placeVars, pageVars, tickVars, progress>>

\* Mutant: topics and reading lists are continued too.
LoadMoreAlways ==
  /\ open
  /\ ~reachedEnd
  /\ LET batch == HadithsInBook(book, lastLoadedId)
     IN  IF batch = <<>>
           THEN reachedEnd' = TRUE /\ UNCHANGED <<items, lastLoadedId>>
           ELSE /\ items' = items \o batch
                /\ lastLoadedId' = LastId(batch)
                /\ UNCHANGED reachedEnd
  /\ UNCHANGED <<open, behind, placeVars, currentId, tickVars, progress>>

\* The list is scrolled to its end.
LoadMore ==
  /\ open
  /\ mode = "book" /\ ~reachedEnd
  /\ LET batch == HadithsInBook(book, lastLoadedId)
     IN  IF batch = <<>>
           THEN reachedEnd' = TRUE /\ UNCHANGED <<items, lastLoadedId>>
           ELSE /\ items' = items \o batch
                /\ lastLoadedId' = LastId(batch)
                /\ UNCHANGED reachedEnd
  /\ UNCHANGED <<open, behind, placeVars, currentId, tickVars, progress>>

\* The button of the topic picker.
CanPick == open /\ mode # "selection" /\ book # NoName

Refill(hadiths) ==
  /\ items' = hadiths
  /\ currentId' = IF hadiths = <<>> THEN currentId ELSE Head(hadiths)

PickTopic(t) ==
  /\ CanPick
  /\ t \in TopicsOf(book)
  /\ mode' = "topic" /\ topic' = t
  /\ Refill(HadithsByTopic(book, t))
  /\ UNCHANGED <<open, behind, book, lastLoadedId, reachedEnd, tickVars, progress>>

ReadWholeBook ==
  /\ CanPick
  /\ mode' = "book" /\ topic' = NoName
  /\ Refill(HadithsInBook(book, 0))
  /\ lastLoadedId' = LastId(items')
  /\ reachedEnd' = FALSE
  /\ UNCHANGED <<open, behind, book, tickVars, progress>>

\* The place in the book is kept.
PickSelection(topics) ==
  /\ CanPick
  /\ topics # {} /\ topics \subseteq TopicsOf(book)
  /\ mode' = "selection"
  /\ items' = HadithsForSelection(book, topics)
  /\ UNCHANGED <<open, behind, book, topic, lastLoadedId, reachedEnd, currentId, tickVars, progress>>

ToggleSelecting ==
  /\ open
  /\ selecting' = ~selecting /\ selectedIds' = {}
  /\ UNCHANGED <<open, behind, placeVars, pageVars, currentId, progress>>

ToggleSelected(h) ==
  /\ open /\ selecting
  /\ h \in Range(items)
  /\ selectedIds' = IF h \in selectedIds THEN selectedIds \ {h} ELSE selectedIds \cup {h}
  /\ UNCHANGED <<open, behind, placeVars, pageVars, currentId, selecting, progress>>

\* The elements of a list that are in S, in the order of the list.
Filter(list, S) ==
  LET places == Ascending({i \in DOMAIN list : list[i] \in S})
  IN  [k \in DOMAIN places |-> list[places[k]]]

\* Only what is ticked and loaded stays: ticks outlive a change of topic.
ConfirmSelection ==
  /\ open /\ selecting /\ selectedIds # {}
  /\ mode' = "selection"
  /\ items' = Filter(items, selectedIds)
  /\ selecting' = FALSE /\ selectedIds' = {}
  /\ UNCHANGED <<open, behind, book, topic, lastLoadedId, reachedEnd, currentId, progress>>

HadithNext ==
  \/ \E b \in Book :
       \/ OpenBook(b)
       \/ \E t \in Topic : OpenTopic(b, t)
       \/ \E topics \in SUBSET Topic : OpenSelection(b, topics)
  \/ \E h \in Hadith : OpenAt(h) \/ ToggleSelected(h)
  \/ Return \/ Leave
  \/ Scroll \/ LoadMore
  \/ \E t \in Topic : PickTopic(t)
  \/ \E topics \in SUBSET Topic : PickSelection(topics)
  \/ ReadWholeBook \/ ToggleSelecting \/ ConfirmSelection

HadithSpec == HadithInit /\ [][HadithNext]_hadithVars

-----------------------------------------------------------------------------
(* Properties.                                                             *)

\* The list is what the header says, whichever way the reader came to it: in
\* a book, a run without gaps or repeats up to where loadMore() goes on; in a
\* topic, that topic alone and in full; in a reading list, no hadith twice.
\* And the place that leaving would save is in the list that is read.
ListMatchesMode ==
  items # <<>> =>
    /\ mode = "book" => items = ById({h \in OfBook(book) : h \in items[1]..lastLoadedId})
    /\ mode = "topic" => items = HadithsByTopic(book, topic)
    /\ mode = "selection" => items = ById(Range(items))
    /\ mode # "selection" => currentId \in Range(items)
=============================================================================
