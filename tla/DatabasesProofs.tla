--------------------------- MODULE DatabasesProofs --------------------------
(***************************************************************************)
(* Proofs about Databases, for any file contents, names and sticks, on the *)
(* full and on the lite image.                                             *)
(*                                                                         *)
(* The argument: the override that a start reads for a live app is the     *)
(* path of the last successful connection (OverrideIsChoice), because a    *)
(* failed one stores nothing, and what was connected then had the table    *)
(* of its app, so that it is a database (ChoiceHasTable).  No action writes *)
(* the key under which a start looks for the text database (TextIsBundled). *)
(***************************************************************************)
EXTENDS Databases, TLAPS

OverrideIsChoice == \A a \in LiveApp : settings[ReadKey[a]] = chosen[a].path

ChoiceHasTable ==
  \A a \in LiveApp : chosen[a] # NoChoice =>
     chosen[a].content \in Content /\ a \in HasTable[chosen[a].content]

NoChoiceNoPath == \A a \in LiveApp : chosen[a].path = NoPath <=> chosen[a] = NoChoice

TextIsBundled ==
  /\ settings["quranTextDbOverridePath"] = NoPath
  /\ conn["text"] = [content |-> Bundled["text"], stick |-> FALSE]

IInv ==
  /\ DatabasesTypeOK /\ OverrideIsChoice /\ ChoiceHasTable /\ NoChoiceNoPath /\ TextIsBundled

LEMMA SmallSets ==
  /\ LiveApp \subseteq DbApp
  /\ \A a \in LiveApp : a # "text"
  /\ \A a \in DbApp : ReadKey[a] \in Key /\ WrittenKey(a) \in Key
  /\ \A a \in LiveApp : WrittenKey(a) = ReadKey[a] /\ ReadKey[a] # "quranTextDbOverridePath"
  /\ WrittenKey("text") = "prefs/quranTextDbOverridePath"
  /\ \A a \in LiveApp : ReadKey[a] # WrittenKey("text")
  /\ \A a, b \in LiveApp : ReadKey[a] = ReadKey[b] => a = b
  /\ ReadKey["text"] = "quranTextDbOverridePath"
BY DEF LiveApp, DbApp, ReadKey, WrittenKey, Key

LEMMA TableMeansSound ==
  ASSUME NEW c \in Content, NEW a \in DbApp, a \in HasTable[c]
  PROVE  c \in Sound
BY ContentAssumption

LEMMA StickItems == DatabasesTypeOK => stick \in [Name -> Item]
<1>1. NoItem \in Item
  <2>1. NoItem \in [folder : BOOLEAN, json : {TRUE}, content : Sound \cup {Missing}]
    BY DEF NoItem
  <2> QED BY <2>1 DEF Item
<1>2. EmptyStick \in [Name -> Item]
  BY <1>1 DEF EmptyStick
<1> QED BY <1>2, SticksAssumption DEF DatabasesTypeOK

LEMMA BundledTypes ==
  \A a \in DbApp : [content |-> Bundled[a], stick |-> FALSE] \in Connection
<1> SUFFICES ASSUME NEW a \in DbApp
             PROVE  [content |-> Bundled[a], stick |-> FALSE] \in Connection
  OBVIOUS
<1>1. Bundled[a] \in Content \cup {Missing}
  BY BundledAssumption, ContentAssumption
<1> QED BY <1>1 DEF Connection

LEMMA FileTypes ==
  ASSUME DatabasesTypeOK, NEW p \in Path
  PROVE  FileAt(p) \in Content \cup {Missing} /\ OpenFile(p) \in Connection
<1>1. FileAt(p) \in Content \cup {Missing}
  <2>1. CASE p \in ImportsDir
    BY <2>1 DEF DatabasesTypeOK, ImportsDir, FileAt
  <2>2. CASE p \in {"stick"} \X Name
    <3>1. p[1] = "stick" /\ p[2] \in Name
      BY <2>2
    <3>2. stick[p[2]] \in Item
      BY <3>1, StickItems
    <3> QED BY <3>1, <3>2, ContentAssumption DEF FileAt, Item
  <2> QED BY <2>1, <2>2 DEF Path
<1>2. (p[1] = "stick") \in BOOLEAN
  OBVIOUS
<1> QED BY <1>1, <1>2 DEF OpenFile, Connection

LEMMA StartTypes ==
  ASSUME DatabasesTypeOK
  PROVE  OpenedAtStart \in [DbApp -> Connection] /\ AudioAttaches \in BOOLEAN
<1>1. \A a \in DbApp : Effective(a) \in Connection
  <2> SUFFICES ASSUME NEW a \in DbApp PROVE Effective(a) \in Connection
    OBVIOUS
  <2>1. settings[ReadKey[a]] \in Path \cup {NoPath}
    BY SmallSets DEF DatabasesTypeOK
  <2>2. CASE settings[ReadKey[a]] # NoPath /\ FileAt(settings[ReadKey[a]]) # Missing
    BY <2>1, <2>2, FileTypes DEF Effective
  <2>3. CASE ~(settings[ReadKey[a]] # NoPath /\ FileAt(settings[ReadKey[a]]) # Missing)
    BY <2>3, BundledTypes DEF Effective
  <2> QED BY <2>2, <2>3
<1>2. NoConnection \in Connection
  BY DEF NoConnection, Connection
<1> QED BY <1>1, <1>2 DEF OpenedAtStart, AudioAttaches

LEMMA TextAtStart ==
  ASSUME settings["quranTextDbOverridePath"] = NoPath
  PROVE  /\ Effective("text") = [content |-> Bundled["text"], stick |-> FALSE]
         /\ OpenedAtStart["text"] = [content |-> Bundled["text"], stick |-> FALSE]
<1>1. Effective("text") = [content |-> Bundled["text"], stick |-> FALSE]
  BY SmallSets DEF Effective
<1>2. "text" \in DbApp
  BY DEF DbApp
<1> QED BY <1>1, <1>2 DEF OpenedAtStart

-----------------------------------------------------------------------------
LEMMA InitInv == DatabasesInit => IInv
<1> SUFFICES ASSUME DatabasesInit PROVE IInv
  OBVIOUS
<1>1. files \in [ImportsDir -> Content \cup {Missing}] /\ settings \in [Key -> Path \cup {NoPath}]
  BY DEF DatabasesInit
<1>2. \A k \in Key : settings[k] = NoPath
  BY DEF DatabasesInit
<1>3. \A a \in DbApp : Effective(a) = [content |-> Bundled[a], stick |-> FALSE]
  BY <1>2, SmallSets DEF Effective
<1>4. conn \in [DbApp -> Connection] /\ attached \in BOOLEAN
  <2>1. \A a \in DbApp : Effective(a) \in Connection
    BY <1>3, BundledTypes
  <2> QED BY <2>1 DEF DatabasesInit, OpenedAtStart, AudioAttaches, NoConnection, Connection
<1>5. chosen \in [LiveApp -> [path : Path \cup {NoPath}, content : Content \cup {Missing}]]
  BY DEF DatabasesInit, NoChoice
<1>6. DatabasesTypeOK
  BY <1>1, <1>4, <1>5 DEF DatabasesInit, DatabasesTypeOK, NoImport, NoConnect
<1>7. TextIsBundled
  BY <1>2, SmallSets, TextAtStart DEF DatabasesInit, TextIsBundled, Key
<1> QED BY <1>2, <1>6, <1>7, SmallSets
        DEF DatabasesInit, IInv, OverrideIsChoice, ChoiceHasTable, NoChoiceNoPath, NoChoice

LEMMA ScreenInv ==
  ASSUME IInv, OpenScreen \/ BackToBrowse \/ LeaveScreen
  PROVE  IInv'
<1>1. UNCHANGED <<files, stick, settings, conn, attached, chosen>>
  BY DEF OpenScreen, BackToBrowse, LeaveScreen, diskVars, openVars
<1>2. /\ stage' \in {"closed", "browse", "matches", "done"}
      /\ (imported' = NoImport /\ connected' = NoConnect) \/ UNCHANGED <<imported, connected>>
  BY DEF OpenScreen, BackToBrowse, LeaveScreen
<1>3. /\ NoImport \in [ok : BOOLEAN, path : Path \cup {NoPath}, matches : SUBSET DbApp]
      /\ ~NoImport.ok
      /\ NoConnect \in [ok : BOOLEAN, app : DbApp \cup {"none"}]
  BY DEF NoImport, NoConnect
<1>4. DatabasesTypeOK'
  <2>1. CASE imported' = NoImport /\ connected' = NoConnect
    BY <1>1, <1>2, <1>3, <2>1 DEF IInv, DatabasesTypeOK
  <2>2. CASE UNCHANGED <<imported, connected>>
    BY <1>1, <1>2, <2>2 DEF IInv, DatabasesTypeOK
  <2> QED BY <1>2, <2>1, <2>2
<1> QED BY <1>1, <1>4
        DEF IInv, OverrideIsChoice, ChoiceHasTable, NoChoiceNoPath, TextIsBundled

LEMMA ItemContent ==
  ASSUME DatabasesTypeOK, NEW n \in Name, stick[n] # NoItem
  PROVE  stick[n].content \in Content \/ (stick[n].json /\ stick[n].content = Missing)
<1>1. stick[n] \in Item
  BY StickItems
<1> QED BY <1>1, ContentAssumption DEF Item

LEMMA ImportInv ==
  ASSUME IInv, NEW n \in Name, ImportPath(n)
  PROVE  IInv'
<1> DEFINE Import == [ok : BOOLEAN, path : Path \cup {NoPath}, matches : SUBSET DbApp]
<1>1. <<"imported", n>> \in ImportsDir /\ <<"converted", n>> \in ImportsDir
      /\ <<"stick", n>> \in Path /\ ImportsDir \subseteq Path
  BY DEF ImportsDir, Path
<1>2. \A p \in Path, c \in Content : MatchedAt(p, c) \in Import /\ MatchedAt(p, c).path # NoPath
  BY ContentAssumption, PathAssumption DEF MatchedAt
<1>3. NoImport \in Import /\ ~NoImport.ok
  BY DEF NoImport
<1>4. /\ files' \in [ImportsDir -> Content \cup {Missing}]
      /\ imported' \in Import /\ (imported'.ok => imported'.path # NoPath)
  <2>1. CASE imported' = NoImport /\ UNCHANGED files
    BY <2>1, <1>3 DEF IInv, DatabasesTypeOK
  <2>2. CASE stick[n] # NoItem /\ stick[n].json /\ ConvertJson(n)
    <3>1. stick[n].content \in Content \cup {Missing}
      BY <2>2, ItemContent DEF IInv
    <3> QED BY <2>2, <3>1, <1>1, <1>2, <1>3 DEF ConvertJson, IInv, DatabasesTypeOK
  <2>3. CASE stick[n] # NoItem /\ ~stick[n].json /\ UseInPlace(n)
    BY <2>3, <1>1, <1>2, ItemContent DEF UseInPlace, IInv, DatabasesTypeOK
  <2>4. ASSUME stick[n] # NoItem, ~stick[n].json, NEW copied \in BOOLEAN, CopyFile(n, copied)
        PROVE  /\ files' \in [ImportsDir -> Content \cup {Missing}]
               /\ imported' \in Import /\ (imported'.ok => imported'.path # NoPath)
    BY <2>4, <1>1, <1>2, <1>3, ItemContent DEF CopyFile, IInv, DatabasesTypeOK
  <2> QED BY <2>1, <2>2, <2>3, <2>4 DEF ImportPath
<1>5. stage' = "matches" /\ UNCHANGED <<stick, settings, conn, attached, connected, chosen>>
  BY DEF ImportPath, openVars
<1> QED BY <1>4, <1>5
        DEF IInv, DatabasesTypeOK, OverrideIsChoice, ChoiceHasTable, NoChoiceNoPath, TextIsBundled

LEMMA ReattachInv ==
  ASSUME IInv, NEW a \in LiveApp, NEW p \in Path, FileAt(p) # Missing, Reattach(a, p),
         UNCHANGED <<files, stick, attached, imported>>, stage' = "done"
  PROVE  IInv'
<1> DEFINE c == FileAt(p)
           good == a \in HasTable[c]
           choice == [path |-> p, content |-> c]
<1>1. c \in Content /\ OpenFile(p) \in Connection /\ a \in DbApp /\ p # NoPath
  BY FileTypes, SmallSets, PathAssumption DEF IInv
<1>2. ReadKey[a] \in Key /\ WrittenKey(a) = ReadKey[a] /\ ReadKey[a] # "quranTextDbOverridePath"
  BY <1>1, SmallSets
<1>3. /\ conn' = [conn EXCEPT ![a] = IF good THEN OpenFile(p) ELSE NoConnection]
      /\ settings' = IF good THEN [settings EXCEPT ![ReadKey[a]] = p] ELSE settings
      /\ chosen' = IF good THEN [chosen EXCEPT ![a] = choice] ELSE chosen
      /\ connected' = [ok |-> good, app |-> a]
  BY <1>2 DEF Reattach, Choice
<1>4. choice \in [path : Path \cup {NoPath}, content : Content \cup {Missing}]
      /\ choice # NoChoice /\ choice.path = p /\ choice.content = c
  BY <1>1 DEF NoChoice
<1>5. good \in BOOLEAN
  OBVIOUS
<1> HIDE DEF c, choice
<1>6. DatabasesTypeOK'
  <2>1. conn' \in [DbApp -> Connection]
    BY <1>1, <1>3 DEF IInv, DatabasesTypeOK, NoConnection, Connection
  <2>2. settings' \in [Key -> Path \cup {NoPath}]
    BY <1>2, <1>3 DEF IInv, DatabasesTypeOK
  <2>3. chosen' \in [LiveApp -> [path : Path \cup {NoPath}, content : Content \cup {Missing}]]
    BY <1>3, <1>4 DEF IInv, DatabasesTypeOK
  <2>4. connected' \in [ok : BOOLEAN, app : DbApp \cup {"none"}]
    BY <1>1, <1>3, <1>5
  <2> QED BY <2>1, <2>2, <2>3, <2>4 DEF IInv, DatabasesTypeOK
<1>7. TextIsBundled'
  <2>1. "quranTextDbOverridePath" \in Key /\ "text" \in DbApp /\ a # "text"
    BY SmallSets DEF Key, DbApp
  <2> QED BY <1>2, <1>3, <2>1 DEF IInv, DatabasesTypeOK, TextIsBundled
<1>8. CASE ~good
  BY <1>3, <1>6, <1>7, <1>8 DEF IInv, OverrideIsChoice, ChoiceHasTable, NoChoiceNoPath
<1>9. CASE good
  <2>1. /\ chosen'[a] = choice /\ settings'[ReadKey[a]] = p
        /\ \A b \in LiveApp : b # a => chosen'[b] = chosen[b]
        /\ \A b \in LiveApp : b # a => settings'[ReadKey[b]] = settings[ReadKey[b]]
    BY <1>2, <1>3, <1>9, SmallSets DEF IInv, DatabasesTypeOK
  <2>2. OverrideIsChoice'
    BY <1>4, <2>1 DEF IInv, OverrideIsChoice
  <2>3. ChoiceHasTable'
    BY <1>1, <1>4, <1>9, <2>1 DEF IInv, ChoiceHasTable, NoChoice
  <2>4. NoChoiceNoPath'
    BY <1>1, <1>4, <2>1 DEF IInv, NoChoiceNoPath, NoChoice
  <2> QED BY <1>6, <1>7, <2>2, <2>3, <2>4 DEF IInv
<1> QED BY <1>8, <1>9

LEMMA ConnectInv ==
  ASSUME IInv, NEW a \in DbApp, ConnectToApp(a)
  PROVE  IInv'
<1> DEFINE p == imported.path
<1>1. p \in Path /\ p # NoPath
  BY DEF ConnectToApp, IInv, DatabasesTypeOK
<1>2. UNCHANGED <<files, stick, attached, imported>> /\ stage' = "done"
  BY DEF ConnectToApp, diskVars
<1>3. CASE connected' = [ok |-> FALSE, app |-> a] /\ UNCHANGED <<settings, conn, chosen>>
  BY <1>2, <1>3
     DEF IInv, DatabasesTypeOK, OverrideIsChoice, ChoiceHasTable, NoChoiceNoPath, TextIsBundled
<1>4. CASE StoreForRestart(p)
  <2>1. /\ settings' = [settings EXCEPT !["prefs/quranTextDbOverridePath"] = p]
        /\ connected' = [ok |-> TRUE, app |-> "text"] /\ UNCHANGED <<conn, chosen>>
    BY <1>4, SmallSets DEF StoreForRestart
  <2>2. DatabasesTypeOK'
    BY <1>1, <1>2, <2>1 DEF IInv, DatabasesTypeOK, Key, DbApp
  <2>3. \A b \in LiveApp : settings'[ReadKey[b]] = settings[ReadKey[b]]
    BY <2>1, SmallSets DEF IInv, DatabasesTypeOK
  <2>4. settings'["quranTextDbOverridePath"] = settings["quranTextDbOverridePath"]
    BY <2>1 DEF IInv, DatabasesTypeOK, Key
  <2> QED BY <2>1, <2>2, <2>3, <2>4
          DEF IInv, OverrideIsChoice, ChoiceHasTable, NoChoiceNoPath, TextIsBundled
<1>5. CASE FileAt(p) # Missing /\ a \in LiveApp /\ Reattach(a, p)
  BY <1>1, <1>2, <1>5, ReattachInv
<1> QED BY <1>3, <1>4, <1>5 DEF ConnectToApp

LEMMA PlugInv ==
  ASSUME IInv, Unplug \/ \E s \in Sticks : Plug(s)
  PROVE  IInv'
<1>1. UNCHANGED <<files, settings, attached, stage, imported, connected, chosen>>
  BY DEF Unplug, Plug, openVars, screenVars
<1>2. stick' \in Sticks \cup {EmptyStick}
  BY DEF Unplug, Plug
<1>3. conn' \in [DbApp -> Connection] /\ conn'["text"] = conn["text"]
  <2>1. CASE Unplug
    <3>1. \A a \in DbApp : [conn[a] EXCEPT !.content = Missing] \in Connection
      BY DEF IInv, DatabasesTypeOK, Connection
    <3>2. "text" \in DbApp /\ ~conn["text"].stick
      BY DEF DbApp, IInv, TextIsBundled
    <3> QED BY <2>1, <3>1, <3>2 DEF Unplug, IInv, DatabasesTypeOK
  <2>2. CASE \E s \in Sticks : Plug(s)
    BY <2>2 DEF Plug, openVars, IInv, DatabasesTypeOK
  <2> QED BY <2>1, <2>2
<1> QED BY <1>1, <1>2, <1>3
        DEF IInv, DatabasesTypeOK, OverrideIsChoice, ChoiceHasTable, NoChoiceNoPath, TextIsBundled

LEMMA RestartInv ==
  ASSUME IInv, Restart
  PROVE  IInv'
<1>1. conn' \in [DbApp -> Connection] /\ attached' \in BOOLEAN
  BY StartTypes DEF IInv, Restart
<1>2. conn'["text"] = [content |-> Bundled["text"], stick |-> FALSE]
  BY TextAtStart DEF IInv, TextIsBundled, Restart
<1>3. DatabasesTypeOK'
  BY <1>1 DEF Restart, diskVars, IInv, DatabasesTypeOK, NoImport, NoConnect
<1> QED BY <1>2, <1>3
        DEF Restart, IInv, OverrideIsChoice, ChoiceHasTable, NoChoiceNoPath, TextIsBundled

LEMMA StepInv == IInv /\ [DatabasesNext]_databasesVars => IInv'
<1> SUFFICES ASSUME IInv, [DatabasesNext]_databasesVars PROVE IInv'
  OBVIOUS
<1>1. CASE ScreenStep
  BY <1>1, ScreenInv, ImportInv, ConnectInv DEF ScreenStep
<1>2. CASE Unplug \/ \E s \in Sticks : Plug(s)
  BY <1>2, PlugInv
<1>3. CASE Restart
  BY <1>3, RestartInv
<1>4. CASE UNCHANGED databasesVars
  BY <1>4 DEF databasesVars, diskVars, openVars, screenVars,
     IInv, DatabasesTypeOK, OverrideIsChoice, ChoiceHasTable, NoChoiceNoPath, TextIsBundled
<1> QED BY <1>1, <1>2, <1>3, <1>4 DEF DatabasesNext

LEMMA InvHolds == DatabasesSpec => []IInv
BY InitInv, StepInv, PTL DEF DatabasesSpec

-----------------------------------------------------------------------------
\* Files, settings, connections and the screen keep their types.
THEOREM DatabasesTypeCorrect == DatabasesSpec => []DatabasesTypeOK
<1>1. IInv => DatabasesTypeOK
  BY DEF IInv
<1> QED BY <1>1, InvHolds, PTL

\* What a start opens for the live apps is what the invariant says of its override.
LEMMA StartOpensChoice == IInv => RestartHonoursChoice
<1> SUFFICES ASSUME IInv, NEW a \in LiveApp
             PROVE  LET c == chosen[a]
                        now == IF c = NoChoice THEN Missing ELSE FileAt(c.path)
                    IN  /\ now = Missing => OpenedAtStart[a].content = Bundled[a]
                        /\ now # Missing /\ now = c.content
                             => OpenedAtStart[a].content = c.content
  BY DEF RestartHonoursChoice
<1> DEFINE c == chosen[a]
           now == IF c = NoChoice THEN Missing ELSE FileAt(c.path)
<1>1. a \in DbApp /\ settings[ReadKey[a]] = c.path /\ (c.path = NoPath <=> c = NoChoice)
  BY SmallSets DEF IInv, OverrideIsChoice, NoChoiceNoPath
<1>2. Effective("text").content = Bundled["text"] /\ Bundled["text"] # Missing
  BY TextAtStart, BundledAssumption DEF IInv, TextIsBundled
<1>3. OpenedAtStart[a] = IF a = "audio" /\ ~AudioAttaches THEN NoConnection ELSE Effective(a)
  BY <1>1 DEF OpenedAtStart
<1>4. ASSUME now = Missing PROVE OpenedAtStart[a].content = Bundled[a]
  <2>1. Effective(a) = [content |-> Bundled[a], stick |-> FALSE]
    BY <1>1, <1>4 DEF Effective
  <2>2. CASE a = "audio" /\ ~AudioAttaches
    <3>1. Bundled[a] \notin Sound
      BY <1>2, <2>1, <2>2 DEF AudioAttaches
    <3>2. Bundled[a] = Missing
      BY <1>1, <3>1, BundledAssumption
    <3> QED BY <1>3, <2>2, <3>2 DEF NoConnection
  <2>3. CASE ~(a = "audio" /\ ~AudioAttaches)
    BY <1>3, <2>1, <2>3
  <2> QED BY <2>2, <2>3
<1>5. ASSUME now # Missing, now = c.content PROVE OpenedAtStart[a].content = c.content
  <2>1. c # NoChoice /\ FileAt(c.path) = c.content /\ FileAt(c.path) # Missing
    BY <1>5
  <2>2. Effective(a).content = c.content
    BY <1>1, <2>1 DEF Effective, OpenFile
  <2>3. c.content \in Sound
    BY <1>1, <2>1, TableMeansSound DEF IInv, ChoiceHasTable
  <2>4. ~(a = "audio" /\ ~AudioAttaches)
    BY <1>2, <2>2, <2>3 DEF AudioAttaches
  <2> QED BY <1>3, <2>2, <2>4
<1> QED BY <1>4, <1>5

\* A start opens what was connected last, if that file is still there and the
\* same, and the bundled database if it is gone.
THEOREM RestartAlwaysHonoursChoice == DatabasesSpec => []RestartHonoursChoice
BY StartOpensChoice, InvHolds, PTL
=============================================================================
