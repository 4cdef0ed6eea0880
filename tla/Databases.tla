----------------------------- MODULE Databases ------------------------------
(***************************************************************************)
(* The databases of QuranBackend and the Database Connector: at start the  *)
(* bundled databases or the stored overrides are opened; an import copies  *)
(* or converts what is on a USB stick, and connecting it swaps the audio   *)
(* or hadith database of the running process and stores the override.      *)
(*                                                                         *)
(* A file is its content, and a connection keeps the content it was opened *)
(* with (SQLite holds the file open), also when the file is removed or     *)
(* replaced, unless its stick is pulled out.                               *)
(***************************************************************************)
EXTENDS FiniteSets

CONSTANTS
  Name,        \* names of files and folders on sticks
  Content,     \* contents of database files
  Sound,       \* the contents that are SQLite databases
  Matches,     \* Matches[c]: the apps that matchSchema() finds for c
  HasTable,    \* HasTable[c]: the apps whose table, spelled exactly, c has
  Bundled,     \* Bundled[a]: the content on the image, or Missing
  Sticks,      \* what the sticks hold
  Missing,     \* no file, or the content of a file that is out of reach
  NoPath

DbApp == {"text", "audio", "hadith"}

\* The apps whose database is swapped without a restart.
LiveApp == {"audio", "hadith"}

\* A .db or .json file, or a folder with one in it.  The content of JSON is
\* what it is converted to, Missing when there is no table in it.  What is
\* neither, or JSON that does not parse, is no item.
Item == [folder : BOOLEAN, json : {FALSE}, content : Content]
          \cup [folder : BOOLEAN, json : {TRUE}, content : Sound \cup {Missing}]

NoItem == [folder |-> FALSE, json |-> TRUE, content |-> Missing]
EmptyStick == [n \in Name |-> NoItem]

ASSUME ContentAssumption ==
  /\ Missing \notin Content /\ Sound \subseteq Content
  /\ Matches \in [Content -> SUBSET DbApp] /\ HasTable \in [Content -> SUBSET DbApp]
  /\ \A c \in Content \ Sound : Matches[c] = {} /\ HasTable[c] = {}
ASSUME BundledAssumption ==
  /\ Bundled \in [DbApp -> Sound \cup {Missing}]
  /\ \A a \in DbApp : Bundled[a] # Missing => a \in HasTable[Bundled[a]]
  /\ Bundled["text"] # Missing
ASSUME SticksAssumption == Sticks \subseteq [Name -> Item]

\* The imports directory, converted JSON in it, and a folder of the stick.
ImportsDir == {"imported", "converted"} \X Name
Path == ImportsDir \cup ({"stick"} \X Name)
ASSUME PathAssumption == NoPath \notin Path

Key == {"quranTextDbOverridePath", "audioDbOverridePath", "hadithDbOverridePath",
        "prefs/quranTextDbOverridePath"}

\* The key openDatabases() reads, and the one that connecting an app writes.
ReadKey == [a \in DbApp |-> CASE a = "text"   -> "quranTextDbOverridePath"
                            [] a = "audio"  -> "audioDbOverridePath"
                            [] a = "hadith" -> "hadithDbOverridePath"]

WrittenKey(a) == IF a = "text" THEN "prefs/quranTextDbOverridePath" ELSE ReadKey[a]

Connection == [content : Content \cup {Missing}, stick : BOOLEAN]
NoConnection == [content |-> Missing, stick |-> FALSE]

VARIABLES
  files,      \* the imports directory
  stick,      \* what is plugged in
  settings,   \* shell_settings.ini
  conn,       \* the connections: main, attached and hadith database
  attached,   \* m_audioDbAttached
  stage,      \* "closed", or the stage of the connector's screen
  imported,   \* importResult: [ok, path, matches]
  connected,  \* connectResult: [ok, app]
  chosen      \* history: the last file each live app was connected to

diskVars   == <<files, stick>>
openVars   == <<conn, attached>>
screenVars == <<stage, imported, connected>>
databasesVars == <<diskVars, settings, openVars, screenVars, chosen>>

NoImport == [ok |-> FALSE, path |-> NoPath, matches |-> {}]
NoConnect == [ok |-> FALSE, app |-> "none"]
NoChoice == [path |-> NoPath, content |-> Missing]

FileAt(p) ==
  IF p[1] # "stick" THEN files[p]
  ELSE LET item == stick[p[2]]
       IN  IF item.folder /\ ~item.json THEN item.content ELSE Missing

Choice(p) == [path |-> p, content |-> FileAt(p)]

OpenFile(p) == [content |-> FileAt(p), stick |-> p[1] = "stick"]

\* The override if its file exists, else the bundled database.
Effective(a) ==
  LET p == settings[ReadKey[a]]
  IN  IF p # NoPath /\ FileAt(p) # Missing THEN OpenFile(p)
      ELSE [content |-> Bundled[a], stick |-> FALSE]

\* A file that is no database cannot be attached.
AudioAttaches == Effective("audio").content \in Sound /\ Effective("text").content # Missing

OpenedAtStart ==
  [a \in DbApp |-> IF a = "audio" /\ ~AudioAttaches THEN NoConnection ELSE Effective(a)]

DatabasesInit ==
  /\ files = [p \in ImportsDir |-> Missing]
  /\ stick = EmptyStick
  /\ settings = [k \in Key |-> NoPath]
  /\ conn = OpenedAtStart
  /\ attached = AudioAttaches
  /\ stage = "closed" /\ imported = NoImport /\ connected = NoConnect
  /\ chosen = [a \in LiveApp |-> NoChoice]

-----------------------------------------------------------------------------
(* The screen.                                                             *)

StickPresent == stick # EmptyStick

OpenScreen ==
  /\ stage = "closed" /\ StickPresent
  /\ stage' = "browse" /\ imported' = NoImport /\ connected' = NoConnect
  /\ UNCHANGED <<diskVars, settings, openVars, chosen>>

BackToBrowse ==
  /\ stage = "matches"
  /\ stage' = "browse"
  /\ UNCHANGED <<diskVars, settings, openVars, imported, connected, chosen>>

LeaveScreen ==
  /\ stage # "closed"
  /\ stage' = "closed" /\ imported' = NoImport /\ connected' = NoConnect
  /\ UNCHANGED <<diskVars, settings, openVars, chosen>>

-----------------------------------------------------------------------------
(* importPath().                                                           *)

\* What is imported is looked at for the apps it matches.
MatchedAt(p, c) == [ok |-> TRUE, path |-> p, matches |-> Matches[c]]

\* The old copy goes first, and copying may then fail.
CopyFile(n, copied) ==
  LET p == <<"imported", n>>
  IN  /\ files' = [files EXCEPT ![p] = IF copied THEN stick[n].content ELSE Missing]
      /\ imported' = IF copied THEN MatchedAt(p, stick[n].content) ELSE NoImport

\* A database in a folder is used where it is.
UseInPlace(n) ==
  /\ imported' = MatchedAt(<<"stick", n>>, stick[n].content)
  /\ UNCHANGED files

\* The old result goes first, and there may be no table in the JSON.
ConvertJson(n) ==
  LET p == <<"converted", n>>
      c == stick[n].content
  IN  /\ files' = [files EXCEPT ![p] = c]
      /\ imported' = IF c = Missing THEN NoImport ELSE MatchedAt(p, c)

ImportPath(n) ==
  /\ stage = "browse"
  /\ \/ stick[n] = NoItem /\ imported' = NoImport /\ UNCHANGED files
     \/ /\ stick[n] # NoItem
        /\ \/ stick[n].json /\ ConvertJson(n)
           \/ ~stick[n].json /\ stick[n].folder /\ UseInPlace(n)
           \/ /\ ~stick[n].json /\ ~stick[n].folder
              /\ \E copied \in BOOLEAN : CopyFile(n, copied)
  /\ stage' = "matches"
  /\ UNCHANGED <<stick, settings, openVars, connected, chosen>>

-----------------------------------------------------------------------------
(* connectToApp().                                                         *)

\* Mutant: the choice is stored before the new database is looked at.
ReattachStoresFirst(a, p) ==
  LET good == a \in HasTable[FileAt(p)]
  IN  /\ conn' = [conn EXCEPT ![a] = IF good THEN OpenFile(p) ELSE NoConnection]
      /\ settings' = [settings EXCEPT ![WrittenKey(a)] = p]
      /\ chosen' = IF good THEN [chosen EXCEPT ![a] = Choice(p)] ELSE chosen
      /\ connected' = [ok |-> good, app |-> a]

\* reattachAudioDb() and reattachHadithDb(): the old database is let go, the
\* new one opened and, if it has the table, stored.
Reattach(a, p) ==
  LET good == a \in HasTable[FileAt(p)]
  IN  /\ conn' = [conn EXCEPT ![a] = IF good THEN OpenFile(p) ELSE NoConnection]
      /\ settings' = IF good THEN [settings EXCEPT ![WrittenKey(a)] = p] ELSE settings
      /\ chosen' = IF good THEN [chosen EXCEPT ![a] = Choice(p)] ELSE chosen
      /\ connected' = [ok |-> good, app |-> a]

StoreForRestart(p) ==
  /\ settings' = [settings EXCEPT ![WrittenKey("text")] = p]
  /\ connected' = [ok |-> TRUE, app |-> "text"]
  /\ UNCHANGED <<conn, chosen>>

ConnectToApp(a) ==
  /\ stage = "matches" /\ imported.ok /\ a \in imported.matches
  /\ LET p == imported.path
     IN  \/ /\ FileAt(p) = Missing
            /\ connected' = [ok |-> FALSE, app |-> a]
            /\ UNCHANGED <<settings, conn, chosen>>
         \/ FileAt(p) # Missing /\ a = "text" /\ StoreForRestart(p)
         \/ FileAt(p) # Missing /\ a \in LiveApp /\ Reattach(a, p)
  /\ stage' = "done"
  /\ UNCHANGED <<diskVars, attached, imported>>

-----------------------------------------------------------------------------
(* Sticks and restarts.                                                    *)

Plug(s) ==
  /\ ~StickPresent /\ s # EmptyStick
  /\ stick' = s
  /\ UNCHANGED <<files, settings, openVars, screenVars, chosen>>

\* What was open on the stick stays open and cannot be read any more.
Unplug ==
  /\ StickPresent
  /\ stick' = EmptyStick
  /\ conn' = [a \in DbApp |-> IF conn[a].stick THEN [conn[a] EXCEPT !.content = Missing]
                                             ELSE conn[a]]
  /\ UNCHANGED <<files, settings, attached, screenVars, chosen>>

Restart ==
  /\ conn' = OpenedAtStart
  /\ attached' = AudioAttaches
  /\ stage' = "closed" /\ imported' = NoImport /\ connected' = NoConnect
  /\ UNCHANGED <<diskVars, settings, chosen>>

ScreenStep ==
  \/ OpenScreen \/ BackToBrowse \/ LeaveScreen
  \/ \E n \in Name : ImportPath(n)
  \/ \E a \in DbApp : ConnectToApp(a)

DatabasesNext == ScreenStep \/ Unplug \/ Restart \/ \E s \in Sticks : Plug(s)

DatabasesSpec == DatabasesInit /\ [][DatabasesNext]_databasesVars

-----------------------------------------------------------------------------
(* Properties.                                                             *)

\* The variables stay in their domains.
DatabasesTypeOK ==
  /\ files \in [ImportsDir -> Content \cup {Missing}]
  /\ stick \in Sticks \cup {EmptyStick}
  /\ settings \in [Key -> Path \cup {NoPath}]
  /\ conn \in [DbApp -> Connection]
  /\ attached \in BOOLEAN
  /\ stage \in {"closed", "browse", "matches", "done"}
  /\ imported \in [ok : BOOLEAN, path : Path \cup {NoPath}, matches : SUBSET DbApp]
  /\ connected \in [ok : BOOLEAN, app : DbApp \cup {"none"}]
  /\ chosen \in [LiveApp -> [path : Path \cup {NoPath}, content : Content \cup {Missing}]]
  /\ imported.ok => imported.path # NoPath

\* What an app gets to read: its rows, if the database is open, counts as
\* attached and has them.
Served(a) ==
  LET c == conn[a].content
      counts == a = "audio" => attached /\ conn["text"].content # Missing
  IN  IF c # Missing /\ counts /\ a \in HasTable[c] THEN c ELSE Missing

\* "Persists the choice so it's used again on the next launch too"
\* (quranbackend.h:47): whatever else was imported, tried or failed since, a
\* start opens the file that was connected last, if it still is that file, and
\* the bundled database if there is no file.
RestartHonoursChoice ==
  \A a \in LiveApp :
    LET c == chosen[a]
        now == IF c = NoChoice THEN Missing ELSE FileAt(c.path)
    IN  /\ now = Missing => OpenedAtStart[a].content = Bundled[a]
        /\ now # Missing /\ now = c.content => OpenedAtStart[a].content = c.content

\* "This app needs the shell restarted to start using it."
\* (DatabaseConnector.qml:236): when the screen says so of the text database, a
\* start would open the file that was connected.
RestartUsesText ==
  /\ stage = "done" /\ connected = [ok |-> TRUE, app |-> "text"]
  /\ FileAt(imported.path) # Missing
  => OpenedAtStart["text"] = OpenFile(imported.path)

\* "It's active now - no restart needed." (DatabaseConnector.qml:244): when
\* the screen says so, what was connected is what is served.
ConnectedIsActive ==
  stage = "done" /\ connected.ok /\ connected.app \in LiveApp
    => Served(connected.app) = conn[connected.app].content
=============================================================================
