---------------------------- MODULE ServicesProofs ----------------------------
(***************************************************************************)
(* What holds of the services that run beside each other: of the App       *)
(* Center for any apps, versions and manifests, of the session log for     *)
(* any number of sticks and of the mushafs for any editions and views.  A  *)
(* last lemma carries the types of all services over to MCServices.        *)
(***************************************************************************)
EXTENDS MCServices, HadithReaderProofs, RemindersProofs, DatabasesProofs, SequenceTheorems, TLAPS

-----------------------------------------------------------------------------
(* The App Center.                                                         *)

\* A dpkg that outlived the wait for it is one that did not answer in time.
OutlivedIsLate == dpkg # NoJob => dpkg.app \in late

AppInv == AppTypeOK /\ OutlivedIsLate /\ RegistryAgrees

\* The server's list has a listing or nothing for each app.
LEMMA ManifestType ==
  ASSUME AppTypeOK, NEW a \in App
  PROVE  manifest[a] \in Listing \cup {Nothing}
  BY PublishedAssumption DEF AppTypeOK

\* What the manifest says of an app is a record with a version.
LEMMA ListingType ==
  ASSUME NEW listing \in Listing
  PROVE  listing.version \in Version
  BY DEF Listing

\* The three kinds of requests.
LEMMA RequestKinds ==
  ASSUME NEW r \in Request
  PROVE  /\ r.kind = "manifest" => r.app \in App
         /\ r.kind = "download" => r.app \in App /\ r.entry \in Listing
  BY DEF Request

\* A slot holds a request or nothing.
LEMMA SlotType ==
  ASSUME AppTypeOK, NEW s \in Slot, requests[s] # Idle
  PROVE  requests[s] \in Request
  BY DEF AppTypeOK

\* A request takes a slot or leaves it.
LEMMA SlotUpdate ==
  ASSUME AppTypeOK, NEW s \in Slot, NEW r \in Request \cup {Idle},
         requests' = [requests EXCEPT ![s] = r]
  PROVE  requests' \in [Slot -> Request \cup {Idle}]
  BY DEF AppTypeOK

\* Requests that can be sent.
LEMMA RequestTypes ==
  ASSUME NEW a \in App, NEW listing \in Listing
  PROVE  /\ [kind |-> "manifest", app |-> a] \in Request
         /\ [kind |-> "download", app |-> a, entry |-> listing] \in Request
  BY DEF Request

\* And the request for the list.
LEMMA ListRequestType == [kind |-> "list"] \in Request
  BY DEF Request

\* dpkg and the handler that waits for it change the packages, the registry
\* and the history consistently.
LEMMA DpkgStep ==
  ASSUME AppInv, NEW a \in App, NEW goal \in Version \cup {Nothing}, NEW ok \in BOOLEAN,
         Dpkg(a, goal, ok),
         registry' = IF ok THEN [registry EXCEPT ![a] = goal] ELSE registry
  PROVE  /\ registry' \in [App -> Version \cup {Nothing}]
         /\ packages' \in [App -> Version \cup {Nothing, Broken}]
         /\ dpkg' \in Job \cup {NoJob}
         /\ late' \subseteq App
         /\ OutlivedIsLate' /\ RegistryAgrees'
  <1> USE DEF AppInv
  <1>1. registry' \in [App -> Version \cup {Nothing}]
    BY DEF AppTypeOK
  <1>2. [app |-> a, goal |-> goal] \in Job
    BY DEF Job
  <1>3. CASE ok /\ DpkgSucceeds(a, goal)
    <2>1. dpkg' = NoJob /\ dpkg = NoJob
      BY <1>3 DEF DpkgSucceeds
    <2>2. packages' = [packages EXCEPT ![a] = goal] /\ registry' = [registry EXCEPT ![a] = goal]
      BY <1>3 DEF DpkgSucceeds
    <2>3. late' = late \ {a}
      BY <1>3 DEF DpkgSucceeds
    <2>4. packages' \in [App -> Version \cup {Nothing, Broken}]
      BY <2>2 DEF AppTypeOK
    <2>5. RegistryAgrees'
      <3> SUFFICES ASSUME NEW b \in App \ late' PROVE packages'[b] \in {registry'[b], Broken}
        BY DEF RegistryAgrees
      <3>1. CASE b = a
        BY <3>1, <2>2 DEF AppTypeOK
      <3>2. CASE b # a
        BY <3>2, <2>2, <2>3 DEF AppTypeOK, RegistryAgrees
      <3> QED
        BY <3>1, <3>2
    <2> QED
      BY <1>1, <2>1, <2>3, <2>4, <2>5 DEF OutlivedIsLate, AppTypeOK
  <1>4. CASE ok /\ DpkgUnanswered(a, goal)
    <2>1. late' = late \cup {a}
      BY <1>4 DEF DpkgUnanswered
    <2>2. /\ packages' = packages \/ packages' = [packages EXCEPT ![a] = Broken]
          /\ dpkg' = dpkg \/ dpkg' = [app |-> a, goal |-> goal]
      BY <1>4 DEF DpkgUnanswered
    <2>3. packages' \in [App -> Version \cup {Nothing, Broken}]
      BY <2>2 DEF AppTypeOK
    <2>4. RegistryAgrees'
      BY <1>4, <2>1, <2>2 DEF RegistryAgrees, AppTypeOK
    <2> QED
      BY <1>1, <1>2, <2>1, <2>2, <2>3, <2>4 DEF OutlivedIsLate, AppTypeOK
  <1>5. CASE ~ok /\ DpkgFails(a)
    <2>1. UNCHANGED <<dpkg, late, registry>>
      BY <1>5 DEF DpkgFails
    <2>2. packages' = packages \/ packages' = [packages EXCEPT ![a] = Broken]
      BY <1>5 DEF DpkgFails
    <2>3. packages' \in [App -> Version \cup {Nothing, Broken}]
      BY <2>2 DEF AppTypeOK
    <2>4. RegistryAgrees'
      BY <2>1, <2>2 DEF RegistryAgrees, AppTypeOK
    <2> QED
      BY <1>1, <2>1, <2>3, <2>4 DEF OutlivedIsLate, AppTypeOK
  <1> QED
    BY <1>3, <1>4, <1>5 DEF Dpkg

\* Nothing is installed or recorded at the start.
LEMMA AppInitial == AppInit => AppInv
  <1> SUFFICES ASSUME AppInit PROVE AppInv
    OBVIOUS
  <1>1. AppTypeOK
    BY DEF AppInit, AppTypeOK, NothingListed
  <1>2. OutlivedIsLate
    BY DEF AppInit, OutlivedIsLate
  <1>3. RegistryAgrees
    BY DEF AppInit, RegistryAgrees, NothingListed
  <1> QED
    BY <1>1, <1>2, <1>3 DEF AppInv

\* The steps that neither wait for dpkg nor are its end.
LEMMA QuietStep ==
  ASSUME AppInv, UNCHANGED <<registry, packages, dpkg, late>>,
         manifest' \in Published, apps' \in [App -> Version \cup {Nothing}],
         busy' \in BOOLEAN, requests' \in [Slot -> Request \cup {Idle}]
  PROVE  AppInv'
  BY DEF AppInv, AppTypeOK, OutlivedIsLate, RegistryAgrees

\* Every step keeps the invariant.
LEMMA AppStep ==
  ASSUME AppInv, [AppNext]_appVars
  PROVE  AppInv'
  <1> USE DEF AppInv
  <1>a. /\ manifest \in Published /\ apps \in [App -> Version \cup {Nothing}]
        /\ busy \in BOOLEAN /\ requests \in [Slot -> Request \cup {Idle}]
    BY DEF AppTypeOK
  <1>1. ASSUME NEW s \in Slot, RefreshManifest(s) PROVE AppInv'
    <2>1. requests' \in [Slot -> Request \cup {Idle}]
      BY <1>1, SlotUpdate, ListRequestType DEF RefreshManifest, Send
    <2> QED
      BY <1>1, <1>a, <2>1, QuietStep DEF RefreshManifest
  <1>2. ASSUME NEW s \in Slot, ListFails(s) PROVE AppInv'
    <2>1. requests' \in [Slot -> Request \cup {Idle}]
      BY <1>2, SlotUpdate DEF ListFails, Done
    <2> QED
      BY <1>2, <1>a, <2>1, QuietStep DEF ListFails
  <1>3. ASSUME NEW s \in Slot, ListArrives(s) PROVE AppInv'
    <2>1. requests' \in [Slot -> Request \cup {Idle}]
      BY <1>3, SlotUpdate DEF ListArrives, Done
    <2>2. \A a \in App : manifest[a] # Nothing => manifest[a].version \in Version
      BY ManifestType, ListingType
    <2>3. apps' \in [App -> Version \cup {Nothing}]
      BY <1>3, <2>2 DEF ListArrives
    <2> QED
      BY <1>3, <1>a, <2>1, <2>3, QuietStep DEF ListArrives
  <1>4. ASSUME NEW s \in Slot, NEW a \in App, InstallApp(s, a) PROVE AppInv'
    <2>1. [kind |-> "manifest", app |-> a] \in Request
      BY DEF Request
    <2>2. requests' \in [Slot -> Request \cup {Idle}]
      BY <1>4, <2>1, SlotUpdate DEF InstallApp, Send
    <2> QED
      BY <1>4, <1>a, <2>2, QuietStep DEF InstallApp
  <1>5. CASE UpdateAll
    <2>1. PICK slot \in [AvailableUpdates -> {s \in Slot : requests[s] = Idle}] :
            requests' =
              [s \in Slot |->
                 IF \E a \in AvailableUpdates : slot[a] = s
                   THEN [kind |-> "manifest", app |-> CHOOSE a \in AvailableUpdates : slot[a] = s]
                   ELSE requests[s]]
      BY <1>5 DEF UpdateAll
    <2>2. ASSUME NEW s \in Slot
          PROVE  requests'[s] \in Request \cup {Idle}
      <3>1. CASE \E a \in AvailableUpdates : slot[a] = s
        <4> DEFINE b == CHOOSE a \in AvailableUpdates : slot[a] = s
        <4>1. b \in App
          BY <3>1 DEF AvailableUpdates
        <4>2. requests'[s] = [kind |-> "manifest", app |-> b]
          BY <2>1, <3>1
        <4> HIDE DEF b
        <4> QED
          BY <4>1, <4>2 DEF Request
      <3>2. CASE ~ \E a \in AvailableUpdates : slot[a] = s
        BY <2>1, <3>2, <1>a
      <3> QED
        BY <3>1, <3>2
    <2>3. requests' \in [Slot -> Request \cup {Idle}]
      BY <2>1, <2>2
    <2> QED
      BY <1>5, <1>a, <2>3, QuietStep DEF UpdateAll
  <1>6. ASSUME NEW s \in Slot, InstallRefused(s) PROVE AppInv'
    <2>1. requests' \in [Slot -> Request \cup {Idle}]
      BY <1>6, SlotUpdate DEF InstallRefused, Done
    <2> QED
      BY <1>6, <1>a, <2>1, QuietStep DEF InstallRefused
  <1>7. ASSUME NEW s \in Slot, InstallListed(s) PROVE AppInv'
    <2> DEFINE a == requests[s].app
    <2>1. requests[s] \in Request /\ requests[s].kind = "manifest"
      BY <1>7, SlotType DEF InstallListed
    <2>2. a \in App
      BY <2>1, RequestKinds
    <2>3. manifest[a] # Nothing
      BY <1>7 DEF InstallListed, Installable
    <2>4. manifest[a] \in Listing
      BY <2>2, <2>3, ManifestType
    <2>5. [kind |-> "download", app |-> a, entry |-> manifest[a]] \in Request
      BY <2>2, <2>4, RequestTypes
    <2>6. requests' = [requests EXCEPT ![s] = [kind |-> "download", app |-> a, entry |-> manifest[a]]]
      BY <1>7 DEF InstallListed
    <2> HIDE DEF a
    <2>7. requests' \in [Slot -> Request \cup {Idle}]
      BY <2>5, <2>6, SlotUpdate
    <2> QED
      BY <1>7, <1>a, <2>7, QuietStep DEF InstallListed
  <1>8. ASSUME NEW s \in Slot, DownloadFails(s) PROVE AppInv'
    <2>1. requests' \in [Slot -> Request \cup {Idle}]
      BY <1>8, SlotUpdate DEF DownloadFails, Done
    <2> QED
      BY <1>8, <1>a, <2>1, QuietStep DEF DownloadFails
  <1>9. ASSUME NEW s \in Slot, NEW v \in Version, DownloadArrives(s, v) PROVE AppInv'
    <2> DEFINE a == requests[s].app
    <2>1. requests[s] \in Request /\ requests[s].kind = "download"
      BY <1>9, SlotType DEF DownloadArrives
    <2>2. a \in App
      BY <2>1, RequestKinds
    <2>3. PICK ok \in BOOLEAN :
            /\ Dpkg(a, v, ok)
            /\ IF ok THEN RecordInstalled(a, v) ELSE UNCHANGED registry
      BY <1>9 DEF DownloadArrives
    <2>4. registry' = IF ok THEN [registry EXCEPT ![a] = v] ELSE registry
      BY <2>3 DEF RecordInstalled
    <2>5. requests' \in [Slot -> Request \cup {Idle}]
      BY <1>9, SlotUpdate DEF DownloadArrives, Done
    <2>6. busy' = FALSE /\ UNCHANGED <<manifest, apps>>
      BY <1>9 DEF DownloadArrives
    <2> HIDE DEF a
    <2> QED
      BY <1>a, <2>2, <2>3, <2>4, <2>5, <2>6, DpkgStep DEF AppTypeOK
  <1>10. ASSUME NEW a \in App, UninstallApp(a) PROVE AppInv'
    <2>1. PICK ok \in BOOLEAN :
            /\ Dpkg(a, Nothing, ok)
            /\ IF ok THEN ForgetInstalled(a) ELSE UNCHANGED registry
      BY <1>10 DEF UninstallApp
    <2>2. registry' = IF ok THEN [registry EXCEPT ![a] = Nothing] ELSE registry
      BY <2>1 DEF ForgetInstalled
    <2>3. busy' = FALSE /\ UNCHANGED <<manifest, apps, requests>>
      BY <1>10 DEF UninstallApp
    <2> QED
      BY <1>a, <2>1, <2>2, <2>3, DpkgStep DEF AppTypeOK
  <1>11. CASE Publish
    BY <1>11, <1>a, QuietStep DEF Publish
  <1>12. CASE DpkgEnds
    <2>1. dpkg \in Job /\ dpkg.app \in late
      BY <1>12 DEF DpkgEnds, AppTypeOK, OutlivedIsLate
    <2>2. dpkg.app \in App /\ dpkg.goal \in Version \cup {Nothing}
      BY <2>1 DEF Job
    <2>3. packages' = packages \/ packages' = [packages EXCEPT ![dpkg.app] = dpkg.goal]
      BY <1>12 DEF DpkgEnds
    <2>4. UNCHANGED <<manifest, apps, busy, requests, registry, late>> /\ dpkg' = NoJob
      BY <1>12 DEF DpkgEnds
    <2>5. packages' \in [App -> Version \cup {Nothing, Broken}]
      BY <2>2, <2>3 DEF AppTypeOK
    <2>6. RegistryAgrees'
      BY <2>1, <2>3, <2>4 DEF RegistryAgrees, AppTypeOK
    <2>7. AppTypeOK' /\ OutlivedIsLate'
      BY <2>4, <2>5 DEF AppTypeOK, OutlivedIsLate
    <2> QED
      BY <2>6, <2>7
  <1>b. ASSUME Forgotten
        PROVE  /\ manifest' \in Published /\ apps' \in [App -> Version \cup {Nothing}]
               /\ busy' \in BOOLEAN /\ requests' \in [Slot -> Request \cup {Idle}]
               /\ registry' = registry
    BY <1>a, <1>b DEF Forgotten, NothingListed
  <1>13. CASE AppRestart
    BY <1>13, <1>b, QuietStep DEF AppRestart
  <1>14. CASE AppRestartDuringDpkg
    <2>1. PICK a \in App, goal \in Version \cup {Nothing} :
            /\ packages' \in {packages, [packages EXCEPT ![a] = goal], [packages EXCEPT ![a] = Broken]}
            /\ dpkg' \in {NoJob, [app |-> a, goal |-> goal]}
            /\ late' = late \cup {a}
            /\ Forgotten
      BY <1>14 DEF AppRestartDuringDpkg
    <2>2. packages' \in [App -> Version \cup {Nothing, Broken}]
      BY <2>1 DEF AppTypeOK
    <2>3. dpkg' \in Job \cup {NoJob} /\ OutlivedIsLate'
      BY <2>1 DEF Job, OutlivedIsLate
    <2>4. RegistryAgrees'
      BY <2>1, <1>b DEF RegistryAgrees, AppTypeOK
    <2>5. AppTypeOK'
      BY <2>1, <2>2, <2>3, <1>b DEF AppTypeOK
    <2> QED
      BY <2>3, <2>4, <2>5
  <1>15. CASE UNCHANGED appVars
    BY <1>15, <1>a, QuietStep DEF appVars
  <1> QED
    BY <1>1, <1>2, <1>3, <1>4, <1>5, <1>6, <1>7, <1>8, <1>9, <1>10, <1>11, <1>12, <1>13,
       <1>14, <1>15 DEF AppNext

\* The inductive invariant.
LEMMA AppInvariant == AppSpec => []AppInv
  BY AppInitial, AppStep, PTL DEF AppSpec

\* The App Center's variables keep their types.
THEOREM AppTypeCorrect == AppSpec => []AppTypeOK
  BY AppInvariant, PTL DEF AppInv

\* The registry says of every app what dpkg has of it, unless dpkg left the
\* package half installed or did not answer in time.
THEOREM RegistryAlwaysAgrees == AppSpec => []RegistryAgrees
  BY AppInvariant, PTL DEF AppInv

-----------------------------------------------------------------------------
(* The session log.                                                        *)

\* While the chosen folder can be written to, it is the only one in use.
OnlyTheChoice ==
  kept =>
    /\ selected \in Dir /\ Writable(selected)
    /\ logFile \in {NoDir, selected}
    /\ entry \in {NoDir, selected}

LogInv == LogTypeOK /\ OnlyTheChoice

\* The places of /tmp and of the other fallbacks are directories.
LEMMA Places ==
  /\ Place \subseteq Dir /\ Stick \subseteq Place
  /\ {"internal", "home", "tmp"} \subseteq Place /\ "usb" \in Dir
  /\ NoDir \notin Dir /\ Lost \notin Dir /\ Lost # NoDir
  BY NamesAssumption DEF Place, Dir

\* Nothing is kept at the start.
LEMMA LogInitial == LogInit => LogInv
  <1> SUFFICES ASSUME LogInit PROVE LogInv
    OBVIOUS
  <1>1. LogTypeOK
    BY Places, NamesAssumption DEF LogInit, LogTypeOK
  <1>2. OnlyTheChoice
    BY DEF LogInit, OnlyTheChoice
  <1> QED
    BY <1>1, <1>2 DEF LogInv

\* What is mounted to find a stick is in the device.
LEMMA FoundIsMounted ==
  ASSUME NEW s \in Stick \cup {NoStick}, LogTypeOK, Found(s)
  PROVE  mounted' \subseteq plugged
  BY DEF Found, LogTypeOK

\* So is what the automatic choice finds or mounts.
LEMMA DetectedType ==
  ASSUME NEW dir \in Dir, LogTypeOK, AutoDetect(dir)
  PROVE  mounted' \subseteq plugged
  BY DEF AutoDetect, Found, LogTypeOK

\* The variables keep their types.
LEMMA LogTypes ==
  ASSUME LogTypeOK, [LogNext]_logVars
  PROVE  LogTypeOK'
  <1> USE Places
  <1>1. CASE StickComesOrGoes
    BY <1>1 DEF StickComesOrGoes, LogTypeOK, Watch, Writable
  <1>2. CASE PlaceChanges
    BY <1>2, NamesAssumption DEF PlaceChanges, LogTypeOK, Watch, Writable
  <1>3. CASE Poll
    BY <1>3 DEF Poll, LogTypeOK, worldVars
  <1>4. CASE OpenPicker
    <2>1. PICK s \in Stick \cup {NoStick}, internal \in SUBSET {"internal"} :
            /\ Found(s)
            /\ link' = IF s = NoStick THEN link ELSE s
            /\ offered' = devices \cup (IF s = NoStick THEN {} ELSE {"usb"}) \cup internal \cup {"home"}
            /\ UNCHANGED <<plugged, accepts, devices, selected, logFile, entry>>
            /\ Watch
      BY <1>4 DEF OpenPicker
    <2>2. mounted' \subseteq plugged
      BY <2>1, FoundIsMounted
    <2>3. offered' \subseteq Dir
      BY <2>1 DEF LogTypeOK
    <2> QED
      BY <2>1, <2>2, <2>3 DEF LogTypeOK, Watch, Writable
  <1>5. CASE LeaveConsole
    BY <1>5 DEF LeaveConsole, LogTypeOK, worldVars
  <1>6. ASSUME NEW dir \in Dir, TrySelectLogDirectory(dir) PROVE LogTypeOK'
    BY <1>6 DEF TrySelectLogDirectory, LogTypeOK, worldVars
  <1>7. CASE RunCommand
    <2>1. PICK dir \in Dir :
            /\ EnsureLogFile(dir)
            /\ logFile' = dir
            /\ entry' = IF logFile = dir /\ ~Writable(dir) THEN Lost ELSE dir
      BY <1>7 DEF RunCommand
    <2>2. mounted' \subseteq plugged
      BY <2>1, DetectedType DEF EnsureLogFile, LogTypeOK
    <2> QED
      BY <1>7, <2>1, <2>2 DEF RunCommand, LogTypeOK
  <1>8. CASE LogRestart
    BY <1>8 DEF LogRestart, LogTypeOK, worldVars
  <1>9. CASE UNCHANGED logVars
    BY <1>9 DEF logVars, worldVars, LogTypeOK
  <1> QED
    BY <1>1, <1>2, <1>3, <1>4, <1>5, <1>6, <1>7, <1>8, <1>9 DEF LogNext

\* Every step keeps to the choice or notices that it is gone.
LEMMA ChoiceStep ==
  ASSUME LogInv, [LogNext]_logVars
  PROVE  OnlyTheChoice'
  <1> USE DEF LogInv
  <1>a. ASSUME Watch, UNCHANGED <<selected, logFile, entry>> PROVE OnlyTheChoice'
    BY <1>a DEF OnlyTheChoice, Watch
  <1>b. ASSUME UNCHANGED <<kept, selected, logFile, entry, mounted, accepts, link>>
        PROVE  OnlyTheChoice'
    BY <1>b DEF OnlyTheChoice, Writable
  <1>1. CASE StickComesOrGoes
    BY <1>1, <1>a DEF StickComesOrGoes
  <1>2. CASE PlaceChanges
    BY <1>2, <1>a DEF PlaceChanges
  <1>3. CASE Poll
    BY <1>3, <1>b DEF Poll, worldVars
  <1>4. CASE OpenPicker
    BY <1>4, <1>a DEF OpenPicker
  <1>5. CASE LeaveConsole
    BY <1>5, <1>b DEF LeaveConsole, worldVars
  <1>6. ASSUME NEW dir \in Dir, TrySelectLogDirectory(dir) PROVE OnlyTheChoice'
    BY <1>6 DEF TrySelectLogDirectory, OnlyTheChoice, worldVars, Writable
  <1>7. CASE RunCommand
    <2> SUFFICES ASSUME kept PROVE OnlyTheChoice'
      BY <1>7 DEF RunCommand, OnlyTheChoice
    <2>1. PICK dir \in Dir :
            /\ EnsureLogFile(dir)
            /\ logFile' = dir
            /\ entry' = IF logFile = dir /\ ~Writable(dir) THEN Lost ELSE dir
      BY <1>7 DEF RunCommand
    <2>2. selected \in Dir /\ Writable(selected) /\ logFile \in {NoDir, selected}
      BY DEF OnlyTheChoice
    <2>3. dir = selected /\ UNCHANGED mounted
      BY <2>1, <2>2, Places DEF EnsureLogFile
    <2>4. UNCHANGED <<accepts, link, selected, kept>>
      BY <1>7 DEF RunCommand
    <2>5. Writable(selected)'
      BY <2>2, <2>3, <2>4 DEF Writable
    <2> QED
      BY <2>1, <2>2, <2>3, <2>4, <2>5 DEF OnlyTheChoice
  <1>8. CASE LogRestart
    BY <1>8 DEF LogRestart, OnlyTheChoice
  <1>9. CASE UNCHANGED logVars
    BY <1>9, <1>b DEF logVars, worldVars
  <1> QED
    BY <1>1, <1>2, <1>3, <1>4, <1>5, <1>6, <1>7, <1>8, <1>9 DEF LogNext

\* The inductive invariant.
LEMMA LogInvariant == LogSpec => []LogInv
  <1>1. LogInv /\ [LogNext]_logVars => LogInv'
    BY LogTypes, ChoiceStep DEF LogInv
  <1> QED
    BY LogInitial, <1>1, PTL DEF LogSpec

\* The console's and the storage's variables keep their types.
THEOREM LogTypeCorrect == LogSpec => []LogTypeOK
  BY LogInvariant, PTL DEF LogInv

\* Every entry since the choice of a folder is in that folder for as long as
\* it can be written to.
THEOREM ChoiceAlwaysHonoured == LogSpec => []ChoiceHonoured
  <1>1. LogInv => ChoiceHonoured
    BY DEF LogInv, OnlyTheChoice, ChoiceHonoured
  <1> QED
    BY LogInvariant, <1>1, PTL

-----------------------------------------------------------------------------
(* The screens.                                                            *)

\* The view and the stack after a navigation.
LEMMA NavigateToTypes ==
  ASSUME NavTypeOK, NEW v \in View, NavigateTo(v)
  PROVE  view' \in View /\ stack' \in Seq(View)
  <1>1. CASE view = "splash"
    BY <1>1 DEF NavigateTo, NavTypeOK
  <1>2. CASE view # "splash"
    <2>1. Append(stack, view) \in Seq(View)
      BY AppendProperties DEF NavTypeOK
    <2> QED BY <1>2, <2>1 DEF NavigateTo
  <1> QED BY <1>1, <1>2

\* The stack has views only.
LEMMA GoBackTypes ==
  ASSUME NavTypeOK, GoBack
  PROVE  NavTypeOK'
  <1>1. CASE stack = <<>>
    BY <1>1 DEF GoBack, NavTypeOK, View
  <1>2. CASE stack # <<>>
    <2>1. stack \in Seq(View) /\ Len(stack) \in Nat \ {0}
      BY <1>2, EmptySeq DEF NavTypeOK
    <2>2. stack[Len(stack)] \in View
      BY <2>1
    <2>3. SubSeq(stack, 1, Len(stack) - 1) \in Seq(View)
      BY <2>1
    <2> QED BY <1>2, <2>2, <2>3 DEF GoBack, NavTypeOK
  <1> QED BY <1>1, <1>2

\* Every navigation keeps the types.
LEMMA MoveTypes ==
  ASSUME NavTypeOK, Move
  PROVE  NavTypeOK'
  <1>1. CASE GoBack
    BY <1>1, GoBackTypes
  <1>2. CASE ShowHome
    BY <1>2 DEF ShowHome, NavTypeOK, View
  <1>3. CASE PressHome
    <2>1. <<>> \in Seq(View)
      OBVIOUS
    <2> QED BY <1>3, <2>1 DEF PressHome, NavTypeOK, View
  <1>4. CASE ToggleMenu
    <2>1. CASE view = "home" /\ menuOrigin # ""
      BY <1>4, <2>1 DEF ToggleMenu, NavTypeOK
    <2>2. CASE ~(view = "home" /\ menuOrigin # "")
      <3>1. menuOrigin' = view /\ NavigateTo("home")
        BY <1>4, <2>2 DEF ToggleMenu
      <3>2. "home" \in View
        BY DEF View
      <3> QED BY <3>1, <3>2, NavigateToTypes DEF NavTypeOK
    <2> QED BY <2>1, <2>2
  <1>5. ASSUME NEW v \in View, Open(v)
        PROVE  NavTypeOK'
    BY <1>5, NavigateToTypes DEF Open, NavTypeOK
  <1> QED BY <1>1, <1>2, <1>3, <1>4, <1>5 DEF Move

-----------------------------------------------------------------------------
(* The mushafs.                                                            *)

\* The pages of an edition, and 1, are pages.
LEMMA Pages ==
  /\ 1 \in Page /\ NoPlace \in Bookmark
  /\ \A e \in Edition : MinPage[e] \in Page /\ MinPage[e]..MaxPage[e] \subseteq Page
  <1>1. ASSUME NEW e \in Edition
        PROVE  MinPage[e] \in Page /\ MinPage[e]..MaxPage[e] \subseteq Page
    <2>1. MinPage[e] \in Nat /\ MaxPage[e] \in Nat /\ MinPage[e] <= MaxPage[e]
      BY EditionAssumption
    <2>2. MinPage[e] \in MinPage[e]..MaxPage[e]
      BY <2>1
    <2> QED
      BY <2>2 DEF Page
  <1>2. 1 \in Page
    BY DEF Page
  <1>3. NoPlace \in Bookmark
    BY <1>2 DEF NoPlace, Bookmark
  <1> QED
    BY <1>1, <1>2, <1>3

\* The page of the reader is a place to save.
LEMMA LeftType ==
  ASSUME MushafTypeOK
  PROVE  Left \in Bookmark
  BY DEF Left, MushafTypeOK, Bookmark

\* To leave a view keeps the types.
LEMMA MovedTypes ==
  ASSUME MushafTypeOK, NavTypeOK', Moved
  PROVE  MushafTypeOK'
  <1>1. CASE view' = view
    BY <1>1 DEF Moved, MushafTypeOK
  <1>2. CASE view' # view
    <2>1. saved' \in Bookmark
      BY <1>2, LeftType DEF Moved
    <2>2. card' \in Bookmark
      BY <1>2, <2>1, Pages DEF Moved, MushafTypeOK
    <2> QED
      BY <1>2, <2>1, <2>2, Pages DEF Moved, Reset, MushafTypeOK
  <1> QED
    BY <1>1, <1>2

\* So does to open an edition from the gallery.
LEMMA OpenMushafTypes ==
  ASSUME MushafTypeOK, NEW e \in Edition, NEW page \in Page, OpenMushaf(e, page)
  PROVE  MushafTypeOK'
  <1>1. "mushafreader" \in View
    BY BranchAssumption DEF View
  <1>2. NavTypeOK'
    BY <1>1, NavigateToTypes DEF OpenMushaf, MushafTypeOK, NavTypeOK
  <1> QED
    BY <1>2, Pages DEF OpenMushaf, MushafTypeOK

\* The gallery, the reader and the screens keep their types.
LEMMA MushafStep ==
  ASSUME MushafTypeOK, [MushafNext]_mushafVars
  PROVE  MushafTypeOK'
  <1>0. NavTypeOK
    BY DEF MushafTypeOK
  <1>1. CASE Navigate
    <2>1. Move
      BY <1>1 DEF Navigate, Move
    <2> QED
      BY <1>0, <1>1, <2>1, MoveTypes, MovedTypes DEF Navigate
  <1>2. CASE BackButton
    <2>1. NavTypeOK'
      BY <1>0, <1>2, GoBackTypes DEF BackButton
    <2>2. saved' \in Bookmark
      BY <1>2, LeftType DEF BackButton
    <2> QED
      BY <1>2, <2>1, <2>2, Pages DEF BackButton, Reset, MushafTypeOK
  <1>3. ASSUME NEW e \in Edition, OpenTile(e) PROVE MushafTypeOK'
    BY <1>3, Pages, OpenMushafTypes DEF OpenTile
  <1>4. CASE ContinueMushaf
    <2>1. card.mushafName \in Edition /\ card.pageNumber \in Page
      BY <1>4 DEF ContinueMushaf, MushafTypeOK, Bookmark
    <2> QED
      BY <1>4, <2>1, OpenMushafTypes DEF ContinueMushaf
  <1>5. ASSUME NEW page \in Page, GoToPage(page) PROVE MushafTypeOK'
    BY <1>5 DEF GoToPage, MushafTypeOK, NavTypeOK, navVars
  <1>6. CASE UNCHANGED mushafVars
    BY <1>6 DEF mushafVars, navVars, MushafTypeOK, NavTypeOK
  <1> QED
    BY <1>1, <1>2, <1>3, <1>4, <1>5, <1>6 DEF MushafNext

\* The variables of the mushafs keep their types.
THEOREM MushafTypeCorrect == MushafSpec => []MushafTypeOK
  <1>1. MushafInit => MushafTypeOK
    <2> SUFFICES ASSUME MushafInit PROVE MushafTypeOK
      OBVIOUS
    <2>1. <<>> \in Seq(View) /\ "splash" \in View
      BY DEF View
    <2> QED
      BY <2>1, Pages DEF MushafInit, AtSplash, NavTypeOK, MushafTypeOK
  <1> QED
    BY <1>1, MushafStep, PTL DEF MushafSpec

-----------------------------------------------------------------------------
(* All of them.                                                            *)

\* A step of one service is a stutter of each of the others.
LEMMA ServicesStep ==
  [ServicesNext]_services =>
    /\ [AppNext]_appVars /\ [LogNext]_logVars /\ [HadithNext]_hadithVars
    /\ [MushafNext]_mushafVars /\ [RemindersNext]_remindersVars
    /\ [DatabasesNext]_databasesVars
  BY DEF ServicesNext, services

\* Each service behaves beside the others as its own specification says.
LEMMA EachAsSpecified ==
  ServicesSpec =>
    AppSpec /\ LogSpec /\ HadithSpec /\ MushafSpec /\ RemindersSpec /\ DatabasesSpec
  <1>1. ServicesInit =>
          /\ AppInit /\ LogInit /\ HadithInit /\ MushafInit /\ RemindersInit
          /\ DatabasesInit
    BY DEF ServicesInit
  <1> QED
    BY <1>1, ServicesStep, PTL
    DEF ServicesSpec, AppSpec, LogSpec, HadithSpec, MushafSpec, RemindersSpec, DatabasesSpec

\* The services' variables keep their types.
THEOREM ServicesTypeCorrect == ServicesSpec => []TypeOK
  <1>1. /\ AppTypeOK /\ LogTypeOK /\ HadithTypeOK /\ MushafTypeOK /\ RemindersTypeOK
        /\ DatabasesTypeOK
        => TypeOK
    BY DEF TypeOK
  <1> QED
    BY <1>1, EachAsSpecified, AppTypeCorrect, LogTypeCorrect, HadithTypeCorrect,
       MushafTypeCorrect, RemindersTypeCorrect, DatabasesTypeCorrect, PTL
=============================================================================
