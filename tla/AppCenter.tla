------------------------------ MODULE AppCenter ------------------------------
(***************************************************************************)
(* AppCenter (shell-src/appcenter.cpp) and the page that drives it         *)
(* (AppCenter.qml): the published list of apps, the installs and removals  *)
(* it leads to, and the registry of what was installed.                    *)
(*                                                                         *)
(* The network is asynchronous, so that several requests are in flight at  *)
(* once; dpkg is waited for inside a handler, at most two minutes.  An     *)
(* ended wait is not an ended dpkg: the shell cannot kill sudo's child,    *)
(* and QProcess::exitCode() of a process that did not exit is 0.           *)
(* Left out: the texts of the listing, and a data directory that cannot    *)
(* be written.                                                             *)
(***************************************************************************)
EXTENDS Integers

CONSTANTS
  App,        \* ids of apps, also their package names
  Version,    \* versions of apps
  Published,  \* the manifests the server may ever serve
  Slot,       \* bound: requests in flight at once
  Nothing,    \* no version: not listed, not registered, not installed
  Broken,     \* a package dpkg has left half installed
  Idle,       \* a slot without a request
  NoJob       \* no dpkg at work

ASSUME NoVersionAssumption == Nothing \notin Version /\ Broken \notin Version \cup {Nothing}

\* What the manifest says of an app on this processor: its version, and a
\* .deb, another type of package, or no build that could be downloaded.
Listing == [version : Version, build : {"deb", "other", "none"}]

ASSUME PublishedAssumption == Published \subseteq [App -> Listing \cup {Nothing}]

Job == [app : App, goal : Version \cup {Nothing}]

Request ==
  [kind : {"list"}] \cup [kind : {"manifest"}, app : App]
    \cup [kind : {"download"}, app : App, entry : Listing]

ASSUME MarkersAssumption == Nothing \notin Listing /\ Idle \notin Request /\ NoJob \notin Job

VARIABLES
  manifest,   \* external: apps.json on the server
  apps,       \* m_apps: the version listed for each app
  busy,       \* m_busy
  requests,   \* the replies that have not finished
  registry,   \* m_installedRegistry: the version recorded for each app
  packages,   \* external: what dpkg has installed
  dpkg,       \* external: the dpkg that outlived the wait for it
  late        \* history: apps with a dpkg that did not answer in time

appVars == <<manifest, apps, busy, requests, registry, packages, dpkg, late>>

AppTypeOK ==
  /\ manifest \in Published
  /\ apps \in [App -> Version \cup {Nothing}]
  /\ busy \in BOOLEAN
  /\ requests \in [Slot -> Request \cup {Idle}]
  /\ registry \in [App -> Version \cup {Nothing}]
  /\ packages \in [App -> Version \cup {Nothing, Broken}]
  /\ dpkg \in Job \cup {NoJob}
  /\ late \subseteq App

NothingListed == [a \in App |-> Nothing]

AppInit ==
  /\ manifest \in Published
  /\ apps = NothingListed
  /\ busy = FALSE
  /\ requests = [s \in Slot |-> Idle]
  /\ registry = NothingListed
  /\ packages = NothingListed
  /\ dpkg = NoJob
  /\ late = {}

-----------------------------------------------------------------------------
(* Requests and their answers.                                             *)

Send(s, request) == requests[s] = Idle /\ requests' = [requests EXCEPT ![s] = request]

Done(s) == requests' = [requests EXCEPT ![s] = Idle]

\* Opening the page.
RefreshManifest(s) ==
  /\ Send(s, [kind |-> "list"])
  /\ busy' = TRUE
  /\ UNCHANGED <<manifest, apps, registry, packages, dpkg, late>>

\* An error of the network, a list that does not parse, or one of a newer
\* format: the old list stays.
ListFails(s) ==
  /\ requests[s] \in [kind : {"list"}]
  /\ Done(s)
  /\ busy' = FALSE
  /\ UNCHANGED <<manifest, apps, registry, packages, dpkg, late>>

ListArrives(s) ==
  /\ requests[s] \in [kind : {"list"}]
  /\ apps' = [a \in App |-> IF manifest[a] = Nothing THEN Nothing ELSE manifest[a].version]
  /\ Done(s)
  /\ busy' = FALSE
  /\ UNCHANGED <<manifest, registry, packages, dpkg, late>>

\* The buttons of a card or of an update.  What the page shows may be older
\* than m_apps and the registry: its bindings call functions.
InstallApp(s, a) ==
  /\ Send(s, [kind |-> "manifest", app |-> a])
  /\ busy' = TRUE
  /\ UNCHANGED <<manifest, apps, registry, packages, dpkg, late>>

\* Installed apps whose listed version is another one.
AvailableUpdates ==
  {a \in App : registry[a] # Nothing /\ apps[a] # Nothing /\ apps[a] # registry[a]}

\* "Update all": every install is started in the same handler.
UpdateAll ==
  /\ AvailableUpdates # {}
  /\ \E slot \in [AvailableUpdates -> {s \in Slot : requests[s] = Idle}] :
       /\ \A a, b \in AvailableUpdates : a # b => slot[a] # slot[b]
       /\ requests' =
            [s \in Slot |->
               IF \E a \in AvailableUpdates : slot[a] = s
                 THEN [kind |-> "manifest", app |-> CHOOSE a \in AvailableUpdates : slot[a] = s]
                 ELSE requests[s]]
  /\ busy' = TRUE
  /\ UNCHANGED <<manifest, apps, registry, packages, dpkg, late>>

Installable(a) == manifest[a] # Nothing /\ manifest[a].build # "none"

\* The second fetch of the manifest goes wrong or has no build of the app.
InstallRefused(s) ==
  /\ requests[s] # Idle /\ requests[s].kind = "manifest"
  /\ Done(s)
  /\ busy' = FALSE
  /\ UNCHANGED <<manifest, apps, registry, packages, dpkg, late>>

\* It has one: its entry, version and checksum included, is kept for the
\* end of the download.
InstallListed(s) ==
  /\ requests[s] # Idle /\ requests[s].kind = "manifest"
  /\ LET a == requests[s].app
     IN  /\ Installable(a)
         /\ requests' =
              [requests EXCEPT ![s] = [kind |-> "download", app |-> a, entry |-> manifest[a]]]
  /\ UNCHANGED <<manifest, apps, busy, registry, packages, dpkg, late>>

\* A download that breaks, cannot be written or is not a .deb.
DownloadFails(s) ==
  /\ requests[s] # Idle /\ requests[s].kind = "download"
  /\ Done(s)
  /\ busy' = FALSE
  /\ UNCHANGED <<manifest, apps, registry, packages, dpkg, late>>

-----------------------------------------------------------------------------
(* dpkg, which refuses to run beside another one.                          *)

\* Exit status 0.
DpkgSucceeds(a, goal) ==
  /\ dpkg = NoJob
  /\ packages' = [packages EXCEPT ![a] = goal]
  /\ late' = late \ {a}
  /\ UNCHANGED dpkg

\* Any other: refused, or stopped on the way, by a missing dependency say.
DpkgFails(a) ==
  /\ \/ UNCHANGED packages
     \/ dpkg = NoJob /\ packages' = [packages EXCEPT ![a] = Broken]
  /\ UNCHANGED <<dpkg, late>>

\* It did not start, or it is still at work when the wait ends.
DpkgUnanswered(a, goal) ==
  /\ \/ UNCHANGED <<packages, dpkg>>
     \/ /\ dpkg = NoJob
        /\ dpkg' = [app |-> a, goal |-> goal]
        /\ packages' = [packages EXCEPT ![a] = Broken]
  /\ late' = late \cup {a}

\* The exit status the handler reads: 0 unless dpkg has exited with another.
Dpkg(a, goal, exitedZero) ==
  \/ exitedZero /\ DpkgSucceeds(a, goal)
  \/ exitedZero /\ DpkgUnanswered(a, goal)
  \/ ~exitedZero /\ DpkgFails(a)

RecordInstalled(a, v) == registry' = [registry EXCEPT ![a] = v]

ForgetInstalled(a) == registry' = [registry EXCEPT ![a] = Nothing]

\* Mutant: the version that goes into the registry is the grid's.
DownloadArrivesGridVersion(s, content) ==
  /\ requests[s] # Idle /\ requests[s].kind = "download"
  /\ LET a == requests[s].app
         entry == requests[s].entry
     IN  /\ entry.build = "deb"
         /\ content = entry.version
         /\ \E ok \in BOOLEAN :
              /\ Dpkg(a, content, ok)
              /\ IF ok /\ apps[a] # Nothing THEN RecordInstalled(a, apps[a]) ELSE UNCHANGED registry
  /\ Done(s)
  /\ busy' = FALSE
  /\ UNCHANGED <<manifest, apps>>

\* The download of a .deb is complete.  The server's file may be of another
\* version than the manifest it was announced in: the checksum decides.
DownloadArrives(s, content) ==
  /\ requests[s] # Idle /\ requests[s].kind = "download"
  /\ LET a == requests[s].app
         entry == requests[s].entry
     IN  /\ entry.build = "deb"
         /\ content = entry.version
         /\ \E ok \in BOOLEAN :
              /\ Dpkg(a, content, ok)
              /\ IF ok THEN RecordInstalled(a, entry.version) ELSE UNCHANGED registry
  /\ Done(s)
  /\ busy' = FALSE
  /\ UNCHANGED <<manifest, apps>>

UninstallApp(a) ==
  /\ registry[a] # Nothing
  /\ \E ok \in BOOLEAN :
       /\ Dpkg(a, Nothing, ok)
       /\ IF ok THEN ForgetInstalled(a) ELSE UNCHANGED registry
  /\ busy' = FALSE
  /\ UNCHANGED <<manifest, apps, requests>>

-----------------------------------------------------------------------------
(* The world outside the shell.                                            *)

Publish ==
  /\ manifest' \in Published
  /\ UNCHANGED <<apps, busy, requests, registry, packages, dpkg, late>>

\* A dpkg that was given up ends all the same, done or not.
DpkgEnds ==
  /\ dpkg # NoJob
  /\ \/ packages' = [packages EXCEPT ![dpkg.app] = dpkg.goal]
     \/ UNCHANGED packages
  /\ dpkg' = NoJob
  /\ UNCHANGED <<manifest, apps, busy, requests, registry, late>>

Forgotten ==
  /\ apps' = NothingListed
  /\ busy' = FALSE
  /\ requests' = [s \in Slot |-> Idle]
  /\ UNCHANGED <<manifest, registry>>

\* The shell starts again; the registry is a file.
AppRestart == Forgotten /\ UNCHANGED <<packages, dpkg, late>>

\* The same while it waits for dpkg, before the registry is written.
AppRestartDuringDpkg ==
  \E a \in App, goal \in Version \cup {Nothing} :
    /\ \/ \E s \in Slot : /\ requests[s] \in [kind : {"download"}, app : {a}, entry : Listing]
                          /\ requests[s].entry.build = "deb" /\ goal = requests[s].entry.version
       \/ registry[a] # Nothing /\ goal = Nothing
    /\ dpkg = NoJob
    /\ packages' \in {packages, [packages EXCEPT ![a] = goal], [packages EXCEPT ![a] = Broken]}
    /\ dpkg' \in {NoJob, [app |-> a, goal |-> goal]}
    /\ late' = late \cup {a}
    /\ Forgotten

AppNext ==
  \/ \E s \in Slot :
       \/ RefreshManifest(s) \/ ListFails(s) \/ ListArrives(s)
       \/ \E a \in App : InstallApp(s, a)
       \/ InstallRefused(s) \/ InstallListed(s) \/ DownloadFails(s)
       \/ \E v \in Version : DownloadArrives(s, v)
  \/ UpdateAll
  \/ \E a \in App : UninstallApp(a)
  \/ Publish \/ DpkgEnds \/ AppRestart \/ AppRestartDuringDpkg

AppSpec == AppInit /\ [][AppNext]_appVars

-----------------------------------------------------------------------------
(* Properties.                                                             *)

\* The Manage page is true: however installs, removals, republished lists
\* and restarts overlap, the registry says of every app what dpkg has of it,
\* unless dpkg left the package half installed or did not answer.
RegistryAgrees ==
  \A a \in App \ late : packages[a] \in {registry[a], Broken}
=============================================================================
