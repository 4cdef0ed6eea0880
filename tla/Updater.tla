------------------------------ MODULE Updater -------------------------------
(***************************************************************************)
(* UpdateBackend (shell-src/updatebackend.cpp), the buttons of             *)
(* UpdatesView.qml and the root service that consumes the marker file.     *)
(*                                                                         *)
(* The backend runs on the main thread; network replies arrive in any      *)
(* order.  The handler of a finished download writes the file and then     *)
(* reads it back to verify it: two steps here, because the root service is *)
(* another process and a crash may fall between them.  No other handler    *)
(* runs meanwhile (verifying # NoRequest blocks them).                     *)
(*                                                                         *)
(* apply-update.sh, its path unit and the server are not in the repository:*)
(* they are modelled from what updatebackend.h says of them.               *)
(*                                                                         *)
(* A version stands for its URL, its image and the image's sha256, which   *)
(* one manifest publishes together and the code stores together.           *)
(***************************************************************************)
EXTENDS Integers, FiniteSets

CONSTANTS
  Version,       \* the versions ever published
  Complete,      \* those whose manifest entry names a url and a sha256
  Slot,          \* bound: network requests in flight at the same time
  NoRequest,     \* no download is being verified
  MaxPublished,  \* bound: how often the server replaces its manifest
  MaxFaults      \* bound: crashes, failed requests and failed writes

ASSUME VersionAssumption == Version \subseteq Nat \ {0}
ASSUME CompleteAssumption == Complete \subseteq Version
ASSUME SlotAssumption == NoRequest \notin Slot
ASSUME BoundsAssumption == MaxPublished \in Nat /\ MaxFaults \in Nat

VARIABLES
  manifest,       \* the server's latest_version, or NoVersion
  published,      \* history: every version the server offered
  changes,        \* how often the manifest was replaced
  requests,       \* the replies in flight
  pending,        \* m_pending{Url,Sha256,Type,Version}, or NoVersion
  busy,           \* m_busy
  verifying,      \* the download whose file was written and not yet verified
  viewAvailable,  \* UpdatesView.available
  viewDownloaded, \* UpdatesView.downloaded
  files,          \* updates/<version>.<type>: whose image it holds
  marker,         \* the version pending.marker names, or NoVersion
  installed,      \* /opt/roohaniye/VERSION
  appUp,          \* whether the shell runs (FALSE while root extracts)
  faults          \* how many faults have happened

serverVars == <<manifest, published, changes>>
shellVars  == <<requests, pending, busy, verifying>>
viewVars   == <<viewAvailable, viewDownloaded>>
rootVars   == <<installed, appUp>>
vars == <<serverVars, shellVars, viewVars, files, marker, rootVars, faults>>

-----------------------------------------------------------------------------
NoVersion == 0    \* also "0.0.0", what a missing VERSION file reads as
Absent    == 0    \* no file at that path
Partial   == -1   \* a truncated image: a short write or a crash

Idle == [kind |-> "idle", version |-> NoVersion]
CheckRequest == [kind |-> "check", version |-> NoVersion]
DownloadRequest(v) == [kind |-> "download", version |-> v]

Request ==
  {Idle, CheckRequest} \cup [kind : {"check", "download"}, version : Version]

Free(s) == requests[s] = Idle

\* A step that goes wrong, or the same step going right.
Fault == faults < MaxFaults /\ faults' = faults + 1
NoFault == UNCHANGED faults

\* Handlers run only while the main thread is not inside another one.
Ready == appUp /\ verifying = NoRequest

Init ==
  /\ manifest \in Version \cup {NoVersion}
  /\ published = {manifest} \ {NoVersion}
  /\ changes = 0
  /\ requests = [s \in Slot |-> Idle]
  /\ pending = NoVersion
  /\ busy = FALSE
  /\ verifying = NoRequest
  /\ viewAvailable = FALSE
  /\ viewDownloaded = FALSE
  /\ files = [v \in Version |-> Absent]
  /\ marker = NoVersion
  /\ installed \in Version \cup {NoVersion}
  /\ appUp = TRUE
  /\ faults = 0

-----------------------------------------------------------------------------
(* checkForUpdate() and its reply.                                         *)

StartCheck(s) ==
  /\ Ready
  /\ Free(s)
  /\ busy' = TRUE
  /\ requests' = [requests EXCEPT ![s] = CheckRequest]
  /\ UNCHANGED <<serverVars, pending, verifying, viewVars, files, marker,
                 rootVars, faults>>

\* The 2-minute and 6-hour timers: nothing looks at m_busy.
TimerCheck(s) == StartCheck(s)

\* "Check for updates": shown while nothing is available, enabled unless busy.
TapCheck(s) == ~busy /\ ~viewAvailable /\ StartCheck(s)

\* The server answers; the reply reaches the event loop later.
ServerAnswers(s) ==
  /\ requests[s] = CheckRequest
  /\ manifest # NoVersion
  /\ requests' = [requests EXCEPT ![s].version = manifest]
  /\ UNCHANGED <<serverVars, pending, busy, verifying, viewVars, files, marker,
                 rootVars, faults>>

\* Mutant: any other version counts as an update (updatebackend.h:97).
CheckSucceedsWhenDifferent(s) ==
  /\ Ready
  /\ requests[s].kind = "check"
  /\ requests[s].version # NoVersion
  /\ LET latest    == requests[s].version
         available == latest # installed
         downloads == available /\ latest \in Complete
     IN  /\ pending' = latest
         /\ busy' = downloads
         /\ requests' = [requests EXCEPT ![s] =
                           IF downloads THEN DownloadRequest(latest) ELSE Idle]
         /\ viewAvailable' = available
         /\ viewDownloaded' = (viewDownloaded /\ (available => downloads))
  /\ UNCHANGED <<serverVars, verifying, files, marker, rootVars, faults>>

\* Mutant: checkFinished() is emitted before setBusy(false), so nothing chains.
CheckSucceedsStillBusy(s) ==
  /\ Ready
  /\ requests[s].kind = "check"
  /\ requests[s].version # NoVersion
  /\ pending' = requests[s].version
  /\ busy' = FALSE
  /\ requests' = [requests EXCEPT ![s] = Idle]
  /\ viewAvailable' = (requests[s].version > installed)
  /\ UNCHANGED <<serverVars, verifying, viewDownloaded, files, marker, rootVars,
                 faults>>

\* finished(): the manifest replaces what was pending, newer or not; then
\* checkFinished() chains into downloadUpdate(), whose !m_busy guard has just
\* been made true by setBusy(false).  An entry without a url or a sha256 makes
\* downloadUpdate() report a failure at once.
CheckSucceeds(s) ==
  /\ Ready
  /\ requests[s].kind = "check"
  /\ requests[s].version # NoVersion
  /\ LET latest    == requests[s].version
         available == latest > installed
         downloads == available /\ latest \in Complete
     IN  /\ pending' = latest
         /\ busy' = downloads
         /\ requests' = [requests EXCEPT ![s] =
                           IF downloads THEN DownloadRequest(latest) ELSE Idle]
         /\ viewAvailable' = available
         /\ viewDownloaded' = (viewDownloaded /\ (available => downloads))
  /\ UNCHANGED <<serverVars, verifying, files, marker, rootVars, faults>>

\* Nothing published yet; or an error; or a manifest that is corrupted, too
\* new for this release or silent about this device.
CheckFails(s) ==
  /\ Ready
  /\ requests[s].kind = "check"
  /\ \/ Fault
     \/ manifest = NoVersion /\ requests[s].version = NoVersion /\ NoFault
  /\ requests' = [requests EXCEPT ![s] = Idle]
  /\ busy' = FALSE
  /\ viewAvailable' = FALSE
  /\ UNCHANGED <<serverVars, pending, verifying, viewDownloaded, files, marker,
                 rootVars>>

-----------------------------------------------------------------------------
(* downloadUpdate() and its reply.                                         *)

\* "Download & verify": shown while available and not downloaded.
TapDownload(s) ==
  /\ Ready
  /\ Free(s)
  /\ viewAvailable /\ ~viewDownloaded /\ ~busy
  /\ pending \in Complete
  /\ busy' = TRUE
  /\ requests' = [requests EXCEPT ![s] = DownloadRequest(pending)]
  /\ UNCHANGED <<serverVars, pending, verifying, viewVars, files, marker,
                 rootVars, faults>>

\* Mutant: the error path leaves m_busy set.
DownloadFailsStaysBusy(s) ==
  /\ Ready
  /\ requests[s].kind = "download"
  /\ Fault
  /\ requests' = [requests EXCEPT ![s] = Idle]
  /\ viewDownloaded' = FALSE
  /\ UNCHANGED <<serverVars, pending, busy, verifying, viewAvailable, files, marker,
                 rootVars>>

\* The transfer fails, or the file cannot be opened for writing.
DownloadFails(s) ==
  /\ Ready
  /\ requests[s].kind = "download"
  /\ Fault
  /\ requests' = [requests EXCEPT ![s] = Idle]
  /\ busy' = FALSE
  /\ viewDownloaded' = FALSE
  /\ UNCHANGED <<serverVars, pending, verifying, viewAvailable, files, marker,
                 rootVars>>

\* finished(), first half: the image that was asked for is written, perhaps
\* short, to the path of what is pending NOW.
DownloadWritten(s) ==
  /\ Ready
  /\ requests[s].kind = "download"
  /\ \/ NoFault /\ files' = [files EXCEPT ![pending] = requests[s].version]
     \/ Fault   /\ files' = [files EXCEPT ![pending] = Partial]
  /\ verifying' = s
  /\ UNCHANGED <<serverVars, requests, pending, busy, viewVars, marker, rootVars>>

\* verifySha256() of the file against what is pending.
Verified == files[pending] = pending

\* Second half, the hash agrees: downloadFinished(true) chains into
\* applyUpdate().  It writes the marker, unless the manifest named no type of
\* archive (a fault of the server, like a corrupted one) or it cannot be opened.
DownloadVerified ==
  /\ appUp
  /\ verifying # NoRequest
  /\ Verified
  /\ \/ NoFault /\ marker' = pending
     \/ Fault   /\ UNCHANGED marker
  /\ requests' = [requests EXCEPT ![verifying] = Idle]
  /\ verifying' = NoRequest
  /\ busy' = FALSE
  /\ viewDownloaded' = TRUE
  /\ UNCHANGED <<serverVars, pending, viewAvailable, files, rootVars>>

\* Second half, the hash differs: the file is removed.
DownloadRejected ==
  /\ appUp
  /\ verifying # NoRequest
  /\ ~Verified
  /\ files' = [files EXCEPT ![pending] = Absent]
  /\ requests' = [requests EXCEPT ![verifying] = Idle]
  /\ verifying' = NoRequest
  /\ busy' = FALSE
  /\ viewDownloaded' = FALSE
  /\ UNCHANGED <<serverVars, pending, viewAvailable, marker, rootVars, faults>>

\* UpdatesView is loaded anew: its properties start over.
OpenView ==
  /\ Ready
  /\ viewAvailable' = FALSE
  /\ viewDownloaded' = FALSE
  /\ UNCHANGED <<serverVars, shellVars, files, marker, rootVars, faults>>

-----------------------------------------------------------------------------
(* Everything outside the shell.                                           *)

\* The server replaces its manifest: a new release, or back to an old one.
Publish(v) ==
  /\ changes < MaxPublished
  /\ manifest' = v
  /\ published' = published \cup {v}
  /\ changes' = changes + 1
  /\ UNCHANGED <<shellVars, viewVars, files, marker, rootVars, faults>>

\* What a process that starts over knows.
FreshProcess ==
  /\ requests' = [s \in Slot |-> Idle]
  /\ pending' = NoVersion
  /\ busy' = FALSE
  /\ verifying' = NoRequest
  /\ viewAvailable' = FALSE
  /\ viewDownloaded' = FALSE

\* The shell dies at any point and systemd starts it again.
Crash ==
  /\ appUp
  /\ Fault
  /\ FreshProcess
  /\ UNCHANGED <<serverVars, files, marker, rootVars>>

\* roohaniye-updater.path saw the marker: apply-update.sh stops the shell.
RootStopsApp ==
  /\ appUp
  /\ marker # NoVersion
  /\ appUp' = FALSE
  /\ FreshProcess
  /\ UNCHANGED <<serverVars, files, marker, installed, faults>>

\* Mutant: a truncated archive counts as installed.
RootExtractsTruncated ==
  /\ ~appUp
  /\ installed' = files[marker]
  /\ marker' = NoVersion
  /\ appUp' = TRUE
  /\ UNCHANGED <<serverVars, shellVars, viewVars, files, faults>>

\* It extracts whatever complete archive lies at the path the marker names,
\* consumes the marker and reboots.
RootExtracts ==
  /\ ~appUp
  /\ installed' = IF files[marker] \in Version THEN files[marker] ELSE installed
  /\ marker' = NoVersion
  /\ appUp' = TRUE
  /\ UNCHANGED <<serverVars, shellVars, viewVars, files, faults>>

-----------------------------------------------------------------------------
CheckStep(s) ==
  TimerCheck(s) \/ TapCheck(s) \/ ServerAnswers(s) \/ CheckSucceeds(s) \/ CheckFails(s)
DownloadStep(s) == TapDownload(s) \/ DownloadFails(s) \/ DownloadWritten(s)
VerifyStep == DownloadVerified \/ DownloadRejected
RootStep == RootStopsApp \/ RootExtracts

Next ==
  \/ \E s \in Slot : CheckStep(s) \/ DownloadStep(s)
  \/ VerifyStep \/ RootStep \/ OpenView \/ Crash
  \/ \E v \in Version : Publish(v)

Spec == Init /\ [][Next]_vars

\* The repeating timer fires, replies arrive, every queued event is handled
\* (strongly: a handler is disabled while another one runs), and the root
\* service reacts to the marker.  Nothing is assumed of taps, of the server's
\* releases or of faults.
Fairness ==
  /\ \A s \in Slot :
       /\ SF_vars(TimerCheck(s))
       /\ WF_vars(ServerAnswers(s))
       /\ SF_vars(CheckSucceeds(s) \/ CheckFails(s))
       /\ SF_vars(DownloadWritten(s))
  /\ WF_vars(VerifyStep)
  /\ WF_vars(RootStep)

FairSpec == Spec /\ Fairness

-----------------------------------------------------------------------------
(* Properties.                                                             *)

\* The variables stay in their domains.
TypeOK ==
  /\ manifest \in Version \cup {NoVersion}
  /\ published \subseteq Version
  /\ changes \in 0..MaxPublished
  /\ requests \in [Slot -> Request]
  /\ pending \in Version \cup {NoVersion}
  /\ busy \in BOOLEAN
  /\ verifying \in Slot \cup {NoRequest}
  /\ viewAvailable \in BOOLEAN
  /\ viewDownloaded \in BOOLEAN
  /\ files \in [Version -> Version \cup {Absent, Partial}]
  /\ marker \in Version \cup {NoVersion}
  /\ installed \in Version \cup {NoVersion}
  /\ appUp \in BOOLEAN
  /\ faults \in 0..MaxFaults

\* "Checking..." and the disabled buttons of UpdatesView never outlive the
\* work: while busy is set, a request is in flight, on every error path and
\* with overlapping checks and downloads.
BusyIsTransient == busy => \E s \in Slot : ~Free(s)

\* What root is told to install is newer than what is installed and was
\* offered by the server, even if the manifest went back to an older release
\* or a check replaced m_pendingVersion while a download was in flight.
StagedIsNewer == marker # NoVersion => marker > installed /\ marker \in published

\* The device only moves forward, and only to a published version: also when
\* the archive at the marked path was replaced by a late reply.
Safe == INSTANCE SafeUpdate
ImplementsSafeUpdate == Safe!Spec

\* Once the server settles on a version and faults stop, the device gets to
\* it (or is past it) with nobody touching the screen.
EventuallyInstalled ==
  \A v \in Complete : <>[](manifest = v) => <>[](installed >= v)

\* updatebackend.h: the service "extracts the verified archive".  Not what the
\* code ensures: a download still in flight rewrites the staged file.
ExtractsVerifiedArchive == ~appUp => files[marker] = marker
=============================================================================
