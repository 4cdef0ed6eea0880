---------------------------- MODULE UpdaterProofs ---------------------------
(***************************************************************************)
(* Proofs about Updater, for every set of versions, any number of requests *)
(* in flight and any bounds.                                               *)
(*                                                                         *)
(* The argument: a version is "fresh" when it was published and is newer   *)
(* than what is installed.  Everything that can end up at the marked path  *)
(* is fresh: the target of a download, what an update view offers, and the *)
(* file at the marked path.  `installed' only changes while the shell is   *)
(* down, when no download, view or marker survives.                        *)
(***************************************************************************)
EXTENDS Updater, TLAPS

Fresh(v) == v > installed /\ v \in published

RequestsFresh ==
  \A s \in Slot :
    /\ requests[s].kind = "check" /\ requests[s].version # NoVersion
         => requests[s].version \in published
    /\ requests[s].kind = "download"
         => Fresh(requests[s].version) /\ pending # NoVersion

ViewFresh == viewAvailable => Fresh(pending)

MarkedFileFresh ==
  marker # NoVersion =>
    Fresh(marker) /\ (files[marker] \in Version => Fresh(files[marker]))

\* While a file waits for its verification it holds what was asked for.
VerifyingInv ==
  verifying # NoRequest =>
    /\ appUp
    /\ requests[verifying].kind = "download"
    /\ files[pending] \in {requests[verifying].version, Partial}

DownInv ==
  ~appUp => /\ marker # NoVersion
            /\ \A s \in Slot : requests[s] = Idle
            /\ ~viewAvailable

ManifestInv == manifest # NoVersion => manifest \in published

IInv ==
  /\ TypeOK /\ RequestsFresh /\ ViewFresh /\ MarkedFileFresh
  /\ VerifyingInv /\ DownInv /\ ManifestInv /\ BusyIsTransient

USE DEF NoVersion, Absent, Partial

LEMMA RequestForms ==
  ASSUME NEW r \in Request
  PROVE  /\ r.version \in Version \cup {NoVersion}
         /\ r = Idle \/ r = CheckRequest \/ (r.kind \in {"check", "download"} /\ r.version \in Version)
         /\ r.kind = "idle" <=> r = Idle
         /\ r = [kind |-> r.kind, version |-> r.version]
  BY DEF Request, Idle, CheckRequest

LEMMA InitInv == Init => IInv
<1> SUFFICES ASSUME Init PROVE IInv
  OBVIOUS
<1> USE DEF Init, Idle
<1>1. TypeOK
  <2>1. requests \in [Slot -> Request]
    BY DEF Request
  <2>2. /\ changes \in 0..MaxPublished /\ faults \in 0..MaxFaults
        /\ files \in [Version -> Version \cup {Absent, Partial}]
    BY BoundsAssumption
  <2>3. published \subseteq Version
    OBVIOUS
  <2> QED
    BY <2>1, <2>2, <2>3 DEF TypeOK
<1>2. RequestsFresh /\ ViewFresh /\ MarkedFileFresh /\ VerifyingInv /\ DownInv
  BY DEF RequestsFresh, ViewFresh, MarkedFileFresh, VerifyingInv, DownInv
<1>3. ManifestInv /\ BusyIsTransient
  BY DEF ManifestInv, BusyIsTransient
<1> QED
  BY <1>1, <1>2, <1>3 DEF IInv

-----------------------------------------------------------------------------
(* One lemma per action, or per group of actions that touch the same parts. *)

LEMMA StartCheckStep ==
  ASSUME IInv, NEW s \in Slot, StartCheck(s)
  PROVE  IInv'
<1> USE DEF IInv, StartCheck, serverVars, viewVars, rootVars
<1>1. TypeOK'
  <2>1. requests' \in [Slot -> Request]
    BY DEF TypeOK, Request
  <2>2. busy' \in BOOLEAN
    OBVIOUS
  <2>3. UNCHANGED <<manifest, published, changes, pending, verifying, viewAvailable,
                    viewDownloaded, files, marker, installed, appUp, faults>>
    OBVIOUS
  <2>4. TypeOK
    OBVIOUS
  <2> HIDE DEF StartCheck, IInv
  <2> QED
    BY <2>1, <2>2, <2>3, <2>4, Zenon DEF TypeOK
<1>2. requests' = [requests EXCEPT ![s] = CheckRequest] /\ requests'[s] = CheckRequest
  BY DEF TypeOK
<1>3. RequestsFresh'
  BY <1>2 DEF TypeOK, RequestsFresh, Fresh, CheckRequest
<1>4. ViewFresh' /\ MarkedFileFresh' /\ ManifestInv'
  BY DEF ViewFresh, MarkedFileFresh, ManifestInv, Fresh
<1>5. VerifyingInv' /\ DownInv'
  BY DEF VerifyingInv, DownInv, Ready
<1>6. BusyIsTransient'
  BY <1>2 DEF BusyIsTransient, Free, Idle, CheckRequest
<1> QED
  BY <1>1, <1>3, <1>4, <1>5, <1>6

LEMMA ServerAnswersStep ==
  ASSUME IInv, NEW s \in Slot, ServerAnswers(s)
  PROVE  IInv'
<1> USE DEF IInv, ServerAnswers, serverVars, viewVars, rootVars
<1>1. requests'[s] = [kind |-> "check", version |-> manifest]
  BY DEF TypeOK, CheckRequest
<1>2. manifest \in Version /\ manifest \in published
  BY DEF TypeOK, ManifestInv
<1>3. requests' = [requests EXCEPT ![s] = [kind |-> "check", version |-> manifest]]
  BY <1>1 DEF TypeOK
<1>4. TypeOK'
  <2>3. [kind |-> "check", version |-> manifest] \in Request
    BY <1>2 DEF Request
  <2>1. requests' \in [Slot -> Request]
    BY <1>3, <2>3 DEF TypeOK
  <2>2. TypeOK /\ UNCHANGED <<manifest, published, changes, pending, busy, verifying,
                    viewAvailable, viewDownloaded, files, marker, installed, appUp,
                    faults>>
    OBVIOUS
  <2> HIDE DEF ServerAnswers, IInv
  <2> QED
    BY <2>1, <2>2, Zenon DEF TypeOK
<1>5. RequestsFresh'
  BY <1>2, <1>3 DEF TypeOK, RequestsFresh, Fresh
<1>6. ViewFresh' /\ MarkedFileFresh' /\ ManifestInv'
  BY DEF ViewFresh, MarkedFileFresh, ManifestInv, Fresh
<1>7. VerifyingInv'
  BY <1>3 DEF VerifyingInv, TypeOK, CheckRequest
<1>8. DownInv'
  BY DEF DownInv, Idle, CheckRequest
<1>9. BusyIsTransient'
  BY <1>1 DEF BusyIsTransient, Free, Idle
<1> QED
  BY <1>4, <1>5, <1>6, <1>7, <1>8, <1>9

LEMMA CheckSucceedsStep ==
  ASSUME IInv, NEW s \in Slot, CheckSucceeds(s)
  PROVE  IInv'
<1> USE DEF IInv, CheckSucceeds, serverVars, rootVars
<1> DEFINE latest == requests[s].version
           downloads == latest > installed /\ latest \in Complete
<1>1. latest \in Version /\ latest \in published
  BY RequestForms DEF TypeOK, RequestsFresh
<1>2. pending' = latest /\ latest # NoVersion
  OBVIOUS
<1>3. /\ requests' \in [Slot -> Request]
      /\ \A t \in Slot : t # s => requests'[t] = requests[t]
      /\ downloads => requests'[s] = DownloadRequest(latest)
      /\ ~downloads => requests'[s] = Idle
  BY <1>1 DEF TypeOK, Request, DownloadRequest
<1>4. TypeOK'
  BY <1>1, <1>3 DEF TypeOK
<1>5. RequestsFresh'
  BY <1>1, <1>2, <1>3 DEF RequestsFresh, Fresh, Idle, DownloadRequest
<1>6. ViewFresh' /\ MarkedFileFresh' /\ ManifestInv'
  BY <1>1 DEF ViewFresh, MarkedFileFresh, ManifestInv, Fresh
<1>7. VerifyingInv' /\ DownInv'
  BY DEF VerifyingInv, DownInv, Ready
<1>8. BusyIsTransient'
  BY <1>3 DEF BusyIsTransient, Free, Idle, DownloadRequest
<1> QED
  BY <1>4, <1>5, <1>6, <1>7, <1>8

\* The two ways a request ends without result.
LEMMA FailStep ==
  ASSUME IInv, NEW s \in Slot, CheckFails(s) \/ DownloadFails(s)
  PROVE  IInv'
<1> USE DEF IInv, CheckFails, DownloadFails, serverVars, rootVars
<1>1. /\ requests' = [requests EXCEPT ![s] = Idle]
      /\ Ready
      /\ busy' = FALSE
      /\ UNCHANGED <<serverVars, pending, verifying, files, marker, rootVars>>
  OBVIOUS
<1>7. /\ viewAvailable' => viewAvailable
      /\ viewAvailable' \in BOOLEAN /\ viewDownloaded' \in BOOLEAN
  <2>1. CASE CheckFails(s)
    BY <2>1, Zenon DEF TypeOK
  <2>2. CASE DownloadFails(s)
    BY <2>2, Zenon DEF TypeOK
  <2> QED
    BY <2>1, <2>2
<1>2. faults' \in 0..MaxFaults
  BY BoundsAssumption DEF TypeOK, Fault, NoFault
<1> HIDE DEF CheckFails, DownloadFails
<1>3. TypeOK'
  BY <1>1, <1>2, <1>7 DEF TypeOK, Request
<1>4. RequestsFresh'
  BY <1>1 DEF TypeOK, RequestsFresh, Fresh, Idle
<1>5. ViewFresh' /\ MarkedFileFresh' /\ ManifestInv'
  BY <1>1, <1>7 DEF ViewFresh, MarkedFileFresh, ManifestInv, Fresh
<1>6. VerifyingInv' /\ DownInv' /\ BusyIsTransient'
  BY <1>1 DEF VerifyingInv, DownInv, BusyIsTransient, Ready
<1> QED
  BY <1>3, <1>4, <1>5, <1>6

LEMMA TapDownloadStep ==
  ASSUME IInv, NEW s \in Slot, TapDownload(s)
  PROVE  IInv'
<1> USE DEF IInv, TapDownload, serverVars, viewVars, rootVars
<1>1. pending \in Version /\ Fresh(pending) /\ pending # NoVersion
  BY CompleteAssumption, VersionAssumption DEF ViewFresh
<1>2. requests' = [requests EXCEPT ![s] = [kind |-> "download", version |-> pending]]
  BY DEF DownloadRequest
<1>3. TypeOK'
  BY <1>1, <1>2 DEF TypeOK, Request
<1>4. RequestsFresh'
  BY <1>1, <1>2 DEF TypeOK, RequestsFresh, Fresh
<1>5. ViewFresh' /\ MarkedFileFresh' /\ ManifestInv'
  BY DEF ViewFresh, MarkedFileFresh, ManifestInv, Fresh
<1>6. VerifyingInv' /\ DownInv'
  BY DEF VerifyingInv, DownInv, Ready
<1>7. BusyIsTransient'
  BY <1>2 DEF BusyIsTransient, Free, Idle, TypeOK
<1> QED
  BY <1>3, <1>4, <1>5, <1>6, <1>7

LEMMA DownloadWrittenStep ==
  ASSUME IInv, NEW s \in Slot, DownloadWritten(s)
  PROVE  IInv'
<1> USE DEF IInv, DownloadWritten, serverVars, viewVars, rootVars
<1>1. PICK image \in {requests[s].version, Partial} :
        files' = [files EXCEPT ![pending] = image]
  OBVIOUS
<1>2. pending \in Version /\ requests[s].version \in Version /\ Fresh(requests[s].version)
  BY RequestForms DEF TypeOK, RequestsFresh, Idle, CheckRequest
<1>3. faults' \in 0..MaxFaults
  BY BoundsAssumption DEF TypeOK, Fault, NoFault
<1>4. TypeOK'
  BY <1>1, <1>2, <1>3 DEF TypeOK
<1>5. RequestsFresh' /\ ViewFresh' /\ ManifestInv'
  BY DEF RequestsFresh, ViewFresh, ManifestInv, Fresh
<1>6. MarkedFileFresh'
  BY <1>1, <1>2, VersionAssumption DEF MarkedFileFresh, Fresh, TypeOK
<1>7. VerifyingInv'
  BY <1>1, <1>2 DEF VerifyingInv, TypeOK, Ready
<1>8. DownInv' /\ BusyIsTransient'
  BY DEF DownInv, BusyIsTransient, Ready, Free
<1> QED
  BY <1>4, <1>5, <1>6, <1>7, <1>8

LEMMA DownloadVerifiedStep ==
  ASSUME IInv, DownloadVerified
  PROVE  IInv'
<1> USE DEF IInv, DownloadVerified, serverVars, rootVars
<1>1. verifying \in Slot /\ requests[verifying].kind = "download"
  BY DEF TypeOK, VerifyingInv
<1>2. pending \in Version /\ Fresh(pending) /\ files[pending] = pending
  BY <1>1, VersionAssumption
     DEF TypeOK, RequestsFresh, VerifyingInv, Verified, Idle, CheckRequest
<1>3. marker' = marker \/ marker' = pending
  OBVIOUS
<1>4. faults' \in 0..MaxFaults
  BY BoundsAssumption DEF TypeOK, Fault, NoFault
<1>5. TypeOK'
  BY <1>2, <1>3, <1>4 DEF TypeOK, Request
<1>6. RequestsFresh'
  BY <1>1 DEF TypeOK, RequestsFresh, Fresh, Idle
<1>7. ViewFresh' /\ ManifestInv'
  BY DEF ViewFresh, ManifestInv, Fresh
<1>8. MarkedFileFresh'
  BY <1>2, <1>3 DEF MarkedFileFresh, Fresh
<1>9. VerifyingInv' /\ DownInv' /\ BusyIsTransient'
  BY DEF VerifyingInv, DownInv, BusyIsTransient
<1> QED
  BY <1>5, <1>6, <1>7, <1>8, <1>9

LEMMA DownloadRejectedStep ==
  ASSUME IInv, DownloadRejected
  PROVE  IInv'
<1> USE DEF IInv, DownloadRejected, serverVars, rootVars
<1>1. verifying \in Slot
  BY DEF TypeOK
<1>2. TypeOK'
  BY DEF TypeOK, Request
<1>3. RequestsFresh'
  BY <1>1 DEF TypeOK, RequestsFresh, Fresh, Idle
<1>4. ViewFresh' /\ ManifestInv'
  BY DEF ViewFresh, ManifestInv, Fresh
<1>5. MarkedFileFresh'
  BY VersionAssumption DEF MarkedFileFresh, Fresh, TypeOK
<1>6. VerifyingInv' /\ DownInv' /\ BusyIsTransient'
  BY DEF VerifyingInv, DownInv, BusyIsTransient
<1> QED
  BY <1>2, <1>3, <1>4, <1>5, <1>6

\* The process starts over: a crash, or root stopping it.
LEMMA FreshProcessStep ==
  ASSUME IInv, Crash \/ RootStopsApp
  PROVE  IInv'
<1> USE DEF IInv
<1>1. /\ FreshProcess
      /\ appUp' \in BOOLEAN
      /\ ~appUp' => marker # NoVersion
      /\ UNCHANGED <<manifest, published, changes, files, marker, installed>>
  BY DEF Crash, RootStopsApp, serverVars, rootVars, TypeOK
<1>2. faults' \in 0..MaxFaults
  BY BoundsAssumption DEF TypeOK, Fault, Crash, RootStopsApp
<1>3. TypeOK'
  BY <1>1, <1>2 DEF TypeOK, Request, FreshProcess
<1>4. RequestsFresh' /\ ViewFresh' /\ MarkedFileFresh' /\ ManifestInv'
  BY <1>1 DEF RequestsFresh, ViewFresh, MarkedFileFresh, ManifestInv, Fresh,
              FreshProcess, Idle
<1>5. VerifyingInv' /\ DownInv' /\ BusyIsTransient'
  BY <1>1 DEF VerifyingInv, DownInv, BusyIsTransient, FreshProcess
<1> QED
  BY <1>3, <1>4, <1>5

LEMMA RootExtractsStep ==
  ASSUME IInv, RootExtracts
  PROVE  IInv'
<1> USE DEF IInv, RootExtracts, serverVars, shellVars, viewVars
<1>1. TypeOK'
  BY DEF TypeOK
<1>2. RequestsFresh'
  BY DEF RequestsFresh, DownInv, Idle
<1>3. ViewFresh' /\ MarkedFileFresh' /\ ManifestInv'
  BY DEF ViewFresh, MarkedFileFresh, ManifestInv, DownInv
<1>4. VerifyingInv' /\ DownInv' /\ BusyIsTransient'
  BY DEF VerifyingInv, DownInv, BusyIsTransient, Free
<1> QED
  BY <1>1, <1>2, <1>3, <1>4

LEMMA PublishStep ==
  ASSUME IInv, NEW v \in Version, Publish(v)
  PROVE  IInv'
<1> USE DEF IInv, Publish, shellVars, viewVars, rootVars
<1>1. TypeOK'
  BY BoundsAssumption DEF TypeOK
<1>2. RequestsFresh' /\ ViewFresh' /\ MarkedFileFresh' /\ ManifestInv'
  BY DEF RequestsFresh, ViewFresh, MarkedFileFresh, ManifestInv, Fresh
<1>3. VerifyingInv' /\ DownInv' /\ BusyIsTransient'
  BY DEF VerifyingInv, DownInv, BusyIsTransient, Free
<1> QED
  BY <1>1, <1>2, <1>3

\* Steps that leave everything but the view alone.
LEMMA OpenViewStep ==
  ASSUME IInv, OpenView \/ UNCHANGED vars
  PROVE  IInv'
<1>1. UNCHANGED <<serverVars, shellVars, files, marker, rootVars, faults>>
  BY DEF OpenView, vars
<1>5. /\ viewAvailable' \in BOOLEAN /\ viewDownloaded' \in BOOLEAN
      /\ viewAvailable' => viewAvailable
  <2>1. CASE OpenView
    BY <2>1, Zenon DEF OpenView
  <2>2. CASE UNCHANGED vars
    BY <2>2, Zenon DEF vars, viewVars, IInv, TypeOK
  <2> QED
    BY <2>1, <2>2
<1> USE <1>1, <1>5 DEF IInv, serverVars, shellVars, rootVars
<1>2. TypeOK'
  BY DEF TypeOK
<1>3. RequestsFresh' /\ ViewFresh' /\ MarkedFileFresh' /\ ManifestInv'
  BY DEF RequestsFresh, ViewFresh, MarkedFileFresh, ManifestInv, Fresh
<1>4. VerifyingInv' /\ DownInv' /\ BusyIsTransient'
  BY DEF VerifyingInv, DownInv, BusyIsTransient, Free
<1> QED
  BY <1>2, <1>3, <1>4

LEMMA StepInv == IInv /\ [Next]_vars => IInv'
<1> SUFFICES ASSUME IInv, [Next]_vars PROVE IInv'
  OBVIOUS
<1>1. ASSUME NEW s \in Slot, CheckStep(s) PROVE IInv'
  BY <1>1, StartCheckStep, ServerAnswersStep, CheckSucceedsStep, FailStep
     DEF CheckStep, TimerCheck, TapCheck
<1>2. ASSUME NEW s \in Slot, DownloadStep(s) PROVE IInv'
  BY <1>2, TapDownloadStep, FailStep, DownloadWrittenStep DEF DownloadStep
<1>3. CASE VerifyStep \/ RootStep \/ Crash
  BY <1>3, DownloadVerifiedStep, DownloadRejectedStep, FreshProcessStep,
     RootExtractsStep DEF VerifyStep, RootStep
<1>4. ASSUME NEW v \in Version, Publish(v) PROVE IInv'
  BY <1>4, PublishStep
<1>5. CASE OpenView \/ UNCHANGED vars
  BY <1>5, OpenViewStep
<1> QED
  BY <1>1, <1>2, <1>3, <1>4, <1>5 DEF Next

LEMMA Invariance == Spec => []IInv
  BY InitInv, StepInv, PTL DEF Spec

-----------------------------------------------------------------------------
\* Every variable of the update client stays in its domain.
THEOREM TypeCorrect == Spec => []TypeOK
<1>1. IInv => TypeOK
  BY DEF IInv
<1> QED
  BY <1>1, Invariance, PTL

\* The busy flag is never left behind by an error path or an overlap.
THEOREM BusyNeverStuck == Spec => []BusyIsTransient
<1>1. IInv => BusyIsTransient
  BY DEF IInv
<1> QED
  BY <1>1, Invariance, PTL

\* Root is only ever told to install a newer, published version.
THEOREM StagedAlwaysNewer == Spec => []StagedIsNewer
<1>1. IInv => StagedIsNewer
  BY DEF IInv, MarkedFileFresh, StagedIsNewer, Fresh
<1> QED
  BY <1>1, Invariance, PTL

LEMMA StepRefines == IInv /\ [Next]_vars => [Safe!Next]_(Safe!vars)
<1> SUFFICES ASSUME IInv, [Next]_vars PROVE [Safe!Next]_(Safe!vars)
  OBVIOUS
<1> USE DEF Safe!vars
<1>1. ASSUME NEW v \in Version, Publish(v) PROVE [Safe!Next]_(Safe!vars)
  BY <1>1 DEF Publish, rootVars, Safe!Next, Safe!Publish
<1>2. CASE RootExtracts
  <2>1. marker # NoVersion /\ published' = published
    BY <1>2 DEF RootExtracts, IInv, DownInv, serverVars
  <2>2. CASE files[marker] \in Version
    <3>1. Safe!Install(files[marker])
      BY <1>2, <2>1, <2>2 DEF RootExtracts, IInv, MarkedFileFresh, Fresh, Safe!Install
    <3> QED
      BY <2>2, <3>1 DEF Safe!Next
  <2>3. CASE files[marker] \notin Version
    BY <1>2, <2>1, <2>3 DEF RootExtracts
  <2> QED
    BY <2>2, <2>3
<1>3. CASE UNCHANGED <<published, installed>>
  BY <1>3
<1>4. ASSUME NEW s \in Slot, CheckStep(s) \/ DownloadStep(s)
      PROVE  UNCHANGED <<published, installed>>
  BY <1>4 DEF CheckStep, DownloadStep, TimerCheck, TapCheck, StartCheck,
       ServerAnswers, CheckSucceeds, CheckFails, TapDownload, DownloadFails,
       DownloadWritten, serverVars, rootVars
<1>5. VerifyStep \/ RootStopsApp \/ OpenView \/ Crash \/ UNCHANGED vars
        => UNCHANGED <<published, installed>>
  BY DEF VerifyStep, DownloadVerified, DownloadRejected, RootStopsApp, OpenView,
       Crash, vars, serverVars, rootVars
<1> QED
  BY <1>1, <1>2, <1>3, <1>4, <1>5 DEF Next, RootStep

\* Whatever the network, the server and crashes do, the installed version
\* only moves forward, to published versions.
THEOREM UpdaterImplementsSafeUpdate == Spec => ImplementsSafeUpdate
<1>1. Init => Safe!Init
  BY DEF Init, Safe!Init
<1> QED
  BY <1>1, Invariance, StepRefines, PTL DEF Spec, Safe!Spec, ImplementsSafeUpdate
=============================================================================
