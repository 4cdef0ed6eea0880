------------------------------ MODULE Installer -----------------------------
(***************************************************************************)
(* InstallerBackend (shell-src/installerbackend.cpp) and the wizard that   *)
(* drives it (InstallerWizard.qml): from the list of disks to the script   *)
(* that partitions, formats, clones and makes the target bootable.         *)
(*                                                                         *)
(* The backend and the wizard run on the main thread: one QML handler is   *)
(* one step.  The generated script is another process ("set -e"): it is a  *)
(* sequence of commands, each one a step that succeeds or ends the script. *)
(* What parted, wipefs and mkfs do is modelled from how the script uses    *)
(* them; sizes are counted in units of one EFI partition.                  *)
(*                                                                         *)
(* Left out: replacement databases (a cp that may fail like any other      *)
(* command), fstab and the systemd unit (part of "boot"), user names.      *)
(***************************************************************************)
EXTENDS Integers, FiniteSets, Sequences

CONSTANTS
  Disk,           \* physical disks
  Path,           \* device paths, /dev/sdb
  NoDisk, NoPath, NoScript,
  RunningDisk,    \* the disk the running system was started from
  RootSource,     \* what findmnt names for "/"
  ListingMayFail, \* whether the findmnt and lsblk of listDisks() can time out
  Layouts,        \* what the disks may hold at first
  Mapped,         \* lsblk children of every foreign partition (LUKS, LVM)
  DiskSize,       \* bound: the size of every disk
  MinFree,        \* the smallest free region that is offered
  Code, NoCode,   \* recovery codes; the empty code: no account
  LiveAccount,    \* the account in the running system's accounts.dat
  LsblkMayFail,   \* whether the lsblk that counts partitions can time out
  StartMayFail,   \* whether the script's process can fail to start
  Hotplug,        \* whether disks are exchanged
  Extras,         \* what a manual layout may hold beside root
  MaxInstalls,    \* bound: scripts started
  MaxFaults       \* bound: failures of commands and of files

Num == 1..DiskSize   \* partition numbers: every partition has a size >= 1
FileSystem == {"none", "foreign", "raw", "esp", "/", "home", "swap"}

Partition ==
  [fs : FileSystem, cloned : BOOLEAN, code : Code \cup {NoCode},
   marker : BOOLEAN, boot : BOOLEAN]

Bare(fs) ==
  [fs |-> fs, cloned |-> FALSE, code |-> NoCode, marker |-> FALSE, boot |-> FALSE]

DiskState == [parts : [Num -> Partition], free : 0..DiskSize]

ASSUME SizesAssumption ==
  /\ DiskSize \in Nat \ {0, 1} /\ MinFree \in Nat \ {0} /\ Mapped \in Nat
  /\ MaxInstalls \in Nat /\ MaxFaults \in Nat
ASSUME NamesAssumption ==
  /\ NoDisk \notin Disk /\ NoPath \notin Path /\ NoCode \notin Code
  /\ RunningDisk \in Disk /\ LiveAccount \in Code \cup {NoCode}
ASSUME LayoutsAssumption == Layouts \subseteq DiskState /\ Extras \subseteq {"home", "swap"}
ASSUME SwitchesAssumption ==
  /\ RootSource \in {"partition", "subvolume", "mapper", "overlay"}
  /\ {ListingMayFail, LsblkMayFail, StartMayFail, Hotplug} \subseteq BOOLEAN

VARIABLES
  disks,     \* what is on each disk
  at,        \* which disk each path names now, or NoDisk
  mounted,   \* disks with a partition mounted under /mnt/roohaniye-target
  running,   \* m_installRunning
  script,    \* the script's process: what it still has to do, or NoScript
  staged,    \* the staged accounts file in /tmp, by its code, or NoCode
  wiz,       \* the properties of InstallerWizard.qml
  issued,    \* history: recovery codes generated
  installs,  \* how many scripts were started
  faults     \* how many faults have happened

worldVars == <<disks, at, mounted>>
backendVars == <<running, script, staged>>
vars == <<worldVars, backendVars, wiz, issued, installs, faults>>

-----------------------------------------------------------------------------
(* Reading the disks.                                                      *)

Existing(d) == {n \in Num : disks[d].parts[n].fs # "none"}

\* The lines lsblk prints below the disk's own: partitions and what is mapped
\* from them.
Children(d) ==
  Cardinality(Existing(d))
    + Mapped * Cardinality({n \in Num : disks[d].parts[n].fs = "foreign"})

\* findRootDisk(): the paths it may return.  The name of a plain partition
\* (/dev/sda3) leads to its disk.  Stripping digits from a mapped device
\* (/dev/mapper/root) or a subvolume (/dev/sda2[/@]) leads to no disk, an
\* overlay is no device, and findmnt may not answer in time: NoPath.
FindRootDisk ==
  {p \in Path : RootSource = "partition" /\ at[p] = RunningDisk}
    \cup (IF RootSource # "partition" \/ ListingMayFail THEN {NoPath} ELSE {})

\* listDisks(): the lists it may return, each without what findRootDisk()
\* returned; an empty one when lsblk fails.
ListDisks ==
  {{p \in Path : at[p] # NoDisk /\ p # root} : root \in FindRootDisk}
    \cup (IF ListingMayFail THEN {{}} ELSE {})

\* listFreeSpace(): the size of the free region, 0 when none is offered.
ListFreeSpace(d) == IF d # NoDisk /\ disks[d].free >= MinFree THEN disks[d].free ELSE 0

\* Mutant: the number of the last partition, not the one after it.
FirstNumbersLast(d) == {Children(d)}

\* The number the first new partition is expected to get: one more than the
\* children, of which there are none when lsblk times out.
FirstNumbers(d) ==
  {Children(d) + 1} \cup (IF LsblkMayFail THEN {1} ELSE {})

-----------------------------------------------------------------------------
(* buildInstallScript().                                                   *)

Mkpart(size)   == [op |-> "mkpart", num |-> 0, size |-> size, fs |-> "raw"]
Flag(n)        == [op |-> "flag", num |-> n, size |-> 0, fs |-> "esp"]
Mkfs(n, fs)    == [op |-> "mkfs", num |-> n, size |-> 0, fs |-> fs]
OnRoot(op, n)  == [op |-> op, num |-> n, size |-> 0, fs |-> "/"]
Wipe           == [op |-> "wipe", num |-> 0, size |-> 0, fs |-> "none"]

Command ==
  [op : {"mkpart", "flag", "mkfs", "wipe", "mount", "clone", "account", "marker",
         "boot", "unmount"},
   num : Nat, size : 0..DiskSize, fs : FileSystem]

IfWanted(m, want) == IF m \in want THEN <<m>> ELSE <<>>

\* The partitions after the ESP, in their order on the disk; root is last and
\* fills the region, the others are of one unit.
Layout(want) == IfWanted("swap", want) \o IfWanted("home", want) \o <<"/">>

Fits(want, region) == 1 + Cardinality(want) <= region

\* buildFreeSpacePartitionCommands() and the mkfs lines, from number n on.
PartitionCommands(n, want, region) ==
  LET layout   == Layout(want)
      size(m)  == IF m = "/" THEN region - 1 - Cardinality(want) ELSE 1
      number(m) == n + (CHOOSE i \in DOMAIN layout : layout[i] = m)
      made     == <<"/">> \o IfWanted("home", want) \o IfWanted("swap", want)
  IN  <<Mkpart(1), Flag(n)>>
        \o [i \in DOMAIN layout |-> Mkpart(size(layout[i]))]
        \o <<Mkfs(n, "esp")>>
        \o [i \in DOMAIN made |-> Mkfs(number(made[i]), made[i])]

\* From mounting the target to unmounting it.
CloneCommands(root, code) ==
  <<OnRoot("mount", root), OnRoot("clone", root)>>
    \o (IF code = NoCode THEN <<>> ELSE <<OnRoot("account", root)>>)
    \o <<OnRoot("marker", root), OnRoot("boot", root), OnRoot("unmount", root)>>

\* "alongside" is "manual" with nothing but root.
Wanted == IF wiz.mode = "manual" THEN wiz.want ELSE {}

Script(first, code) ==
  LET erase  == wiz.mode = "erase"
      n      == IF erase THEN 1 ELSE first
      want   == IF erase THEN {} ELSE Wanted
      region == IF erase THEN DiskSize ELSE wiz.region
      root   == n + Cardinality(want) + 1
  IN  [path |-> wiz.path, mode |-> wiz.mode, root |-> root, code |-> code,
       todo |-> (IF erase THEN <<Wipe>> ELSE <<>>)
                  \o PartitionCommands(n, want, region)
                  \o CloneCommands(root, code)]

\* The path is listed, the region is still free and everything fits.
Valid(listed) ==
  /\ wiz.path \in listed
  /\ wiz.mode # "erase" =>
       /\ wiz.region > 0 /\ wiz.region <= ListFreeSpace(at[wiz.path])
       /\ Fits(Wanted, wiz.region)

-----------------------------------------------------------------------------
(* What the script's commands do to disk d.                                *)

CanRun(c, d) ==
  /\ d # NoDisk
  /\ c.op = "wipe" => d # RunningDisk /\ d \notin mounted
  /\ c.op = "mkpart" => c.size \in 1..disks[d].free /\ Existing(d) # Num
  /\ c.op \in {"flag", "mkfs"} => c.num \in Existing(d)
  /\ c.fs = "/" /\ c.op # "mkfs" => c.num \in Num /\ disks[d].parts[c.num].fs = "/"

\* parted takes the lowest number that is free.
IsLowestFree(n, d) == n \notin Existing(d) /\ \A k \in Num \ Existing(d) : n <= k

WithPartition(d) ==
  [n \in Num |-> IF IsLowestFree(n, d) THEN Bare("raw") ELSE disks[d].parts[n]]

DiskAfter(c, d) ==
  CASE c.op = "wipe"    -> [parts |-> [n \in Num |-> Bare("none")], free |-> DiskSize]
    [] c.op = "mkpart"  -> [parts |-> WithPartition(d), free |-> disks[d].free - c.size]
    [] c.op = "mkfs"    -> [disks[d] EXCEPT !.parts[c.num] = Bare(c.fs)]
    [] c.op = "clone"   -> [disks[d] EXCEPT !.parts[c.num].cloned = TRUE,
                                            !.parts[c.num].code = LiveAccount]
    [] c.op = "account" -> [disks[d] EXCEPT !.parts[c.num].code = staged]
    [] c.op = "marker"  -> [disks[d] EXCEPT !.parts[c.num].marker = TRUE]
    [] c.op = "boot"    -> [disks[d] EXCEPT !.parts[c.num].boot = TRUE]
    [] OTHER            -> disks[d]

MountedAfter(c, d) ==
  CASE c.op = "mount"   -> mounted \cup {d}
    [] c.op = "unmount" -> mounted \ {d}
    [] OTHER            -> mounted

-----------------------------------------------------------------------------
(* The wizard.                                                             *)

FreshWizard(listed) ==
  [open |-> TRUE, step |-> 0, offered |-> listed, path |-> NoPath, mode |-> "erase",
   regions |-> 0, region |-> 0, want |-> {}, account |-> FALSE,
   confirmed |-> FALSE, code |-> NoCode, ok |-> FALSE]

ClosedWizard == [FreshWizard({}) EXCEPT !.open = FALSE]

At(step) == wiz.open /\ wiz.step = step

Init ==
  /\ disks \in [Disk -> Layouts]
  /\ at \in [Path -> Disk \cup {NoDisk}]
  /\ \A p, q \in Path : at[p] = at[q] /\ p # q => at[p] = NoDisk
  /\ \E p \in Path : at[p] = RunningDisk
  /\ mounted = {}
  /\ running = FALSE
  /\ script = NoScript
  /\ staged = NoCode
  /\ wiz = ClosedWizard
  /\ issued = {LiveAccount} \ {NoCode}
  /\ installs = 0
  /\ faults = 0

Fault == faults < MaxFaults /\ faults' = faults + 1
NoFault == UNCHANGED faults

\* A handler of the wizard that calls nothing that changes the backend.
Wizard(new) ==
  /\ wiz.open
  /\ wiz' = new
  /\ UNCHANGED <<worldVars, backendVars, issued, installs, faults>>

OpenWizard ==
  /\ ~wiz.open
  /\ \E listed \in ListDisks : wiz' = FreshWizard(listed)
  /\ UNCHANGED <<worldVars, backendVars, issued, installs, faults>>

\* The Home, Back and Menu buttons of Main.qml lie above every step.
LeaveWizard == Wizard(ClosedWizard)

GetStarted ==
  At(0) /\ \E listed \in ListDisks : Wizard([wiz EXCEPT !.step = 1, !.offered = listed])

Refresh == At(1) /\ \E listed \in ListDisks : Wizard([wiz EXCEPT !.offered = listed])

\* A refresh reads the free space anew and forgets the region picked.
SelectDisk(p) ==
  /\ At(1) /\ p \in wiz.offered
  /\ Wizard([wiz EXCEPT !.path = p, !.mode = "erase",
                        !.regions = ListFreeSpace(at[p]), !.region = 0])

SelectMode(m) ==
  /\ At(1) /\ wiz.path # NoPath
  /\ Wizard(IF m = "erase"
              THEN [wiz EXCEPT !.mode = m]
              ELSE [wiz EXCEPT !.mode = m, !.regions = ListFreeSpace(at[wiz.path]),
                               !.region = 0])

PickRegion ==
  /\ At(1) /\ wiz.mode # "erase" /\ wiz.regions > 0
  /\ Wizard([wiz EXCEPT !.region = wiz.regions])

WantPartitions(want) ==
  /\ At(1) /\ wiz.mode = "manual"
  /\ Wizard([wiz EXCEPT !.want = want])

Continue ==
  /\ \/ At(1) /\ wiz.path # NoPath /\ (wiz.mode = "erase" \/ wiz.region > 0)
     \/ At(2) \/ At(3)
  /\ Wizard([wiz EXCEPT !.step = @ + 1])

\* Mutant: the Back button is there on the first step as well.
BackAlways == wiz.step < 5 /\ Wizard([wiz EXCEPT !.step = @ - 1])

Back == wiz.step \in 1..4 /\ Wizard([wiz EXCEPT !.step = @ - 1])

RequireSignIn(b) == At(3) /\ Wizard([wiz EXCEPT !.account = b])

\* confirmInput; nothing else in the wizard ever clears it.
TypeConfirmation(isErase) == At(4) /\ Wizard([wiz EXCEPT !.confirmed = isErase])

TryAgain == At(6) /\ ~wiz.ok /\ Wizard([wiz EXCEPT !.step = 4])
BackToHome == At(6) /\ wiz.ok /\ Wizard(ClosedWizard)

-----------------------------------------------------------------------------
(* startInstall() and the end of the script.                               *)

TapInstall == At(4) /\ wiz.confirmed /\ wiz.path # NoPath

\* onInstallFinished: whichever wizard is open now shows the result.
Finished(w, ok) == IF w.open THEN [w EXCEPT !.ok = ok, !.step = 6] ELSE w

\* "An install is already running."
AlreadyRunning ==
  /\ TapInstall /\ running
  /\ wiz' = Finished(wiz, FALSE)
  /\ UNCHANGED <<worldVars, backendVars, issued, installs, faults>>

\* The account is exported, staged and its code handed to the wizard.
Export(code) ==
  /\ IF wiz.account THEN code \in Code \ issued ELSE code = NoCode
  /\ issued' = issued \cup ({code} \ {NoCode})

WithCode(code) == IF code = NoCode THEN wiz ELSE [wiz EXCEPT !.code = code]

\* Mutant: the early return leaves the staged file behind.
RefusedStaged(code) ==
  /\ TapInstall /\ ~running
  /\ Export(code)
  /\ \/ (\E listed \in ListDisks : ~Valid(listed)) /\ NoFault
     \/ Fault
  /\ staged' = code
  /\ wiz' = Finished(WithCode(code), FALSE)
  /\ UNCHANGED <<worldVars, running, script, installs>>

\* No script can be built, or one of the files cannot be created.
Refused(code) ==
  /\ TapInstall /\ ~running
  /\ Export(code)
  /\ \/ (\E listed \in ListDisks : ~Valid(listed)) /\ NoFault
     \/ Fault
  /\ staged' = NoCode
  /\ wiz' = Finished(WithCode(code), FALSE)
  /\ UNCHANGED <<worldVars, running, script, installs>>

\* The script is started; or its process does not come up, which Qt reports
\* by errorOccurred() alone and nobody listens to.
StartInstall(code) ==
  /\ TapInstall /\ ~running /\ installs < MaxInstalls
  /\ \E listed \in ListDisks : Valid(listed)
  /\ Export(code)
  /\ running' = TRUE
  /\ staged' = code
  /\ wiz' = [WithCode(code) EXCEPT !.step = 5]
  /\ \/ \E first \in FirstNumbers(at[wiz.path]) : script' = Script(first, code)
     \/ StartMayFail /\ UNCHANGED script
  /\ installs' = installs + 1
  /\ UNCHANGED <<worldVars, faults>>

Target == at[script.path]

\* Mutant: without "set -e" a command that fails is passed over.
RunCommandUnchecked ==
  /\ script # NoScript /\ script.todo # <<>>
  /\ LET c == Head(script.todo)
     IN  IF CanRun(c, Target)
           THEN /\ disks' = [disks EXCEPT ![Target] = DiskAfter(c, Target)]
                /\ mounted' = MountedAfter(c, Target)
           ELSE UNCHANGED <<disks, mounted>>
  /\ script' = [script EXCEPT !.todo = Tail(@)]
  /\ UNCHANGED <<at, running, staged, wiz, issued, installs, faults>>

RunCommand ==
  /\ script # NoScript /\ script.todo # <<>>
  /\ LET c == Head(script.todo)
     IN  /\ CanRun(c, Target)
         /\ disks' = [disks EXCEPT ![Target] = DiskAfter(c, Target)]
         /\ mounted' = MountedAfter(c, Target)
  /\ script' = [script EXCEPT !.todo = Tail(@)]
  /\ UNCHANGED <<at, running, staged, wiz, issued, installs, faults>>

\* finished(): the files are removed and the result is announced.
ScriptEnds(ok) ==
  /\ running' = FALSE
  /\ script' = NoScript
  /\ staged' = NoCode
  /\ wiz' = Finished(wiz, ok)
  /\ UNCHANGED <<worldVars, issued, installs>>

InstallSucceeds ==
  /\ script # NoScript /\ script.todo = <<>>
  /\ ScriptEnds(TRUE)
  /\ NoFault

\* Mutant: only a success is announced.
InstallFailsSilently ==
  /\ script # NoScript /\ script.todo # <<>>
  /\ \/ ~CanRun(Head(script.todo), Target) /\ NoFault
     \/ Fault
  /\ running' = FALSE
  /\ script' = NoScript
  /\ staged' = NoCode
  /\ UNCHANGED <<worldVars, wiz, issued, installs>>

\* "set -e": the first command that fails ends the script, and whatever is
\* mounted stays mounted.
InstallFails ==
  /\ script # NoScript /\ script.todo # <<>>
  /\ \/ ~CanRun(Head(script.todo), Target) /\ NoFault
     \/ Fault
  /\ ScriptEnds(FALSE)

\* A disk is unplugged or another one takes its path.  Nobody does that
\* while the script runs (InstallerWizard.qml:984) or to the running system.
Replug(p, d) ==
  /\ Hotplug
  /\ script = NoScript
  /\ at[p] # RunningDisk /\ (d = NoDisk \/ \A q \in Path : at[q] # d)
  /\ at' = [at EXCEPT ![p] = d]
  /\ mounted' = mounted \ {at[p]}
  /\ UNCHANGED <<disks, backendVars, wiz, issued, installs, faults>>

-----------------------------------------------------------------------------
WizardStep ==
  \/ OpenWizard \/ LeaveWizard \/ GetStarted \/ Refresh \/ PickRegion
  \/ Continue \/ Back \/ TryAgain \/ BackToHome
  \/ \E p \in Path : SelectDisk(p)
  \/ \E m \in {"erase", "alongside", "manual"} : SelectMode(m)
  \/ \E want \in SUBSET Extras : WantPartitions(want)
  \/ \E b \in BOOLEAN : RequireSignIn(b) \/ TypeConfirmation(b)

InstallStep ==
  \/ AlreadyRunning
  \/ \E code \in Code \cup {NoCode} : StartInstall(code) \/ Refused(code)

ScriptStep == RunCommand \/ InstallSucceeds \/ InstallFails

Next ==
  \/ WizardStep \/ InstallStep \/ ScriptStep
  \/ \E p \in Path, d \in Disk \cup {NoDisk} : Replug(p, d)

Spec == Init /\ [][Next]_vars

\* Every command of the script returns; people are free.
FairSpec == Spec /\ WF_vars(ScriptStep)

-----------------------------------------------------------------------------
(* Properties.                                                             *)

WizardState ==
  [open : BOOLEAN, step : 0..6, offered : SUBSET Path, path : Path \cup {NoPath},
   mode : {"erase", "alongside", "manual"},
   regions : 0..DiskSize, region : 0..DiskSize, want : SUBSET Extras,
   account : BOOLEAN, confirmed : BOOLEAN, code : Code \cup {NoCode}, ok : BOOLEAN]

\* The variables stay in their domains.
TypeOK ==
  /\ disks \in [Disk -> DiskState]
  /\ at \in [Path -> Disk \cup {NoDisk}]
  /\ mounted \subseteq Disk
  /\ running \in BOOLEAN
  /\ script # NoScript =>
       /\ script.path \in Path /\ script.mode \in {"erase", "alongside", "manual"}
       /\ script.root \in Nat /\ script.code \in Code \cup {NoCode}
       /\ script.todo \in Seq(Command)
  /\ staged \in Code \cup {NoCode}
  /\ wiz \in WizardState
  /\ issued \subseteq Code
  /\ installs \in 0..MaxInstalls
  /\ faults \in 0..MaxFaults

\* "an existing Windows/Linux install on the same disk is never at risk"
\* (installerbackend.h:95): a partition that was there before goes only by an
\* erasing install of its own disk, whatever fails and is tried again.
ForeignUntouched ==
  [][\A d \in Disk, n \in Num :
       disks[d].parts[n].fs = "foreign" =>
         \/ disks'[d].parts[n].fs = "foreign"
         \/ script # NoScript /\ script.mode = "erase" /\ Target = d]_vars

\* The staged accounts file (a password hash in /tmp) does not outlive the
\* install it was written for, on any of the return paths of startInstall().
StagedOnlyWhileRunning == staged # NoCode => running

\* "installFinished(true)" is the truth: the target holds a clone with its
\* marker, its boot loader and exactly the account that was asked for.
SuccessMeansInstalled ==
  [][InstallSucceeds =>
       Target # NoDisk /\ script.root \in Num /\
       LET p == disks[Target].parts[script.root]
       IN  p.cloned /\ p.marker /\ p.boot /\ p.code = script.code]_vars

\* Mutant: the result screen shows the code whatever the result was.
ShownCodeAlways == IF At(6) /\ wiz.account THEN wiz.code ELSE NoCode

\* The recovery code on the result screen.
ShownCode == IF At(6) /\ wiz.ok /\ wiz.account THEN wiz.code ELSE NoCode

\* A recovery code that is displayed opens an installed system: also after
\* retries, changes of mind about the account and wizards that were left.
ShownCodeOpensTarget ==
  ShownCode # NoCode =>
    \E d \in Disk, n \in Num :
      LET p == disks[d].parts[n] IN p.cloned /\ p.boot /\ p.code = ShownCode

\* "listDisks() EXCLUDES whatever disk currently backs "/" [...] live-boot or
\* dev-box alike" (installerbackend.h:25): no install writes to it.
RunningDiskUntouched == [][disks'[RunningDisk] = disks[RunningDisk]]_vars

\* The progress screen, which has no button, ends in the result whatever
\* fails, once the script's process has come up.
InstallEnds == At(5) /\ script # NoScript ~> ~At(5)
=============================================================================
