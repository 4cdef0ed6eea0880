--------------------------- MODULE InstallerProofs ---------------------------
(* What holds of the installer for any disks, paths, sizes and faults.     *)
EXTENDS Installer, FiniteSetTheorems, SequenceTheorems, TLAPS

\* The handlers of the wizard change nothing but the wizard.
LEMMA WizardFrame ==
  ASSUME WizardStep
  PROVE  UNCHANGED <<worldVars, backendVars, issued, installs, faults>>
  BY DEF WizardStep, OpenWizard, LeaveWizard, GetStarted, Refresh, PickRegion, Continue,
         Back, TryAgain, BackToHome, SelectDisk, SelectMode, WantPartitions,
         RequireSignIn, TypeConfirmation, Wizard

-----------------------------------------------------------------------------
(* The staged account.                                                     *)

\* Of all steps only the start of a script stages an account, and it sets
\* running; only the end of a script, which removes the file, clears running.
LEMMA StagedStep ==
  ASSUME StagedOnlyWhileRunning, [Next]_vars
  PROVE  StagedOnlyWhileRunning'
  <1> USE DEF StagedOnlyWhileRunning
  <1>1. CASE WizardStep
    BY <1>1, WizardFrame DEF backendVars
  <1>2. CASE InstallStep
    BY <1>2 DEF InstallStep, AlreadyRunning, StartInstall, Refused, backendVars
  <1>3. CASE ScriptStep
    BY <1>3 DEF ScriptStep, RunCommand, InstallSucceeds, InstallFails, ScriptEnds
  <1>4. CASE \E p \in Path, d \in Disk \cup {NoDisk} : Replug(p, d)
    BY <1>4 DEF Replug, backendVars
  <1>5. CASE UNCHANGED vars
    BY <1>5 DEF vars, backendVars
  <1> QED
    BY <1>1, <1>2, <1>3, <1>4, <1>5 DEF Next

\* No return path of startInstall() leaves a password hash in /tmp.
THEOREM StagedAccountIsRemoved == Spec => []StagedOnlyWhileRunning
  <1>1. Init => StagedOnlyWhileRunning
    BY DEF Init, StagedOnlyWhileRunning
  <1> QED
    BY <1>1, StagedStep, PTL DEF Spec

-----------------------------------------------------------------------------
(* The running disk.                                                       *)

\* No two paths name the same disk, and no script is aimed at the running one.
AimedElsewhere ==
  /\ disks = [d \in Disk |-> disks[d]]
  /\ at \in [Path -> Disk \cup {NoDisk}]
  /\ \A p, q \in Path : at[p] = at[q] /\ p # q => at[p] = NoDisk
  /\ script # NoScript => script.path \in Path /\ at[script.path] # RunningDisk

\* What validation leaves of the list it was read against.
Checked ==
  /\ wiz.path \in Path /\ at[wiz.path] # NoDisk
  /\ wiz.mode # "erase" =>
       /\ wiz.region > 0 /\ wiz.region <= ListFreeSpace(at[wiz.path])
       /\ Fits(Wanted, wiz.region)

\* Every list holds paths that name a disk, whatever findRootDisk() returned.
LEMMA Listed ==
  ASSUME NEW listed \in ListDisks
  PROVE  /\ listed \in SUBSET Path /\ \A p \in listed : at[p] # NoDisk
  BY DEF ListDisks

\* A script is started for a path that was listed.
LEMMA StartIsChecked ==
  ASSUME NEW code, StartInstall(code)
  PROVE  Checked
  <1>1. PICK listed \in ListDisks : Valid(listed)
    BY DEF StartInstall
  <1> QED
    BY <1>1, Listed DEF Valid, Checked

\* A script is built for a listed path, which is not the running disk's if
\* findRootDisk() named that one; while it runs no path changes.
LEMMA AimedStep ==
  ASSUME RootSource = "partition", ~ListingMayFail, AimedElsewhere, [Next]_vars
  PROVE  AimedElsewhere' /\ disks'[RunningDisk] = disks[RunningDisk]
  <1> USE DEF AimedElsewhere
  <1>1. CASE WizardStep
    BY <1>1, WizardFrame DEF backendVars, worldVars
  <1>2. ASSUME NEW code \in Code \cup {NoCode}, StartInstall(code)
        PROVE  AimedElsewhere' /\ disks'[RunningDisk] = disks[RunningDisk]
    <2>1. UNCHANGED <<disks, at>> /\ wiz.path \in Path /\ at[wiz.path] # RunningDisk
      <3>1. PICK listed \in ListDisks : Valid(listed)
        BY <1>2 DEF StartInstall
      <3>2. PICK root \in Path : at[root] = RunningDisk /\ wiz.path \in Path /\ wiz.path # root
        BY <3>1 DEF ListDisks, FindRootDisk, Valid
      <3> QED
        BY <1>2, <3>2, NamesAssumption DEF StartInstall, worldVars
    <2>2. CASE UNCHANGED script
      BY <2>1, <2>2
    <2>3. ASSUME NEW first, script' = Script(first, code)
          PROVE  script'.path = wiz.path
      BY <2>3 DEF Script
    <2> QED
      BY <1>2, <2>1, <2>2, <2>3 DEF StartInstall
  <1>3. CASE AlreadyRunning \/ \E code \in Code \cup {NoCode} : Refused(code)
    BY <1>3 DEF AlreadyRunning, Refused, worldVars, backendVars
  <1>4. CASE RunCommand
    <2> DEFINE c == Head(script.todo)
    <2>1. /\ script # NoScript /\ UNCHANGED at /\ script'.path = script.path
          /\ disks' = [disks EXCEPT ![Target] = DiskAfter(c, Target)]
      BY <1>4 DEF RunCommand
    <2> HIDE DEF c
    <2>2. Target # RunningDisk
      BY <2>1 DEF Target
    <2> QED
      BY <2>1, <2>2, NamesAssumption
  <1>5. CASE InstallSucceeds \/ InstallFails
    BY <1>5 DEF InstallSucceeds, InstallFails, ScriptEnds, worldVars
  <1>6. ASSUME NEW p \in Path, NEW d \in Disk \cup {NoDisk}, Replug(p, d)
        PROVE  AimedElsewhere' /\ disks'[RunningDisk] = disks[RunningDisk]
    BY <1>6 DEF Replug, backendVars
  <1>7. CASE UNCHANGED vars
    BY <1>7 DEF vars, worldVars, backendVars
  <1> QED
    BY <1>1, <1>2, <1>3, <1>4, <1>5, <1>6, <1>7 DEF Next, InstallStep, ScriptStep

\* What the exclusion of the running disk rests on: if "/" is a plain partition
\* and findmnt always answers, no install writes to the running disk, whatever
\* is plugged in, fails and is tried again.  Without either it may: see the run
\* of InstallerLiveDisk.cfg.
THEOREM OwnDiskAlwaysUntouched ==
  ASSUME RootSource = "partition", ~ListingMayFail
  PROVE  Spec => RunningDiskUntouched
  <1>1. Init => AimedElsewhere
    BY DEF Init, AimedElsewhere
  <1>2. AimedElsewhere /\ [Next]_vars => AimedElsewhere' /\ disks'[RunningDisk] = disks[RunningDisk]
    BY AimedStep
  <1> QED
    BY <1>1, <1>2, PTL DEF Spec, RunningDiskUntouched

-----------------------------------------------------------------------------
(* Types.                                                                  *)

\* Sizes and partition numbers are integers.
LEMMA Sizes ==
  /\ DiskSize \in Nat /\ DiskSize >= 2 /\ MinFree \in Nat /\ Mapped \in Nat
  /\ MaxInstalls \in Nat /\ MaxFaults \in Nat /\ Num \subseteq Nat /\ IsFiniteSet(Num)
  /\ 0 \in 0..DiskSize /\ 1 \in 0..DiskSize
  BY SizesAssumption, FS_Interval DEF Num

\* A partition that was just made is one.
LEMMA BareType ==
  ASSUME NEW fs \in FileSystem
  PROVE  Bare(fs) \in Partition
  BY DEF Bare, Partition

\* The lines of lsblk are counted by a natural number.
LEMMA ChildrenType ==
  ASSUME NEW d
  PROVE  Children(d) \in Nat
  <1>1. IsFiniteSet(Existing(d)) /\ IsFiniteSet({n \in Num : disks[d].parts[n].fs = "foreign"})
    BY Sizes, FS_Subset DEF Existing
  <1>2. /\ Cardinality(Existing(d)) \in Nat
        /\ Cardinality({n \in Num : disks[d].parts[n].fs = "foreign"}) \in Nat
    BY <1>1, FS_CardinalityType
  <1> DEFINE i == Cardinality(Existing(d))
             j == Cardinality({n \in Num : disks[d].parts[n].fs = "foreign"})
  <1>3. i \in Nat /\ j \in Nat
    BY <1>2
  <1> HIDE DEF i, j
  <1>4. i + Mapped * j \in Nat
    BY <1>3, Sizes, Z3
  <1> QED
    BY <1>4 DEF Children, i, j

\* The partitions of a manual layout.
Mounts == {"/", "home", "swap"}

Has(s, m) == \E i \in DOMAIN s : s[i] = m

\* What is in either of two sequences is in their concatenation.
LEMMA InEither ==
  ASSUME NEW T, NEW s \in Seq(T), NEW t \in Seq(T), NEW m, Has(s, m) \/ Has(t, m)
  PROVE  Has(s \o t, m)
  <1>1. /\ s \o t \in Seq(T) /\ Len(s \o t) = Len(s) + Len(t)
        /\ \A i \in 1 .. Len(s) + Len(t) :
             (s \o t)[i] = IF i <= Len(s) THEN s[i] ELSE t[i - Len(s)]
    BY ConcatProperties
  <1>2. Len(s) \in Nat /\ Len(t) \in Nat /\ DOMAIN s = 1..Len(s) /\ DOMAIN t = 1..Len(t)
    BY LenProperties
  <1>3. DOMAIN (s \o t) = 1 .. Len(s) + Len(t)
    BY <1>1, LenProperties
  <1> DEFINE u == s \o t
  <1>4. ASSUME NEW i \in DOMAIN s, s[i] = m PROVE i \in DOMAIN u /\ u[i] = m
    BY <1>1, <1>2, <1>3, <1>4
  <1>5. ASSUME NEW i \in DOMAIN t, t[i] = m
        PROVE  i + Len(s) \in DOMAIN u /\ u[i + Len(s)] = m
    <2>1. /\ i \in Int /\ i + Len(s) \in 1 .. Len(s) + Len(t) /\ ~(i + Len(s) <= Len(s))
          /\ (i + Len(s)) - Len(s) = i
      BY <1>2
    <2> QED
      BY <1>1, <1>3, <1>5, <2>1
  <1> QED
    BY <1>4, <1>5 DEF Has

\* A partition that is wanted is in its piece of the layout, and alone there.
LEMMA WantedType ==
  ASSUME NEW want, NEW m \in Mounts
  PROVE  /\ IfWanted(m, want) \in Seq(Mounts)
         /\ IfWanted(m, want) \in Seq(Mounts \cap (want \cup {"/"}))
         /\ m \in want => Has(IfWanted(m, want), m)
  <1>1. CASE m \in want
    <2>1. IfWanted(m, want) = <<m>>
      BY <1>1 DEF IfWanted
    <2>2. <<m>> \in Seq(Mounts) /\ 1 \in DOMAIN <<m>> /\ <<m>>[1] = m
      OBVIOUS
    <2>3. <<m>> \in Seq(Mounts \cap (want \cup {"/"}))
      BY <1>1
    <2> QED
      BY <2>1, <2>2, <2>3 DEF Has
  <1>2. CASE m \notin want
    BY <1>2 DEF IfWanted
  <1> QED
    BY <1>1, <1>2

\* The layout and the order of formatting name the same partitions.
LEMMA LayoutType ==
  ASSUME NEW want \in SUBSET Extras
  PROVE  /\ Layout(want) \in Seq(Mounts)
         /\ <<"/">> \o IfWanted("home", want) \o IfWanted("swap", want)
              \in Seq(Mounts \cap (want \cup {"/"}))
         /\ \A m \in want \cup {"/"} : Has(Layout(want), m)
         /\ Cardinality(want) \in Nat
  <1> DEFINE swap == IfWanted("swap", want)
             home == IfWanted("home", want)
             root == <<"/">>
             M == Mounts \cap (want \cup {"/"})
  <1>1. /\ swap \in Seq(Mounts) /\ home \in Seq(Mounts)
        /\ swap \in Seq(M) /\ home \in Seq(M)
        /\ "swap" \in want => Has(swap, "swap")
        /\ "home" \in want => Has(home, "home")
    BY WantedType DEF Mounts
  <1>2. root \in Seq(Mounts) /\ root \in Seq(M) /\ Has(root, "/")
    BY DEF Has, Mounts
  <1>3. want \subseteq {"home", "swap"}
    BY LayoutsAssumption
  <1>4. Cardinality(want) \in Nat
    <2>1. IsFiniteSet({"home"})
      BY FS_Singleton
    <2>2. IsFiniteSet({"home"} \cup {"swap"}) /\ {"home"} \cup {"swap"} = {"home", "swap"}
      BY <2>1, FS_AddElement
    <2> QED
      BY <1>3, <2>2, FS_Subset, FS_CardinalityType
  <1>5. Layout(want) = swap \o home \o root
    BY DEF Layout
  <1> HIDE DEF swap, home, root, M
  <1>6. swap \o home \in Seq(Mounts) /\ swap \o home \o root \in Seq(Mounts)
    BY <1>1, <1>2
  <1>7. root \o home \o swap \in Seq(M)
    BY <1>1, <1>2
  <1>8. ASSUME NEW m \in want \cup {"/"} PROVE Has(swap \o home \o root, m)
    <2>1. CASE m = "/"
      BY <1>2, <1>6, <2>1, InEither
    <2>2. CASE m \in want
      <3>1. Has(swap, m) \/ Has(home, m)
        BY <1>1, <1>3, <2>2
      <3>2. Has(swap \o home, m)
        BY <1>1, <3>1, InEither
      <3> QED
        BY <1>2, <1>6, <3>2, InEither
    <2> QED
      BY <2>1, <2>2
  <1> QED
    BY <1>4, <1>5, <1>6, <1>7, <1>8 DEF home, swap, root, M

-----------------------------------------------------------------------------
(* The script as it is built.                                              *)

\* What the script does once the target holds its clone.
AfterClone == {"account", "marker", "boot", "unmount"}

Left(op, todo) == \E i \in DOMAIN todo : todo[i].op = op

\* Nothing is cloned after the clone, and all that follows it is done there.
InOrder(todo) ==
  \A i \in DOMAIN todo :
    todo[i].op \in AfterClone \cup {"clone"} =>
      \A j \in DOMAIN todo : i < j => todo[j].op \in AfterClone

\* While the clone is to be made, so is all that makes it start and the
\* account; afterwards nothing but that is left.
Complete(todo, code) ==
  /\ Left("clone", todo) =>
       Left("marker", todo) /\ Left("boot", todo) /\ (code # NoCode => Left("account", todo))
  /\ ~Left("clone", todo) => \A i \in DOMAIN todo : todo[i].op \in AfterClone

\* All of it happens on the root partition.
OnTheRoot(c, root) == c.op \in {"clone", "account", "marker", "boot"} => c.num = root /\ c.fs = "/"

\* No command makes a partition vanish or somebody else's.
Formats(c) == c.op = "mkfs" => c.fs \notin {"none", "foreign"}

\* The commands that partition, from number n on, and those that fill root.
Preparing(n) ==
  {c \in Command : /\ c.op \in {"mkpart", "flag", "mkfs"}
                   /\ c.op = "mkfs" => c.num >= n /\ c.fs \in Mounts \cup {"esp"}}

Filling(root) ==
  {c \in Command : c.op \in {"mount", "clone"} \cup AfterClone /\ c.num = root /\ c.fs = "/"}

\* Each kind of command is one, for sizes and numbers in their ranges.
LEMMA CommandTypes ==
  ASSUME NEW n \in Nat, NEW size \in 0..DiskSize, NEW fs \in FileSystem
  PROVE  /\ Mkpart(size) \in Preparing(n) /\ Flag(n) \in Preparing(n)
         /\ \A m \in Mounts \cup {"esp"}, k \in Nat : k >= n => Mkfs(k, m) \in Preparing(n)
         /\ Wipe \in Command
         /\ \A op \in {"mount", "clone"} \cup AfterClone : OnRoot(op, n) \in Filling(n)
  BY Sizes DEF Mkpart, Flag, Mkfs, Wipe, OnRoot, Command, FileSystem, Preparing, Filling,
     Mounts, AfterClone

\* The commands that partition and format are well formed if everything fits.
LEMMA PartitionCommandsType ==
  ASSUME NEW n \in Nat, NEW want \in SUBSET Extras, NEW region \in 1..DiskSize,
         1 + Cardinality(want) <= region
  PROVE  PartitionCommands(n, want, region) \in Seq(Preparing(n))
  <1> DEFINE layout == Layout(want)
             rest == region - 1 - Cardinality(want)
             size(m) == IF m = "/" THEN rest ELSE 1
             number(m) == n + (CHOOSE i \in DOMAIN layout : layout[i] = m)
             made == <<"/">> \o IfWanted("home", want) \o IfWanted("swap", want)
             M == Mounts \cap (want \cup {"/"})
             parts == [i \in DOMAIN layout |-> Mkpart(size(layout[i]))]
             formats == [i \in DOMAIN made |-> Mkfs(number(made[i]), made[i])]
  <1>1. layout \in Seq(Mounts) /\ made \in Seq(M) /\ \A m \in M : Has(layout, m)
    BY LayoutType
  <1>2. DOMAIN layout = 1..Len(layout) /\ Len(layout) \in Nat
    BY <1>1
  <1>3. DOMAIN made = 1..Len(made) /\ Len(made) \in Nat
    BY <1>1
  <1>4. rest \in 0..DiskSize /\ 1 \in 0..DiskSize
    <2>1. Cardinality(want) \in Nat
      BY LayoutType
    <2> QED
      BY <2>1, Sizes
  <1>5. \A m : Mkpart(size(m)) \in Preparing(n)
    <2> HIDE DEF rest
    <2> QED
      BY <1>4, CommandTypes, "raw" \in FileSystem DEF FileSystem
  <1>6. parts \in Seq(Preparing(n))
    <2> HIDE DEF layout, size
    <2> QED
      BY <1>2, <1>5
  <1>7. ASSUME NEW m \in M PROVE Mkfs(number(m), m) \in Preparing(n)
    <2>1. (CHOOSE i \in DOMAIN layout : layout[i] = m) \in DOMAIN layout
      BY <1>1 DEF Has
    <2>2. number(m) \in Nat /\ number(m) >= n
      BY <1>2, <2>1
    <2> HIDE DEF number
    <2> QED
      BY <2>2, CommandTypes, Sizes, "raw" \in FileSystem DEF FileSystem
  <1>8. formats \in Seq(Preparing(n))
    <2>1. \A i \in DOMAIN made : made[i] \in M
      BY <1>1
    <2> HIDE DEF made, number, M
    <2> QED
      BY <1>3, <1>7, <2>1
  <1>9. <<Mkpart(1), Flag(n)>> \in Seq(Preparing(n)) /\ <<Mkfs(n, "esp")>> \in Seq(Preparing(n))
    <2>1. /\ Mkpart(1) \in Preparing(n) /\ Flag(n) \in Preparing(n)
          /\ Mkfs(n, "esp") \in Preparing(n)
      BY <1>4, CommandTypes, n >= n, "raw" \in FileSystem DEF FileSystem
    <2> QED
      BY <2>1
  <1>10. PartitionCommands(n, want, region)
           = <<Mkpart(1), Flag(n)>> \o parts \o <<Mkfs(n, "esp")>> \o formats
    BY DEF PartitionCommands
  <1> HIDE DEF parts, formats
  <1> QED
    BY <1>6, <1>8, <1>9, <1>10

\* The elements of a concatenation.
LEMMA Joined ==
  ASSUME NEW T, NEW s \in Seq(T), NEW t \in Seq(T)
  PROVE  /\ s \o t \in Seq(T) /\ DOMAIN (s \o t) = 1 .. Len(s) + Len(t)
         /\ DOMAIN s = 1..Len(s) /\ DOMAIN t = 1..Len(t) /\ Len(s) \in Nat /\ Len(t) \in Nat
         /\ \A i \in 1 .. Len(s) + Len(t) :
              \/ i <= Len(s) /\ (s \o t)[i] = s[i]
              \/ i > Len(s) /\ i - Len(s) \in DOMAIN t /\ (s \o t)[i] = t[i - Len(s)]
  <1>1. /\ s \o t \in Seq(T) /\ Len(s \o t) = Len(s) + Len(t)
        /\ \A i \in 1 .. Len(s) + Len(t) :
             (s \o t)[i] = IF i <= Len(s) THEN s[i] ELSE t[i - Len(s)]
    BY ConcatProperties
  <1>2. Len(s) \in Nat /\ Len(t) \in Nat /\ DOMAIN s = 1..Len(s) /\ DOMAIN t = 1..Len(t)
    BY LenProperties
  <1>3. DOMAIN (s \o t) = 1 .. Len(s) + Len(t)
    BY <1>1, LenProperties
  <1> QED
    BY <1>1, <1>2, <1>3

\* What is left in either of two parts is left.
LEMMA LeftInEither ==
  ASSUME NEW T, NEW s \in Seq(T), NEW t \in Seq(T), NEW op, Left(op, s) \/ Left(op, t)
  PROVE  Left(op, s \o t)
  <1>1. DOMAIN (s \o t) = 1 .. Len(s) + Len(t) /\ Len(s) \in Nat /\ Len(t) \in Nat
    BY Joined
  <1>2. ASSUME NEW i \in DOMAIN s, s[i].op = op PROVE Left(op, s \o t)
    <2>1. i \in 1 .. Len(s) + Len(t) /\ ~(i > Len(s))
      BY <1>1, Joined
    <2> QED
      BY <1>1, <1>2, <2>1, Joined DEF Left
  <1>3. ASSUME NEW i \in DOMAIN t, t[i].op = op PROVE Left(op, s \o t)
    <2>1. i \in 1..Len(t)
      BY Joined
    <2>2. /\ i + Len(s) \in 1 .. Len(s) + Len(t) /\ ~(i + Len(s) <= Len(s))
          /\ (i + Len(s)) - Len(s) = i
      BY <1>1, <2>1
    <2> QED
      BY <1>1, <1>3, <2>2, Joined DEF Left
  <1> QED
    BY <1>2, <1>3 DEF Left

\* The order is kept by commands put before it that do not matter to it, and
\* by commands put after it that belong after the clone.
LEMMA OrderOfJoined ==
  ASSUME NEW T, NEW s \in Seq(T), NEW t \in Seq(T),
         \/ InOrder(t) /\ \A i \in DOMAIN s : s[i].op \notin AfterClone \cup {"clone"}
         \/ InOrder(s) /\ \A i \in DOMAIN t : t[i].op \in AfterClone
  PROVE  InOrder(s \o t)
  <1> DEFINE u == s \o t
             m == Len(s)
             k == Len(t)
  <1>1. /\ DOMAIN u = 1 .. m + k /\ DOMAIN s = 1..m /\ DOMAIN t = 1..k /\ m \in Nat /\ k \in Nat
        /\ \A i \in 1 .. m + k : \/ i <= m /\ u[i] = s[i]
                                 \/ i > m /\ i - m \in DOMAIN t /\ u[i] = t[i - m]
    BY Joined
  <1> HIDE DEF u, m, k
  <1> SUFFICES ASSUME NEW i \in 1 .. m + k, u[i].op \in AfterClone \cup {"clone"},
                      NEW j \in 1 .. m + k, i < j
               PROVE  u[j].op \in AfterClone
    BY <1>1 DEF InOrder, u
  <1>2. CASE j <= m
    <2>1. i \in DOMAIN s /\ j \in DOMAIN s /\ u[i] = s[i] /\ u[j] = s[j]
      BY <1>1, <1>2
    <2> QED
      BY <2>1 DEF InOrder
  <1>3. CASE j > m
    <2>1. j - m \in DOMAIN t /\ u[j] = t[j - m]
      BY <1>1, <1>3
    <2>2. CASE i <= m
      <3>1. i \in DOMAIN s /\ u[i] = s[i]
        BY <1>1, <2>2
      <3> QED
        BY <2>1, <3>1
    <2>3. CASE i > m
      <3>1. i - m \in DOMAIN t /\ u[i] = t[i - m] /\ i - m < j - m
        BY <1>1, <2>3
      <3> QED
        BY <2>1, <3>1 DEF InOrder
    <2> QED
      BY <1>1, <2>2, <2>3
  <1> QED
    BY <1>1, <1>2, <1>3

\* So are the commands that fill the target, and in their order they make a
\* whole install.
LEMMA CloneCommandsType ==
  ASSUME NEW root \in Nat, NEW code
  PROVE  LET todo == CloneCommands(root, code)
         IN  /\ todo \in Seq(Filling(root))
             /\ InOrder(todo) /\ Complete(todo, code) /\ Left("clone", todo)
  <1> DEFINE clone   == <<OnRoot("mount", root), OnRoot("clone", root)>>
             account == IF code = NoCode THEN <<>> ELSE <<OnRoot("account", root)>>
             rest    == <<OnRoot("marker", root), OnRoot("boot", root), OnRoot("unmount", root)>>
  <1>1. \A op \in {"mount", "clone"} \cup AfterClone : OnRoot(op, root) \in Filling(root)
    BY CommandTypes, "raw" \in FileSystem, Sizes DEF FileSystem
  <1>2. \A op : OnRoot(op, root).op = op
    BY DEF OnRoot
  <1>3. clone \in Seq(Filling(root)) /\ InOrder(clone) /\ Left("clone", clone)
    <2>1. DOMAIN clone = 1..2 /\ clone[1].op = "mount" /\ clone[2].op = "clone"
      BY <1>2
    <2>2. clone \in Seq(Filling(root))
      BY <1>1
    <2> HIDE DEF clone
    <2> QED
      BY <2>1, <2>2 DEF InOrder, Left, AfterClone
  <1>4. /\ account \in Seq(Filling(root))
        /\ \A i \in DOMAIN account : account[i].op \in AfterClone
        /\ code # NoCode => Left("account", account)
    BY <1>1, <1>2 DEF Left, AfterClone
  <1>5. /\ rest \in Seq(Filling(root))
        /\ \A i \in DOMAIN rest : rest[i].op \in AfterClone
        /\ Left("marker", rest) /\ Left("boot", rest)
    <2>1. DOMAIN rest = 1..3 /\ rest[1].op = "marker" /\ rest[2].op = "boot" /\ rest[3].op = "unmount"
      BY <1>2
    <2>2. rest \in Seq(Filling(root))
      BY <1>1 DEF AfterClone
    <2> HIDE DEF rest
    <2> QED
      BY <2>1, <2>2 DEF Left, AfterClone
  <1>6. CloneCommands(root, code) = clone \o account \o rest
    BY DEF CloneCommands
  <1> HIDE DEF clone, account, rest
  <1> DEFINE first == clone \o account
  <1>7. /\ first \in Seq(Filling(root)) /\ InOrder(first) /\ Left("clone", first)
        /\ code # NoCode => Left("account", first)
    BY <1>3, <1>4, LeftInEither, OrderOfJoined
  <1> HIDE DEF first
  <1>8. /\ first \o rest \in Seq(Filling(root)) /\ InOrder(first \o rest)
        /\ Left("clone", first \o rest)
        /\ Left("marker", first \o rest) /\ Left("boot", first \o rest)
        /\ code # NoCode => Left("account", first \o rest)
    <2>1. first \o rest \in Seq(Filling(root))
      BY <1>5, <1>7
    <2>2. InOrder(first \o rest)
      BY <1>5, <1>7, OrderOfJoined
    <2> QED
      BY <1>5, <1>7, <2>1, <2>2, LeftInEither
  <1> QED
    BY <1>6, <1>8 DEF Complete, first

ScriptType(s) ==
  /\ s.path \in Path /\ s.mode \in {"erase", "alongside", "manual"}
  /\ s.root \in Nat /\ s.code \in Code \cup {NoCode}
  /\ s.todo \in Seq(Command)

\* The script of an install, in the form in which it is begun.
Whole(s, first) ==
  /\ ScriptType(s) /\ s.path = wiz.path /\ s.mode = wiz.mode
  /\ InOrder(s.todo) /\ Complete(s.todo, s.code) /\ Left("clone", s.todo)
  /\ \A i \in DOMAIN s.todo :
       /\ OnTheRoot(s.todo[i], s.root) /\ Formats(s.todo[i])
       /\ s.mode # "erase" =>
            s.todo[i].op # "wipe" /\ (s.todo[i].op = "mkfs" => s.todo[i].num >= first)

\* What startInstall() validates makes a well-formed and whole script.
LEMMA ScriptIsWhole ==
  ASSUME wiz \in WizardState, Checked, NEW first \in Nat, NEW code \in Code \cup {NoCode}
  PROVE  Whole(Script(first, code), first) /\ Script(first, code).code = code
  <1> DEFINE erase == wiz.mode = "erase"
             n == IF erase THEN 1 ELSE first
             want == IF erase THEN {} ELSE Wanted
             region == IF erase THEN DiskSize ELSE wiz.region
             root == n + Cardinality(want) + 1
             wipe == IF erase THEN <<Wipe>> ELSE <<>>
             prepare == PartitionCommands(n, want, region)
             clone == CloneCommands(root, code)
             todo == wipe \o prepare \o clone
             ToPrepare == Preparing(n) \cup (IF erase THEN {Wipe} ELSE {})
             All == ToPrepare \cup Filling(root)
  <1>1. want \in SUBSET Extras
    BY DEF Wanted, WizardState
  <1>2. Cardinality(want) \in Nat
    BY <1>1, LayoutType
  <1>3. n \in Nat
    OBVIOUS
  <1>4. region \in 1..DiskSize /\ 1 + Cardinality(want) <= region
    <2>1. CASE erase
      <3>1. Cardinality({}) = 0
        BY FS_EmptySet
      <3> QED
        BY <2>1, <3>1, Sizes
    <2>2. CASE ~erase
      <3>1. wiz.region \in 0..DiskSize /\ wiz.region > 0 /\ Fits(Wanted, wiz.region)
        BY <2>2 DEF Checked, WizardState
      <3> QED
        BY <2>2, <3>1, Sizes DEF Fits
    <2> QED
      BY <2>1, <2>2
  <1>5. ~erase => n = first
    OBVIOUS
  <1>9. Script(first, code) = [path |-> wiz.path, mode |-> wiz.mode, root |-> root,
                               code |-> code, todo |-> todo]
    BY DEF Script
  <1>10. wiz.path \in Path /\ wiz.mode \in {"erase", "alongside", "manual"}
    BY DEF Checked, WizardState
  <1> HIDE DEF n, want, region
  <1>11. root \in Nat
    BY <1>2, <1>3
  <1> HIDE DEF root
  <1>12. /\ clone \in Seq(Filling(root))
         /\ InOrder(clone) /\ Complete(clone, code) /\ Left("clone", clone)
    BY <1>11, CloneCommandsType
  <1>13. wipe \in Seq(ToPrepare) /\ prepare \in Seq(ToPrepare)
    <2>1. prepare \in Seq(Preparing(n))
      BY <1>1, <1>3, <1>4, PartitionCommandsType
    <2>2. Preparing(n) \subseteq ToPrepare
      OBVIOUS
    <2>3. wipe \in Seq(ToPrepare)
      <3>1. CASE erase
        <4>1. wipe = <<Wipe>> /\ Wipe \in ToPrepare
          BY <3>1
        <4> HIDE DEF wipe, ToPrepare, erase, prepare, clone
        <4> QED
          BY <4>1
      <3>2. CASE ~erase
        <4>1. wipe = <<>>
          BY <3>2
        <4> HIDE DEF wipe, ToPrepare, erase, prepare, clone
        <4> QED
          BY <4>1
      <3> QED
        BY <3>1, <3>2
    <2> HIDE DEF ToPrepare, wipe, prepare
    <2> QED
      BY <2>1, <2>2, <2>3, SeqMonotonic
  <1> HIDE DEF wipe, prepare, clone
  <1> DEFINE before == wipe \o prepare
  <1>14. before \in Seq(ToPrepare)
    BY <1>13
  <1> HIDE DEF before
  <1>15. \A c \in ToPrepare : c.op \notin AfterClone \cup {"clone"}
    BY DEF Preparing, Wipe, AfterClone
  <1>16. before \in Seq(All) /\ clone \in Seq(All)
    BY <1>12, <1>14, SeqMonotonic
  <1>17. InOrder(before \o clone)
    BY <1>12, <1>14, <1>15, <1>16, OrderOfJoined
  <1>18. \A op : Left(op, clone) => Left(op, before \o clone)
    BY <1>16, LeftInEither
  <1>19. Complete(before \o clone, code) /\ Left("clone", before \o clone)
    BY <1>12, <1>18 DEF Complete
  <1>20. todo \in Seq(All) /\ todo = before \o clone
    BY <1>16 DEF before
  <1>21. \A c \in All :
           /\ c \in Command /\ OnTheRoot(c, root) /\ Formats(c)
           /\ ~erase => c.op # "wipe" /\ (c.op = "mkfs" => c.num >= first)
    <2>1. Wipe \in Command
      BY CommandTypes, Sizes, "raw" \in FileSystem DEF FileSystem
    <2> HIDE DEF erase
    <2> QED
      BY <1>5, <2>1 DEF Preparing, Filling, Wipe, OnTheRoot, Formats, AfterClone, Mounts
  <1>22. \A i \in DOMAIN todo : todo[i] \in All
    BY <1>20
  <1> HIDE DEF todo, All
  <1>23. todo \in Seq(Command)
    BY <1>20, <1>21, SeqMonotonic
  <1> QED
    BY <1>9, <1>10, <1>11, <1>17, <1>19, <1>20, <1>21, <1>22, <1>23 DEF Whole, ScriptType

-----------------------------------------------------------------------------
(* What the steps do to the types.                                          *)

\* A command that can run leaves a disk a disk.
LEMMA DiskAfterType ==
  ASSUME TypeOK, NEW c \in Command, NEW d \in Disk, CanRun(c, d)
  PROVE  DiskAfter(c, d) \in DiskState
  <1>1. /\ disks[d] \in DiskState /\ disks[d].parts \in [Num -> Partition]
        /\ disks[d].free \in 0..DiskSize
    BY DEF TypeOK, DiskState
  <1>2. c.fs \in FileSystem /\ LiveAccount \in Code \cup {NoCode} /\ staged \in Code \cup {NoCode}
    BY NamesAssumption DEF Command, TypeOK
  <1>3. CASE c.op = "wipe"
    BY <1>3, BareType, Sizes DEF DiskAfter, DiskState, FileSystem
  <1>4. CASE c.op = "mkpart"
    <2>1. c.size \in 1..disks[d].free
      BY <1>4 DEF CanRun
    <2>2. disks[d].free - c.size \in 0..DiskSize
      BY <1>1, <2>1, Sizes
    <2>3. WithPartition(d) \in [Num -> Partition]
      BY <1>1, BareType DEF WithPartition, FileSystem
    <2> QED
      BY <1>4, <2>2, <2>3 DEF DiskAfter, DiskState
  <1>5. CASE c.op = "mkfs"
    BY <1>1, <1>2, <1>5, BareType DEF DiskAfter, DiskState
  <1>6. ASSUME NEW p \in Partition
        PROVE  /\ [p EXCEPT !.cloned = TRUE, !.code = LiveAccount] \in Partition
               /\ [p EXCEPT !.code = staged] \in Partition
               /\ [p EXCEPT !.marker = TRUE] \in Partition
               /\ [p EXCEPT !.boot = TRUE] \in Partition
    BY <1>2 DEF Partition
  <1>7. CASE c.op \in {"clone", "account", "marker", "boot"} /\ c.num \in Num
    <2> DEFINE p == disks[d].parts[c.num]
               With(q) == [disks[d] EXCEPT !.parts[c.num] = q]
    <2>1. p \in Partition
      BY <1>1, <1>7
    <2>2. ASSUME NEW q \in Partition PROVE With(q) \in DiskState
      BY <1>1, <1>7 DEF DiskState
    <2>3. /\ c.op = "clone" =>
               DiskAfter(c, d) = With([p EXCEPT !.cloned = TRUE, !.code = LiveAccount])
          /\ c.op = "account" => DiskAfter(c, d) = With([p EXCEPT !.code = staged])
          /\ c.op = "marker" => DiskAfter(c, d) = With([p EXCEPT !.marker = TRUE])
          /\ c.op = "boot" => DiskAfter(c, d) = With([p EXCEPT !.boot = TRUE])
      BY <1>1, <1>7, <2>1 DEF DiskAfter, DiskState, Partition
    <2> HIDE DEF With, p
    <2> QED
      BY <1>6, <1>7, <2>1, <2>2, <2>3
  <1>7a. CASE c.op \in {"clone", "account", "marker", "boot"} /\ c.num \notin Num
    BY <1>1, <1>7a DEF DiskAfter, DiskState
  <1>8. CASE c.op \in {"flag", "mount", "unmount"}
    BY <1>1, <1>8 DEF DiskAfter
  <1> QED
    BY <1>3, <1>4, <1>5, <1>7, <1>7a, <1>8 DEF Command

\* The free space on offer is one of the disk's sizes.
LEMMA FreeSpaceType ==
  ASSUME TypeOK, NEW d \in Disk \cup {NoDisk}
  PROVE  ListFreeSpace(d) \in 0..DiskSize
  BY Sizes, NamesAssumption DEF ListFreeSpace, TypeOK, DiskState

\* A wizard that is opened or left is in its initial state.
LEMMA FreshWizardType ==
  ASSUME NEW listed \in SUBSET Path
  PROVE  FreshWizard(listed) \in WizardState /\ ClosedWizard \in WizardState
  <1>1. ASSUME NEW offered \in SUBSET Path PROVE FreshWizard(offered) \in WizardState
    <2>1. /\ 0 \in 0..6 /\ 0 \in 0..DiskSize /\ {} \in SUBSET Extras
          /\ NoPath \in Path \cup {NoPath} /\ NoCode \in Code \cup {NoCode}
          /\ "erase" \in {"erase", "alongside", "manual"}
      BY Sizes
    <2> QED
      BY <2>1 DEF FreshWizard, WizardState
  <1>2. ASSUME NEW w \in WizardState PROVE [w EXCEPT !.open = FALSE] \in WizardState
    BY DEF WizardState
  <1> QED
    BY <1>1, <1>2, {} \in SUBSET Path DEF ClosedWizard

\* What the disks hold at first has its type, and no install has begun.
LEMMA InstallerInitial == Init => TypeOK
  <1> SUFFICES ASSUME Init PROVE TypeOK
    OBVIOUS
  <1>1. disks \in [Disk -> DiskState] /\ at \in [Path -> Disk \cup {NoDisk}]
    BY LayoutsAssumption DEF Init
  <1>2. wiz \in WizardState
    BY FreshWizardType, {} \in SUBSET Path DEF Init
  <1>3. issued \subseteq Code /\ installs \in 0..MaxInstalls /\ faults \in 0..MaxFaults
    BY NamesAssumption, Sizes DEF Init
  <1> QED
    BY <1>1, <1>2, <1>3 DEF Init, TypeOK

\* The wizard's handlers keep its properties in their ranges.
LEMMA WizardStepType ==
  ASSUME TypeOK, WizardStep
  PROVE  TypeOK'
  <1>0. /\ wiz \in WizardState /\ at \in [Path -> Disk \cup {NoDisk}]
        /\ \A listed \in ListDisks : listed \in SUBSET Path
        /\ 0 \in 0..DiskSize
    BY Sizes, Listed DEF TypeOK
  <1>1. wiz' \in WizardState
    <2>1. /\ \A listed \in ListDisks : FreshWizard(listed) \in WizardState
          /\ ClosedWizard \in WizardState
      BY <1>0, FreshWizardType, {} \in SUBSET Path
    <2>2. CASE OpenWizard
      BY <1>0, <2>1, <2>2 DEF OpenWizard
    <2>3. CASE LeaveWizard \/ BackToHome
      BY <1>0, <2>1, <2>3 DEF LeaveWizard, BackToHome, Wizard
    <2>4. CASE GetStarted \/ Refresh
      <3>1. ASSUME NEW offered \in SUBSET Path
            PROVE  /\ [wiz EXCEPT !.step = 1, !.offered = offered] \in WizardState
                   /\ [wiz EXCEPT !.offered = offered] \in WizardState
        <4>1. [wiz EXCEPT !.offered = offered] \in WizardState
          BY <1>0 DEF WizardState
        <4>2. ASSUME NEW v \in WizardState PROVE [v EXCEPT !.step = 1] \in WizardState
          BY DEF WizardState
        <4>3. [wiz EXCEPT !.step = 1, !.offered = offered]
                = [[wiz EXCEPT !.offered = offered] EXCEPT !.step = 1]
          OBVIOUS
        <4> QED
          BY <4>1, <4>2, <4>3
      <3> QED
        BY <1>0, <2>4, <3>1 DEF GetStarted, Refresh, Wizard
    <2>5. CASE PickRegion
      BY <1>0, <2>5 DEF PickRegion, Wizard, WizardState
    <2>6. CASE Continue
      BY <1>0, <2>6 DEF Continue, At, Wizard, WizardState
    <2>7. CASE Back \/ TryAgain
      BY <1>0, <2>7 DEF Back, TryAgain, Wizard, WizardState
    <2>8. ASSUME NEW p \in Path, SelectDisk(p) PROVE wiz' \in WizardState
      <3>1. ListFreeSpace(at[p]) \in 0..DiskSize
        BY <1>0, FreeSpaceType
      <3> QED
        BY <1>0, <2>8, <3>1 DEF SelectDisk, Wizard, WizardState
    <2>9. ASSUME NEW m \in {"erase", "alongside", "manual"}, SelectMode(m) PROVE wiz' \in WizardState
      <3>1. wiz.path \in Path
        BY <1>0, <2>9 DEF SelectMode, WizardState
      <3>2. ListFreeSpace(at[wiz.path]) \in 0..DiskSize
        BY <1>0, <3>1, FreeSpaceType
      <3> QED
        BY <1>0, <2>9, <3>2 DEF SelectMode, Wizard, WizardState
    <2>10. ASSUME NEW want \in SUBSET Extras, WantPartitions(want) PROVE wiz' \in WizardState
      BY <1>0, <2>10 DEF WantPartitions, Wizard, WizardState
    <2>11. ASSUME NEW b \in BOOLEAN, RequireSignIn(b) \/ TypeConfirmation(b) PROVE wiz' \in WizardState
      BY <1>0, <2>11 DEF RequireSignIn, TypeConfirmation, Wizard, WizardState
    <2> QED
      BY <2>2, <2>3, <2>4, <2>5, <2>6, <2>7, <2>8, <2>9, <2>10, <2>11 DEF WizardStep
  <1>2. UNCHANGED <<disks, at, mounted, running, script, staged, issued, installs, faults>>
    BY WizardFrame DEF backendVars, worldVars
  <1> QED
    BY <1>1, <1>2 DEF TypeOK

\* So do the start of an install, its script and its end.
LEMMA InstallStepType ==
  ASSUME TypeOK, InstallStep \/ ScriptStep
  PROVE  TypeOK'
  <1>0. /\ wiz \in WizardState /\ at \in [Path -> Disk \cup {NoDisk}]
        /\ NoCode \in Code \cup {NoCode}
    BY DEF TypeOK, WizardState
  <1>1. ASSUME NEW w \in WizardState, NEW ok \in BOOLEAN PROVE Finished(w, ok) \in WizardState
    <2>1. [w EXCEPT !.ok = ok, !.step = 6] \in WizardState
      <3>1. [w EXCEPT !.ok = ok] \in WizardState
        BY DEF WizardState
      <3>2. ASSUME NEW v \in WizardState PROVE [v EXCEPT !.step = 6] \in WizardState
        BY DEF WizardState
      <3>3. [w EXCEPT !.ok = ok, !.step = 6] = [[w EXCEPT !.ok = ok] EXCEPT !.step = 6]
        OBVIOUS
      <3> QED
        BY <3>1, <3>2, <3>3
    <2> QED
      BY <2>1 DEF Finished
  <1>2. ASSUME NEW code \in Code \cup {NoCode} PROVE WithCode(code) \in WizardState
    <2>1. [wiz EXCEPT !.code = code] \in WizardState
      BY <1>0 DEF WizardState
    <2> QED
      BY <1>0, <2>1 DEF WithCode
  <1>f. Fault \/ NoFault => faults' \in 0..MaxFaults
    BY Sizes DEF Fault, NoFault, TypeOK
  <1>3. CASE AlreadyRunning
    BY <1>0, <1>1, <1>3 DEF AlreadyRunning, TypeOK, worldVars, backendVars
  <1>4. ASSUME NEW code \in Code \cup {NoCode}, Refused(code) PROVE TypeOK'
    <2>1. issued' \subseteq Code
      BY <1>4 DEF Refused, Export, TypeOK
    <2>2. wiz' \in WizardState
      BY <1>1, <1>2, <1>4 DEF Refused
    <2>3. faults' \in 0..MaxFaults /\ staged' = NoCode
      BY <1>4, <1>f DEF Refused
    <2> QED
      BY <1>0, <1>4, <2>1, <2>2, <2>3 DEF Refused, TypeOK, worldVars
  <1>5. ASSUME NEW code \in Code \cup {NoCode}, StartInstall(code) PROVE TypeOK'
    <2>1. issued' \subseteq Code
      BY <1>5 DEF StartInstall, Export, TypeOK
    <2>2. wiz' \in WizardState
      <3> DEFINE w == WithCode(code)
      <3>1. wiz' = [w EXCEPT !.step = 5] /\ w \in WizardState
        BY <1>2, <1>5 DEF StartInstall
      <3> HIDE DEF w
      <3> QED
        BY <3>1 DEF WizardState
    <2>3. script' # NoScript => ScriptType(script')
      <3>1. CASE UNCHANGED script
        BY <3>1 DEF TypeOK, ScriptType
      <3>2. ASSUME NEW first \in FirstNumbers(at[wiz.path]), script' = Script(first, code)
            PROVE  ScriptType(script')
        <4>1. Checked
          BY <1>5, StartIsChecked
        <4>2. first \in Nat
          BY ChildrenType DEF FirstNumbers
        <4> QED
          BY <1>0, <3>2, <4>1, <4>2, ScriptIsWhole DEF Whole
      <3> QED
        BY <1>5, <3>1, <3>2 DEF StartInstall
    <2>4. installs' \in 0..MaxInstalls /\ running' \in BOOLEAN /\ staged' = code
      BY <1>5, Sizes DEF StartInstall, TypeOK
    <2> QED
      BY <1>0, <1>5, <2>1, <2>2, <2>3, <2>4 DEF StartInstall, TypeOK, ScriptType, worldVars
  <1>6. CASE RunCommand
    <2> DEFINE c == Head(script.todo)
    <2>1. /\ script # NoScript /\ script.todo # <<>> /\ script.todo \in Seq(Command)
          /\ CanRun(c, Target)
          /\ disks' = [disks EXCEPT ![Target] = DiskAfter(c, Target)]
          /\ mounted' = MountedAfter(c, Target)
          /\ script' = [script EXCEPT !.todo = Tail(@)]
          /\ script.path \in Path
      BY <1>6 DEF RunCommand, TypeOK
    <2>2. c \in Command /\ Tail(script.todo) \in Seq(Command)
      BY <2>1
    <2> HIDE DEF c
    <2>3. Target \in Disk
      BY <1>0, <2>1 DEF CanRun, Target
    <2>4. disks' \in [Disk -> DiskState]
      BY <2>1, <2>2, <2>3, DiskAfterType DEF TypeOK
    <2>5. mounted' \subseteq Disk
      BY <2>1, <2>3 DEF MountedAfter, TypeOK
    <2>6. script' # NoScript => ScriptType(script')
      BY <2>1, <2>2 DEF TypeOK, ScriptType
    <2> QED
      BY <1>6, <2>4, <2>5, <2>6 DEF RunCommand, TypeOK, ScriptType
  <1>7. CASE InstallSucceeds \/ InstallFails
    <2>1. PICK ok \in BOOLEAN : ScriptEnds(ok)
      BY <1>7 DEF InstallSucceeds, InstallFails
    <2>2. wiz' \in WizardState
      BY <1>0, <1>1, <2>1 DEF ScriptEnds
    <2>3. faults' \in 0..MaxFaults
      BY <1>7, <1>f DEF InstallSucceeds, InstallFails
    <2> QED
      BY <1>0, <2>1, <2>2, <2>3 DEF ScriptEnds, TypeOK, worldVars
  <1> QED
    BY <1>3, <1>4, <1>5, <1>6, <1>7 DEF InstallStep, ScriptStep

\* Every variable of the installer keeps its type.
THEOREM TypeCorrect == Spec => []TypeOK
  <1>1. TypeOK /\ [Next]_vars => TypeOK'
    <2> SUFFICES ASSUME TypeOK, [Next]_vars PROVE TypeOK'
      OBVIOUS
    <2>1. CASE \E p \in Path, d \in Disk \cup {NoDisk} : Replug(p, d)
      BY <2>1 DEF Replug, TypeOK, backendVars
    <2>2. CASE UNCHANGED vars
      BY <2>2 DEF vars, worldVars, backendVars, TypeOK
    <2> QED
      BY <2>1, <2>2, WizardStepType, InstallStepType DEF Next
  <1> QED
    BY <1>1, InstallerInitial, PTL DEF Spec

-----------------------------------------------------------------------------
(* Other people's partitions.                                              *)

\* Partition numbers without gaps, so that the count of the partitions is the
\* last number.
NoGaps(parts) ==
  \A n \in Num : parts[n].fs # "none" => \A m \in 1..n : parts[m].fs # "none"

\* The assumption about the disks: a gap, as in InstallerGaps.cfg, lets the
\* expected numbers fall on a partition that is there.
NoGapsAtFirst == \A disk \in Layouts : NoGaps(disk.parts)

\* A command that may run beside an existing system: it wipes nothing, and it
\* formats only beyond the partitions that belong to others.
Beyond(c, parts) ==
  /\ c.op # "wipe"
  /\ c.op = "mkfs" => \A n \in Num : parts[n].fs = "foreign" => n < c.num

\* What the script still has to do leaves the partitions of others alone,
\* and leaves no gap.
WritesBeyond ==
  /\ \A d \in Disk : NoGaps(disks[d].parts)
  /\ script # NoScript =>
       \A i \in DOMAIN script.todo :
         /\ Formats(script.todo[i])
         /\ script.mode # "erase" /\ Target # NoDisk
              => Beyond(script.todo[i], disks[Target].parts)

\* A command that formats as the script does makes no partition foreign and
\* no gap; one that keeps beyond the foreign partitions leaves them foreign.
LEMMA PartitionsAfter ==
  ASSUME TypeOK, NEW c \in Command, NEW d \in Disk, CanRun(c, d), Formats(c)
  PROVE  LET old == disks[d].parts  new == DiskAfter(c, d).parts
         IN  /\ \A n \in Num : new[n].fs = "foreign" => old[n].fs = "foreign"
             /\ NoGaps(old) => NoGaps(new)
             /\ Beyond(c, old) => \A n \in Num : old[n].fs = "foreign" => new[n].fs = "foreign"
  <1> DEFINE old == disks[d].parts
             new == DiskAfter(c, d).parts
  <1>1. /\ disks[d] \in DiskState /\ old \in [Num -> Partition]
        /\ DiskAfter(c, d) \in DiskState /\ new \in [Num -> Partition]
    BY DiskAfterType DEF TypeOK, DiskState
  <1>2. c.fs \in FileSystem /\ Num \subseteq Nat
    BY Sizes DEF Command
  <1>3. CASE c.op = "wipe"
    <2>1. \A n \in Num : new[n].fs = "none"
      BY <1>3 DEF DiskAfter, Bare
    <2> QED
      BY <1>3, <2>1 DEF NoGaps, Beyond
  <1>4. CASE c.op = "mkpart"
    <2>1. \A n \in Num : new[n].fs = IF IsLowestFree(n, d) THEN "raw" ELSE old[n].fs
      BY <1>4 DEF DiskAfter, WithPartition, Bare
    <2>2. \A n \in Num : n \in Existing(d) <=> old[n].fs # "none"
      BY DEF Existing
    <2> HIDE DEF old, new
    <2>3. \A n \in Num : new[n].fs = "foreign" <=> old[n].fs = "foreign"
      BY <2>1, <2>2 DEF IsLowestFree
    <2>4. ASSUME NoGaps(old), NEW n \in Num, new[n].fs # "none", NEW m \in 1..n
          PROVE  new[m].fs # "none"
      <3>1. m \in Num /\ m <= n
        BY Sizes DEF Num
      <3>2. CASE IsLowestFree(n, d)
        <4>1. m = n \/ m \in Existing(d)
          BY <3>1, <3>2, <1>2 DEF IsLowestFree
        <4> QED
          BY <2>1, <2>2, <3>1, <3>2, <4>1
      <3>3. CASE ~IsLowestFree(n, d)
        BY <2>1, <2>4, <3>1, <3>3 DEF NoGaps
      <3> QED
        BY <3>2, <3>3
    <2> QED
      BY <2>3, <2>4 DEF NoGaps, old, new
  <1>5. CASE c.op = "mkfs"
    <2>1. c.num \in Num /\ old[c.num].fs # "none" /\ c.fs \notin {"none", "foreign"}
      BY <1>5 DEF CanRun, Existing, Formats
    <2>2. \A n \in Num : new[n].fs = IF n = c.num THEN c.fs ELSE old[n].fs
      BY <1>1, <1>5, <2>1 DEF DiskAfter, Bare, DiskState
    <2>3. \A n \in Num : new[n].fs # "none" <=> old[n].fs # "none"
      BY <2>1, <2>2
    <2>4. NoGaps(old) => NoGaps(new)
      BY <2>3, Sizes DEF NoGaps, Num
    <2>5. Beyond(c, old) => \A n \in Num : old[n].fs = "foreign" => n < c.num
      BY <1>5 DEF Beyond
    <2> HIDE DEF old, new
    <2> QED
      BY <1>2, <2>1, <2>2, <2>4, <2>5 DEF old, new
  <1>6. CASE c.op \notin {"wipe", "mkpart", "mkfs"}
    <2>1. \A n \in Num : new[n].fs = old[n].fs
      <3>1. CASE c.op \notin {"clone", "account", "marker", "boot"}
        BY <1>6, <3>1 DEF DiskAfter
      <3>2. CASE c.op \in {"clone", "account", "marker", "boot"} /\ c.num \in Num
        <4>1. old[c.num] \in Partition
          BY <1>1, <3>2
        <4>2. \A n \in Num : n # c.num => new[n] = old[n]
          BY <1>1, <3>2 DEF DiskAfter, DiskState
        <4>3. new[c.num].fs = old[c.num].fs
          BY <1>1, <3>2, <4>1 DEF DiskAfter, DiskState, Partition
        <4> QED
          BY <4>2, <4>3
      <3>3. CASE c.op \in {"clone", "account", "marker", "boot"} /\ c.num \notin Num
        BY <1>1, <3>3 DEF DiskAfter, DiskState
      <3> QED
        BY <3>1, <3>2, <3>3
    <2>2. NoGaps(old) => NoGaps(new)
      BY <2>1, Sizes DEF NoGaps, Num
    <2> QED
      BY <2>1, <2>2
  <1> QED
    BY <1>3, <1>4, <1>5, <1>6

\* Without gaps a foreign partition is one of the first that lsblk lists.
LEMMA ForeignAreCounted ==
  ASSUME TypeOK, NEW d \in Disk, NoGaps(disks[d].parts), NEW n \in Num,
         disks[d].parts[n].fs = "foreign"
  PROVE  n <= Children(d)
  <1>1. 1..n \subseteq Existing(d) /\ n \in Nat
    <2>1. n \in Nat /\ \A m \in 1..n : m \in Num
      BY Sizes DEF Num
    <2> QED
      BY <2>1 DEF Existing, NoGaps
  <1>2. IsFiniteSet(Existing(d))
    BY Sizes, FS_Subset DEF Existing
  <1>3. Cardinality(1..n) = n
    <2>1. Cardinality(1..n) = IF 1 > n THEN 0 ELSE n - 1 + 1
      BY <1>1, FS_Interval
    <2> QED
      BY <1>1, <2>1
  <1>4. n <= Cardinality(Existing(d)) /\ Cardinality(Existing(d)) \in Nat
    BY <1>1, <1>2, <1>3, FS_Subset, FS_CardinalityType
  <1> DEFINE i == Cardinality(Existing(d))
             j == Cardinality({k \in Num : disks[d].parts[k].fs = "foreign"})
  <1>5. j \in Nat
    BY Sizes, FS_Subset, FS_CardinalityType
  <1>6. Children(d) = i + Mapped * j /\ i \in Nat /\ n <= i
    BY <1>4 DEF Children
  <1> HIDE DEF i, j
  <1>7. Mapped * j \in Nat
    BY <1>5, Sizes, Z3
  <1> DEFINE k == Mapped * j
  <1> HIDE DEF k
  <1>8. k \in Nat /\ Children(d) = i + k
    BY <1>6, <1>7 DEF k
  <1> QED
    BY <1>1, <1>6, <1>8

\* The commands that remain after the first.
LEMMA TailOf ==
  ASSUME NEW T, NEW todo \in Seq(T), todo # <<>>
  PROVE  /\ Tail(todo) \in Seq(T) /\ 1 \in DOMAIN todo /\ Head(todo) = todo[1]
         /\ DOMAIN todo \subseteq Nat \ {0} /\ DOMAIN Tail(todo) \subseteq Nat \ {0}
         /\ \A i \in DOMAIN Tail(todo) : i + 1 \in DOMAIN todo /\ Tail(todo)[i] = todo[i + 1]
         /\ \A i \in DOMAIN todo :
              i = 1 \/ (i - 1 \in DOMAIN Tail(todo) /\ Tail(todo)[i - 1] = todo[i])
  <1> DEFINE rest == Tail(todo)
             n == Len(todo)
             m == Len(rest)
  <1>1. /\ rest \in Seq(T) /\ m = n - 1 /\ \A i \in 1..m : rest[i] = todo[i + 1]
        /\ n \in Nat /\ n # 0 /\ Head(todo) = todo[1]
    BY HeadTailProperties, LenProperties, EmptySeq
  <1>2. DOMAIN todo = 1..n /\ DOMAIN rest = 1..m
    BY <1>1, LenProperties
  <1> HIDE DEF rest, n, m
  <1>3. \A i \in 1..n : i = 1 \/ (i - 1 \in 1..m /\ rest[i - 1] = todo[i])
    <2> SUFFICES ASSUME NEW i \in 1..n, i # 1 PROVE i - 1 \in 1..m /\ rest[i - 1] = todo[i]
      OBVIOUS
    <2>1. i - 1 \in 1..m /\ (i - 1) + 1 = i
      BY <1>1
    <2> QED
      BY <1>1, <2>1
  <1>4. \A i \in 1..m : i + 1 \in 1..n /\ rest[i] = todo[i + 1]
    BY <1>1
  <1> QED
    BY <1>1, <1>2, <1>3, <1>4 DEF rest

\* A foreign partition stays one, but for an erasing install of its disk.
ForeignKept ==
  \A d \in Disk, n \in Num :
    disks[d].parts[n].fs = "foreign" =>
      \/ disks'[d].parts[n].fs = "foreign"
      \/ script # NoScript /\ script.mode = "erase" /\ Target = d

\* A script is begun with numbers beyond all foreign partitions, and each of
\* its commands leaves the rest of it so.
LEMMA BeyondStep ==
  ASSUME LsblkMayFail = FALSE, TypeOK, WritesBeyond, [Next]_vars
  PROVE  WritesBeyond' /\ ForeignKept
  <1>1. CASE UNCHANGED <<disks, at, script>>
    BY <1>1 DEF WritesBeyond, ForeignKept, Target
  <1>2. CASE UNCHANGED disks /\ script' = NoScript
    BY <1>2 DEF WritesBeyond, ForeignKept
  <1>3. CASE WizardStep \/ UNCHANGED vars
    BY <1>1, <1>3, WizardFrame DEF vars, worldVars, backendVars
  <1>4. ASSUME NEW code \in Code \cup {NoCode}, StartInstall(code)
        PROVE  WritesBeyond' /\ ForeignKept
    <2>1. /\ UNCHANGED <<disks, at>> /\ Checked /\ wiz \in WizardState
          /\ wiz.path \in Path /\ at[wiz.path] \in Disk
      BY <1>4, StartIsChecked DEF StartInstall, Checked, worldVars, TypeOK
    <2>2. ASSUME NEW first \in FirstNumbers(at[wiz.path]), script' = Script(first, code)
          PROVE  WritesBeyond' /\ ForeignKept
      <3> DEFINE d == at[wiz.path]
      <3>1. first = Children(d) + 1 /\ Children(d) \in Nat
        BY ChildrenType DEF FirstNumbers
      <3>1a. first \in Nat
        BY <3>1
      <3>2. Whole(script', first)
        BY <2>1, <2>2, <3>1a, ScriptIsWhole
      <3>3. Target' = d
        BY <2>1, <3>2 DEF Whole, Target
      <3>4. \A n \in Num : disks[d].parts[n].fs = "foreign" => n < first
        <4> SUFFICES ASSUME NEW n \in Num, disks[d].parts[n].fs = "foreign" PROVE n < first
          OBVIOUS
        <4>1. n <= Children(d) /\ n \in Nat
          BY <2>1, ForeignAreCounted, Sizes DEF WritesBeyond
        <4> QED
          BY <3>1, <4>1
      <3>5. ASSUME NEW i \in DOMAIN script'.todo
            PROVE  /\ Formats(script'.todo[i])
                   /\ script'.mode # "erase" => Beyond(script'.todo[i], disks[d].parts)
        <4> DEFINE c == script'.todo[i]
        <4>1. /\ Formats(c)
              /\ script'.mode # "erase" => c.op # "wipe" /\ (c.op = "mkfs" => c.num >= first)
          BY <3>2 DEF Whole
        <4>2. c \in Command /\ c.num \in Nat
          <5>1. c \in Command
            BY <3>2 DEF Whole, ScriptType
          <5> QED
            BY <5>1 DEF Command
        <4> HIDE DEF c, d
        <4>3. ASSUME c.num >= first, NEW n \in Num, disks[d].parts[n].fs = "foreign"
              PROVE  n < c.num
          <5>1. n < first /\ n \in Nat
            BY <3>4, <4>3, Sizes
          <5> QED
            BY <3>1a, <4>2, <4>3, <5>1
        <4> QED
          BY <4>1, <4>3 DEF Beyond, c
      <3> QED
        BY <2>1, <3>3, <3>5 DEF WritesBeyond, ForeignKept
    <2> QED
      BY <1>1, <1>4, <2>1, <2>2 DEF StartInstall
  <1>5. CASE AlreadyRunning \/ \E code \in Code \cup {NoCode} : Refused(code)
    BY <1>1, <1>5 DEF AlreadyRunning, Refused, worldVars, backendVars
  <1>6. CASE RunCommand
    <2> DEFINE c == Head(script.todo)
               d == Target
               new == DiskAfter(c, d).parts
               old == disks[d].parts
    <2>1. /\ script # NoScript /\ script.todo # <<>> /\ script.todo \in Seq(Command)
          /\ CanRun(c, d) /\ UNCHANGED at
          /\ disks' = [disks EXCEPT ![d] = DiskAfter(c, d)]
          /\ script' = [script EXCEPT !.todo = Tail(@)]
          /\ script.path \in Path
      BY <1>6 DEF RunCommand, TypeOK
    <2>2. d \in Disk /\ d # NoDisk
      BY <2>1 DEF CanRun, Target, TypeOK
    <2>3. /\ c \in Command /\ 1 \in DOMAIN script.todo /\ c = script.todo[1]
          /\ \A i \in DOMAIN Tail(script.todo) :
               i + 1 \in DOMAIN script.todo /\ Tail(script.todo)[i] = script.todo[i + 1]
      BY <2>1, TailOf
    <2>4. /\ Formats(c) /\ NoGaps(old)
          /\ script.mode # "erase" => Beyond(c, old)
      BY <2>1, <2>2, <2>3 DEF WritesBeyond
    <2>5. /\ \A n \in Num : new[n].fs = "foreign" => old[n].fs = "foreign"
          /\ NoGaps(new)
          /\ Beyond(c, old) => \A n \in Num : old[n].fs = "foreign" => new[n].fs = "foreign"
      <3>1. CanRun(c, d) /\ Formats(c) /\ c \in Command /\ d \in Disk /\ NoGaps(old)
        BY <2>1, <2>2, <2>3, <2>4
      <3> HIDE DEF c, d
      <3> QED
        BY <3>1, PartitionsAfter
    <2>6. disks' \in [Disk -> DiskState] /\ disks'[d].parts = new
          /\ \A e \in Disk \ {d} : disks'[e] = disks[e]
      BY <2>1, <2>2, <2>3, DiskAfterType DEF TypeOK
    <2>7. /\ script'.todo = Tail(script.todo) /\ script'.mode = script.mode /\ Target' = d
      BY <2>1 DEF TypeOK, Target
    <2>8. ForeignKept
      <3> SUFFICES ASSUME NEW e \in Disk, NEW n \in Num, disks[e].parts[n].fs = "foreign"
                   PROVE  \/ disks'[e].parts[n].fs = "foreign"
                          \/ script.mode = "erase" /\ e = d
        BY <2>1 DEF ForeignKept
      <3> HIDE DEF c, d, new
      <3>1. CASE e = d
        <4>1. old[n].fs = "foreign"
          BY <3>1
        <4> HIDE DEF old
        <4> QED
          BY <2>4, <2>5, <2>6, <3>1, <4>1
      <3>2. CASE e # d
        BY <2>6, <3>2
      <3> QED
        BY <3>1, <3>2
    <2>9. \A e \in Disk : NoGaps(disks'[e].parts)
      BY <2>5, <2>6 DEF WritesBeyond
    <2>10. ASSUME NEW i \in DOMAIN Tail(script.todo)
           PROVE  /\ Formats(Tail(script.todo)[i])
                  /\ script.mode # "erase" => Beyond(Tail(script.todo)[i], new)
      <3> DEFINE e == Tail(script.todo)[i]
      <3>1. Formats(e) /\ (script.mode # "erase" => Beyond(e, old))
        BY <2>1, <2>2, <2>3 DEF WritesBeyond
      <3> HIDE DEF e, old, new
      <3> QED
        BY <2>5, <3>1 DEF Beyond, e
    <2> HIDE DEF new
    <2> QED
      BY <2>6, <2>7, <2>8, <2>9, <2>10 DEF WritesBeyond
  <1>7. CASE InstallSucceeds \/ InstallFails
    BY <1>2, <1>7 DEF InstallSucceeds, InstallFails, ScriptEnds, worldVars
  <1>8. ASSUME NEW p \in Path, NEW d \in Disk \cup {NoDisk}, Replug(p, d)
        PROVE  WritesBeyond' /\ ForeignKept
    BY <1>2, <1>8 DEF Replug, backendVars
  <1> QED
    BY <1>3, <1>4, <1>5, <1>6, <1>7, <1>8 DEF Next, InstallStep, ScriptStep

\* Whatever fails and is tried again, an install beside another system leaves
\* that system's partitions alone: if the disks come without gaps in their
\* numbering and lsblk answers in time.  Without either it does not.
THEOREM OtherSystemsUntouched ==
  ASSUME LsblkMayFail = FALSE, NoGapsAtFirst
  PROVE  Spec => ForeignUntouched
  <1>1. Init => WritesBeyond
    BY DEF Init, WritesBeyond, NoGapsAtFirst
  <1>2. TypeOK /\ WritesBeyond /\ [Next]_vars => WritesBeyond' /\ ForeignKept
    BY BeyondStep
  <1> QED
    BY <1>1, <1>2, TypeCorrect, PTL DEF Spec, ForeignUntouched, ForeignKept

-----------------------------------------------------------------------------
(* The success of an install.                                              *)

\* What the partition holds after the clone, but for what is left to do.
Filled(p, todo, code) ==
  /\ p.cloned
  /\ p.marker \/ Left("marker", todo)
  /\ p.boot \/ Left("boot", todo)
  /\ p.code = code \/ (code = NoCode /\ p.code = LiveAccount) \/ Left("account", todo)

\* The state of a script between two commands.
Progress ==
  script # NoScript =>
    /\ running /\ staged = script.code
    /\ InOrder(script.todo) /\ Complete(script.todo, script.code)
    /\ \A i \in DOMAIN script.todo : OnTheRoot(script.todo[i], script.root)
    /\ ~Left("clone", script.todo) =>
         /\ Target # NoDisk /\ script.root \in Num
         /\ Filled(disks[Target].parts[script.root], script.todo, script.code)

\* A script in order that ran its first command is in order, and what it has
\* left but for that command is left.
LEMMA TodoAfter ==
  ASSUME NEW T, NEW todo \in Seq(T), todo # <<>>, NEW code, InOrder(todo), Complete(todo, code)
  PROVE  LET c == Head(todo)  rest == Tail(todo)
         IN  /\ InOrder(rest) /\ Complete(rest, code)
             /\ \A op : Left(op, todo) => op = c.op \/ Left(op, rest)
             /\ c.op = "clone" => ~Left("clone", rest)
             /\ ~Left("clone", todo) => c.op \in AfterClone
  <1> DEFINE c == Head(todo)
             rest == Tail(todo)
  <1>1. /\ 1 \in DOMAIN todo /\ c = todo[1]
        /\ DOMAIN todo \subseteq Nat \ {0} /\ DOMAIN rest \subseteq Nat \ {0}
        /\ \A i \in DOMAIN rest : i + 1 \in DOMAIN todo /\ rest[i] = todo[i + 1]
        /\ \A i \in DOMAIN todo : i = 1 \/ (i - 1 \in DOMAIN rest /\ rest[i - 1] = todo[i])
    BY TailOf
  <1> HIDE DEF c, rest
  <1>2. ASSUME NEW op, Left(op, todo) PROVE op = c.op \/ Left(op, rest)
    BY <1>1, <1>2 DEF Left
  <1>3. ASSUME NEW op, Left(op, rest) PROVE Left(op, todo)
    BY <1>1, <1>3 DEF Left
  <1>4. InOrder(rest)
    <2> SUFFICES ASSUME NEW i \in DOMAIN rest, rest[i].op \in AfterClone \cup {"clone"},
                        NEW j \in DOMAIN rest, i < j
                 PROVE  rest[j].op \in AfterClone
      BY DEF InOrder
    <2>1. i + 1 < j + 1
      BY <1>1
    <2> QED
      BY <1>1, <2>1 DEF InOrder
  <1>5. ASSUME c.op \in AfterClone \cup {"clone"}
        PROVE  \A i \in DOMAIN rest : rest[i].op \in AfterClone
    <2> SUFFICES ASSUME NEW i \in DOMAIN rest PROVE rest[i].op \in AfterClone
      OBVIOUS
    <2>1. 1 < i + 1
      BY <1>1
    <2> QED
      BY <1>1, <1>5, <2>1 DEF InOrder
  <1>6. c.op \in AfterClone \cup {"clone"} => ~Left("clone", rest)
    BY <1>5 DEF Left, AfterClone
  <1>7. ~Left("clone", todo) => c.op \in AfterClone
    BY <1>1 DEF Complete
  <1>8. Complete(rest, code)
    <2>1. CASE Left("clone", rest)
      <3>1. Left("clone", todo) /\ c.op \notin AfterClone
        BY <1>3, <1>6, <2>1
      <3> QED
        BY <1>2, <2>1, <3>1 DEF Complete, AfterClone
    <2>2. CASE ~Left("clone", rest)
      <3>1. c.op = "clone" \/ ~Left("clone", todo)
        BY <1>2, <2>2
      <3> QED
        BY <1>5, <1>7, <2>2, <3>1 DEF Complete
    <2> QED
      BY <2>1, <2>2
  <1> QED
    BY <1>2, <1>4, <1>6, <1>7, <1>8 DEF c, rest

\* A command that runs keeps what was done before it and does its own part.
LEMMA FilledAfter ==
  ASSUME TypeOK, Progress, RunCommand, ~Left("clone", Tail(script.todo))
  PROVE  /\ Target # NoDisk /\ script.root \in Num
         /\ Filled(disks'[Target].parts[script.root], Tail(script.todo), script.code)
  <1> DEFINE c == Head(script.todo)
             d == Target
             n == script.root
             rest == Tail(script.todo)
             p == disks[d].parts[n]
             q == disks'[d].parts[n]
  <1>1. /\ script # NoScript /\ script.todo # <<>> /\ script.todo \in Seq(Command)
        /\ CanRun(c, d) /\ script.path \in Path
        /\ disks' = [disks EXCEPT ![d] = DiskAfter(c, d)]
    BY DEF RunCommand, TypeOK
  <1>2. /\ 1 \in DOMAIN script.todo /\ c = script.todo[1] /\ c \in Command
    BY <1>1, TailOf
  <1>3. OnTheRoot(c, n) /\ staged = script.code
    BY <1>1, <1>2 DEF Progress
  <1>4. /\ \A op : Left(op, script.todo) => op = c.op \/ Left(op, rest)
        /\ ~Left("clone", script.todo) => c.op \in AfterClone
    BY <1>1, TodoAfter DEF Progress
  <1>5. d \in Disk /\ d # NoDisk
    BY <1>1 DEF CanRun, Target, TypeOK
  <1>6. disks[d] \in DiskState /\ disks[d].parts \in [Num -> Partition]
    BY <1>5 DEF TypeOK, DiskState
  <1>7. q = DiskAfter(c, d).parts[n]
    BY <1>1, <1>5 DEF TypeOK
  <1>8. c.op \in {"clone", "account", "marker", "boot"} => c.num = n /\ n \in Num
    BY <1>1, <1>3 DEF OnTheRoot, CanRun
  <1>9. CASE c.op = "clone"
    <2>1. q.cloned /\ q.code = LiveAccount
      BY <1>6, <1>7, <1>8, <1>9 DEF DiskAfter, DiskState, Partition
    <2>2. /\ Left("marker", script.todo) /\ Left("boot", script.todo)
          /\ script.code # NoCode => Left("account", script.todo)
      BY <1>1, <1>2, <1>9 DEF Progress, Complete, Left
    <2>3. Left("marker", rest) /\ Left("boot", rest) /\ (script.code # NoCode => Left("account", rest))
      BY <1>4, <1>9, <2>2
    <2> QED
      BY <1>5, <1>8, <1>9, <2>1, <2>3 DEF Filled
  <1>10. CASE c.op # "clone"
    <2>1. ~Left("clone", script.todo) /\ c.op \in AfterClone
      BY <1>4, <1>10
    <2>2. n \in Num /\ Filled(p, script.todo, script.code) /\ p \in Partition
      BY <1>1, <1>6, <2>1 DEF Progress
    <2>3. CASE c.op = "account"
      <3>1. q = [p EXCEPT !.code = staged]
        BY <1>6, <1>7, <1>8, <2>3 DEF DiskAfter, DiskState
      <3> HIDE DEF p, q, rest
      <3>2. q.code = script.code /\ q.cloned = p.cloned /\ q.marker = p.marker /\ q.boot = p.boot
        BY <1>3, <2>2, <3>1 DEF Partition
      <3> QED
        BY <1>4, <1>5, <2>2, <2>3, <3>2 DEF Filled, q, rest
    <2>4. CASE c.op = "marker"
      <3>1. q = [p EXCEPT !.marker = TRUE]
        BY <1>6, <1>7, <1>8, <2>4 DEF DiskAfter, DiskState
      <3> HIDE DEF p, q, rest
      <3>2. q.code = p.code /\ q.cloned = p.cloned /\ q.marker = TRUE /\ q.boot = p.boot
        BY <2>2, <3>1 DEF Partition
      <3> QED
        BY <1>4, <1>5, <2>2, <2>4, <3>2 DEF Filled, q, rest
    <2>5. CASE c.op = "boot"
      <3>1. q = [p EXCEPT !.boot = TRUE]
        BY <1>6, <1>7, <1>8, <2>5 DEF DiskAfter, DiskState
      <3> HIDE DEF p, q, rest
      <3>2. q.code = p.code /\ q.cloned = p.cloned /\ q.marker = p.marker /\ q.boot = TRUE
        BY <2>2, <3>1 DEF Partition
      <3> QED
        BY <1>4, <1>5, <2>2, <2>5, <3>2 DEF Filled, q, rest
    <2>6. CASE c.op = "unmount"
      <3>1. q = p
        BY <1>7, <2>6 DEF DiskAfter
      <3> HIDE DEF p, q, rest
      <3> QED
        BY <1>4, <1>5, <2>2, <2>6, <3>1 DEF Filled, q, rest
    <2> QED
      BY <2>1, <2>3, <2>4, <2>5, <2>6 DEF AfterClone
  <1> QED
    BY <1>9, <1>10

\* Every step keeps the state of the script: only commands change the target.
LEMMA ProgressStep ==
  ASSUME TypeOK, Progress, [Next]_vars
  PROVE  Progress'
  <1>1. CASE UNCHANGED <<disks, at, running, script, staged>>
    BY <1>1 DEF Progress, Target
  <1>2. CASE script' = NoScript
    BY <1>2 DEF Progress
  <1>3. CASE WizardStep \/ UNCHANGED vars
    BY <1>1, <1>3, WizardFrame DEF vars, worldVars, backendVars
  <1>4. ASSUME NEW code \in Code \cup {NoCode}, StartInstall(code) PROVE Progress'
    <2>1. /\ Checked /\ wiz \in WizardState /\ at[wiz.path] \in Disk /\ script = NoScript
          /\ running' = TRUE /\ staged' = code
      BY <1>4, StartIsChecked DEF StartInstall, Checked, TypeOK, Progress
    <2>2. ASSUME NEW first \in FirstNumbers(at[wiz.path]), script' = Script(first, code)
          PROVE  Progress'
      <3>1. first \in Nat
        BY ChildrenType DEF FirstNumbers
      <3>2. Whole(script', first) /\ script'.code = code
        BY <2>1, <2>2, <3>1, ScriptIsWhole
      <3> QED
        BY <2>1, <3>2 DEF Whole, Progress
    <2> QED
      BY <1>2, <1>4, <2>1, <2>2 DEF StartInstall
  <1>5. CASE AlreadyRunning
    BY <1>1, <1>5 DEF AlreadyRunning, worldVars, backendVars
  <1>6. ASSUME NEW code \in Code \cup {NoCode}, Refused(code) PROVE Progress'
    BY <1>2, <1>6 DEF Refused, Progress
  <1>7. CASE RunCommand
    <2>1. /\ script # NoScript /\ script.todo # <<>> /\ script.todo \in Seq(Command)
          /\ UNCHANGED <<at, running, staged>>
          /\ script' = [script EXCEPT !.todo = Tail(@)]
      BY <1>7 DEF RunCommand, TypeOK
    <2>2. /\ script'.todo = Tail(script.todo) /\ script'.code = script.code
          /\ script'.root = script.root /\ Target' = Target
      BY <2>1 DEF TypeOK, Target
    <2>3. InOrder(Tail(script.todo)) /\ Complete(Tail(script.todo), script.code)
      BY <2>1, TodoAfter DEF Progress
    <2>4. \A i \in DOMAIN Tail(script.todo) : OnTheRoot(Tail(script.todo)[i], script.root)
      BY <2>1, TailOf DEF Progress
    <2> QED
      BY <1>7, <2>1, <2>2, <2>3, <2>4, FilledAfter DEF Progress
  <1>8. CASE InstallSucceeds \/ InstallFails
    BY <1>2, <1>8 DEF InstallSucceeds, InstallFails, ScriptEnds
  <1>9. ASSUME NEW p \in Path, NEW d \in Disk \cup {NoDisk}, Replug(p, d) PROVE Progress'
    BY <1>2, <1>9 DEF Replug, backendVars
  <1> QED
    BY <1>3, <1>4, <1>5, <1>6, <1>7, <1>8, <1>9 DEF Next, InstallStep, ScriptStep

\* A script with nothing left to do has installed what was asked for.
LEMMA AllDone ==
  ASSUME Progress, script # NoScript, script.todo = <<>>
  PROVE  /\ Target # NoDisk /\ script.root \in Num
         /\ LET p == disks[Target].parts[script.root]
            IN  /\ p.cloned /\ p.marker /\ p.boot
                /\ p.code = script.code \/ (script.code = NoCode /\ p.code = LiveAccount)
  <1>1. \A op : ~Left(op, script.todo)
    BY DEF Left
  <1> QED
    BY <1>1 DEF Progress, Filled

\* Where a script is at is known in every state.
LEMMA ProgressAlways == Spec => []Progress
  <1>1. Init => Progress
    BY DEF Init, Progress
  <1>2. TypeOK /\ Progress /\ [Next]_vars => Progress'
    BY ProgressStep
  <1> QED
    BY <1>1, <1>2, TypeCorrect, PTL DEF Spec

\* What installFinished(true) announces is true, if the running system has no
\* account of its own, as on the live image.  (Otherwise an install without an
\* account would clone that one along.)
THEOREM SuccessIsTrue ==
  ASSUME LiveAccount = NoCode
  PROVE  Spec => SuccessMeansInstalled
  <1> DEFINE Truth == InstallSucceeds =>
               Target # NoDisk /\ script.root \in Num /\
               LET p == disks[Target].parts[script.root]
               IN  p.cloned /\ p.marker /\ p.boot /\ p.code = script.code
  <1>1. Progress => Truth
    BY AllDone DEF InstallSucceeds
  <1> QED
    BY <1>1, ProgressAlways, PTL DEF SuccessMeansInstalled, Spec

-----------------------------------------------------------------------------
(* The recovery code on the result screen.                                 *)

\* The wizard's code is the script's while its progress is shown; a wizard
\* that was opened since has none.
CodeOfWizard ==
  script # NoScript =>
    /\ wiz.open /\ wiz.step # 5 => wiz.code = NoCode
    /\ At(5) /\ wiz.account => wiz.code = script.code
    /\ At(6) => ~wiz.ok

\* No handler of the wizard leads to the progress or to the result, and none
\* brings up a code: a wizard that is opened has none.
LEMMA WizardCode ==
  ASSUME TypeOK, WizardStep, wiz'.open
  PROVE  /\ wiz'.step \notin {5, 6}
         /\ wiz'.code = NoCode \/ (wiz.open /\ wiz.step # 5 /\ wiz'.code = wiz.code)
  <1>1. wiz \in WizardState
    BY DEF TypeOK
  <1>2. CASE OpenWizard
    BY <1>2 DEF OpenWizard, FreshWizard
  <1>3. CASE LeaveWizard \/ BackToHome
    BY <1>3 DEF LeaveWizard, BackToHome, Wizard, ClosedWizard, FreshWizard
  <1>4. CASE GetStarted \/ Refresh \/ PickRegion
    <2>1. /\ wiz.open /\ wiz.step \in {0, 1} /\ wiz'.code = wiz.code
          /\ wiz'.step = 1
      <3>1. CASE GetStarted
        BY <1>1, <3>1 DEF GetStarted, Wizard, At, WizardState
      <3>2. CASE Refresh
        BY <1>1, <3>2 DEF Refresh, Wizard, At, WizardState
      <3>3. CASE PickRegion
        BY <1>1, <3>3 DEF PickRegion, Wizard, At, WizardState
      <3> QED
        BY <1>4, <3>1, <3>2, <3>3
    <2> QED
      BY <2>1
  <1>5. CASE Continue
    BY <1>1, <1>5 DEF Continue, Wizard, At, WizardState
  <1>6. CASE Back \/ TryAgain
    BY <1>1, <1>6 DEF Back, TryAgain, Wizard, At, WizardState
  <1>7. ASSUME NEW p \in Path, SelectDisk(p)
        PROVE  /\ wiz'.step \notin {5, 6}
               /\ wiz.open /\ wiz.step # 5 /\ wiz'.code = wiz.code
    BY <1>1, <1>7 DEF SelectDisk, Wizard, At, WizardState
  <1>8. ASSUME NEW m \in {"erase", "alongside", "manual"}, SelectMode(m)
        PROVE  /\ wiz'.step \notin {5, 6}
               /\ wiz.open /\ wiz.step # 5 /\ wiz'.code = wiz.code
    BY <1>1, <1>8 DEF SelectMode, Wizard, At, WizardState
  <1>9. ASSUME NEW want \in SUBSET Extras, WantPartitions(want)
        PROVE  /\ wiz'.step \notin {5, 6}
               /\ wiz.open /\ wiz.step # 5 /\ wiz'.code = wiz.code
    BY <1>1, <1>9 DEF WantPartitions, Wizard, At, WizardState
  <1>10. ASSUME NEW b \in BOOLEAN, RequireSignIn(b) \/ TypeConfirmation(b)
         PROVE  /\ wiz'.step \notin {5, 6}
                /\ wiz.open /\ wiz.step # 5 /\ wiz'.code = wiz.code
    BY <1>1, <1>10 DEF RequireSignIn, TypeConfirmation, Wizard, At, WizardState
  <1> QED
    BY <1>2, <1>3, <1>4, <1>5, <1>6, <1>7, <1>8, <1>9, <1>10 DEF WizardStep

\* The code of the wizard follows the script, and a code that is shown is that
\* of a script with nothing left to do.
LEMMA CodeStep ==
  ASSUME TypeOK, Progress, CodeOfWizard, ShownCodeOpensTarget, [Next]_vars
  PROVE  CodeOfWizard' /\ ShownCodeOpensTarget'
  <1>0. wiz \in WizardState
    BY DEF TypeOK
  <1>1. CASE UNCHANGED <<disks, script, wiz>>
    BY <1>1 DEF CodeOfWizard, ShownCodeOpensTarget, ShownCode, At
  <1>2. ASSUME ~At(6)' \/ ~wiz'.ok PROVE ShownCodeOpensTarget'
    BY <1>2 DEF ShownCodeOpensTarget, ShownCode
  <1>3. CASE WizardStep
    <2>1. UNCHANGED script
      BY <1>3, WizardFrame DEF backendVars
    <2>2. wiz'.open => /\ wiz'.step \notin {5, 6}
                       /\ wiz'.code = NoCode \/ (wiz.open /\ wiz.step # 5 /\ wiz'.code = wiz.code)
      BY <1>3, WizardCode
    <2> QED
      BY <1>2, <2>1, <2>2 DEF CodeOfWizard, At
  <1>4. CASE AlreadyRunning
    <2>1. /\ At(4) /\ UNCHANGED script /\ wiz' = [wiz EXCEPT !.ok = FALSE, !.step = 6]
      BY <1>4 DEF AlreadyRunning, TapInstall, Finished, At, backendVars
    <2>2. wiz'.step = 6 /\ wiz'.ok = FALSE /\ wiz'.code = wiz.code
      BY <1>0, <2>1 DEF WizardState
    <2> QED
      BY <1>2, <2>1, <2>2 DEF CodeOfWizard, At
  <1>5. ASSUME NEW code \in Code \cup {NoCode}, Refused(code)
        PROVE  CodeOfWizard' /\ ShownCodeOpensTarget'
    <2>1. script' = NoScript /\ wiz.open /\ wiz' = Finished(WithCode(code), FALSE)
      BY <1>5 DEF Refused, TapInstall, At, Progress
    <2>2. wiz'.ok = FALSE
      BY <1>0, <2>1 DEF Finished, WithCode, WizardState
    <2> QED
      BY <1>2, <2>1, <2>2 DEF CodeOfWizard
  <1>6. ASSUME NEW code \in Code \cup {NoCode}, StartInstall(code)
        PROVE  CodeOfWizard' /\ ShownCodeOpensTarget'
    <2>1. script = NoScript /\ wiz' = [WithCode(code) EXCEPT !.step = 5]
      BY <1>6 DEF StartInstall, Progress
    <2>2. /\ wiz'.step = 5 /\ wiz'.account = wiz.account
          /\ code # NoCode => wiz'.code = code
      BY <1>0, <2>1 DEF WithCode, WizardState
    <2>3. wiz.account => code # NoCode
      BY <1>6, NamesAssumption DEF StartInstall, Export
    <2>4. script' # NoScript => script'.code = code
      BY <1>6, <2>1 DEF StartInstall, Script
    <2> QED
      BY <1>2, <2>2, <2>3, <2>4 DEF CodeOfWizard, At
  <1>7. CASE RunCommand
    <2>1. UNCHANGED wiz /\ script # NoScript /\ script'.code = script.code
      BY <1>7 DEF RunCommand, TypeOK
    <2> QED
      BY <1>2, <2>1 DEF CodeOfWizard, At
  <1>8. CASE InstallFails
    <2>1. script' = NoScript /\ wiz' = Finished(wiz, FALSE)
      BY <1>8 DEF InstallFails, ScriptEnds
    <2>2. ~wiz'.open \/ ~wiz'.ok
      BY <1>0, <2>1 DEF Finished, WizardState
    <2> QED
      BY <1>2, <2>1, <2>2 DEF CodeOfWizard, At
  <1>9. CASE InstallSucceeds
    <2>1. /\ script # NoScript /\ script.todo = <<>> /\ script' = NoScript
          /\ wiz' = Finished(wiz, TRUE) /\ UNCHANGED <<disks, at>>
          /\ script.path \in Path /\ at[script.path] \in Disk \cup {NoDisk}
      BY <1>9 DEF InstallSucceeds, ScriptEnds, worldVars, TypeOK
    <2>2. CodeOfWizard'
      BY <2>1 DEF CodeOfWizard
    <2>3. ASSUME ShownCode' # NoCode
          PROVE  ShownCode' = script.code
      <3>1. wiz'.open /\ wiz'.account /\ wiz'.code = ShownCode'
        BY <2>3 DEF ShownCode, At
      <3>2. wiz.open /\ wiz'.account = wiz.account /\ wiz'.code = wiz.code
        BY <1>0, <2>1, <3>1 DEF Finished, WizardState
      <3> QED
        BY <2>1, <2>3, <3>1, <3>2 DEF CodeOfWizard, At
    <2>4. ASSUME ShownCode' # NoCode
          PROVE  /\ Target \in Disk /\ script.root \in Num
                 /\ LET p == disks[Target].parts[script.root]
                    IN  p.cloned /\ p.boot /\ p.code = ShownCode'
      BY <2>1, <2>3, <2>4, AllDone DEF Target
    <2> QED
      BY <2>1, <2>2, <2>4 DEF ShownCodeOpensTarget
  <1>10. ASSUME NEW p \in Path, NEW d \in Disk \cup {NoDisk}, Replug(p, d)
         PROVE  CodeOfWizard' /\ ShownCodeOpensTarget'
    BY <1>1, <1>10 DEF Replug, backendVars
  <1>11. CASE UNCHANGED vars
    BY <1>1, <1>11 DEF vars, worldVars, backendVars
  <1> QED
    BY <1>3, <1>4, <1>5, <1>6, <1>7, <1>8, <1>9, <1>10, <1>11 DEF Next, InstallStep, ScriptStep

\* A recovery code that is displayed opens an installed system, after retries,
\* wizards that were left and changes of mind about the account.
THEOREM ShownCodeAlwaysOpens == Spec => []ShownCodeOpensTarget
  <1>1. Init => CodeOfWizard /\ ShownCodeOpensTarget
    BY DEF Init, CodeOfWizard, ShownCodeOpensTarget, ShownCode, At, ClosedWizard, FreshWizard
  <1>2. TypeOK /\ Progress /\ (CodeOfWizard /\ ShownCodeOpensTarget) /\ [Next]_vars
          => (CodeOfWizard /\ ShownCodeOpensTarget)'
    BY CodeStep
  <1> QED
    BY <1>1, <1>2, TypeCorrect, ProgressAlways, PTL DEF Spec
=============================================================================
