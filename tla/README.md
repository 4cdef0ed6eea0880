# RoohaniyeNooreIlm: a verification project

TLA+ models of the kiosk shell in `src/shell-src` (a Qt/QML application of one
main thread, started full-screen by systemd) and of the things it works with:
files, disks, the update server, a root service, the wall clock. TLC checks the
models on small instances; TLAPS proves what matters most for every instance.

`PROJECT.json` lists the runs, the properties, which definition models which
lines, the disagreements found, the hazards and the theorems.

## 1. Inventory

Everything in C++ and QML runs on the main thread, so one handler is one atomic
step, and the interleavings are those of handlers with timers, network replies,
child processes, files on disk, restarts of the shell and people.

| Component | State | Operations | Talks to | What is hard |
|---|---|---|---|---|
| **Accounts and lock** (`authbackend.cpp`, `SettingsView.qml`, `LockScreen.qml`) | `accounts.dat` (QSettings: a copy in memory, a file), current user, locked, inactivity timer | create, delete, change password, recovery codes, login, unlock, log out, lock, auto-lock delay | every view (the overlay), the installer (exports an account) | writes that fail, restarts, the timer that six operations restart, "last admin" |
| **Updates** (`updatebackend.cpp`, `UpdatesView.qml`) | `m_busy`, the latest version seen, archives, a marker file | check, download, verify, apply | the server; a root service that extracts what the marker names | requests that overlap, late replies, crashes, releases withdrawn |
| **Reminders** (`reminderbackend.cpp`, `RemindersView.qml`, `Main.qml`) | the list, the next id, the day each one fired last | add, edit, enable, remove, poll every 30 s | the banner of `Main.qml` | a poll that misses a minute, startup, two at once, clock changes |
| **Installer** (`installerbackend.cpp`, `InstallerWizard.qml`) | the wizard's choices, `m_installRunning`, a staged accounts file, a generated script | list disks and free space, build and run the script | lsblk, parted, mkfs, rsync, GRUB as child processes | a script that stops anywhere, disks that change, numbers that are predicted |
| **Databases** (`quranbackend.cpp`, `dbconnectorbackend.cpp`) | two SQLite connections, an attached audio database, overrides in QSettings, imported files | import, convert, match, attach live, override at the next start | the player, the readers | detaching before attaching, stale flags and caches |
| **Hadith reader and queries** (`quranbackend.cpp`, `HadithView.qml`, `HadithMenu.qml`, `HadithTopicPicker.qml`) | mode, book, topic, the list, a paging cursor, ticks, the saved place | open a book, a topic, a list or a place; load more, pick, tick, leave | the database, navigation | a cursor that other modes pass by, lists refilled in place |
| **Player** (`audiobackend.cpp`) | verse, reciter, loop mode, range, selection | play, pause, stop, loop, range, selection | `QMediaPlayer`, the audio database | the order of end-of-media and of the user's changes |
| **App Center** (`appcenter.cpp`, `AppCenter.qml`) | one busy flag, the list, a registry | list, install, update, remove | the server, dpkg | requests that overlap, new lists meanwhile, waits that time out |
| **Debug console** (`debugbackend.cpp`, `DebugConsoleView.qml`) with **storage devices** (`storagebackend.cpp`) | the log's path, the chosen folder, the polled list of disks, the link `~/usb` | run a command, open the picker, choose a folder, poll | bash, udisks, sticks | disks that come, go and fill up between the choice and the entries |
| **Wi-Fi** (`wifibackend.cpp`) | networks, scanning, enabled | scan, connect, toggle | nmcli processes | completions in any order, a process that does not start |
| **Navigation** (`Main.qml`) | current view, a stack, the menu | go, back, home | every view; stops the player | views unloaded while something is in flight |
| **Mushaf reader** (`mushafbackend.cpp`, `MushafGallery.qml`, `MushafReader.qml`) | edition, page, a bookmark | open a tile, continue, turn pages, leave | navigation | the bookmark is saved when the reader is destroyed, however it was reached |
| Themes, prayer times, Qibla, brightness, volume, power, system information | a few settings | single reads and writes | system files and tools | little |
| **Start-up** (`main.cpp`), **live image** (`live-build/`) | - | construction order; a build script; services | all | what happens before the QML listens |

What makes each correct:

- *Accounts*: there is always an admin; the cached session agrees with the
  accounts; the overlay covers a protected device exactly when nobody is signed
  in; a revoked recovery code stays dead; an unattended session is locked on time.
- *Updates*: only published, newer versions are installed, nothing leaves
  `m_busy` set, and a release that stays published arrives.
- *Reminders*: at most once a day and, while the app runs, at least once in its
  minute; ids are never reused; what fires is heard and seen.
- *Installer*: no partition that was there before is touched unless the whole
  disk is erased; the running disk is never written to (it is, see
  `installer_live_disk`); a success is one; the recovery code shown opens the
  target; the progress screen ends.
- *Databases*: what a restart opens is what was connected (of the text database
  it is not, see `databases_text`). *Player, Navigation*: nothing plays where it cannot be stopped; what is
  heard is what the bar names; "Off" ends and a repeated selection is recited whole.
- *App Center*: the registry agrees with dpkg. *Session log*: entries go where
  the user chose, and somewhere in any case. *Hadith reader*: the list is what
  the header says. *Mushaf reader*: a place that was saved can be resumed.

## 2. Plan

In the order of importance; all of it is modelled, checked and, where it says so, proved.

1. `Auth` with the abstract `KioskLock` (proved).
2. `Updater` with the abstract `SafeUpdate` (proved).
3. `Reminders` (proved).
4. `Installer`, but for cancelling and the database picker (safety proved).
5. `Databases`: connections, overrides and imports, with sticks and restarts
   (but for the cache of recitations; proved).
6. `Player` and `Navigation`, composed in `Reader` (safety proved).
7. `AppCenter` (proved), `SessionLog` with the storage devices (proved),
   `HadithReader` (proved), and `Mushaf` on top of `Navigation` (types proved).
8. `MCServices`, the services of 3, 5 and 7 beside each other, for one run.

Every invariant, action property and refinement of the passing runs is a theorem;
what is left to TLC is liveness and what does not hold. What could come next: the hazards without a
property (the repeated sound after a crash inside `checkDue()`, unchecked cache
files), which need finer steps than one handler.

The models avoid RECURSIVE operators, take their sizes as CONSTANTS with named
assumptions and keep each invariant a conjunction of named parts, for the proofs.

## 3. Modules

### Auth, KioskLock

`accounts` is the QSettings object of the running process and `stored` the file;
`SaveAccounts` is `saveAccounts()`, whose `sync()` writes the file unless
`storageOk` is FALSE. Actions carry the names of the C++ methods
(`ChangePassword`, `RegenerateRecoveryCode`, `RecoverPassword`, `Login`,
`Unlock`, `LockNow`, `Logout`, `DeleteAccount`, `SetAutoLockMinutes`,
`NoteActivity` for the event filter); `SetUpFirstAccount` and `AddAccount` are
`createAccount()` with what the dialogs of `SettingsView.qml` do around it.
Passwords and codes are model values compared for equality (PBKDF2 is abstracted
to that), names are already trimmed and folded. The dialogs of Settings are
popups above the overlay, so account operations do not ask whether the screen is
locked. `MinutePasses` counts a session's idle minutes and stops at the timer's
deadline; `Restart` is systemd.

`KioskLock` is the promise: a device has an owner or not, a screen that is
covered or not, and a holder of the session. Storage that refuses to keep
something is part of it (`writable`, `unsaved`): after that, and only after that,
a restart may find the device as it was. `ImplementsKioskLock` maps Auth to it.

Not modelled: `changePassword()` compares the untrimmed name with the session
and looks up the trimmed one; array slots that a shorter list leaves behind in
`accounts.dat` (the stored size hides them).

### Updater, SafeUpdate

A slot is a request in flight, a check or a download, with the version its reply
will carry; two slots are enough for two to overlap. `CheckSucceeds` is the
lambda of `checkForUpdate()` with the automatic download it triggers;
`DownloadWritten`, `DownloadVerified` and `DownloadRejected` split the reply of a
download at the points where a crash leaves different files. The root service
(external) stops the shell, extracts what the marker names and restarts it. A
manifest without a type of archive is a fault of the server like a corrupted one:
its download is verified and `applyUpdate()` returns early, which is what
`DownloadVerified` does when the marker cannot be opened.
`SafeUpdate` has two actions: publish, and install a published, newer version.

Not modelled: root reading the marker between its creation and its contents;
requests that never end (no transfer timeout is set in the code).

### Reminders

Time is a clock of minutes and days whose length is a constant; each minute has
two halves, for the poll of 30 seconds. `CheckDue` is the whole of `checkDue()`:
it selects, marks, emits and saves. `Start` is the constructor, which polls once
before `LoadQml` connects the banner. `Block` is a handler that keeps the main
thread busy (an import, for instance) so that time passes without a poll.
`SetClock` is a correction of the clock within the day. `touched` is a history
variable: the reminders that were edited in this minute, for which the minute
promises nothing.

Not modelled: titles, sounds, a crash inside `checkDue()` (it emits first and
saves after), clock changes across midnight.

### Installer

Disks have numbered partitions and a free region, in units of one EFI partition;
a path names at most one disk and may come to name another. The wizard's
properties are one record; each of its buttons is an action, and `LeaveWizard`
stands for the navigation buttons above every view. `StartInstall` and `Refused`
are the return paths of `startInstall()`, `Script` is `buildInstallScript()`: a
sequence of commands, of which each `RunCommand` does one and `InstallFails` ends
the script at any point, leaving mounts as they are. `FindRootDisk` is the set of
answers `findRootDisk()` may give, by what backs "/" (`RootSource`) and whether
findmnt and lsblk may time out (`ListingMayFail`): the disk of a plain partition,
and nothing for a mapped device (LUKS, LVM), a btrfs subvolume, an overlay and a
findmnt that does not answer; `ListDisks` are the lists that follow, each call of
`listDisks()` being free to get another one. What parted, mkfs and rsync
do (`CanRun`, `DiskAfter`) is external, modelled from how the script uses them;
`parted mkpart` takes the lowest free number, and wipefs refuses the running disk,
which is in use.

The kiosk's user may not be allowed to read disks; then `parted print free`
fails, no region is offered and only erasing installs are left, which is the
model with `MinFree > DiskSize`. The runs give the shell that access, as the
installed system's own service (`User=root`) does. Partitions are wanted or not
(`IfWanted`), and a script lays them out and formats them in the order of
`buildManualPartitions()`.

Not modelled: `cancelInstall()` (no caller), the choice of replacement databases,
fstab, the service file, reboot, a restart of the shell during an install.

### Player, Navigation, Reader

`Player` is `AudioBackend`: its actions carry the names of the C++ methods, and
`EndOfMedia` is `onMediaStatusChanged()` with what it calls. `LoadAndPlay` ends
early when there is no audio; the player then goes on with what it was doing
(`meanwhile`: what it was, or stopped at the end of a recitation). `Navigation`
is the view, the stack and the Menu button of `Main.qml`; views that differ in
nothing that matters here are a section and a branch. `Reader` composes the two:
each change of view comes with `ViewChanged` (`onCurrentViewChanged`, which
stops the player) and `ReaderFollows` (what the Loader does: a new `QuranView`
picks up a recitation that is on, an old one is destroyed). Its own actions are
the reader's buttons and `startSelectionPlayback()` of the Quran menu, which
plays before the reader exists. Both liveness properties are about an audio that is
left alone from some point on but for its own end-of-media events (`LeftAlone`).

Not modelled: ranges (`setRange()` has no caller), `seek()`, positions inside a
recitation, the layout and the reading position, overlays above the views.

### Databases

A file is its content, one of a few: what is on the image, a database with every
table, one whose table is spelled in another case (`matchSchema()` ignores case,
`reattachAudioDb()` does not) and a file that is no database. A connection keeps
the content it was opened with, which is what SQLite does with a file that is
removed or replaced under it, until the stick with the file is pulled out.
`OpenedAtStart` is `openDatabases()`, `ImportPath` is `importPath()` with
`CopyFile`, `UseInPlace` and `ConvertJson` for its three ways, `ConnectToApp` is
`connectToApp()`, `Reattach` both `reattachAudioDb()` and `reattachHadithDb()`.
`ReadKey` and `WrittenKey` are the settings' keys, which differ for the text
database, so that a start never finds it. `attached` is `m_audioDbAttached`; as in
the code, only a start sets it.

Not modelled: the cache of extracted recitations (`audioFilePath()` keeps those
of an earlier database), the queries, rows and columns, folders inside folders,
a bundled text database that is absent.

### AppCenter

`manifest` is what the server has, `apps` what the shell last read of it. An
install fetches the list a second time (`InstallApp`, `InstallListed`,
`InstallRefused`) and carries the entry it found there to the end of its
download, where `DownloadArrives` runs dpkg and writes the registry in one
handler. `Dpkg` relates what dpkg does (external) to the exit status the handler
reads: a process that was given up reads as 0. `late` is a history variable, the
apps this has happened to; the dpkg itself goes on (`dpkg`, `DpkgEnds`). A
restart may fall into the wait (`AppRestartDuringDpkg`).

Not modelled: texts, and a data directory that cannot be written.

### SessionLog

A directory is the disk it is on, except that the link `~/usb` is not the stick
it leads to. `EnsureLogFile` is `ensureLogFile()`: the file of this session, the
choice if it takes a trial file, or `AutoDetect`, which works down the list of
candidates. `Poll` is `StorageBackend::refresh()`; `OpenPicker` is
`listLogTargetDisks()`, which mounts a stick and points the link at it anew.
`entry` and `kept` are history: where the last entry since the choice went, and
whether the chosen folder has taken files ever since.

Not modelled: what the commands do and print, browsing inside a disk.

### HadithReader

`Catalogue` gives book and topic of each id, and the queries are set expressions
sorted by id. `Ascending` says what sorted means: each element stands at the place
that the number of the smaller ones gives. It is not recursive, so that it can be
proved about; on every list of the run it is `SetToSortSeq` of the community
modules, and `Filter` (JavaScript's) is `SelectSeq`. Opening (`OpenBook`, `OpenAt`, `OpenTopic`, `OpenSelection`) is the
menu's handler with `Component.onCompleted`; `Return` is the way back into a
reader whose parameters were used up; `Leave` saves the place. `LoadMore`,
`PickTopic`, `ReadWholeBook`, `PickSelection` and `ConfirmSelection` are the
reader's own handlers. A list that is refilled is taken to report its end after
the handler (inside it, it would load on from the old cursor; whether Qt does so depends on
its version).

Not modelled: texts, full-text search, the random hadith beyond its opening.

### Mushaf

`Mushaf` extends `Navigation` with the gallery's card, the reader's edition and
page, and the bookmark. `Moved` is what a change of view does to them: the new
view is made before the old one is destroyed, so that a card may show the place
of before or of after. `MCMushaf` gives the editions their first and last pages.

Not modelled: the cache of page images, zoom.

### MCServices

`MCServices` puts the App Center, the session log, the two readers of the shelf,
the reminders and the databases beside each other. They share no variable and none
of them reads what another writes, so that a state that violates a property of one
is reachable with the others at rest. `focus` picks the one that moves; the run is
the union of the six instances, not their product, and claims nothing about how
they would interact.

## 4. Runs

Every pass run explores all states of its instance. No run switches deadlock
checking off: people and the clock can always do something.

| Run | Question | Bounds |
|---|---|---|
| `auth_accounts` | the four invariants of the session, the auto-lock timer against time and its liveness, revoked codes and the refinement of `KioskLock`, with writes that may fail at any time | 2 names, 2 passwords, 2 codes (one to be replaced by the other), delays off, 1 and 3, idle minutes beyond every deadline |
| `updater_safety` | overlap, withdrawal, faults, crashes, refinement of `SafeUpdate`, and that a release that stays published is installed | 3 versions (one incomplete), 2 requests, 2 publications, 1 fault, then quiet |
| `installer_safety` | failures, retries, a second wizard, a process that does not start, disks exchanged under the wizard, and that the progress screen ends | "/" a plain partition and listings that answer (the other sources: see the theorems and `installer_live_disk`); 2 disks of 4 units, 2 paths of which the first names the running disk (`PinnedSpec`; they are interchangeable), 2 installs, 1 fault, a separate /home, one recovery code (the theorems cover any number) |
| `reader` | every way into and out of the reader, end of media against the user's taps, missing audio and files that fail to play, liveness of selections | 3 verses, 2 reciters of whom one lacks a verse, so that the selection of the first two has complete audio and those with the third have not; a stack of 3 views |
| `services` | one question per component: the registry against dpkg; the chosen folder; the Hadith list; what a start opens after imports, connections and sticks pulled out; reminders over midnight, with handlers that block the event loop; and the types of all, the mushaf's included | 2 apps in 2 versions, 2 lists and 2 requests (two installs, or an install and a list, overlap); 2 sticks, places that fail except /tmp and home; 5 hadiths in 2 books, 2 per page (a book of 4 has two pages, two topics that alternate); 2 editions and a stack of 3 views; 2 minutes a day, a week of 2 days, 2 days, 2 reminders, each on one weekday or on none (every day); the full image, a stick with one item in each of its forms, 4 file contents |

Violation runs, each a disagreement of the code with its own words (quoted under
`findings`):

| Run | What TLC shows |
|---|---|
| `updater_extracts` | a late reply rewrites the archive that the marker already names |
| `installer_gaps` | a gap in the partition numbers: a foreign partition is formatted |
| `installer_live_disk` | in a live session nothing is excluded, and an install alongside makes its partitions on the disk the session runs from |
| `databases_text` | a text database is connected, "needs the shell restarted", and the start opens the bundled one: it is stored as `prefs/quranTextDbOverridePath` and looked for as `quranTextDbOverridePath` |
| `databases_lite` | on the lite image a connected audio database is "active" and not served |
| `log_lost` | a stick with the log is pulled out: the next entry reaches no file although /tmp, home and the internal disk all take files |
| `mushaf_menu` | Menu pressed twice brings back a mushaf reader without an edition, which overwrites the bookmark when it is left |

Every property of a pass run has a mutant (an operator beside the definition it
mutates, under a "Mutant:" comment) that the same run catches.

The models also show behaviour that no run asks about, because no document
promises otherwise or because a switch of the configuration excludes it:

- a recovery code that is replaced or used during a failed write is valid again
  after the next restart (`RevokedCodesStayDead` says "unless it was not saved");
- with `LsblkMayFail = TRUE`, `ForeignUntouched` fails as in `installer_gaps`:
  no lines of lsblk mean "no partitions", so partition 1 is formatted;
- when the script's process does not come up, the progress screen stays for good,
  because `errorOccurred()` is not heard: `InstallEnds` says "once it has come up";
- with `RootSource` "mapper" or "subvolume", or with `ListingMayFail = TRUE`, an
  installed system, too, lists its own disk;
- with `Hotplug = TRUE` an install goes to whatever disk has taken the confirmed
  path, if the mode and the free space still fit;
- the script writes the marker of a completed install before the boot loader, so
  a failure of GRUB leaves a marked disk that does not boot;
- a reminder due at startup is marked as fired by the poll of the constructor,
  before the screen is loaded that would show it (`listening = FALSE`);
- an install without an account clones the `accounts.dat` of the live session
  (`LiveAccount # NoCode` makes `SuccessMeansInstalled` fail), so that the target
  is locked, where `installerbackend.h:157` says "leave the target unlocked";
- the recovery code of an account made in Settings is dropped by the dialog
  (`SettingsView.qml:588`); whether a code was seen is not part of Auth's state;
- a connection that fails leaves its app without a database until the next start
  or the next connection;
- an import of a file with the name of an earlier one replaces it, and a start
  opens it unseen if an override points to it: without its table the app stays
  empty, and with no database in it audio is off although the image has one;
- a database in a folder of a stick is used where it is, not copied, and is gone
  with the stick;
- a selection stops at the first entry without audio, and stays selected;
- Back pressed after Menu was pressed twice, or after the status bar's link was
  followed in the view it leads to, stays where it is;
- leaving the wizard while its script runs loses the recovery code it was given;
- a minute in which the main thread was busy throughout is a reminder lost, and
  the second of two reminders in one minute replaces the first one's banner;
- an app whose dpkg did not answer in time is recorded as installed (or removed),
  whatever dpkg does afterwards: `RegistryAgrees` without its exception fails;
- the App Center's busy flag is cleared by the first of several requests to end;
  an "update" is any listed version that differs, an older one too; installing
  does not look at `manifest_version`, which the list refuses when it is newer;
- opening the picker of the log again points `~/usb` at the stick that is found
  then, and with it a choice that was made through the link;
- a tile of the gallery opens the first page of its edition although
  `MushafGallery.qml:4-7` says that it resumes; only "Continue reading" does; its
  card may show the place from before the last reading;
- ticks outlive a change of topic, and those of hadiths that are no longer loaded
  are dropped when the list is confirmed; a Hadith reader that reported its end
  while it was made (`reachedEnd`) loads no second page.

### Fairness

- `auth_accounts`: time passes and the event loop delivers the timer's timeout
  (`MinutePasses`, `InactivityTimeout`). Nobody is obliged to type or to sign in.
- `updater_safety`: the periodic timer fires, the server answers, the event loop
  delivers replies, and the root service, which also starts the shell again, runs.
  The steps inside the shell are strongly fair, because a handler is disabled
  while another one runs. The code sets no transfer timeout, so that a request ends
  is an assumption on the network.
- `installer_safety`: every command of the script returns. The script is a child
  process without a prompt (`sudo -n`), and its end is delivered by the event loop.
  Nothing is assumed of a process that does not start: the code listens to
  `finished()` only, and `InstallEnds` leaves it out.
- `reader`: a recitation that plays comes to its end, and the event loop delivers
  it (`RecitationEnds`). The two liveness properties say what happens when the
  user stops tapping; nothing obliges the user to.

## 5. Proofs

The eight modules `*Proofs` prove, for every value of the constants that meets
the named assumptions of the component's module:

- type correctness of every component (of the player and the screens in `Reader`,
  of the mushafs and of all services together in `ServicesProofs`);
- Auth: `AdminRemains`, `SessionIsCurrent`, `LockScreenIffProtected`,
  `AutoLockDeadline`, `RevokedCodesStayDead` and the refinement of `KioskLock`,
  all of them with storage that may fail;
- Updater: `BusyIsTransient`, `StagedIsNewer` and the refinement of `SafeUpdate`;
- Reminders: `FreshIds`, `AtMostOncePerDay` and `PassedMinuteFired`, for any
  length of the day and of the week, handlers that block, restarts and a clock
  that is set;
- Installer: `StagedOnlyWhileRunning` and `ShownCodeOpensTarget`, for everything
  the module can do, and three properties under an assumption of their theorems
  (below): `ForeignUntouched`, `SuccessMeansInstalled`, and `RunningDiskUntouched`,
  which fails in general;
- Reader: `AudioUnderControl` and `SelectionIsHeard`, for any number of verses
  and reciters and whatever audio is missing;
- Databases: `RestartHonoursChoice`, for any contents of
  files and sticks, on the full and on the lite image;
- HadithReader: `ListMatchesMode`, for any database and page size;
- AppCenter: `RegistryAgrees`, for any lists and number of requests;
- SessionLog: `ChoiceHonoured`, for any sticks and any places that may fail.

### Assumptions of single theorems

Three theorems about the installer assume more than the module does, because the
code keeps the property only then; the runs and section 4 show the other cases.

- `OtherSystemsUntouched` (`ForeignUntouched`): lsblk does not fail
  (`LsblkMayFail = FALSE`; else its silence counts as "no partitions"), and no
  disk has a gap in its partition numbers to begin with (`NoGapsAtFirst`; else
  the script's predicted numbers are not the ones parted gives, as
  `installer_gaps` shows). Disks with consecutive numbers are the ordinary case.
  That gaps never appear is proved, for installs that stop anywhere included.
- `SuccessIsTrue` (`SuccessMeansInstalled`): the live session has no account
  (`LiveAccount = NoCode`), as on a live image that was just started; otherwise the
  clone brings its account along.
- `OwnDiskAlwaysUntouched` (`RunningDiskUntouched`): "/" is a plain partition and
  findmnt and lsblk always answer (`RootSource = "partition"`,
  `ListingMayFail = FALSE`). It says what the exclusion rests on: on an encrypted,
  LVM, btrfs or live system, or when findmnt is slow, the code does not keep it.

### The inductive invariants

In Auth none of the invariants is inductive on the visible session alone: a restart loads `stored`, so the invariant speaks of the
accounts in memory and in the file alike (an admin in each, unless empty), and
the session's agreement with the accounts needs the lock's. That revoked codes
stay dead needs that every code in either table was issued and that memory and
file are equal unless something is unsaved; the refinement rests on the same.
In Updater, `m_busy` has to be traced to the slot that will clear it, and the
marker to the check that found its version newer. In Reminders, memory and file
agree while the shell runs (`FileIsMemory`), and what was heard today is recorded
in `lastFired`, in the file too (`HeardIsRecorded`), which is what a restart and a
second poll read; an id that was not handed out was never heard. That no minute is
missed needs `PolledHasFired`: after the poll of a half minute whatever is due now
and untouched carries today's date, and before the screen listens everything
counts as touched; together with `WeekdaysAgree`, which shows that
Qt's numbering leads back to the day of the week for every length of the week.

The Installer has an invariant for each of its properties, because they rest on
different parts of the code. The types need that every script is a sequence of
well-formed commands, whatever was chosen (`ScriptIsWhole`, which also gives the
order of the commands). For the running disk: the path a script was built for
never holds it (`AimedElsewhere`), as no two paths name one disk, `listDisks()`
leaves out the one that `findRootDisk()` named, `startInstall()`
looks the path up again, and no path changes its disk while a script runs. For
the other systems: no disk has a gap in its numbers, and what is left of a script
that does not erase wipes nothing and formats only numbers beyond every partition
of another system (`WritesBeyond`). Without gaps the count of the partitions, which the script
is built from, is the last number; and no gap appears, as parted takes the lowest
free number and an erasing script empties the table. For success, an invariant
over every suffix of a script (`Progress`): the steps that fill the root come after
the clone, which comes after the formatting (`InOrder`); whatever the root still
lacks is still to be done (`Complete`); all of it concerns the root partition of
the target (`OnTheRoot`); and what is no longer to be done is there (`Filled`). For
the recovery code: while a script runs, the wizard that shows its progress has the
code of that script, a wizard opened meanwhile has none, and no result screen
tells of a success (`CodeOfWizard`); so a later install cannot take the account
from the disk while its code is on the screen.

In HadithReader, the list goes up without repeats and holds all of its topic, or
all of its book between its ends; the cursor is its last id while a book is paged
(`ListInOrder`), so that the next page joins without a gap.
This is where `Ascending` is needed: lists that go up are determined by their elements
(`RisingIsAscending`), and joining, cutting and filtering keep them going up.

In Reader, what is heard is strengthened to what is loaded: a paused player holds
the current entry too, or it would resume another, and a selection in use has a
real reciter. In Databases, the override a start reads is the path of the last connection that
succeeded, and what was connected had the table of its app, so that it is a
database and attaches to the bundled text database, which is always the one that is
opened. In
AppCenter, a dpkg that is still at work is one that was given up
(`OutlivedIsLate`), so that its end surprises only apps that are excepted. In
SessionLog, while the chosen folder takes files the log's path is unset or the
choice (`OnlyTheChoice`).

Each proof has an `Init` lemma, a step lemma with one case per action, and a
temporal step by PTL.

Before they were proved, TLC checked the inductive invariants on the instances of
the runs (those of the Installer also with three codes, an account in the live
session and a separate /home and swap: 10.5 million states).

Only model-checked: liveness (`UnattendedSessionLocks`, `EventuallyInstalled`,
`InstallEnds`, `OffEnds`, `WholeSelectionRecited`), because fairness and ENABLED are
out of the prover's reach; and the properties of the violation runs, which do not
hold.

## 6. Not modelled, and why

- *Wi-Fi*: everything but the scanning flag is nmcli's last answer. Two toggles in
  flight leave `m_wifiEnabled` as the nmcli that exits last says, and a scan whose
  nmcli does not start never clears `m_scanning`; both are read off the code
  (`wifibackend.cpp:38-60`), no document promises otherwise, and a model would be
  one of NetworkManager.
- *Quran queries and full-text searches*: one read-only statement per call.
- *Prayer times and Qibla*: floating-point astronomy.
- *Themes, brightness, volume, power, system information*: single reads and writes.
- *Debug console*: its commands are arbitrary lines of bash.
- *Live image*: a sequential build script, but for the service that restarts the shell.
- Within the modelled components: the "Not modelled" lines of section 3.

## 7. Checking

    tlc -config UpdaterSafety.cfg MCUpdater.tla
    tlapm AuthProofs.tla
