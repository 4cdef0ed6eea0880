----------------------------- MODULE SessionLog ------------------------------
(***************************************************************************)
(* The log of the Debug Console (shell-src/debugbackend.cpp, its folder    *)
(* picker in DebugConsoleView.qml) on top of StorageBackend's list of      *)
(* mounted sticks: where the log file is created, what the user's choice   *)
(* of a folder changes, and what becomes of an entry when disks come and   *)
(* go.                                                                     *)
(*                                                                         *)
(* A directory is the disk it is on: folders of one disk are not told      *)
(* apart, but "~/usb", the link the picker offers, is not the stick it     *)
(* leads to.  Left out: what the commands do and print.                    *)
(***************************************************************************)
CONSTANTS
  Stick,      \* removable disks
  Unfailing,  \* bound: the places that can always be written to, /tmp and more
  NoStick,    \* the link ~/usb does not exist
  NoDir,      \* an empty path
  Lost        \* an entry that reached no file

\* Where a log may be kept: a stick, the internal disk, the home folder, /tmp.
\* (The folder of the developers' machine is closed to the kiosk's account.)
Place == Stick \cup {"internal", "home", "tmp"}

Dir == Place \cup {"usb"}

ASSUME NamesAssumption ==
  /\ Stick \cap {"internal", "home", "tmp", "usb"} = {}
  /\ "tmp" \in Unfailing /\ Unfailing \subseteq Place
  /\ NoStick \notin Place /\ NoDir \notin Dir /\ Lost \notin Dir \cup {NoDir}

VARIABLES
  plugged,    \* external: the sticks in the device
  mounted,    \* external: those of them that are mounted
  accepts,    \* external: the places this account can write to
  link,       \* external: the stick that ~/usb leads to
  devices,    \* StorageBackend::m_devices, as of the last poll
  offered,    \* diskList of the open picker
  selected,   \* m_selectedLogDir
  logFile,    \* the directory of m_logFilePath
  entry,      \* history: where the last entry since the choice went
  kept        \* history: the chosen directory has been writable ever since

worldVars == <<plugged, mounted, accepts>>
logVars == <<worldVars, link, devices, offered, selected, logFile, entry, kept>>

LogTypeOK ==
  /\ plugged \subseteq Stick /\ mounted \subseteq plugged
  /\ Unfailing \subseteq accepts /\ accepts \subseteq Place
  /\ link \in Stick \cup {NoStick}
  /\ devices \subseteq Stick
  /\ offered \subseteq Dir
  /\ selected \in Dir \cup {NoDir} /\ logFile \in Dir \cup {NoDir}
  /\ entry \in Dir \cup {NoDir, Lost}
  /\ kept \in BOOLEAN

\* dirIsActuallyWritable(): the path exists and a file can be created there.
Writable(dir) ==
  LET place == IF dir = "usb" THEN link ELSE dir
  IN  place \in accepts /\ (place \in Stick => place \in mounted)

Watch == kept' = (kept /\ Writable(selected)')

LogInit ==
  /\ plugged \in SUBSET Stick /\ mounted \in SUBSET plugged
  /\ accepts \in {places \in SUBSET Place : Unfailing \subseteq places}
  /\ link = NoStick
  /\ devices = mounted
  /\ offered = {}
  /\ selected = NoDir /\ logFile = NoDir
  /\ entry = NoDir /\ kept = FALSE

-----------------------------------------------------------------------------
(* The disks.                                                              *)

StickComesOrGoes ==
  /\ \E s \in Stick :
       IF s \in plugged
         THEN plugged' = plugged \ {s} /\ mounted' = mounted \ {s}
         ELSE plugged' = plugged \cup {s} /\ mounted' \in {mounted, mounted \cup {s}}
  /\ UNCHANGED <<accepts, link, devices, offered, selected, logFile, entry>>
  /\ Watch

\* A disk fills up, goes read-only, is mounted late, or recovers.
PlaceChanges ==
  /\ \E p \in Place \ Unfailing :
       accepts' = IF p \in accepts THEN accepts \ {p} ELSE accepts \cup {p}
  /\ UNCHANGED <<plugged, mounted, link, devices, offered, selected, logFile, entry>>
  /\ Watch

\* StorageBackend::refresh(), every two seconds.
Poll ==
  /\ devices' = mounted
  /\ UNCHANGED <<worldVars, link, offered, selected, logFile, entry, kept>>

\* findOrMountUsbDrive() yields stick s, mounting it if need be, or nothing
\* when there is none or it cannot be mounted.
Found(s) ==
  \/ s \in plugged /\ mounted' = mounted \cup {s}
  \/ s = NoStick /\ mounted = {} /\ UNCHANGED mounted

-----------------------------------------------------------------------------
(* The console.                                                            *)

\* listLogTargetDisks(), when the console or its picker is opened: the link
\* is made anew for the stick that is found now.
OpenPicker ==
  \E s \in Stick \cup {NoStick}, internal \in SUBSET {"internal"} :
    /\ Found(s)
    /\ link' = IF s = NoStick THEN link ELSE s
    /\ offered' = devices \cup (IF s = NoStick THEN {} ELSE {"usb"}) \cup internal \cup {"home"}
    /\ UNCHANGED <<plugged, accepts, devices, selected, logFile, entry>>
    /\ Watch

\* Mutant: the log file of before the choice is kept.
TrySelectKeepsFile(dir) ==
  /\ dir \in offered
  /\ Writable(dir)
  /\ selected' = dir
  /\ offered' = {}
  /\ entry' = NoDir /\ kept' = TRUE
  /\ UNCHANGED <<worldVars, link, devices, logFile>>

\* trySelectLogDirectory(): one that cannot be written to is refused, with
\* nothing changed; else the picker closes and the next entry starts a file.
TrySelectLogDirectory(dir) ==
  /\ dir \in offered
  /\ Writable(dir)
  /\ selected' = dir
  /\ logFile' = NoDir
  /\ offered' = {}
  /\ entry' = NoDir /\ kept' = TRUE
  /\ UNCHANGED <<worldVars, link, devices>>

\* Leaving the console without a choice.
LeaveConsole ==
  /\ offered' = {}
  /\ UNCHANGED <<worldVars, link, devices, selected, logFile, entry, kept>>

\* The first of the places that need no stick: /tmp at the latest.
Fallback == IF "internal" \in accepts THEN "internal" ELSE "tmp"

\* ensureLogFile() without a usable choice: the first polled device, which
\* comes first depending on the labels; else a stick it finds or mounts
\* itself; else one of the other places.  Each must take a trial file.
AutoDetect(dir) ==
  \/ dir \in devices /\ Writable(dir) /\ UNCHANGED mounted
  \/ /\ devices # {} => \E d \in devices : ~Writable(d)
     /\ \E s \in Stick \cup {NoStick} :
          /\ Found(s)
          /\ dir = IF s \in accepts THEN s ELSE Fallback

\* Mutant: the chosen directory is one candidate among others.
EnsureLogFileUnchosen(dir) ==
  \/ logFile # NoDir /\ dir = logFile /\ UNCHANGED mounted
  \/ logFile = NoDir /\ AutoDetect(dir)

\* The file of this session, the choice, or whatever is detected.
EnsureLogFile(dir) ==
  \/ logFile # NoDir /\ dir = logFile /\ UNCHANGED mounted
  \/ logFile = NoDir /\ selected # NoDir /\ Writable(selected) /\ dir = selected /\ UNCHANGED mounted
  \/ logFile = NoDir /\ (selected = NoDir \/ ~Writable(selected)) /\ AutoDetect(dir)

\* A command, the diagnostics or each line of commands.txt; the picker covers
\* the console but does not take its input.  A file that cannot be opened
\* any more swallows the entry.
RunCommand ==
  /\ \E dir \in Dir :
       /\ EnsureLogFile(dir)
       /\ logFile' = dir
       /\ entry' = IF logFile = dir /\ ~Writable(dir) THEN Lost ELSE dir
  /\ UNCHANGED <<plugged, accepts, link, devices, offered, selected, kept>>

\* The shell starts again; ~/usb stays.
LogRestart ==
  /\ devices' = mounted
  /\ offered' = {}
  /\ selected' = NoDir /\ logFile' = NoDir
  /\ entry' = NoDir /\ kept' = FALSE
  /\ UNCHANGED <<worldVars, link>>

LogNext ==
  \/ StickComesOrGoes \/ PlaceChanges \/ Poll
  \/ OpenPicker \/ LeaveConsole
  \/ \E dir \in Dir : TrySelectLogDirectory(dir)
  \/ RunCommand
  \/ LogRestart

LogSpec == LogInit /\ [][LogNext]_logVars

-----------------------------------------------------------------------------
(* Properties.                                                             *)

\* "User explicitly picked a disk+folder via the picker - always honor that
\* over auto-detection" (debugbackend.cpp:79): as long as the chosen folder
\* can be written to, every entry since the choice is in it, whatever was
\* logged before and whichever disks came and went.
ChoiceHonoured == kept /\ entry # NoDir => entry = selected

\* "/tmp is always writable by anyone ... guarantees the log actually gets
\* written somewhere instead of silently vanishing" (debugbackend.cpp:150).
NoEntryVanishes == entry # Lost
=============================================================================
