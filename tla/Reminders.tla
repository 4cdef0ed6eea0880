------------------------------ MODULE Reminders -----------------------------
(***************************************************************************)
(* ReminderBackend (shell-src/reminderbackend.cpp), RemindersView.qml and  *)
(* the banner of Main.qml, against a wall clock.                           *)
(*                                                                         *)
(* The 30-second poll timer runs on the main thread.  A half minute of the *)
(* clock ends only after its poll, unless a long handler (copying or       *)
(* converting a database in DbConnectorBackend) blocks the event loop.     *)
(* Titles are left out: a reminder is its id.                              *)
(***************************************************************************)
EXTENDS Integers

CONSTANTS
  MinutesPerDay,  \* 1440 in the code
  DaysPerWeek,    \* 7 in the code
  LastDay,        \* bound: the clock stops at the end of this day
  MaxId,          \* bound: reminders ever created
  DayChoices,     \* bound: the sets of days a reminder is given
  NoReminder,     \* an id without a reminder
  MayBlock        \* whether a handler may block the event loop

ASSUME ClockAssumption ==
  MinutesPerDay \in Nat \ {0} /\ DaysPerWeek \in Nat \ {0} /\ LastDay \in Nat
ASSUME IdAssumption == MaxId \in Nat /\ NoReminder \notin Int
ASSUME DaysAssumption == DayChoices \subseteq SUBSET (0..(DaysPerWeek - 1))
ASSUME BlockAssumption == MayBlock \in BOOLEAN

VARIABLES
  reminders,  \* m_reminders, by id (the list is in the order of the ids)
  nextId,     \* m_nextId
  file,       \* shell_settings.ini: [reminders, nextId]
  up,         \* whether the shell runs
  listening,  \* whether Main.qml has connected to reminderDue
  blocked,    \* whether a handler keeps the event loop busy
  day, minute, half,  \* the wall clock
  polled,     \* whether the poll of this half minute has run
  banner,     \* the reminder the banner shows, or NoReminder
  heard,      \* history: how often Main.qml heard each reminder each day
  touched     \* history: reminders that cannot count on this minute

listVars  == <<reminders, nextId, file>>
shellVars == <<up, listening, blocked>>
timeVars  == <<day, minute, half>>
viewVars  == <<banner, heard>>
remindersVars == <<listVars, shellVars, timeVars, polled, viewVars, touched>>

-----------------------------------------------------------------------------
Id      == 1..MaxId
Minute  == 0..(MinutesPerDay - 1)
Day     == 0..LastDay
Weekday == 0..(DaysPerWeek - 1)
Never   == -1

Reminder ==
  [minute : Minute, days : SUBSET Weekday, enabled : BOOLEAN,
   lastFired : Day \cup {Never}]

ASSUME MarkerAssumption == NoReminder \notin Reminder

Table == [Id -> Reminder \cup {NoReminder}]
Live(table) == {i \in Id : table[i] # NoReminder}

\* Mutant: the first id is 0.
EmptyFileFromZero == [reminders |-> [i \in Id |-> NoReminder], nextId |-> 0]

EmptyFile == [reminders |-> [i \in Id |-> NoReminder], nextId |-> 1]

\* Mutant: save() forgets m_nextId.
SaveListOnly(table, next) ==
  /\ reminders' = table
  /\ nextId' = next
  /\ file' = [file EXCEPT !.reminders = table]

Save(table, next) ==
  /\ reminders' = table
  /\ nextId' = next
  /\ file' = [reminders |-> table, nextId |-> next]

\* Qt counts the days of the week from 1 (Monday) to 7 (Sunday).
QtDayOfWeek(d) == (d % DaysPerWeek) + 1

\* Mutant: Qt's number is taken as it is.
DayOfWeekQt(d) == QtDayOfWeek(d)

DayOfWeek(d) == QtDayOfWeek(d) % DaysPerWeek

\* Mutant: checkDue() ignores lastFiredDate.
DueAlways(table) ==
  {i \in Live(table) :
     LET r == table[i] IN
       /\ r.enabled
       /\ r.minute = minute
       /\ r.days = {} \/ DayOfWeek(day) \in r.days}

Due(table) ==
  {i \in Live(table) :
     LET r == table[i] IN
       /\ r.enabled
       /\ r.minute = minute
       /\ r.lastFired # day
       /\ r.days = {} \/ DayOfWeek(day) \in r.days}

MarkFired(table, due) ==
  [i \in Id |-> IF i \in due THEN [table[i] EXCEPT !.lastFired = day] ELSE table[i]]

\* onReminderDue for each of them in turn: the banner keeps the last text.
Announce(due) ==
  /\ IF due = {} THEN UNCHANGED banner
                 ELSE banner' \in {i \in due : \A j \in due : j <= i}
  /\ heard' = [i \in Id |-> [d \in Day |->
                IF i \in due /\ d = day THEN heard[i][d] + 1 ELSE heard[i][d]]]

Running == up /\ listening /\ ~blocked

RemindersInit ==
  /\ reminders = EmptyFile.reminders
  /\ nextId = EmptyFile.nextId
  /\ file = EmptyFile
  /\ up = FALSE /\ listening = FALSE /\ blocked = FALSE
  /\ day = 0 /\ minute = 0 /\ half = 0
  /\ polled = FALSE
  /\ banner = NoReminder
  /\ heard = [i \in Id |-> [d \in Day |-> 0]]
  /\ touched = Id

-----------------------------------------------------------------------------
(* The shell's life.                                                       *)

\* The constructor: load(), then checkDue() with nobody connected yet.
Start ==
  /\ ~up
  /\ up' = TRUE
  /\ polled' = TRUE
  /\ LET due == Due(file.reminders)
     IN  IF due = {}
           THEN /\ reminders' = file.reminders
                /\ nextId' = file.nextId
                /\ UNCHANGED file
           ELSE Save(MarkFired(file.reminders, due), file.nextId)
  /\ UNCHANGED <<listening, blocked, timeVars, viewVars, touched>>

\* main.cpp: engine.load() instantiates Main.qml.
LoadQml ==
  /\ up /\ ~listening
  /\ listening' = TRUE
  /\ UNCHANGED <<listVars, up, blocked, timeVars, polled, viewVars, touched>>

\* A crash, a power cut or a shutdown between two handlers.
Stop ==
  /\ up
  /\ up' = FALSE
  /\ listening' = FALSE
  /\ blocked' = FALSE
  /\ banner' = NoReminder
  /\ touched' = Id
  /\ UNCHANGED <<listVars, timeVars, polled, heard>>

\* The poll timer.
CheckDue ==
  /\ Running
  /\ ~polled
  /\ polled' = TRUE
  /\ LET due == Due(reminders)
     IN  /\ Announce(due)
         /\ IF due = {} THEN UNCHANGED listVars
                        ELSE Save(MarkFired(reminders, due), nextId)
  /\ UNCHANGED <<shellVars, timeVars, touched>>

-----------------------------------------------------------------------------
(* RemindersView.qml and the banner.                                       *)

AddReminder(m, days) ==
  /\ Running
  /\ nextId <= MaxId
  /\ Save([reminders EXCEPT ![nextId] =
             [minute |-> m, days |-> days, enabled |-> TRUE, lastFired |-> Never]],
          nextId + 1)
  /\ touched' = touched \cup {nextId}
  /\ UNCHANGED <<shellVars, timeVars, polled, viewVars>>

\* lastFiredDate and enabled stay as they are.
UpdateReminder(i, m, days) ==
  /\ Running
  /\ i \in Live(reminders)
  /\ Save([reminders EXCEPT ![i] = [@ EXCEPT !.minute = m, !.days = days]], nextId)
  /\ touched' = touched \cup {i}
  /\ UNCHANGED <<shellVars, timeVars, polled, viewVars>>

RemoveReminder(i) ==
  /\ Running
  /\ i \in Live(reminders)
  /\ Save([reminders EXCEPT ![i] = NoReminder], nextId)
  /\ UNCHANGED <<shellVars, timeVars, polled, viewVars, touched>>

SetEnabled(i, enabled) ==
  /\ Running
  /\ i \in Live(reminders)
  /\ Save([reminders EXCEPT ![i] = [@ EXCEPT !.enabled = enabled]], nextId)
  /\ touched' = touched \cup {i}
  /\ UNCHANGED <<shellVars, timeVars, polled, viewVars>>

Dismiss ==
  /\ Running
  /\ banner # NoReminder
  /\ banner' = NoReminder
  /\ UNCHANGED <<listVars, shellVars, timeVars, polled, heard, touched>>

-----------------------------------------------------------------------------
(* The clock and the event loop.                                           *)

Block ==
  /\ MayBlock
  /\ Running
  /\ blocked' = TRUE
  /\ UNCHANGED <<listVars, up, listening, timeVars, polled, viewVars, touched>>

Unblock ==
  /\ blocked
  /\ blocked' = FALSE
  /\ UNCHANGED <<listVars, up, listening, timeVars, polled, viewVars, touched>>

HalfMinutePasses ==
  /\ half = 0
  /\ half' = 1
  /\ polled \/ blocked \/ ~up
  /\ polled' = FALSE
  /\ UNCHANGED <<listVars, shellVars, day, minute, viewVars, touched>>

\* From now on every reminder can count on the new minute, if the shell runs.
MinutePasses ==
  /\ half = 1
  /\ half' = 0
  /\ polled \/ blocked \/ ~up
  /\ polled' = FALSE
  /\ IF minute + 1 < MinutesPerDay
       THEN minute' = minute + 1 /\ UNCHANGED day
       ELSE day < LastDay /\ minute' = 0 /\ day' = day + 1
  /\ touched' = IF up /\ listening THEN {} ELSE Id
  /\ UNCHANGED <<listVars, shellVars, viewVars>>

\* The clock is set, or daylight saving begins or ends: same date.
SetClock(m) ==
  /\ m # minute
  /\ minute' = m
  /\ touched' = Id
  /\ UNCHANGED <<listVars, shellVars, day, half, polled, viewVars>>

-----------------------------------------------------------------------------
ShellStep == Start \/ LoadQml \/ Stop \/ CheckDue \/ Block \/ Unblock

UserStep ==
  \/ \E m \in Minute, days \in DayChoices :
       AddReminder(m, days) \/ \E i \in Id : UpdateReminder(i, m, days)
  \/ \E i \in Id : RemoveReminder(i) \/ \E e \in BOOLEAN : SetEnabled(i, e)
  \/ Dismiss

ClockStep == HalfMinutePasses \/ MinutePasses \/ \E m \in Minute : SetClock(m)

RemindersNext == ShellStep \/ UserStep \/ ClockStep

RemindersSpec == RemindersInit /\ [][RemindersNext]_remindersVars

-----------------------------------------------------------------------------
(* Properties.                                                             *)

RemindersTypeOK ==
  /\ reminders \in Table
  /\ nextId \in 1..(MaxId + 1)
  /\ file \in [reminders : Table, nextId : 1..(MaxId + 1)]
  /\ up \in BOOLEAN /\ listening \in BOOLEAN /\ blocked \in BOOLEAN
  /\ day \in Day /\ minute \in Minute /\ half \in 0..1
  /\ polled \in BOOLEAN
  /\ banner \in Id \cup {NoReminder}
  /\ heard \in [Id -> [Day -> Nat]]
  /\ touched \subseteq Id

\* The next id is above every reminder's, in memory and in the file, so that
\* no restart makes addReminder() hand out an id twice (update, remove and
\* setEnabled would then act on the wrong reminder).
FreshIds ==
  /\ \A i \in Live(reminders) : i < nextId
  /\ \A i \in Live(file.reminders) : i < file.nextId

\* "Fired once per reminder per day" (reminderbackend.h:45): two polls of the
\* same minute, edits, restarts and clock changes never sound it again.
AtMostOncePerDay == \A i \in Id, d \in Day : heard[i][d] <= 1

\* And it does fire, "the minute its time is reached": when a minute ends whose
\* second poll ran and in which nobody changed the reminder, it has fired today,
\* whatever happened to the first poll.  (A handler that blocks the event loop
\* for the whole minute makes the code miss it.)
\* (The index of a weekday is stated as the view does: Sunday is 0.)
SundayFirst(d) == (d + 1) % DaysPerWeek

PassedMinuteFired ==
  [][MinutePasses /\ polled =>
       \A i \in Live(reminders) \ touched :
         LET r == reminders[i]
             due == r.enabled /\ r.minute = minute
                      /\ (r.days = {} \/ SundayFirst(day) \in r.days)
         IN  due => r.lastFired = day]_remindersVars
=============================================================================
