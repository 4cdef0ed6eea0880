--------------------------- MODULE RemindersProofs ---------------------------
(* What holds of the reminders for any clock, any week and any bound on    *)
(* the ids.                                                                *)
EXTENDS Reminders, TLAPS

\* While the shell runs, the file is what is in memory.
FileIsMemory == up => file = [reminders |-> reminders, nextId |-> nextId]

\* The ids that were never handed out were never heard, nor was the future,
\* and a reminder that was heard today says so, in the file too.
HeardIsRecorded ==
  /\ \A i \in Id, d \in Day : i >= file.nextId \/ d > day => heard[i][d] = 0
  /\ \A i \in Live(file.reminders) : heard[i][day] # 0 => file.reminders[i].lastFired = day

RemindersInv ==
  RemindersTypeOK /\ FileIsMemory /\ FreshIds /\ HeardIsRecorded /\ AtMostOncePerDay

\* A live reminder is a record.
LEMMA LiveType ==
  ASSUME NEW table \in Table, NEW i \in Live(table)
  PROVE  i \in Id /\ table[i] \in Reminder /\ table[i] # NoReminder
  BY DEF Live, Table

\* The constants make days, minutes and ids integers.
LEMMA Bounds ==
  /\ MaxId \in Nat /\ Id \subseteq Int /\ Day \subseteq Int /\ 0 \in Day /\ 0 \in Minute
  /\ MaxId + 1 \in Int /\ 1 \in 1..(MaxId + 1) /\ NoReminder \notin Id /\ Never \notin Day
  BY IdAssumption, ClockAssumption DEF Id, Day, Minute, Never

\* Nothing was created, nothing was heard.
LEMMA RemindersInitial == RemindersInit => RemindersInv
  <1> SUFFICES ASSUME RemindersInit PROVE RemindersInv
    OBVIOUS
  <1>1. EmptyFile.reminders \in Table /\ Live(EmptyFile.reminders) = {}
    BY DEF EmptyFile, Table, Live
  <1>2. EmptyFile \in [reminders : Table, nextId : 1..(MaxId + 1)]
    BY <1>1, Bounds DEF EmptyFile
  <1>3. heard \in [Id -> [Day -> Nat]] /\ \A i \in Id, d \in Day : heard[i][d] = 0
    BY DEF RemindersInit
  <1>4. RemindersTypeOK
    <2>1. reminders \in Table /\ nextId \in 1..(MaxId + 1)
      BY <1>1, Bounds DEF RemindersInit, EmptyFile
    <2>2. file \in [reminders : Table, nextId : 1..(MaxId + 1)]
      BY <1>2 DEF RemindersInit
    <2>3. /\ up \in BOOLEAN /\ listening \in BOOLEAN /\ blocked \in BOOLEAN
          /\ polled \in BOOLEAN /\ banner \in Id \cup {NoReminder} /\ touched \subseteq Id
      BY DEF RemindersInit
    <2>4. day \in Day /\ minute \in Minute /\ half \in 0..1
      BY Bounds DEF RemindersInit
    <2> QED
      BY <1>3, <2>1, <2>2, <2>3, <2>4 DEF RemindersTypeOK
  <1>5. FreshIds /\ FileIsMemory
    BY <1>1 DEF RemindersInit, FreshIds, FileIsMemory
  <1>6. HeardIsRecorded /\ AtMostOncePerDay
    BY <1>1, <1>3 DEF RemindersInit, HeardIsRecorded, AtMostOncePerDay
  <1> QED
    BY <1>4, <1>5, <1>6 DEF RemindersInv

\* Marking keeps the places and the type of a list, and says "today" of the
\* due ones.
LEMMA Marked ==
  ASSUME NEW table \in Table, NEW due \in SUBSET Live(table), day \in Day
  PROVE  /\ MarkFired(table, due) \in Table
         /\ Live(MarkFired(table, due)) = Live(table)
         /\ \A i \in due : MarkFired(table, due)[i].lastFired = day
         /\ \A i \in Id \ due : MarkFired(table, due)[i] = table[i]
  <1> DEFINE new == MarkFired(table, due)
  <1>1. \A i \in Id : new[i] = IF i \in due THEN [table[i] EXCEPT !.lastFired = day] ELSE table[i]
    BY DEF MarkFired
  <1>2. \A i \in due : i \in Id /\ table[i] \in Reminder /\ table[i] # NoReminder
    BY LiveType
  <1>3. \A i \in due : new[i] \in Reminder /\ new[i].lastFired = day
    BY <1>1, <1>2 DEF Reminder
  <1>4. ASSUME NEW r \in Reminder PROVE r # NoReminder
    BY MarkerAssumption
  <1>5. new \in Table
    BY <1>1, <1>3 DEF Table, MarkFired
  <1>6. Live(new) = Live(table)
    BY <1>1, <1>2, <1>3, <1>4 DEF Live
  <1> QED
    BY <1>1, <1>3, <1>5, <1>6

\* The due reminders are live ones.
LEMMA DueIsLive ==
  ASSUME NEW table
  PROVE  Due(table) \subseteq Live(table)
  BY DEF Due

\* What is saved is in the file as it is in memory.
LEMMA SaveType ==
  ASSUME NEW table \in Table, NEW next \in 1..(MaxId + 1), Save(table, next)
  PROVE  /\ reminders' \in Table /\ nextId' \in 1..(MaxId + 1)
         /\ file' \in [reminders : Table, nextId : 1..(MaxId + 1)]
  BY DEF Save

\* A list stays one when a place of it is filled or emptied.
LEMMA TableUpdate ==
  ASSUME NEW table \in Table, NEW i \in Id, NEW r \in Reminder \cup {NoReminder}
  PROVE  [table EXCEPT ![i] = r] \in Table
  BY DEF Table

\* Editing keeps a reminder a reminder.
LEMMA EditType ==
  ASSUME NEW r \in Reminder, NEW m \in Minute, NEW days \in DayChoices, NEW e \in BOOLEAN
  PROVE  /\ [r EXCEPT !.minute = m, !.days = days] \in Reminder
         /\ [r EXCEPT !.enabled = e] \in Reminder
         /\ [minute |-> m, days |-> days, enabled |-> TRUE, lastFired |-> Never] \in Reminder
  BY DaysAssumption DEF Reminder, Weekday

\* The banner shows one of the due reminders, which are heard once more.
LEMMA AnnounceType ==
  ASSUME RemindersTypeOK, NEW due \in SUBSET Id, Announce(due)
  PROVE  /\ banner' \in Id \cup {NoReminder}
         /\ heard' \in [Id -> [Day -> Nat]]
  <1>1. banner' \in Id \cup {NoReminder}
    BY DEF Announce, RemindersTypeOK
  <1>2. ASSUME NEW i \in Id, NEW d \in Day
        PROVE  (IF i \in due /\ d = day THEN heard[i][d] + 1 ELSE heard[i][d]) \in Nat
    BY DEF RemindersTypeOK
  <1> QED
    BY <1>1, <1>2 DEF Announce

\* The variables keep their types.
LEMMA RemindersTypes ==
  ASSUME RemindersTypeOK, [RemindersNext]_remindersVars
  PROVE  RemindersTypeOK'
  <1>a. /\ reminders \in Table /\ nextId \in 1..(MaxId + 1)
        /\ file \in [reminders : Table, nextId : 1..(MaxId + 1)]
        /\ day \in Day /\ MaxId \in Nat
    BY Bounds DEF RemindersTypeOK
  <1>b. file.reminders \in Table /\ file.nextId \in 1..(MaxId + 1)
    BY <1>a
  <1>1. CASE Start
    <2> DEFINE due == Due(file.reminders)
    <2>1. CASE due = {}
      BY <1>1, <2>1, <1>b DEF Start, RemindersTypeOK, timeVars, viewVars
    <2>2. CASE due # {}
      <3>1. Save(MarkFired(file.reminders, due), file.nextId)
        BY <1>1, <2>2 DEF Start
      <3>2. MarkFired(file.reminders, due) \in Table
        BY <1>a, <1>b, DueIsLive, Marked
      <3> QED
        BY <1>1, <1>b, <3>1, <3>2, SaveType DEF Start, RemindersTypeOK, timeVars, viewVars
    <2> QED
      BY <2>1, <2>2
  <1>2. CASE LoadQml
    BY <1>2 DEF LoadQml, RemindersTypeOK, listVars, timeVars, viewVars
  <1>3. CASE Stop
    BY <1>3 DEF Stop, RemindersTypeOK, listVars, timeVars
  <1>4. CASE CheckDue
    <2> DEFINE due == Due(reminders)
    <2>1. due \subseteq Id /\ Announce(due)
      BY <1>4, DueIsLive DEF CheckDue, Live
    <2>2. /\ reminders' \in Table /\ nextId' \in 1..(MaxId + 1)
          /\ file' \in [reminders : Table, nextId : 1..(MaxId + 1)]
      <3>1. CASE due = {}
        BY <1>4, <3>1, <1>a DEF CheckDue, listVars
      <3>2. CASE due # {}
        <4>1. Save(MarkFired(reminders, due), nextId)
          BY <1>4, <3>2 DEF CheckDue
        <4>2. MarkFired(reminders, due) \in Table
          BY <1>a, DueIsLive, Marked
        <4> QED
          BY <1>a, <4>1, <4>2, SaveType
      <3> QED
        BY <3>1, <3>2
    <2> HIDE DEF due
    <2>3. banner' \in Id \cup {NoReminder} /\ heard' \in [Id -> [Day -> Nat]]
      BY <2>1, AnnounceType
    <2> QED
      BY <1>4, <2>2, <2>3 DEF CheckDue, RemindersTypeOK, shellVars, timeVars
  <1>5. CASE Block
    BY <1>5 DEF Block, RemindersTypeOK, listVars, timeVars, viewVars
  <1>6. CASE Unblock
    BY <1>6 DEF Unblock, RemindersTypeOK, listVars, timeVars, viewVars
  <1>7. ASSUME NEW m \in Minute, NEW days \in DayChoices, AddReminder(m, days)
        PROVE  RemindersTypeOK'
    <2> DEFINE r == [minute |-> m, days |-> days, enabled |-> TRUE, lastFired |-> Never]
    <2>1. nextId \in Id /\ nextId + 1 \in 1..(MaxId + 1)
      BY <1>7, <1>a DEF AddReminder, Id
    <2>2. r \in Reminder
      BY DaysAssumption DEF Reminder, Weekday
    <2>3. Save([reminders EXCEPT ![nextId] = r], nextId + 1)
      BY <1>7 DEF AddReminder
    <2> HIDE DEF r
    <2>4. [reminders EXCEPT ![nextId] = r] \in Table
      BY <1>a, <2>1, <2>2, TableUpdate
    <2> QED
      BY <1>7, <2>1, <2>3, <2>4, SaveType DEF AddReminder, RemindersTypeOK, shellVars, timeVars, viewVars
  <1>8. ASSUME NEW i \in Id, NEW m \in Minute, NEW days \in DayChoices, UpdateReminder(i, m, days)
        PROVE  RemindersTypeOK'
    <2> DEFINE r == [reminders[i] EXCEPT !.minute = m, !.days = days]
    <2>1. r \in Reminder
      BY <1>8, <1>a, LiveType, EditType DEF UpdateReminder
    <2>2. Save([reminders EXCEPT ![i] = r], nextId)
      BY <1>8, <1>a DEF UpdateReminder, Table
    <2> HIDE DEF r
    <2>3. [reminders EXCEPT ![i] = r] \in Table
      BY <1>a, <2>1, TableUpdate
    <2> QED
      BY <1>8, <1>a, <2>2, <2>3, SaveType DEF UpdateReminder, RemindersTypeOK, shellVars, timeVars, viewVars
  <1>9. ASSUME NEW i \in Id, RemoveReminder(i) PROVE RemindersTypeOK'
    <2>1. [reminders EXCEPT ![i] = NoReminder] \in Table
      BY <1>a, TableUpdate
    <2> QED
      BY <1>9, <1>a, <2>1, SaveType DEF RemoveReminder, RemindersTypeOK, shellVars, timeVars, viewVars
  <1>10. ASSUME NEW i \in Id, NEW e \in BOOLEAN, SetEnabled(i, e) PROVE RemindersTypeOK'
    <2> DEFINE r == [reminders[i] EXCEPT !.enabled = e]
    <2>1. r \in Reminder
      BY <1>10, <1>a, LiveType DEF SetEnabled, Reminder
    <2>2. Save([reminders EXCEPT ![i] = r], nextId)
      BY <1>10, <1>a DEF SetEnabled, Table
    <2> HIDE DEF r
    <2>3. [reminders EXCEPT ![i] = r] \in Table
      BY <1>a, <2>1, TableUpdate
    <2> QED
      BY <1>10, <1>a, <2>2, <2>3, SaveType DEF SetEnabled, RemindersTypeOK, shellVars, timeVars, viewVars
  <1>11. CASE Dismiss
    BY <1>11 DEF Dismiss, RemindersTypeOK, listVars, shellVars, timeVars
  <1>12. CASE HalfMinutePasses
    <2>1. half' \in 0..1
      BY <1>12 DEF HalfMinutePasses
    <2>2. polled' \in BOOLEAN
      BY <1>12 DEF HalfMinutePasses
    <2> QED
      BY <1>12, <2>1, <2>2 DEF HalfMinutePasses, RemindersTypeOK, listVars, shellVars, viewVars
  <1>13. CASE MinutePasses
    <2>1. minute' \in Minute /\ day' \in Day
      BY <1>13, ClockAssumption DEF MinutePasses, RemindersTypeOK, Minute, Day
    <2>2. half' \in 0..1
      BY <1>13 DEF MinutePasses
    <2>3. polled' \in BOOLEAN /\ touched' \subseteq Id
      BY <1>13 DEF MinutePasses
    <2> QED
      BY <1>13, <2>1, <2>2, <2>3 DEF MinutePasses, RemindersTypeOK, listVars, shellVars, viewVars
  <1>14. ASSUME NEW m \in Minute, SetClock(m) PROVE RemindersTypeOK'
    BY <1>14 DEF SetClock, RemindersTypeOK, listVars, shellVars, viewVars
  <1>15. CASE UNCHANGED remindersVars
    BY <1>15 DEF remindersVars, listVars, shellVars, timeVars, viewVars, RemindersTypeOK
  <1> QED
    BY <1>1, <1>2, <1>3, <1>4, <1>5, <1>6, <1>7, <1>8, <1>9, <1>10, <1>11, <1>12, <1>13,
       <1>14, <1>15 DEF RemindersNext, ShellStep, UserStep, ClockStep

\* What is said of the list beside its type.
RemindersParts == FileIsMemory /\ FreshIds /\ HeardIsRecorded /\ AtMostOncePerDay

\* Steps that change neither the list nor the date nor what was heard.
LEMMA RemindersQuiet ==
  ASSUME RemindersInv, UNCHANGED <<listVars, heard, day>>, up' => up
  PROVE  RemindersParts'
  BY DEF RemindersInv, RemindersParts, FileIsMemory, FreshIds, HeardIsRecorded,
         AtMostOncePerDay, Live, listVars

\* Edits: no reminder comes back, and none forgets that it has fired.
LEMMA EditStep ==
  ASSUME RemindersInv, up, UNCHANGED <<up, heard, day>>,
         NEW table \in Table, NEW next \in Int, Save(table, next), next >= nextId,
         \A i \in Live(table) :
           \/ i \in Live(reminders) /\ table[i].lastFired = reminders[i].lastFired
           \/ i = nextId /\ next > nextId
  PROVE  RemindersParts'
  <1> USE DEF RemindersInv
  <1>1. file.reminders = reminders /\ file.nextId = nextId
    BY DEF FileIsMemory
  <1>2. reminders' = table /\ file'.reminders = table /\ nextId' = next /\ file'.nextId = next
    BY DEF Save
  <1>3. FileIsMemory'
    BY DEF FileIsMemory, Save
  <1>4. /\ nextId \in Int /\ Id \subseteq Int /\ Day \subseteq Int /\ day \in Day
        /\ \A i \in Live(table) : i \in Id
    BY Bounds DEF RemindersTypeOK, Live
  <1>5. FreshIds'
    <2>1. ASSUME NEW i \in Live(table) PROVE i < next
      <3>1. i \in Int
        BY <1>4
      <3>2. CASE i \in Live(reminders)
        <4>1. i < nextId
          BY <3>2 DEF FreshIds
        <4> QED
          BY <1>4, <3>1, <4>1
      <3>3. CASE i = nextId /\ next > nextId
        BY <1>4, <3>3
      <3> QED
        BY <3>2, <3>3
    <2> QED
      BY <1>2, <2>1 DEF FreshIds, Live
  <1>6. HeardIsRecorded'
    <2>1. \A i \in Id, d \in Day : i >= next \/ d > day => heard[i][d] = 0
      BY <1>1, <1>4 DEF HeardIsRecorded
    <2>2. ASSUME NEW i \in Live(table), heard[i][day] # 0 PROVE table[i].lastFired = day
      <3>1. i \in Id
        BY <1>4
      <3>2. CASE /\ i \in Live(reminders)
                 /\ table[i].lastFired = reminders[i].lastFired
        BY <1>1, <2>2, <3>2 DEF HeardIsRecorded
      <3>3. CASE i = nextId
        <4>1. i >= file.nextId
          BY <1>1, <1>4, <3>3
        <4>2. heard[i][day] = 0
          BY <1>4, <3>1, <4>1 DEF HeardIsRecorded
        <4> QED
          BY <2>2, <4>2
      <3> QED
        BY <3>2, <3>3
    <2> QED
      BY <1>2, <2>1, <2>2 DEF HeardIsRecorded, Live
  <1>7. AtMostOncePerDay'
    BY DEF AtMostOncePerDay
  <1> QED
    BY <1>3, <1>5, <1>6, <1>7 DEF RemindersParts

\* Every step keeps file, ids and history in line.
LEMMA RemindersStep ==
  ASSUME RemindersInv, [RemindersNext]_remindersVars, RemindersTypeOK'
  PROVE  RemindersParts'
  <1> USE DEF RemindersInv
  <1>a. /\ reminders \in Table /\ file.reminders \in Table
        /\ nextId \in Int /\ file.nextId \in Int /\ day \in Day /\ day \in Int
        /\ Id \subseteq Int /\ Day \subseteq Int
        /\ file = [reminders |-> file.reminders, nextId |-> file.nextId]
    BY Bounds DEF RemindersTypeOK
  <1>1. CASE Start
    <2> DEFINE due == Due(file.reminders)
               new == MarkFired(file.reminders, due)
    <2>1. UNCHANGED <<day, heard>>
      BY <1>1 DEF Start, timeVars, viewVars
    <2>2. CASE due = {}
      <3>1. reminders' = file.reminders /\ nextId' = file.nextId /\ file' = file
        BY <1>1, <2>2 DEF Start
      <3> QED
        BY <1>a, <2>1, <3>1 DEF RemindersParts, FileIsMemory, FreshIds, HeardIsRecorded,
                                AtMostOncePerDay, Live
    <2>3. CASE due # {}
      <3>1. Save(new, file.nextId)
        BY <1>1, <2>3 DEF Start
      <3>2. /\ Live(new) = Live(file.reminders)
            /\ \A i \in due : new[i].lastFired = day
            /\ \A i \in Id \ due : new[i] = file.reminders[i]
        BY <1>a, DueIsLive, Marked
      <3> HIDE DEF due, new
      <3>3. reminders' = new /\ nextId' = file.nextId /\ file' = [reminders |-> new, nextId |-> file.nextId]
        BY <3>1 DEF Save
      <3>4. FileIsMemory' /\ FreshIds' /\ AtMostOncePerDay'
        BY <2>1, <3>2, <3>3 DEF FileIsMemory, FreshIds, AtMostOncePerDay, Live
      <3>5. \A i \in Live(new) : heard[i][day] # 0 => new[i].lastFired = day
        BY <3>2 DEF HeardIsRecorded, Live
      <3>6. HeardIsRecorded'
        BY <2>1, <3>3, <3>5 DEF HeardIsRecorded, Live
      <3> QED
        BY <3>4, <3>6 DEF RemindersParts
    <2> QED
      BY <2>2, <2>3
  <1>2. CASE LoadQml
    BY <1>2, RemindersQuiet DEF LoadQml, timeVars, viewVars
  <1>3. CASE Stop
    BY <1>3, RemindersQuiet DEF Stop, timeVars
  <1>4. CASE CheckDue
    <2> DEFINE due == Due(reminders)
               new == MarkFired(reminders, due)
    <2>1. up /\ Announce(due) /\ UNCHANGED <<up, day>>
      BY <1>4 DEF CheckDue, Running, shellVars, timeVars
    <2>2. file.reminders = reminders /\ file.nextId = nextId
      BY <2>1 DEF FileIsMemory
    <2>3. CASE due = {}
      <3>1. UNCHANGED listVars
        BY <1>4, <2>3 DEF CheckDue
      <3>2. \A i \in Id, d \in Day : heard'[i][d] = heard[i][d]
        BY <2>1, <2>3 DEF Announce
      <3> QED
        BY <2>1, <3>1, <3>2, <1>a DEF RemindersParts, FileIsMemory, FreshIds, HeardIsRecorded,
                                AtMostOncePerDay, Live, listVars
    <2>4. CASE due # {}
      <3>1. Save(new, nextId)
        BY <1>4, <2>4 DEF CheckDue
      <3>2. /\ Live(new) = Live(reminders)
            /\ \A i \in due : new[i].lastFired = day
            /\ \A i \in Id \ due : new[i] = reminders[i]
            /\ due \subseteq Live(reminders)
        BY <1>a, DueIsLive, Marked
      <3>3. \A i \in due : reminders[i].lastFired # day
        BY DEF Due
      <3>4. \A i \in Id, d \in Day :
              heard'[i][d] = IF i \in due /\ d = day THEN heard[i][d] + 1 ELSE heard[i][d]
        BY <2>1 DEF Announce
      <3> HIDE DEF due, new
      <3>5. reminders' = new /\ nextId' = nextId /\ file' = [reminders |-> new, nextId |-> nextId]
        BY <3>1 DEF Save
      <3>6. \A i \in due : heard[i][day] = 0 /\ i \in Id /\ i < nextId
        BY <2>2, <3>2, <3>3 DEF HeardIsRecorded, FreshIds, Live
      <3>7. FileIsMemory' /\ FreshIds'
        BY <3>2, <3>5 DEF FileIsMemory, FreshIds, Live
      <3>8. AtMostOncePerDay'
        BY <3>4, <3>6, <1>a DEF AtMostOncePerDay, RemindersTypeOK
      <3>9. \A i \in Id, d \in Day : i >= nextId \/ d > day => heard'[i][d] = 0
        BY <2>2, <3>4, <3>6, <1>a DEF HeardIsRecorded
      <3>10. \A i \in Live(new) : heard'[i][day] # 0 => new[i].lastFired = day
        BY <1>a, <2>2, <3>2, <3>4 DEF HeardIsRecorded, Live
      <3>11. HeardIsRecorded'
        BY <2>1, <3>5, <3>9, <3>10 DEF HeardIsRecorded, Live
      <3> QED
        BY <3>7, <3>8, <3>11 DEF RemindersParts
    <2> QED
      BY <2>3, <2>4
  <1>5. CASE Block
    BY <1>5, RemindersQuiet DEF Block, timeVars, viewVars
  <1>6. CASE Unblock
    BY <1>6, RemindersQuiet DEF Unblock, timeVars, viewVars
  <1>7. ASSUME NEW m \in Minute, NEW days \in DayChoices, AddReminder(m, days)
        PROVE  RemindersParts'
    <2> DEFINE r == [minute |-> m, days |-> days, enabled |-> TRUE, lastFired |-> Never]
               new == [reminders EXCEPT ![nextId] = r]
    <2>1. up /\ UNCHANGED <<up, heard, day>> /\ Save(new, nextId + 1)
      BY <1>7 DEF AddReminder, Running, shellVars, timeVars, viewVars
    <2>2. new \in Table
      BY <2>1 DEF RemindersTypeOK, Save
    <2>3. \A i \in Id : i # nextId => new[i] = reminders[i]
      BY <1>a DEF Table
    <2>4. \A i \in Live(new) : i # nextId => i \in Live(reminders) /\ new[i] = reminders[i]
      BY <2>3 DEF Live
    <2> HIDE DEF r, new
    <2> QED
      BY <1>a, <2>1, <2>2, <2>4, EditStep
  <1>8. ASSUME NEW i \in Id, NEW m \in Minute, NEW days \in DayChoices, UpdateReminder(i, m, days)
        PROVE  RemindersParts'
    <2> DEFINE new == [reminders EXCEPT ![i] = [@ EXCEPT !.minute = m, !.days = days]]
    <2>1. up /\ UNCHANGED <<up, heard, day>> /\ Save(new, nextId) /\ i \in Live(reminders)
      BY <1>8 DEF UpdateReminder, Running, shellVars, timeVars, viewVars
    <2>2. new \in Table
      BY <2>1 DEF RemindersTypeOK, Save
    <2>3. \A j \in Id : j # i => new[j] = reminders[j]
      BY <1>a DEF Table
    <2>4. new[i].lastFired = reminders[i].lastFired
      BY <1>a, <2>1, LiveType DEF Table, Reminder
    <2>5. \A j \in Live(new) : j \in Live(reminders) /\ new[j].lastFired = reminders[j].lastFired
      BY <2>1, <2>3, <2>4 DEF Live
    <2> HIDE DEF new
    <2> QED
      BY <1>a, <2>1, <2>2, <2>5, EditStep
  <1>9. ASSUME NEW i \in Id, RemoveReminder(i) PROVE RemindersParts'
    <2> DEFINE new == [reminders EXCEPT ![i] = NoReminder]
    <2>1. up /\ UNCHANGED <<up, heard, day>> /\ Save(new, nextId)
      BY <1>9 DEF RemoveReminder, Running, shellVars, timeVars, viewVars
    <2>2. new \in Table
      BY <2>1 DEF RemindersTypeOK, Save
    <2>3. \A j \in Live(new) : j \in Live(reminders) /\ new[j] = reminders[j]
      BY <1>a DEF Live, Table
    <2> HIDE DEF new
    <2> QED
      BY <1>a, <2>1, <2>2, <2>3, EditStep
  <1>10. ASSUME NEW i \in Id, NEW e \in BOOLEAN, SetEnabled(i, e) PROVE RemindersParts'
    <2> DEFINE new == [reminders EXCEPT ![i] = [@ EXCEPT !.enabled = e]]
    <2>1. up /\ UNCHANGED <<up, heard, day>> /\ Save(new, nextId) /\ i \in Live(reminders)
      BY <1>10 DEF SetEnabled, Running, shellVars, timeVars, viewVars
    <2>2. new \in Table
      BY <2>1 DEF RemindersTypeOK, Save
    <2>3. \A j \in Id : j # i => new[j] = reminders[j]
      BY <1>a DEF Table
    <2>4. new[i].lastFired = reminders[i].lastFired
      BY <1>a, <2>1, LiveType DEF Table, Reminder
    <2>5. \A j \in Live(new) : j \in Live(reminders) /\ new[j].lastFired = reminders[j].lastFired
      BY <2>1, <2>3, <2>4 DEF Live
    <2> HIDE DEF new
    <2> QED
      BY <1>a, <2>1, <2>2, <2>5, EditStep
  <1>11. CASE Dismiss
    BY <1>11, RemindersQuiet DEF Dismiss, shellVars, timeVars
  <1>12. CASE HalfMinutePasses
    BY <1>12, RemindersQuiet DEF HalfMinutePasses, shellVars, viewVars
  <1>13. CASE MinutePasses
    <2>1. UNCHANGED <<listVars, up, heard>>
      BY <1>13 DEF MinutePasses, shellVars, viewVars
    <2>2. day' = day \/ day' = day + 1
      BY <1>13 DEF MinutePasses
    <2>3. day' \in Day
      BY DEF RemindersTypeOK
    <2>4. CASE day' = day
      BY <2>1, <2>4, RemindersQuiet
    <2>5. CASE day' = day + 1
      <3>1. FileIsMemory' /\ FreshIds' /\ AtMostOncePerDay'
        BY <2>1 DEF FileIsMemory, FreshIds, AtMostOncePerDay, Live, listVars
      <3>2. \A i \in Id : heard[i][day'] = 0
        BY <2>3, <2>5, <1>a DEF HeardIsRecorded
      <3>3. \A i \in Id, d \in Day : d > day' => d > day
        BY <2>5, <1>a
      <3>4. HeardIsRecorded'
        BY <2>1, <3>2, <3>3 DEF HeardIsRecorded, Live, listVars
      <3> QED
        BY <3>1, <3>4 DEF RemindersParts
    <2> QED
      BY <2>2, <2>4, <2>5
  <1>14. ASSUME NEW m \in Minute, SetClock(m) PROVE RemindersParts'
    BY <1>14, RemindersQuiet DEF SetClock, shellVars, viewVars
  <1>15. CASE UNCHANGED remindersVars
    BY <1>15, RemindersQuiet DEF remindersVars, shellVars, timeVars, viewVars
  <1> QED
    BY <1>1, <1>2, <1>3, <1>4, <1>5, <1>6, <1>7, <1>8, <1>9, <1>10, <1>11, <1>12, <1>13,
       <1>14, <1>15 DEF RemindersNext, ShellStep, UserStep, ClockStep

\* The inductive invariant.
LEMMA RemindersInvariant == RemindersSpec => []RemindersInv
  <1>1. RemindersInv /\ [RemindersNext]_remindersVars => RemindersInv'
    <2> SUFFICES ASSUME RemindersInv, [RemindersNext]_remindersVars PROVE RemindersInv'
      OBVIOUS
    <2>1. RemindersTypeOK'
      BY RemindersTypes DEF RemindersInv
    <2>2. RemindersParts'
      BY <2>1, RemindersStep
    <2> QED
      BY <2>1, <2>2 DEF RemindersInv, RemindersParts
  <1> QED
    BY RemindersInitial, <1>1, PTL DEF RemindersSpec

\* The variables of the reminders keep their types.
THEOREM RemindersTypeCorrect == RemindersSpec => []RemindersTypeOK
  BY RemindersInvariant, PTL DEF RemindersInv

\* No id is handed out twice, across restarts too.
THEOREM IdsAlwaysFresh == RemindersSpec => []FreshIds
  BY RemindersInvariant, PTL DEF RemindersInv

\* No reminder sounds twice on one date, whatever the clock does.
THEOREM NeverTwiceADay == RemindersSpec => []AtMostOncePerDay
  BY RemindersInvariant, PTL DEF RemindersInv

-----------------------------------------------------------------------------
(* No minute is missed.                                                    *)

\* Division has one remainder.
LEMMA OneRemainder ==
  ASSUME NEW w \in Nat \ {0}, NEW d \in Nat, NEW q \in Int, NEW r \in 0..(w - 1),
         d = w * q + r
  PROVE  d % w = r
  BY Z3

\* Qt's day of the week, taken modulo the week, is the view's.
LEMMA WeekdaysAgree ==
  ASSUME NEW d \in Nat
  PROVE  DayOfWeek(d) = SundayFirst(d)
  <1> DEFINE w == DaysPerWeek
             r == d % w
             q == d \div w
  <1>1. w \in Nat \ {0}
    BY ClockAssumption
  <1> HIDE DEF w
  <1>2. r \in 0..(w - 1) /\ q \in Int /\ d = w * q + r
    BY <1>1, Z3
  <1> HIDE DEF r, q
  <1>3. CASE r + 1 = w
    <2>1. (r + 1) % w = 0
      <3>1. r + 1 = w * 1 + 0 /\ 0 \in 0..(w - 1) /\ r + 1 \in Nat
        BY <1>1, <1>2, <1>3
      <3> QED
        BY <1>1, <3>1, OneRemainder
    <2>2. (d + 1) % w = 0
      <3>1. w * q + w = w * (q + 1)
        BY <1>1, <1>2, Z3
      <3>2. d + 1 = w * (q + 1) + 0 /\ 0 \in 0..(w - 1) /\ q + 1 \in Int /\ d + 1 \in Nat
        BY <1>1, <1>2, <1>3, <3>1, Z3
      <3> QED
        BY <1>1, <3>2, OneRemainder
    <2> QED
      BY <2>1, <2>2 DEF DayOfWeek, QtDayOfWeek, SundayFirst, w, r
  <1>4. CASE r + 1 # w
    <2>1. (r + 1) % w = r + 1
      <3>1. r + 1 = w * 0 + (r + 1) /\ r + 1 \in 0..(w - 1) /\ r + 1 \in Nat
        BY <1>1, <1>2, <1>4
      <3> QED
        BY <1>1, <3>1, OneRemainder
    <2>2. (d + 1) % w = r + 1
      <3>1. d + 1 = w * q + (r + 1) /\ r + 1 \in 0..(w - 1) /\ d + 1 \in Nat
        BY <1>1, <1>2, <1>4, Z3
      <3> QED
        BY <1>1, <1>2, <3>1, OneRemainder
    <2> QED
      BY <2>1, <2>2 DEF DayOfWeek, QtDayOfWeek, SundayFirst, w, r
  <1> QED
    BY <1>3, <1>4

\* What a reminder asks for at this minute.
DueNow(i) ==
  /\ reminders[i].enabled
  /\ reminders[i].minute = minute
  /\ reminders[i].days = {} \/ DayOfWeek(day) \in reminders[i].days

\* After the poll, those that could count on this minute have fired; while
\* nobody listens there are none.
PolledHasFired ==
  /\ ~(up /\ listening) => touched = Id
  /\ polled => \A i \in Live(reminders) \ touched : DueNow(i) => reminders[i].lastFired = day

\* A step of the editor touches what it makes due.
LEMMA PolledStep ==
  ASSUME RemindersInv, PolledHasFired, [RemindersNext]_remindersVars
  PROVE  PolledHasFired'
  <1> USE DEF PolledHasFired
  <1>a. reminders \in Table /\ Id \subseteq Int /\ touched \subseteq Id
    BY Bounds DEF RemindersInv, RemindersTypeOK
  <1>b. \A table : Live(table) \subseteq Id
    BY DEF Live
  <1>1. CASE Start
    <2>1. touched' = Id
      BY <1>1 DEF Start
    <2> QED
      BY <1>b, <2>1
  <1>2. CASE LoadQml
    BY <1>2 DEF LoadQml, listVars, timeVars, DueNow, Live
  <1>3. CASE Stop
    <2>1. touched' = Id
      BY <1>3 DEF Stop
    <2> QED
      BY <1>b, <2>1
  <1>4. CASE CheckDue
    <2> DEFINE due == Due(reminders)
    <2>1. /\ UNCHANGED <<up, listening, day, minute, touched>>
          /\ IF due = {} THEN UNCHANGED reminders ELSE reminders' = MarkFired(reminders, due)
      BY <1>4 DEF CheckDue, listVars, shellVars, timeVars, Save
    <2>2. due \subseteq Live(reminders)
      BY DueIsLive
    <2>3. day \in Day
      BY DEF RemindersInv, RemindersTypeOK
    <2>4. /\ Live(reminders') = Live(reminders)
          /\ \A i \in due : reminders'[i].lastFired = day
          /\ \A i \in Id \ due : reminders'[i] = reminders[i]
      BY <1>a, <2>1, <2>2, <2>3, Marked
    <2>5. ASSUME NEW i \in Live(reminders) \ due, DueNow(i) PROVE reminders[i].lastFired = day
      BY <2>5 DEF Due, DueNow
    <2> HIDE DEF due
    <2>6. ASSUME NEW i \in Live(reminders'), DueNow(i)' PROVE reminders'[i].lastFired = day'
      <3>1. CASE i \in due
        BY <2>1, <2>4, <3>1
      <3>2. CASE i \notin due
        <4>1. reminders'[i] = reminders[i] /\ i \in Live(reminders) \ due
          BY <1>b, <2>4, <2>6, <3>2
        <4>2. DueNow(i)
          BY <2>1, <2>6, <4>1 DEF DueNow
        <4> QED
          BY <2>1, <2>5, <4>1, <4>2
      <3> QED
        BY <3>1, <3>2
    <2> QED
      BY <2>1, <2>6 DEF Live
  <1>5. CASE Block \/ Unblock \/ Dismiss
    BY <1>5 DEF Block, Unblock, Dismiss, listVars, shellVars, timeVars, DueNow, Live
  <1>6. ASSUME NEW m \in Minute, NEW days \in DayChoices, AddReminder(m, days)
        PROVE  PolledHasFired'
    <2>1. /\ touched' = touched \cup {nextId}
          /\ \A j \in Id : j # nextId => reminders'[j] = reminders[j]
          /\ UNCHANGED <<up, listening, polled, day, minute>>
          /\ up /\ listening
      BY <1>6, <1>a DEF AddReminder, Save, shellVars, timeVars, Table, Running
    <2> QED
      BY <1>b, <2>1 DEF DueNow, Live
  <1>6a. ASSUME NEW i \in Id, NEW m \in Minute, NEW days \in DayChoices,
                UpdateReminder(i, m, days)
         PROVE  PolledHasFired'
    <2>1. /\ touched' = touched \cup {i}
          /\ \A j \in Id : j # i => reminders'[j] = reminders[j]
          /\ UNCHANGED <<up, listening, polled, day, minute>>
          /\ up /\ listening
      BY <1>6a, <1>a DEF UpdateReminder, Save, shellVars, timeVars, Table, Running
    <2> QED
      BY <1>b, <2>1 DEF DueNow, Live
  <1>7. ASSUME NEW i \in Id, RemoveReminder(i) PROVE PolledHasFired'
    <2>1. /\ \A j \in Id : j # i => reminders'[j] = reminders[j]
          /\ reminders'[i] = NoReminder
          /\ UNCHANGED <<up, listening, polled, day, minute, touched>>
      BY <1>7, <1>a DEF RemoveReminder, Save, shellVars, timeVars, Table
    <2> QED
      BY <1>b, <2>1 DEF DueNow, Live
  <1>8. ASSUME NEW i \in Id, NEW e \in BOOLEAN, SetEnabled(i, e) PROVE PolledHasFired'
    <2>1. /\ touched' = touched \cup {i}
          /\ \A j \in Id : j # i => reminders'[j] = reminders[j]
          /\ UNCHANGED <<up, listening, polled, day, minute>>
          /\ up /\ listening
      BY <1>8, <1>a DEF SetEnabled, Save, shellVars, timeVars, Table, Running
    <2> QED
      BY <1>b, <2>1 DEF DueNow, Live
  <1>9. CASE HalfMinutePasses
    BY <1>9 DEF HalfMinutePasses, shellVars
  <1>10. CASE MinutePasses
    BY <1>10 DEF MinutePasses, shellVars
  <1>11. ASSUME NEW m \in Minute, SetClock(m) PROVE PolledHasFired'
    <2>1. touched' = Id
      BY <1>11 DEF SetClock
    <2> QED
      BY <1>b, <2>1
  <1>12. CASE UNCHANGED remindersVars
    BY <1>12 DEF remindersVars, listVars, shellVars, timeVars, DueNow, Live
  <1> QED
    BY <1>1, <1>2, <1>3, <1>4, <1>5, <1>6, <1>6a, <1>7, <1>8, <1>9, <1>10, <1>11, <1>12
       DEF RemindersNext, ShellStep, UserStep, ClockStep

\* A minute that ends after its second poll has fired what was due, for any
\* length of day and week.
THEOREM NoMinuteMissed == RemindersSpec => PassedMinuteFired
  <1> DEFINE Fired ==
        MinutePasses /\ polled =>
          \A i \in Live(reminders) \ touched :
            LET r == reminders[i]
                due == r.enabled /\ r.minute = minute
                         /\ (r.days = {} \/ SundayFirst(day) \in r.days)
            IN  due => r.lastFired = day
  <1>1. RemindersInit => PolledHasFired
    BY DEF RemindersInit, PolledHasFired
  <1>2. RemindersInv /\ PolledHasFired /\ [RemindersNext]_remindersVars => PolledHasFired'
    BY PolledStep
  <1>3. RemindersInv /\ PolledHasFired => Fired
    <2>1. ASSUME RemindersInv PROVE DayOfWeek(day) = SundayFirst(day)
      <3>1. day \in Nat
        BY <2>1, ClockAssumption DEF RemindersInv, RemindersTypeOK, Day
      <3> QED
        BY <3>1, WeekdaysAgree
    <2> QED
      BY <2>1 DEF PolledHasFired, DueNow
  <1> HIDE DEF Fired
  <1>4. RemindersSpec => [][Fired]_remindersVars
    BY <1>1, <1>2, <1>3, RemindersInvariant, PTL DEF RemindersSpec
  <1> QED
    BY <1>4 DEF PassedMinuteFired, Fired
=============================================================================
