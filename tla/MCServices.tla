----------------------------- MODULE MCServices ------------------------------
(***************************************************************************)
(* The services that run beside each other without meeting: the App        *)
(* Center, the session log, the reminders, the two readers of the shelf    *)
(* and the databases.  They share no state, so that every behaviour of all *)
(* of them projects onto a behaviour of each; a run follows one of them at *)
(* a time, chosen at the start, while the others stay as they began.       *)
(***************************************************************************)
EXTENDS AppCenter, SessionLog, HadithReader, MCMushaf, Reminders, MCDatabases, TLC

CONSTANTS Component, a1, a2, v1, v2

VARIABLE focus

\* The first app in two versions, the second from the second list on.
Entry(v, b) == [version |-> v, build |-> b]

Manifests ==
  {a1 :> Entry(v1, "deb") @@ a2 :> Nothing, a1 :> Entry(v2, "deb") @@ a2 :> Entry(v2, "deb")}

\* Two books, one with two topics that alternate.
In(b, t) == [book |-> b, topic |-> t]

Hadiths == <<In("first", "faith"), In("second", "faith"), In("first", "prayer"),
             In("first", "faith"), In("first", "prayer")>>

services == <<appVars, logVars, hadithVars, mushafVars, remindersVars,
              databasesVars, focus>>

ServicesInit ==
  /\ focus \in Component
  /\ AppInit /\ LogInit /\ HadithInit /\ MushafInit /\ RemindersInit
  /\ DatabasesInit
  /\ focus # "apps" => manifest[a2] = Nothing
  /\ focus # "log" => plugged = {} /\ accepts = Place

ServicesNext ==
  /\ \/ /\ focus = "apps" /\ AppNext
        /\ UNCHANGED <<logVars, hadithVars, mushafVars, remindersVars, databasesVars>>
     \/ /\ focus = "log" /\ LogNext
        /\ UNCHANGED <<appVars, hadithVars, mushafVars, remindersVars, databasesVars>>
     \/ /\ focus = "hadith" /\ HadithNext
        /\ UNCHANGED <<appVars, logVars, mushafVars, remindersVars, databasesVars>>
     \/ /\ focus = "mushaf" /\ MushafNext
        /\ UNCHANGED <<appVars, logVars, hadithVars, remindersVars, databasesVars>>
     \/ /\ focus = "reminders" /\ RemindersNext
        /\ UNCHANGED <<appVars, logVars, hadithVars, mushafVars, databasesVars>>
     \/ /\ focus = "databases" /\ DatabasesNext
        /\ UNCHANGED <<appVars, logVars, hadithVars, mushafVars, remindersVars>>
  /\ UNCHANGED focus

ServicesSpec == ServicesInit /\ [][ServicesNext]_services

-----------------------------------------------------------------------------
(* Every service's variables stay in their types, bounds included.         *)
TypeOK ==
  /\ focus = "apps" => AppTypeOK
  /\ focus = "log" => LogTypeOK
  /\ focus = "hadith" => HadithTypeOK
  /\ focus = "mushaf" => MushafTypeOK
  /\ focus = "reminders" => RemindersTypeOK
  /\ focus = "databases" => DatabasesTypeOK
=============================================================================
