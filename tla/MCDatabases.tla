---------------------------- MODULE MCDatabases -----------------------------
(* Small instances of Databases for TLC.                                   *)
EXTENDS Databases

CONSTANTS
  image,      \* what is bundled
  complete,   \* a database with the tables of all apps
  misspelt,   \* the same with table names in another case
  garbage     \* a file that is no database

AllContent == {image, complete, misspelt, garbage}
SoundContent == AllContent \ {garbage}
MatchesOf == [c \in AllContent |-> IF c = garbage THEN {} ELSE DbApp]
TablesOf == [c \in AllContent |-> IF c \in {image, complete} THEN DbApp ELSE {}]

FullImage == [a \in DbApp |-> image]
LiteImage == [a \in DbApp |-> IF a = "audio" THEN Missing ELSE image]

\* One item to a stick: a file in each of its forms, a good database in a
\* folder, and JSON with a table and without.
OneItemSticks ==
  {[n \in Name |-> i] : i \in [folder : {FALSE}, json : {FALSE}, content : AllContent \ {image}]
                      \cup [folder : {TRUE}, json : {FALSE}, content : {complete}]
                      \cup [folder : {TRUE}, json : {TRUE}, content : {complete, Missing}]}
=============================================================================
