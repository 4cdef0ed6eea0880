\* An entry of the log that reaches no file although every place can be
\* written to: a stick is pulled out.
SPECIFICATION LogSpec
CONSTANTS
  Stick = {d1}
  Unfailing = {d1, "tmp", "home", "internal"}
  NoStick = NoStick
  NoDir = NoDir
  Lost = Lost
INVARIANTS NoEntryVanishes
