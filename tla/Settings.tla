------------------------------ MODULE Settings ------------------------------
(***************************************************************************)
(* What Grbl keeps over a power cycle: the settings, the coordinate        *)
(* systems, the startup lines and the build info (drivers/grbl/settings.c) *)
(* in an emulated EEPROM (eeprom.c): one flash page with a copy in RAM,    *)
(* which every write erases as a whole and programs again from the copy.   *)
(* The power may fail at any point of it.                                  *)
(*                                                                         *)
(* The page is a row of fields in the order of their addresses: the        *)
(* version byte and one field for each record with its checksum.  A record *)
(* is "bad" if its checksum fails: erased, half programmed, or cleared by  *)
(* $RST, which puts two zeros at its start.  (One in 256 of them would     *)
(* pass; that is left out.)                                                *)
(***************************************************************************)
EXTENDS Integers, Sequences

CONSTANTS
  N_COORDINATE_SYSTEM,  \* settings.h: work coordinate systems, G54 and up
  N_STARTUP_LINE,       \* config.h
  Values,               \* what the operator stores in a record
  MaxLosses,            \* how often the power fails
  MaxCommands           \* bound: how many commands, resets aside, are given

VERSION == 0
GLOBAL == 1
Coord(select) == 2 + select
SETTING_INDEX_NCOORD == N_COORDINATE_SYSTEM + 1      \* G28 and G30 come last
Startup(n) == Coord(SETTING_INDEX_NCOORD) + 1 + n
BUILD == Startup(N_STARTUP_LINE)
Fields == VERSION .. BUILD
Selects == 0 .. N_COORDINATE_SYSTEM - 1

\* "default": the default settings, a zero vector, an empty line, SETTINGS_VERSION.
\* "old": what firmware of another version has left.
Valid == Values \cup {"default", "old"}
Contents == Valid \cup {"bad"}

ASSUME SettingsAssumption ==
  /\ N_COORDINATE_SYSTEM \in Nat \ {0} /\ N_STARTUP_LINE \in 1..2
  /\ Values \cap {"default", "old", "bad"} = {} /\ MaxLosses \in Nat
  /\ MaxCommands \in Nat

VARIABLES
  flash,          \* the page at EEPROM_PAGE_ADDR
  ram_cache,
  settings,
  coord_select, coord_system,   \* of gc_state
  check,          \* sys.state = STATE_CHECK_MODE
  pc,
  todo,           \* the writes of the command, or of the start, that are not done
  then,           \* where the program goes on after them
  programmed,     \* fields of the page that the flush has programmed
  losses, commands,
  kept,           \* history: the page when the power failed outside a flush, until a command
  cut             \* history: a power loss has cut a restore short

ramVars == <<settings, coord_select, coord_system, check>>
history == <<losses, commands, kept, cut>>
vars == <<flash, ram_cache, ramVars, pc, todo, then, programmed, history>>

Nothing == [f \in Fields |-> "bad"]

\* A new chip, or one with the page of another version.
Init ==
  /\ flash \in {Nothing, [f \in Fields |-> IF f = VERSION THEN "bad" ELSE "old"]}
  /\ ram_cache = Nothing /\ settings = "bad"
  /\ coord_select = 0 /\ coord_system = "bad" /\ check = FALSE
  /\ pc = "off" /\ todo = <<>> /\ then = "off" /\ programmed = 0
  /\ losses = 0 /\ commands = 0 /\ kept = Nothing /\ cut = FALSE

-----------------------------------------------------------------------------
(* The writes *)

Put(f, x) == [op |-> "put", at |-> f, value |-> x]          \* eeprom_put_char()
Record(f, x) == [op |-> "record", at |-> f, value |-> x]    \* ..._with_checksum()
Clear(f) == [op |-> "clear", at |-> f, value |-> "bad"]     \* eeprom_put_char() of two zeros

\* write_global_settings()
WriteGlobal(x) == <<Put(VERSION, "default"), Record(GLOBAL, x)>>

\* Mutant of RestoreParameters: the loop ends one index early.
RestoreParametersShort ==
  [k \in 1..SETTING_INDEX_NCOORD |-> Record(Coord(k - 1), "default")]

RestoreParameters ==
  [k \in 1..SETTING_INDEX_NCOORD + 1 |-> Record(Coord(k - 1), "default")]

RestoreAll ==
  WriteGlobal("default") \o RestoreParameters
  \o [k \in 1..N_STARTUP_LINE |-> Clear(Startup(k - 1))] \o <<Clear(BUILD)>>

\* The writes are done and the program goes on at next.
Do(writes, next) ==
  /\ todo' = writes /\ then' = next
  /\ pc' = IF writes = <<>> THEN next ELSE "write"

Done ==
  /\ todo' = Tail(todo) /\ UNCHANGED then
  /\ pc' = IF Len(todo) = 1 THEN then ELSE "write"

\* A byte that is there already is not written.  The two zeros may start an empty line, or
\* a record that is bad.
Skips(w) ==
  \/ w.op = "put" /\ ram_cache[w.at] = w.value
  \/ w.op = "clear" /\ ram_cache[w.at] \in {"default", "bad"}

Skip ==
  /\ pc = "write" /\ Skips(Head(todo)) /\ Done
  /\ UNCHANGED <<flash, ram_cache, ramVars, programmed, history>>

\* The second zero is put, and flushed, by a call of its own, which adds nothing to what a
\* power loss in the first can do.
Write ==
  /\ pc = "write"
  /\ LET w == Head(todo) IN
       /\ ~Skips(w) \/ w.op = "clear"
       /\ ram_cache' = [ram_cache EXCEPT ![w.at] = w.value]
  /\ pc' = "erase"
  /\ UNCHANGED <<flash, ramVars, todo, then, programmed, history>>

\* eeprom_flush_cache(): the page is erased, and then programmed from the first byte on.
Erase ==
  /\ pc = "erase" /\ pc' = "program"
  /\ flash' = Nothing
  /\ UNCHANGED <<ram_cache, ramVars, todo, then, programmed, history>>

Program ==
  /\ pc = "program" /\ flash' = [flash EXCEPT ![programmed] = ram_cache[programmed]]
  /\ IF programmed = BUILD THEN programmed' = 0 /\ Done
     ELSE programmed' = programmed + 1 /\ UNCHANGED <<pc, todo, then>>
  /\ UNCHANGED <<ram_cache, ramVars, history>>

\* What is being erased may still be there or not; of the field that is being programmed a
\* part may be missing.
Torn == IF pc = "erase"
        THEN {[f \in Fields |-> IF f \in lost THEN "bad" ELSE flash[f]] :
                lost \in SUBSET {f \in Fields : flash[f] # "bad"}}
        ELSE {flash}

PowerLoss ==
  /\ pc # "off" /\ losses < MaxLosses /\ losses' = losses + 1
  /\ flash' \in Torn
  /\ pc' = "off" /\ todo' = <<>> /\ then' = "off" /\ programmed' = 0
  /\ ram_cache' = Nothing /\ settings' = "bad"
  /\ coord_select' = 0 /\ coord_system' = "bad" /\ check' = FALSE
  /\ kept' = CASE pc \in {"erase", "program"} -> Nothing
               [] pc = "run" -> ram_cache
               [] OTHER -> kept
  /\ cut' = (cut \/ (todo # <<>> /\ then = "init"))
  /\ UNCHANGED commands

-----------------------------------------------------------------------------
(* The start *)

\* Mutant of Boot: one checksum, as it were, for the page.
BootStrict ==
  /\ pc = "off" /\ ram_cache' = flash
  /\ IF \A f \in Fields : flash[f] # "bad"
     THEN settings' = flash[GLOBAL] /\ Do(<<>>, "init")
     ELSE settings' = "default" /\ Do(RestoreAll, "init")
  /\ UNCHANGED <<flash, coord_select, coord_system, check, programmed, history>>

\* Mutant of Boot: the version tells enough.
BootUnchecked ==
  /\ pc = "off" /\ ram_cache' = flash
  /\ IF flash[VERSION] = "default"
     THEN settings' = flash[GLOBAL] /\ Do(<<>>, "init")
     ELSE settings' = "default" /\ Do(RestoreAll, "init")
  /\ UNCHANGED <<flash, coord_select, coord_system, check, programmed, history>>

\* settings_init(), which loads the cache.
Boot ==
  /\ pc = "off" /\ ram_cache' = flash
  /\ IF flash[VERSION] = "default" /\ flash[GLOBAL] # "bad"
     THEN settings' = flash[GLOBAL] /\ Do(<<>>, "init")
     ELSE settings' = "default" /\ Do(RestoreAll, "init")
  /\ UNCHANGED <<flash, coord_select, coord_system, check, programmed, history>>

\* What a read finds; a bad record is written anew, with its default.
Found(f) == IF ram_cache[f] = "bad" THEN "default" ELSE ram_cache[f]
Repair(f) == IF ram_cache[f] = "bad" THEN <<Record(f, "default")>> ELSE <<>>

\* gc_init(); protocol_main_loop() then leaves the check mode.
GcInit ==
  /\ pc = "init" /\ coord_select' = 0 /\ check' = FALSE
  /\ coord_system' = Found(Coord(0))
  /\ Do(Repair(Coord(0)), "startup")
  /\ UNCHANGED <<flash, ram_cache, settings, programmed, history>>

\* system_execute_startup(), unless the machine is locked.  What the lines do is left out.
ExecuteStartup ==
  /\ pc = "startup"
  /\ \/ Do(<<>>, "run")
     \/ Do(Repair(Startup(0)) \o (IF N_STARTUP_LINE = 2 THEN Repair(Startup(1)) ELSE <<>>), "run")
  /\ UNCHANGED <<flash, ram_cache, ramVars, programmed, history>>

-----------------------------------------------------------------------------
(* Commands *)

\* What the operator may do.  The alarm state, which bars the g-code among it, is left
\* out; the check mode bars the $ commands.
Command ==
  /\ pc = "run" /\ commands < MaxCommands /\ commands' = commands + 1
  /\ kept' = Nothing
  /\ UNCHANGED <<flash, ram_cache, programmed, losses, cut>>

StoreGlobal(x) ==
  /\ Command /\ ~check
  /\ settings' = x /\ Do(WriteGlobal(x), "run")
  /\ UNCHANGED <<coord_select, coord_system, check>>

\* $N<n>= for a line that exists (system.c does not look at n), and $I=.
StoreLine(f, x) == Command /\ ~check /\ Do(<<Record(f, x)>>, "run") /\ UNCHANGED ramVars

\* G28.1 and G30.1.
SetHome(select, x) == Command /\ Do(<<Record(Coord(select), x)>>, "run") /\ UNCHANGED ramVars

\* Reports and G28, G30: all that only read a record.
ReadRecord(f) == Command /\ Do(Repair(f), "run") /\ UNCHANGED ramVars

\* G10 L2 and L20.  A bad record is repaired, and the block fails.
SetCoordinateData(select, x) ==
  LET f == Coord(select) IN
  /\ Command
  /\ Do(IF ram_cache[f] = "bad" THEN Repair(f) ELSE <<Record(f, x)>>, "run")
  /\ coord_system' = IF ram_cache[f] # "bad" /\ select = coord_select THEN x ELSE coord_system
  /\ UNCHANGED <<settings, coord_select, check>>

\* G54 and up.
SelectSystem(select) ==
  LET f == Coord(select) IN
  /\ Command /\ select # coord_select
  /\ Do(Repair(f), "run")
  /\ IF ram_cache[f] = "bad" THEN UNCHANGED <<coord_select, coord_system>>
     ELSE coord_select' = select /\ coord_system' = ram_cache[f]
  /\ UNCHANGED <<settings, check>>

\* M2 and M30 go back to G54; the check mode does not load it.
ProgramEnd ==
  /\ Command /\ coord_select' = 0
  /\ IF check THEN Do(<<>>, "run") /\ UNCHANGED coord_system
     ELSE Do(Repair(Coord(0)), "run") /\ coord_system' = Found(Coord(0))
  /\ UNCHANGED <<settings, check>>

CheckModeOn ==
  /\ Command /\ ~check /\ check' = TRUE /\ Do(<<>>, "run")
  /\ UNCHANGED <<settings, coord_select, coord_system>>

\* A reset of the operator's, or the one that ends the check mode.
Reset ==
  /\ pc = "run" /\ Do(<<>>, "init")
  /\ UNCHANGED <<flash, ram_cache, ramVars, programmed, history>>

\* Mutant of Restore: without mc_reset().
RestoreUnreset(what) ==
  /\ Command /\ ~check
  /\ Do(CASE what = "settings" -> WriteGlobal("default") [] what = "parameters" -> RestoreParameters
          [] what = "all" -> RestoreAll, "run")
  /\ settings' = IF what = "parameters" THEN settings ELSE "default"
  /\ UNCHANGED <<coord_select, coord_system, check>>

\* $RST=$, $RST=# and $RST=*, each with its mc_reset().
Restore(what) ==
  /\ Command /\ ~check
  /\ Do(CASE what = "settings" -> WriteGlobal("default") [] what = "parameters" -> RestoreParameters
          [] what = "all" -> RestoreAll, "init")
  /\ settings' = IF what = "parameters" THEN settings ELSE "default"
  /\ UNCHANGED <<coord_select, coord_system, check>>

Next ==
  \/ Boot \/ GcInit \/ ExecuteStartup
  \/ Skip \/ Write \/ Erase \/ Program \/ PowerLoss
  \/ \E x \in Values :
       \/ StoreGlobal(x)
       \/ \E select \in Selects : SetCoordinateData(select, x)
       \/ \E select \in N_COORDINATE_SYSTEM .. SETTING_INDEX_NCOORD : SetHome(select, x)
  \/ \E x \in Values, f \in Startup(0) .. BUILD : StoreLine(f, x)
  \/ \E f \in Coord(0) .. BUILD : ReadRecord(f)
  \/ \E select \in Selects : SelectSystem(select)
  \/ ProgramEnd \/ CheckModeOn \/ Reset
  \/ \E what \in {"settings", "parameters", "all"} : Restore(what)
Spec == Init /\ [][Next]_vars

-----------------------------------------------------------------------------
(* Properties *)

\* Types; and no settings are in force that a checksum has refused.
TypeOK ==
  /\ flash \in [Fields -> Contents] /\ ram_cache \in [Fields -> Contents]
  /\ settings \in Contents /\ (pc # "off" => settings # "bad")
  /\ coord_select \in Selects /\ coord_system \in Contents /\ check \in BOOLEAN
  /\ pc \in {"off", "write", "erase", "program", "init", "startup", "run"}
  /\ \A k \in DOMAIN todo : todo[k].at \in Fields /\ todo[k].value \in Contents
  /\ then \in {"off", "init", "startup", "run"} /\ programmed \in Fields
  /\ losses \in 0 .. MaxLosses /\ commands \in 0 .. MaxCommands
  /\ kept \in [Fields -> Contents] /\ cut \in BOOLEAN

\* Whenever a command can be given, the settings and the coordinate system in use are the
\* stored ones, whatever has been stored, restored, selected and torn before, and the flash
\* holds what the cache does.  Only the check mode may use another one: M2 selects G54
\* there without loading it (gcode.c:1119).
UsesStored ==
  pc = "run" =>
    /\ flash = ram_cache /\ ram_cache[VERSION] = "default"
    /\ settings = ram_cache[GLOBAL]
    /\ coord_system # "bad"
    /\ check \/ coord_system = ram_cache[Coord(coord_select)]

\* A power loss outside a flush costs nothing: after any number of starts, each of which
\* may be interrupted outside a flush and may repair what was broken before, every record
\* that was whole is as it was, and so are the settings in use.
Survives ==
  pc = "run" =>
    /\ \A f \in Fields : kept[f] # "bad" => ram_cache[f] = kept[f]
    /\ kept[GLOBAL] # "bad" => settings = kept[GLOBAL]

\* config.h:506: "Grbl will automatically wipe and restore the EEPROM" of another version.
\* Nothing of it is left, except when a power loss cuts the restore short: version and
\* settings are written first, so that the next start finds nothing to do.
Wiped == pc = "run" /\ ~cut => \A f \in Fields : ram_cache[f] # "old"
=============================================================================
