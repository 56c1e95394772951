------------------------------- MODULE Settings -------------------------------
(***************************************************************************)
(* The configuration files, who writes them, and the graphical program's   *)
(* copy of one: src/config/app_config.cpp, ui/model/settings_model.cpp,    *)
(* ui/presentation/settings_presenter.cpp, the connections of ui/main.cpp, *)
(* and the part of RuntimePresenter that owns the path of the file.        *)
(*                                                                         *)
(* Two presenters hold the path.  Each tells the other when its own has    *)
(* changed, and a change of the runtime's path makes the settings load the *)
(* file again.  The signals are direct calls: a whole chain of them is one *)
(* step, written as a function on the record that the variable gui is.     *)
(***************************************************************************)
EXTENDS Naturals, FiniteSets

CONSTANTS
  Path, NoPath,    \* files, and an empty path, which is none of them
  DefaultPath,     \* mksync.json, one of the files
  ReadOnly,        \* those of the files that cannot be written
  Absent, Bad,     \* contents: no file, and one that cannot be read
  Screen, Cell, NoCell,
  MaxIds           \* bound: machine ids ever generated

VARIABLES
  files,   \* what is in each file
  ids,     \* machine ids generated so far; they are 1, 2, ...; 0 is none
  gui,     \* the settings model, its path, and the runtime's path
  run      \* the service under way: whose, its config and its file

vars == <<files, ids, gui, run>>

Layout == [Screen -> Cell \cup {NoCell}]
Config == [id : 0..MaxIds, layout : Layout]
NoLayout == [s \in Screen |-> NoCell]
Idle == [by |-> "none", mode |-> "none", config |-> [id |-> 0, layout |-> NoLayout], path |-> NoPath]

Active == run.by = "gui"
Readable(p) == files[p] \notin {Absent, Bad}

\* The files, the ids and the gui together: what a chain of calls works on.
World == [files |-> files, ids |-> ids, gui |-> gui]
-----------------------------------------------------------------------------
\* app_config.cpp.

\* generateMachineId and ensureMachineId, for a config that is about to be used.
EnsureMachineId(w, config) == IF config.id = 0 THEN [config EXCEPT !.id = w.ids + 1] ELSE config
IdsAfter(w, config) == IF config.id = 0 THEN w.ids + 1 ELSE w.ids

Failed(w) == [ok |-> FALSE, world |-> w, config |-> [id |-> 0, layout |-> NoLayout]]
Loaded(w, config) == [ok |-> TRUE, world |-> w, config |-> config]

\* saveConfig, that runs to its end.
SaveConfig(w, p, config) ==
  IF p \in ReadOnly THEN Failed(w)
  ELSE Loaded([w EXCEPT !.files = [@ EXCEPT ![p] = config]], config)

\* Mutant of LoadOrCreateConfig: a file that cannot be read is made anew.
LoadOrRecreate(w, p) ==
  LET old == IF w.files[p] \in {Absent, Bad} THEN [id |-> 0, layout |-> NoLayout] ELSE w.files[p]
      config == EnsureMachineId(w, old)
      after == [w EXCEPT !.ids = IdsAfter(w, old)]
  IN IF config = w.files[p] THEN Loaded(w, config) ELSE SaveConfig(after, p, config)

\* loadOrCreateConfig saves what it had to add to the file.
LoadOrCreateConfig(w, p) ==
  LET old == IF w.files[p] = Absent THEN [id |-> 0, layout |-> NoLayout] ELSE w.files[p]
      config == EnsureMachineId(w, old)
      after == [w EXCEPT !.ids = IdsAfter(w, old)]
  IN IF w.files[p] = Bad THEN Failed(w)
     ELSE IF config = w.files[p] THEN Loaded(w, config)
     ELSE SaveConfig(after, p, config)
-----------------------------------------------------------------------------
\* The two presenters.

\* loadConfigPath: the settings become those of the file, if it can be loaded.
LoadConfigPath(w, p) ==
  LET result == LoadOrCreateConfig(w, p)
  IN IF p = NoPath \/ ~result.ok THEN w
     ELSE [result.world EXCEPT !.gui = [@ EXCEPT !.config = result.config, !.path = p]]

\* Mutant of PublishConfig: the runtime is not told.
PublishQuietly(w) == w

\* publishConfig: the runtime takes over the path and, if that is a change,
\* tells the settings to load it.
PublishConfig(w) ==
  IF w.gui.runtime = w.gui.path THEN w
  ELSE LoadConfigPath([w EXCEPT !.gui = [@ EXCEPT !.runtime = w.gui.path]], w.gui.path)

\* publishCommand: the runtime's command is another one, its path included.  A
\* path that loads is the path of both.
PublishCommand(w) == LoadConfigPath(w, w.gui.runtime)

Become(w) == files' = w.files /\ ids' = w.ids /\ gui' = w.gui
SetConfig(w, config, p) == [w EXCEPT !.gui = [@ EXCEPT !.config = config, !.path = p]]

NewConfig(w) == [id |-> w.ids + 1, layout |-> NoLayout]

\* The program starts with a new config and loads the default one over it.
Started(contents, n) ==
  LoadConfigPath(
    [files |-> contents, ids |-> n + 1,
     gui |-> [config |-> [id |-> n + 1, layout |-> NoLayout],
              path |-> NoPath, runtime |-> DefaultPath]],
    DefaultPath)

CreateNew ==
  /\ ids < MaxIds
  /\ Become(PublishConfig(SetConfig([World EXCEPT !.ids = @ + 1], NewConfig(World), NoPath)))
  /\ UNCHANGED run

\* importFrom gives a config without an id one, and does not save it.
ImportConfig(p) ==
  /\ Readable(p)
  /\ LET config == EnsureMachineId(World, files[p])
         after  == [World EXCEPT !.ids = IdsAfter(World, files[p])]
     IN Become(PublishConfig(SetConfig(after, config, p)))
  /\ UNCHANGED run

Save ==
  /\ gui.path # NoPath
  /\ SaveConfig(World, gui.path, gui.config).ok
  /\ Become(PublishConfig(SaveConfig(World, gui.path, gui.config).world))
  /\ UNCHANGED run

SaveAs(p) ==
  /\ SaveConfig(World, p, gui.config).ok
  /\ Become(PublishConfig(SetConfig(SaveConfig(World, p, gui.config).world, gui.config, p)))
  /\ UNCHANGED run

CellIsOccupied(layout, s, c) == \E other \in Screen \ {s} : layout[other] = c

\* addScreen and moveScreen, which then say that the layout is updated.
Place(s, c) ==
  /\ ~CellIsOccupied(gui.config.layout, s, c)
  /\ LET config == [gui.config EXCEPT !.layout = [@ EXCEPT ![s] = c]]
     IN Become(PublishConfig(SetConfig(World, config, gui.path)))
  /\ UNCHANGED run

RemoveScreen(s) ==
  /\ gui.config.layout[s] # NoCell
  /\ LET config == [gui.config EXCEPT !.layout = [@ EXCEPT ![s] = NoCell]]
     IN Become(PublishConfig(SetConfig(World, config, gui.path)))
  /\ UNCHANGED run

\* setSelectedMode, and createStartupConfig or importStartupConfig with its path.
SwitchMode ==
  /\ ~Active
  /\ Become(PublishCommand(World))
  /\ UNCHANGED run

SetCommand(p) ==
  /\ ~Active
  /\ Become(PublishCommand([World EXCEPT !.gui = [@ EXCEPT !.runtime = p]]))
  /\ UNCHANGED run
-----------------------------------------------------------------------------
\* A service takes a copy of the config.  The graphical program reads the file
\* as it is; the client's constructor then makes up for a missing id.
Mode == {"server", "client"}

StartFromGui(mode) ==
  /\ run.by = "none"
  /\ gui.runtime # NoPath /\ Readable(gui.runtime)
  /\ LET config == files[gui.runtime]
         known  == mode = "server"
     IN /\ run' = [by |-> "gui", mode |-> mode, path |-> gui.runtime,
                   config |-> IF known THEN config ELSE EnsureMachineId(World, config)]
        /\ ids' = IF known THEN ids ELSE IdsAfter(World, config)
  /\ UNCHANGED <<files, gui>>

\* The command line program loads its config and will not run without.
StartFromCli(mode, p) ==
  /\ run.by = "none"
  /\ LET result == LoadOrCreateConfig(World, p)
     IN /\ result.ok
        /\ Become(result.world)
        /\ run' = [by |-> "cli", mode |-> mode, config |-> result.config, path |-> p]

\* rememberScreenLayout: the server writes all of its copy for each screen that
\* is registered.  A failure is only logged.
Remember(s, c) ==
  /\ run.mode = "server"
  /\ run' = [run EXCEPT !.config.layout = [@ EXCEPT ![s] = c]]
  /\ files' = SaveConfig(World, run.path, run'.config).world.files
  /\ UNCHANGED <<ids, gui>>

\* Mutant of Stop: the service writes its copy once more when it ends.
StopAndSave ==
  /\ run.by # "none"
  /\ run' = Idle
  /\ files' = SaveConfig(World, run.path, run.config).world.files
  /\ UNCHANGED <<ids, gui>>

Stop ==
  /\ run.by # "none"
  /\ run' = Idle
  /\ UNCHANGED <<files, ids, gui>>

\* The user writes a file by hand, without an id.
EditByHand(p) ==
  /\ p \notin ReadOnly
  /\ files' = [files EXCEPT ![p] = [id |-> 0, layout |-> NoLayout]]
  /\ UNCHANGED <<ids, gui, run>>

\* saveConfig truncates the file before it writes it: a program that dies in
\* between leaves it empty.  The graphical program is started again.
CrashInSave(p) ==
  /\ p \notin ReadOnly /\ ids < MaxIds
  /\ p = gui.path \/ p = run.path
  /\ Become(Started([files EXCEPT ![p] = Bad], ids))
  /\ run' = Idle

Init ==
  /\ \E contents \in [Path -> {Absent, Bad, [id |-> 0, layout |-> NoLayout]}] :
       LET w == Started(contents, 0)
       IN files = w.files /\ ids = w.ids /\ gui = w.gui
  /\ run = Idle

\* Bound: every step may have to generate an id.
Step ==
  \/ CreateNew \/ Save \/ SwitchMode \/ Stop
  \/ \E p \in Path : \/ ImportConfig(p) \/ SaveAs(p) \/ SetCommand(p)
                     \/ EditByHand(p) \/ CrashInSave(p)
  \/ \E s \in Screen : RemoveScreen(s) \/ \E c \in Cell : Place(s, c) \/ Remember(s, c)
  \/ \E mode \in Mode : StartFromGui(mode) \/ \E p \in Path : StartFromCli(mode, p)

Next == Step /\ ids' <= MaxIds
Spec == Init /\ [][Next]_vars
-----------------------------------------------------------------------------
\* A damaged file is the user's to repair: loading refuses it.  Only a save to
\* its path, by the window, by a server that runs on it or by hand, replaces it.
DamagedFilesAreKept ==
  [][\A p \in Path :
       files[p] = Bad /\ files'[p] # Bad =>
         \/ Save /\ p = gui.path
         \/ SaveAs(p) \/ EditByHand(p)
         \/ p = run.path /\ run.mode = "server"]_vars

\* What start() will read is what the window shows.
InSync == gui.runtime # NoPath /\ files[gui.runtime] = gui.config

\* After a save start() will read what the window shows: the file of the runtime's
\* path, which may have been another one's until then.
SaveIsWhatStartReads == [][Save \/ (\E p \in Path : SaveAs(p)) => InSync']_vars

\* And it stays so through loads, mode changes, starts and stops, of whichever program:
\* until the user edits in the window, opens another file or edits this one by hand, a
\* program dies in a save, or a server that runs on this file registers a screen.
\* The server then writes its whole copy, from before the save, over what was saved.
SavedStays ==
  [][InSync /\ ~InSync' =>
       \/ CreateNew \/ \E s \in Screen : RemoveScreen(s) \/ \E c \in Cell : Place(s, c)
       \/ \E p \in Path : ImportConfig(p) \/ SetCommand(p) \/ CrashInSave(p)
       \/ EditByHand(gui.runtime)
       \/ run.path = gui.runtime /\ \E s \in Screen, c \in Cell : Remember(s, c)]_vars

\* The window and the programs agree about the files: a damaged file is replaced by
\* nobody but its user and a server that runs on it, and what was saved is what the
\* next start reads unless one of them has changed it since.
FilesAreTheUsers == DamagedFilesAreKept /\ SaveIsWhatStartReads /\ SavedStays

=============================================================================
