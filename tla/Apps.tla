-------------------------------- MODULE Apps --------------------------------
(***************************************************************************)
(* The applications of a server.  Commands of the command line and of      *)
(* Studio read .qefro/installed.json, change it and write it back, each in  *)
(* a process of its own and without a lock; packages are unpacked below     *)
(* .qefro/store.  A server reads both when it starts.                       *)
(*                                                                          *)
(* Versions are numbers, a requirement is a least version.  Manifests that  *)
(* are malformed, damaged packages, the working directory as a place of an   *)
(* application, prompts, the history of versions, lifecycle events and the  *)
(* row that the database has of an application, for display, are left out;  *)
(* migrations are AppMigrations.                                            *)
(***************************************************************************)
EXTENDS Integers, FiniteSets

CONSTANTS
  Builtin,      \* applications compiled into the server, without a directory
  Others,       \* the others
  Catalog,      \* Catalog[a]: the version in apps/a, 0 without that directory
  Packages,     \* <<a, v>> for which there is a package
  Needs,        \* Needs[a]: <<dependency, least version>>, the same for all versions
  Declares,     \* Declares[a]: the entities of a
  Shells,       \* processes of the command line
  Studio,       \* a request to Studio, in the server
  MaxCommands, MaxKills

Apps == Builtin \cup Others
Processes == Shells \cup {Studio}
Versions == 0..2
Record == [version : Versions, disabled : BOOLEAN]
InstalledSet == [Apps -> Record]
Absent == [version |-> 0, disabled |-> FALSE]
Nothing == [a \in Apps |-> Absent]

Kinds == {"install", "builtin", "package", "update", "replace", "disable", "enable", "uninstall"}
\* Those that record a version.
Recording == Kinds \ {"disable", "enable", "uninstall"}
\* Where a command is: reading and writing installed.json, or about to
\* unpack or to rename a directory.
Places == {"idle", "unpack", "rename", "load", "truncate", "write"}

\* Built-in applications need nothing, and a package has a version.
AppsAssumption ==
  /\ Apps # {} /\ Builtin \cap Others = {}
  /\ Catalog \in [Apps -> Versions]
  /\ Packages \subseteq Apps \X (Versions \ {0})
  /\ Needs \in [Apps -> SUBSET (Apps \X Nat)] /\ \A a \in Builtin : Needs[a] = {}

VARIABLES
  installed,    \* .qefro/installed.json
  torn,         \* it was truncated and not yet written
  store,        \* store[a]: the version unpacked below .qefro/store, 0 for none
  server,       \* the process that serves
  cmd,          \* cmd[p]: the command that p is executing
  count, kills,
  \* What the properties are about: installed.json as commands that run one after
  \* another leave it, whether some overlapped or stopped half-way (two commands on
  \* the file, or two that record a version of the same application), and the
  \* applications whose directory some command removed and did not put back;
  \* and those that were uninstalled, updated or installed once more.
  expected, raced, lost, replaced

vars == <<installed, torn, store, server, cmd, count, kills,
          expected, raced, lost, replaced>>

TypeOK ==
  /\ installed \in InstalledSet /\ torn \in BOOLEAN
  /\ store \in [Apps -> Versions]
  /\ server \in [state : {"down", "building", "up", "failed"}, loaded : [Apps -> Versions],
                 active : SUBSET Apps]
  /\ \A p \in Processes :
       cmd[p] \in [kind : Kinds, app : Apps, version : Versions, at : Places,
                   seen : InstalledSet]
  /\ count \in 0..MaxCommands /\ kills \in 0..MaxKills
  /\ expected \in InstalledSet /\ raced \in BOOLEAN
  /\ lost \subseteq Apps /\ replaced \subseteq Apps

Idle == [kind |-> "install", app |-> CHOOSE a \in Apps : TRUE, version |-> 0,
         at |-> "idle", seen |-> Nothing]

Down == [state |-> "down", loaded |-> [a \in Apps |-> 0], active |-> {}]

Init ==
  /\ installed = Nothing /\ torn = FALSE
  /\ store = [a \in Apps |-> 0]
  /\ server = Down
  /\ cmd = [p \in Processes |-> Idle]
  /\ count = 0 /\ kills = 0
  /\ expected = Nothing /\ raced = FALSE
  /\ lost = {} /\ replaced = {}

-----------------------------------------------------------------------------
\* A file that is missing or does not parse is an empty set.
load_installed == IF torn THEN Nothing ELSE installed

is_installed(set, a) == set[a] # Absent
is_disabled(set, a) == is_installed(set, a) /\ set[a].disabled

\* Mutant of find_app_root: what was unpacked is not looked for.
CatalogOnly(a) == Catalog[a]

\* The directory that is found for an application: the catalog's before the store's.
find_app_root(a) == IF Catalog[a] # 0 THEN Catalog[a] ELSE store[a]

\* Dependencies are looked up among the installed, enabled or not; what the
\* entities of others are called is not looked at.
validate_dependencies(a) ==
  \A need \in Needs[a] :
    /\ is_installed(load_installed, need[1])
    /\ load_installed[need[1]].version >= need[2]

\* An application may name itself as a dependency, by mistake.
detect_cycles(a) == \A need \in Needs[a] : need[1] # a

validate_bundle(a) == validate_dependencies(a) /\ detect_cycles(a)

Begin(p, kind, a, v, place) ==
  /\ cmd[p].at = "idle" /\ count < MaxCommands
  /\ count' = count + 1
  /\ cmd' = [cmd EXCEPT ![p] = [kind |-> kind, app |-> a, version |-> v, at |-> place,
                                seen |-> Nothing]]

-----------------------------------------------------------------------------
(* qefro app ...                                                           *)

\* qefro app install <name>: of a directory, or of an application that the
\* server has compiled in and for which there is none.
cmd_app_install(p, a) ==
  /\ \/ find_app_root(a) # 0 /\ validate_bundle(a) /\ Begin(p, "install", a, find_app_root(a), "load")
     \/ find_app_root(a) = 0 /\ a \in Builtin /\ Begin(p, "builtin", a, 1, "load")
  /\ UNCHANGED <<installed, torn, store, server, kills, expected, raced, lost, replaced>>

\* qefro app install <file>.qefro: what the store has of the application goes before
\* the package is unpacked and looked at.
install_package(p, a, v) ==
  /\ <<a, v>> \in Packages
  /\ Begin(p, "package", a, v, "unpack")
  /\ store' = [store EXCEPT ![a] = 0]
  /\ lost' = lost \cup {a}
  /\ UNCHANGED <<installed, torn, server, kills, expected, raced, replaced>>

\* Another command is about to record a version of the same application.
Crossed(p) ==
  \E q \in Processes \ {p} :
    cmd[q].at # "idle" /\ cmd[q].kind \in Recording /\ cmd[q].app = cmd[p].app

\* extract_package, AppBundle::load and validate_bundle: a package that is refused is
\* removed again.
extract_package(p) ==
  LET a == cmd[p].app IN
  /\ cmd[p].at = "unpack"
  /\ \/ /\ validate_bundle(a)
        /\ store' = [store EXCEPT ![a] = cmd[p].version]
        /\ lost' = lost \ {a}
        /\ cmd' = [cmd EXCEPT ![p].at = "load"]
     \/ /\ ~validate_bundle(a)
        /\ store' = [store EXCEPT ![a] = 0]
        /\ lost' = lost \cup {a}
        /\ cmd' = [cmd EXCEPT ![p] = Idle]
  /\ raced' = (raced \/ Crossed(p))
  /\ UNCHANGED <<installed, torn, server, count, kills, expected, replaced>>

\* qefro app update <name>: records the version that the directory has.
cmd_app_update(p, a) ==
  /\ find_app_root(a) # 0
  /\ Begin(p, "update", a, find_app_root(a), "load")
  /\ UNCHANGED <<installed, torn, store, server, kills, expected, raced, lost, replaced>>

\* qefro app update <file>.qefro: unpacked beside the old one, which is removed and
\* replaced; without an old one the package is installed.
update_from_package(p, a, v) ==
  /\ <<a, v>> \in Packages
  /\ is_installed(load_installed, a) /\ find_app_root(a) # 0
  /\ Begin(p, "replace", a, v, "rename")
  /\ store' = [store EXCEPT ![a] = 0]
  /\ lost' = lost \cup {a}
  /\ UNCHANGED <<installed, torn, server, kills, expected, raced, replaced>>

RenamePackage(p) ==
  /\ cmd[p].at = "rename"
  /\ store' = [store EXCEPT ![cmd[p].app] = cmd[p].version]
  /\ lost' = lost \ {cmd[p].app}
  /\ cmd' = [cmd EXCEPT ![p].at = "load"]
  /\ raced' = (raced \/ Crossed(p))
  /\ UNCHANGED <<installed, torn, server, count, kills, expected, replaced>>

\* qefro app disable, enable and uninstall ask nothing.
cmd_app_switch(p, kind, a) ==
  /\ kind \in {"disable", "enable", "uninstall"}
  /\ Begin(p, kind, a, 0, "load")
  /\ UNCHANGED <<installed, torn, store, server, kills, expected, raced, lost, replaced>>

-----------------------------------------------------------------------------
(* Studio                                                                  *)

Loaded == {a \in Apps : server.loaded[a] # 0}

\* Those of the applications that this server has loaded which need a.
reverse_dependencies(a) == {m \in Loaded : \E need \in Needs[m] : need[1] = a}

\* Disabling is refused while one that needs it is enabled, uninstalling
\* while one that needs it is loaded.
studio_switch(kind, a) ==
  /\ server.state = "up"
  /\ kind \in {"disable", "enable", "uninstall"}
  /\ kind = "disable" => \A m \in reverse_dependencies(a) : is_disabled(load_installed, m)
  /\ kind = "uninstall" => reverse_dependencies(a) = {}
  /\ Begin(Studio, kind, a, 0, "load")
  /\ UNCHANGED <<installed, torn, store, server, kills, expected, raced, lost, replaced>>

-----------------------------------------------------------------------------
(* installed.json                                                          *)

\* mark_installed, disable_app, enable_app and remove_app, on the set that was read.
mark_installed(set, a, v) == [set EXCEPT ![a] = [version |-> v, disabled |-> FALSE]]
switch_app(set, a, off) == [set EXCEPT ![a].disabled = off]
remove_app(set, a) == [set EXCEPT ![a] = Absent]

Changed(c, set) ==
  CASE c.kind = "uninstall" -> remove_app(set, c.app)
    [] c.kind \in {"disable", "enable"} ->
         IF is_installed(set, c.app) THEN switch_app(set, c.app, c.kind = "disable") ELSE set
    [] OTHER -> mark_installed(set, c.app, c.version)

\* Commands between the reading and the writing of the file.
Writers == {p \in Processes : cmd[p].at \in {"truncate", "write"}}

\* Disabling or enabling what is not installed is an error.
LoadInstalled(p) ==
  /\ cmd[p].at = "load"
  /\ IF cmd[p].kind \in {"disable", "enable"} /\ ~is_installed(load_installed, cmd[p].app)
       THEN cmd' = [cmd EXCEPT ![p] = Idle]
       ELSE cmd' = [cmd EXCEPT ![p].at = "truncate", ![p].seen = load_installed]
  /\ raced' = (raced \/ Writers # {})
  /\ UNCHANGED <<installed, torn, store, server, count, kills, expected, lost, replaced>>

\* fs::write truncates the file before it writes.
Truncate(p) ==
  /\ cmd[p].at = "truncate"
  /\ torn' = TRUE
  /\ cmd' = [cmd EXCEPT ![p].at = "write"]
  /\ UNCHANGED <<installed, store, server, count, kills, expected, raced, lost, replaced>>

\* An application that is taken away, updated or installed once more.
Superseded(c) ==
  {a \in {c.app} : \/ c.kind \in {"uninstall", "update"}
                   \/ is_installed(expected, a) /\ c.version # 0}

\* Mutant of save_installed: what was read before is kept beside what was changed.
KeepsOld(p) ==
  LET c == cmd[p] IN
  /\ c.at = "write"
  /\ torn' = FALSE
  /\ installed' = IF c.kind = "uninstall" THEN c.seen ELSE Changed(c, c.seen)
  /\ expected' = Changed(c, expected)
  /\ replaced' = replaced \cup Superseded(c)
  /\ cmd' = [cmd EXCEPT ![p] = Idle]
  /\ UNCHANGED <<store, server, count, kills, raced, lost>>

save_installed(p) ==
  LET c == cmd[p] IN
  /\ c.at = "write"
  /\ torn' = FALSE
  /\ installed' = Changed(c, c.seen)
  /\ expected' = Changed(c, expected)
  /\ replaced' = replaced \cup Superseded(c)
  /\ cmd' = [cmd EXCEPT ![p] = Idle]
  /\ UNCHANGED <<store, server, count, kills, raced, lost>>

\* A command is killed, and Studio's with the server.
Kill(p) ==
  /\ cmd[p].at # "idle" /\ kills < MaxKills
  /\ kills' = kills + 1
  /\ cmd' = [cmd EXCEPT ![p] = Idle]
  /\ raced' = (raced \/ cmd[p].at = "write")
  /\ server' = IF p = Studio THEN Down ELSE server
  /\ UNCHANGED <<installed, torn, store, count, expected, lost, replaced>>

-----------------------------------------------------------------------------
(* The server                                                              *)

\* All that are installed, disabled ones too; restaurant and crm when none is.
resolve_apps ==
  IF load_installed = Nothing THEN Builtin
  ELSE {a \in Apps : is_installed(load_installed, a)}

\* Loading the modules: an application without a directory ends the start.
missing == {a \in resolve_apps : a \notin Builtin /\ find_app_root(a) = 0}

runtime_for ==
  /\ server.state = "down"
  /\ server' = IF missing # {}
                 THEN [Down EXCEPT !.state = "failed"]
                 ELSE [Down EXCEPT !.state = "building",
                         !.loaded = [a \in Apps |->
                           IF a \notin resolve_apps THEN 0
                           ELSE IF a \in Builtin THEN 1 ELSE find_app_root(a)]]
  /\ UNCHANGED <<installed, torn, store, cmd, count, kills, expected, raced, lost, replaced>>

\* An entity is registered once.
install_entities ==
  \A a, b \in Loaded : a # b => Declares[a] \cap Declares[b] = {}

\* Building: entities are registered, and the active applications are those that
\* installed.json does not disable by now.
build ==
  /\ server.state = "building"
  /\ IF ~install_entities
       THEN server' = [Down EXCEPT !.state = "failed"]
       ELSE server' = [server EXCEPT !.state = "up",
                         !.active = {a \in Loaded : ~is_disabled(load_installed, a)}]
  /\ UNCHANGED <<installed, torn, store, cmd, count, kills, expected, raced, lost, replaced>>

\* The process ends; one that serves only between requests to Studio.
Stop ==
  /\ server.state # "down"
  /\ cmd[Studio].at = "idle"
  /\ server' = Down
  /\ UNCHANGED <<installed, torn, store, cmd, count, kills, expected, raced, lost, replaced>>

Next ==
  \/ \E p \in Shells, a \in Apps :
       \/ cmd_app_install(p, a)
       \/ cmd_app_update(p, a)
       \/ \E v \in Versions : install_package(p, a, v) \/ update_from_package(p, a, v)
       \/ \E kind \in Kinds : cmd_app_switch(p, kind, a)
  \/ \E kind \in Kinds, a \in Apps : studio_switch(kind, a)
  \/ \E p \in Processes :
       \/ extract_package(p) \/ RenamePackage(p)
       \/ LoadInstalled(p) \/ Truncate(p) \/ save_installed(p)
       \/ Kill(p)
  \/ runtime_for \/ build \/ Stop

Spec == Init /\ [][Next]_vars

-----------------------------------------------------------------------------
Quiet == \A p \in Processes : cmd[p].at = "idle"

\* Commands that do not overlap leave what they leave one after another: none of
\* them is undone by the file that another wrote.
CommandsKept == Quiet /\ ~raced => installed = expected /\ ~torn

\* Between commands, an application that is recorded has the directory that is
\* recorded, unless the catalog's stands before it, or a package of it was
\* refused, or a command was killed, after the old directory had been removed.
RecordedIsThere ==
  Quiet /\ ~raced /\ kills = 0 =>
    \A a \in Others :
      is_installed(installed, a) /\ Catalog[a] = 0 =>
        (a \in lost \/ store[a] = installed[a].version)

\* The directories without which a server does not start are those that such a
\* command left behind; a server that finds them still does not start when two
\* applications declare the same entity, which no command has looked at.
StartsUnlessLost ==
  [][ server.state # "failed" /\ server'.state = "failed" =>
        \/ missing # {} /\ missing \subseteq lost
        \/ \E a, b \in Loaded : a # b /\ Declares[a] \cap Declares[b] # {} ]_vars

\* Dependencies are those that were looked at when an application was installed,
\* until a command uninstalls or replaces one of the two; updating asks nothing, and
\* installs what is not installed.
DependenciesInstalled ==
  Quiet /\ ~raced =>
    \A a \in Apps, need \in UNION {Needs[b] : b \in Apps} :
      (is_installed(installed, a) /\ need \in Needs[a]) =>
        \/ a \in replaced \/ need[1] \in replaced
        \/ is_installed(installed, need[1]) /\ installed[need[1]].version >= need[2]

AppsHold == CommandsKept /\ RecordedIsThere /\ DependenciesInstalled
=============================================================================
