------------------------------ MODULE ModLoader ------------------------------
(***************************************************************************)
(* The mod loader of Base: the DLLs of the directory Mods are mapped, put  *)
(* in the order of their imports and initialised (Base/loader.cpp, called  *)
(* from dllenter), and the command reload reads the configuration again.   *)
(*                                                                         *)
(* The mods' sections of custom.yaml are read when the process starts and  *)
(* written at the end, and so they are by a reload.  writeConfig opens the *)
(* file, which empties it, and then writes.  The operator may edit the     *)
(* file at any time, and the process may die or stop at any time.  Of      *)
(* a section the key `enabled' and one value for all other keys are kept.  *)
(* A section that is no map is one with nothing in it: both loops treat    *)
(* the two alike.  The other callbacks of a mod (PostInit, WorldInit,      *)
(* ServerStart, BeforeUnload) are called from plain loops over lists that  *)
(* are in the order of `loaded'; what they throw is caught and logged.     *)
(***************************************************************************)
EXTENDS Naturals, Sequences

CONSTANTS
    Mods,               \* the files of the directory
    Reloadable,         \* mods that export all AfterReload needs
    Throwing,           \* mods whose ApplySettings or AfterReload may throw
    Values,             \* settings
    Default,            \* what a mod's settings are if no file says otherwise
    Unreadable,         \* keys that are missing or not readable
    ModDefaultEnabled,  \* settings.ModDefaultEnabled
    Importing,          \* bound: the ways the mods import each other
    Files,              \* bound: what custom.yaml has at first
    Edits,              \* bound: what the operator writes to it
    Torn,               \* bound: the sections a write leaves that is cut off
    MaxEdits            \* bound: how often

Section == [enabled : {"unset", "yes", "no", "bad"}, value : Values \cup {Unreadable}]

ASSUME ModsAssumption ==
    /\ Reloadable \subseteq Mods /\ Throwing \subseteq Mods
    /\ Default \in Values /\ Unreadable \notin Values
    /\ ModDefaultEnabled \in BOOLEAN
    /\ Importing \subseteq [Mods -> SUBSET Mods]
    /\ Files \subseteq [Mods -> Section]
    /\ Edits \subseteq Section /\ MaxEdits \in Nat
    /\ Torn \subseteq SUBSET Mods

VARIABLES
    imports,    \* the import tables
    customYaml, \* the sections in the file
    parses,     \* whether the file can be read as a configuration
    cfg,        \* the node the process reads them into
    step,       \* what the process does
    todo,       \* mods the loop over the directory, or that over Reloadables, has not come to
    libs,       \* LibList, as the loop over the directory filled it
    at,         \* position of the iterator in a pass over it
    left,       \* the entries that are not erased yet
    deps,       \* their dependencies
    cache,      \* the mods this pass has initialised
    loaded,     \* LoadedMods, in the order of their initialisation
    settings,   \* the settings of each mod
    effective,  \* what AfterReload, or PreInit, has last set it up for
    reported,   \* mods the last reload has reported as reloaded
    written,    \* value the operator last wrote, if the process was not about to write too
    lost,       \* sections that were gone when the process had died in writeConfig
    edits

loadVars == <<todo, libs, at, left, deps, cache, loaded>>
modVars == <<settings, effective, reported>>
operatorVars == <<written, edits>>
fileVars == <<customYaml, parses, lost>>
loaderVars == <<imports, fileVars, cfg, step, loadVars, modVars, operatorVars>>

Step == {"down", "directory", "load", "aborted", "serving", "reload", "write"}

NoSection == [enabled |-> "unset", value |-> Unreadable]

Listed == {libs[i] : i \in 1..Len(libs)}

Initialised == {loaded[i] : i \in 1..Len(loaded)}

----------------------------------------------------------------------------

LoaderInit ==
    /\ imports \in Importing /\ customYaml \in Files /\ cfg = customYaml
    /\ parses = TRUE /\ lost = {}
    /\ step = "down"
    /\ todo = {} /\ libs = <<>> /\ at = 1 /\ left = {} /\ cache = {} /\ loaded = <<>>
    /\ deps = [m \in Mods |-> {}]
    /\ settings = [m \in Mods |-> Default] /\ effective = settings
    /\ reported = {}
    /\ written = [m \in Mods |-> customYaml[m].value] /\ edits = 0

\* The first half of writeConfig: the file is opened, and empty.
Truncate ==
    /\ step' = "write"
    /\ customYaml' = [m \in Mods |-> NoSection] /\ parses' = TRUE
    /\ UNCHANGED lost

\* dllenter: readConfig.  If that throws, or initDatabase does, dllenter ends.  If
\* settings.ModEnabled is off nothing is loaded, and the file is written back.
Start ==
    /\ step = "down"
    /\ \/ step' = "directory" /\ parses /\ UNCHANGED fileVars
       \/ parses /\ Truncate
       \/ step' = "aborted" /\ UNCHANGED fileVars
    /\ cfg' = customYaml
    /\ todo' = IF step' = "directory" THEN Mods ELSE {}
    /\ UNCHANGED <<imports, libs, at, left, deps, cache, loaded, modVars, operatorVars>>

\* The key is set if it is not there, for a mod that is skipped too.
WithDefault(section) ==
    IF section.enabled # "unset" THEN section
    ELSE [section EXCEPT !.enabled = IF ModDefaultEnabled THEN "yes" ELSE "no"]

\* The loop over the directory comes to a mod and maps it, unless it is disabled
\* or LoadLibrary fails.  A key that is no bool (or a section that is a scalar)
\* throws out of loadMods: what is mapped stays mapped, and dllenter ends.
MapMod(m) ==
    /\ step = "directory" /\ m \in todo
    /\ todo' = todo \ {m}
    /\ IF cfg[m].enabled = "bad"
       THEN step' = "aborted" /\ UNCHANGED <<cfg, libs>>
       ELSE /\ cfg' = [cfg EXCEPT ![m] = WithDefault(@)]
            /\ \/ cfg'[m].enabled = "yes" /\ libs' = Append(libs, m)
               \/ UNCHANGED libs
            /\ UNCHANGED step
    /\ UNCHANGED <<imports, fileVars, at, left, deps, cache, loaded, modVars, operatorVars>>

\* The imports that are in LibNameList; those of mods that are not are ignored.
Analyse ==
    /\ step = "directory" /\ todo = {}
    /\ step' = "load"
    /\ left' = Listed
    /\ deps' = [m \in Mods |-> imports[m] \cap Listed]
    /\ at' = 1 /\ cache' = {}
    /\ UNCHANGED <<imports, fileVars, cfg, todo, libs, loaded, modVars, operatorVars>>

\* ApplySettings: a key that cannot be read keeps its value.  If it throws, what
\* comes behind the key it threw at is not applied.
Applied(m) == IF cfg[m].value = Unreadable THEN settings[m] ELSE cfg[m].value

\* Mutant of Initialise: GenerateSettings before ApplySettings.
Initialise_GenerateFirst(m) ==
    /\ \E value \in {Applied(m)} \cup (IF m \in Throwing THEN {settings[m]} ELSE {}) :
          /\ settings' = [settings EXCEPT ![m] = value]
          /\ effective' = [effective EXCEPT ![m] = value]
          /\ cfg' = [cfg EXCEPT ![m] = [enabled |-> "yes", value |-> settings[m]]]
    /\ loaded' = Append(loaded, m)

\* doLoadLib: ApplySettings, GenerateSettings, which is called whether the
\* section was there or ApplySettings threw, and PreInit.
Initialise(m) ==
    /\ \E value \in {Applied(m)} \cup (IF m \in Throwing THEN {settings[m]} ELSE {}) :
          /\ settings' = [settings EXCEPT ![m] = value]
          /\ effective' = [effective EXCEPT ![m] = value]
          /\ cfg' = [cfg EXCEPT ![m] = [enabled |-> "yes", value |-> value]]
    /\ loaded' = Append(loaded, m)

\* One entry of a pass: initialised and erased if it depends on nothing that is left.
Visit ==
    /\ step = "load" /\ at <= Len(libs)
    /\ at' = at + 1
    /\ LET m == libs[at] IN
       IF m \in left /\ deps[m] = {}
       THEN Initialise(m) /\ left' = left \ {m} /\ cache' = cache \cup {m}
       ELSE UNCHANGED <<cfg, left, cache, loaded, settings, effective>>
    /\ UNCHANGED <<imports, fileVars, step, todo, libs, deps, reported, operatorVars>>

\* Mutant of EndPass: what the pass initialised is taken from the names, not from
\* the dependencies.
EndPass_KeepOthers ==
    /\ step = "load" /\ at > Len(libs) /\ left # {}
    /\ deps' = [m \in Mods |-> IF m \in left THEN deps[m] \cap cache ELSE deps[m]]
    /\ cache' = {} /\ at' = 1
    /\ UNCHANGED <<imports, fileVars, cfg, step, todo, libs, left, loaded, modVars, operatorVars>>

\* Mutant of EndPass: the pass is over, but what it initialised is still waited for.
EndPass_Forget ==
    /\ step = "load" /\ at > Len(libs) /\ left # {}
    /\ deps' = deps
    /\ cache' = {} /\ at' = 1
    /\ UNCHANGED <<imports, fileVars, cfg, step, todo, libs, left, loaded, modVars, operatorVars>>

EndPass ==
    /\ step = "load" /\ at > Len(libs) /\ left # {}
    /\ deps' = [m \in Mods |-> IF m \in left THEN deps[m] \ cache ELSE deps[m]]
    /\ cache' = {} /\ at' = 1
    /\ UNCHANGED <<imports, fileVars, cfg, step, todo, libs, left, loaded, modVars, operatorVars>>

\* Every entry is erased.  loadMods returns and dllenter calls writeConfig.
Loaded ==
    /\ step = "load" /\ at > Len(libs) /\ left = {}
    /\ Truncate
    /\ UNCHANGED <<imports, cfg, loadVars, modVars, operatorVars>>

\* The second half of writeConfig.
Write ==
    /\ step = "write"
    /\ step' = "serving"
    /\ customYaml' = cfg /\ parses' = TRUE
    /\ UNCHANGED <<imports, lost, cfg, loadVars, modVars, operatorVars>>

----------------------------------------------------------------------------

\* The hook on ReloadCommand::execute, behind the game's own reload.
BeginReload ==
    /\ step = "serving" /\ parses
    /\ step' = "reload"
    /\ cfg' = customYaml
    /\ todo' = Initialised \cap Reloadable
    /\ reported' = {}
    /\ UNCHANGED <<imports, fileVars, libs, at, left, deps, cache, loaded, settings, effective, operatorVars>>

\* readConfig throws, out of the hook and of the command.
ReloadThrows ==
    /\ step = "serving" /\ ~parses
    /\ reported' = {}
    /\ UNCHANGED <<imports, fileVars, cfg, step, loadVars, settings, effective, operatorVars>>

\* Mutant of ReloadMod: reported before the callbacks are called.
ReloadMod_ReportFirst(m) ==
    /\ step = "reload" /\ m \in todo
    /\ todo' = todo \ {m}
    /\ \/ cfg[m].enabled # "yes" /\ UNCHANGED <<cfg, modVars>>
       \/ /\ cfg[m].enabled = "yes"
          /\ settings' = [settings EXCEPT ![m] = Applied(m)]
          /\ cfg' = [cfg EXCEPT ![m].value = Applied(m)]
          /\ \/ effective' = [effective EXCEPT ![m] = Applied(m)]
             \/ m \in Throwing /\ UNCHANGED effective
          /\ reported' = reported \cup {m}
       \/ /\ cfg[m].enabled = "yes" /\ m \in Throwing
          /\ reported' = reported \cup {m}
          /\ UNCHANGED <<cfg, settings, effective>>
    /\ UNCHANGED <<imports, fileVars, step, libs, at, left, deps, cache, loaded, operatorVars>>

\* One mod of Reloadables: skipped if its section is gone or disabled, reported
\* if all three callbacks return, logged if one throws.
ReloadMod(m) ==
    /\ step = "reload" /\ m \in todo
    /\ todo' = todo \ {m}
    /\ \/ cfg[m].enabled # "yes" /\ UNCHANGED <<cfg, modVars>>
       \/ /\ cfg[m].enabled = "yes"
          /\ settings' = [settings EXCEPT ![m] = Applied(m)]
          /\ cfg' = [cfg EXCEPT ![m].value = Applied(m)]
          /\ \/ /\ effective' = [effective EXCEPT ![m] = Applied(m)]
                /\ reported' = reported \cup {m}
             \/ m \in Throwing /\ UNCHANGED <<effective, reported>>
       \/ cfg[m].enabled = "yes" /\ m \in Throwing /\ UNCHANGED <<cfg, modVars>>
    /\ UNCHANGED <<imports, fileVars, step, libs, at, left, deps, cache, loaded, operatorVars>>

EndReload ==
    /\ step = "reload" /\ todo = {}
    /\ Truncate
    /\ UNCHANGED <<imports, cfg, loadVars, modVars, operatorVars>>

----------------------------------------------------------------------------

\* What is in memory is gone with the process.
Gone ==
    /\ step' = "down"
    /\ todo' = {} /\ libs' = <<>> /\ at' = 1 /\ left' = {} /\ cache' = {} /\ loaded' = <<>>
    /\ deps' = [m \in Mods |-> {}]
    /\ settings' = [m \in Mods |-> Default] /\ effective' = settings'
    /\ reported' = {}
    /\ UNCHANGED <<imports, cfg, operatorVars>>

\* The process stops, or dies: nothing is written then.
Down ==
    /\ step \notin {"down", "write"}
    /\ Gone
    /\ UNCHANGED fileVars

\* It dies in writeConfig: what the file has is empty or cut off somewhere.
Tear(kept) ==
    /\ step = "write"
    /\ Gone
    /\ customYaml' = [m \in Mods |-> IF m \in kept THEN cfg[m] ELSE NoSection]
    /\ parses' \in BOOLEAN
    /\ lost' = lost \cup (Mods \ kept)

\* The operator writes a section, in a file that parses or does not.  An edit made
\* between the read and the write of the process is overwritten.
Edit(m, section) ==
    /\ edits < MaxEdits /\ edits' = edits + 1
    /\ customYaml' = [customYaml EXCEPT ![m] = section]
    /\ parses' \in BOOLEAN
    /\ lost' = lost \ {m}
    /\ written' = [written EXCEPT ![m] =
           IF step \in {"down", "aborted", "serving"} THEN section.value ELSE Unreadable]
    /\ UNCHANGED <<imports, cfg, step, loadVars, modVars>>

LoadStep == (\E m \in todo : MapMod(m)) \/ Analyse \/ Visit \/ EndPass \/ Loaded \/ Write

LoaderNext ==
    \/ Start
    \/ LoadStep
    \/ BeginReload \/ ReloadThrows
    \/ \E m \in todo : ReloadMod(m)
    \/ EndReload
    \/ Down
    \/ \E kept \in Torn : Tear(kept)
    \/ \E m \in Mods, section \in Edits : Edit(m, section)

LoaderSpec == LoaderInit /\ [][LoaderNext]_loaderVars

\* The thread that starts the process goes on; nobody is obliged to reload or to stop.
LoaderFairSpec == LoaderSpec /\ WF_loaderVars(LoadStep)

----------------------------------------------------------------------------

LoaderTypeOK ==
    /\ imports \in [Mods -> SUBSET Mods]
    /\ customYaml \in [Mods -> Section] /\ cfg \in [Mods -> Section]
    /\ parses \in BOOLEAN /\ lost \subseteq Mods
    /\ step \in Step
    /\ todo \subseteq Mods /\ left \subseteq Mods /\ cache \subseteq Mods
    /\ libs \in Seq(Mods) /\ loaded \in Seq(Mods)
    /\ at \in Nat \ {0}
    /\ deps \in [Mods -> SUBSET Mods]
    /\ settings \in [Mods -> Values] /\ effective \in [Mods -> Values]
    /\ reported \subseteq Mods
    /\ written \in [Mods -> Values \cup {Unreadable}]
    /\ edits \in Nat

(***************************************************************************)
(* When a mod is initialised, every mod of the list that it imports is     *)
(* initialised before, and none is initialised twice, whatever order the   *)
(* directory is in and however many passes it takes.                       *)
(***************************************************************************)
DependenciesFirst ==
    \A i \in 1..Len(loaded) :
        LET before == {loaded[j] : j \in 1..(i - 1)} IN
        /\ imports[loaded[i]] \cap Listed \subseteq before
        /\ loaded[i] \notin before

\* No mod of the list imports itself through others: every set of them has one
\* that imports none of the set.
Acyclic ==
    \A S \in SUBSET Listed \ {{}} : \E m \in S : imports[m] \cap S = {}

(***************************************************************************)
(* If the mods do not import each other in a cycle, the loop over LibList  *)
(* ends and leaves none of them out.  (If they do, no pass finds one it    *)
(* could initialise, and the server never starts.)                         *)
(***************************************************************************)
LoadEnds ==
    step = "load" /\ Acyclic
        ~> step = "down" \/ (step = "serving" /\ Initialised = Listed)

(***************************************************************************)
(* What the operator wrote is still there, whatever was started, disabled, *)
(* reloaded, refused as unreadable or interrupted since: the process       *)
(* writes the file back with what it read from it.  It is lost in three    *)
(* ways only: the process dies in writeConfig, between opening the file    *)
(* and the end of the write (settings.hpp:67), which costs every section   *)
(* that is not written yet; the edit was made while the process was        *)
(* between its read and its write; or the mod's ApplySettings throws       *)
(* half-way, and GenerateSettings then writes what was applied.  While the *)
(* file is being written the process has it.                               *)
(***************************************************************************)
EditsKept ==
    \A m \in Mods \ (Throwing \cup lost) :
        \/ written[m] = Unreadable
        \/ (IF step = "write" THEN cfg ELSE customYaml)[m].value = written[m]

(***************************************************************************)
(* A mod that a reload reports runs with the settings the file has then,   *)
(* and has been set up for them.                                           *)
(***************************************************************************)
ReportedIsEffective ==
    \A m \in reported : effective[m] = settings[m] /\ settings[m] = cfg[m].value
=============================================================================
