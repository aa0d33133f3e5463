# Verification of ElementZero

ElementZero is a mod loader for the Bedrock dedicated server, with a base
library and the two dozen mods that come with it. This directory holds TLA+ models
of the parts of it that keep state, the configurations that model-check them with
TLC, and theorems about them that TLAPS checks. Paths are those of the
repository, below `src/`.

Everything is translated from the code; where the code and a document say
different things, the model follows the code and the section *Departures* says so.

## How to run it

    tlc -config MCTickScheduler.cfg MCTickScheduler     # any run listed below
    tlapm TickSchedulerProofs.tla                       # any *Proofs module

`PROJECT.json` lists the components, the runs, for every property a mutant of the
model that violates it, for every definition the source lines it stands for, the
hazards, the findings and the theorems.

## The system

The server is one process. The game's *server thread* runs the tick loop, calls
the hooks the mods have put on the game's functions, executes commands, and runs
the scripts (the engine may be used on this thread only). Almost everything in the
repository happens there; the concurrency that exists is of three kinds.

* **Handlers inside loops.** A timer's handler, a listener of an event, a form's
  callback or a script function runs *inside* an operation of the component that
  calls it, and calls the component back.
* **Other threads.** The worker thread of `Base/scheduler.cpp` and the network threads of
  `HttpRequest`, which reach the server thread through a queue, and the bus client of `Bus`,
  which does so for commands only (see *Departures*).
* **Failures.** An exception that leaves a listener or a statement of SQLite in the
  middle of an operation; the death of the process between two statements.

And it lives with objects it does not own: the game allocates and deletes `Player`
objects, the mods keep pointers to them.

### Inventory: what is modelled

**Tick scheduler** (`Base/scheduler.cpp`, `apiset/timer.cpp`). State: two ordered
containers (one-shot timers, intervals), the tick counter, the last tokens.
Operations: `SetTimeOut`, `SetInterval`, `ClearTimeOut`, `ClearInterval`, the hook
on `Level::tick` with a loop over each container. Used by teleport requests, boss
bars, the motd, script timers and the continuations of script promises. Hard:
handlers arm and clear timers under the iterator of the loop that called them;
delays are added in 64 bits and wrap; an interval may be 0, and so may the delay of a
timeout that a handler arms. Correct if: handlers run in their tick, a pass misses nothing,
nothing comes back, every tick ends that can.

**Worker thread** (`Base/scheduler.cpp`). State: queue, mutex, condition variable,
exit flag. Operations: `RunInWorkerThread`, the worker's loop, `OnExit`. Hard: lost
wake-ups, tasks that run with the mutex held, exit at any time. Correct if: tasks run
once and in order, all of them, and the exit returns.

**Player database** (`Base/playerdatabase.cpp`, `playerdb.h`). State: the container
of online players with five unique indices, auxiliary data by address, the tables
`user`, `login`, `logout`. Operations: the hooks on `createNewPlayer` and
`_onPlayerLeft`, `Find`, `GetAux`. It tells every other mod about players with the
events `joined` and `left`. Hard: keys that collide, listeners and statements that throw
halfway through a join or a leave, addresses that are reused, handles scripts keep. Correct if: no entry and no listener's
copy outlives its player, and auxiliary data is the player's own.

**Teleport requests** (`Essentials/teleport.cpp`). State: a container of requests,
indexed by source, by target and by the token of a timer. Operations: `/tpa`,
`/tpaccept`, `/tpdeny`, the timeout, the listener on `left`. Hard: answer, timeout
and leaving race. Correct if: a request is pending exactly as long as its timer and
never about a player who is gone.

**Blacklist** (`BuiltinMods/Blacklist`). State: the tables `uuid`, `xuid`, `name`.
Operations: the check of a login, `/ban` by selector and by name, `/unban`, lookups
in the user table of the player database. Hard: a ban by name becomes one of uuid
and xuid at the first refused login, players rename, rows are stale, 0 stands for
no xuid, and a player whose key the container has already plays on without an entry.
Correct if: who is banned stays out and nobody else does.

**Economy** (`BuiltinMods/Economy`). State: `transaction_log` with a trigger and the
view `balance`. Operations: `UpdateBalance`, the command `update-balance` over
several targets. Hard: the trigger's condition, failure halfway. Correct if: nobody
comes into debt (which is not so for a player's first change) and a command changes all
its targets or none.

**Custom names** (`Essentials/database.cpp`, `custom_name.cpp`). State: a table, the
backup of an older one, `user_version`. Operations: the migration at start, set and
clear. Hard: the process dies anywhere in the migration and is started again.
Correct if: no row is lost and the server only runs on the newest table.

**HttpRequest** (`apiset/httprequest.cpp`). State: a counted callback object with a
buffer, a `NotifyToken`, the holders of a promise's functions, the queue of the
server thread. Operations: the call, four callbacks on a network thread, the
functions they queue. Hard: functions that refer to another thread's stack, a wait
for a queue that may stop and for a function that may throw, two promises through one
pair of holders, a raw `this`. Correct if:
what is referred to is there, bodies are whole, both outcomes reach the script.

**FormUI** (`BuiltinMods/FormUI`). State: for each player a map from form numbers to
callbacks. Operations: sending a form, the settings form, the answer. Hard: answers
in any order, callbacks that send forms while their entry is erased. Correct if: an
answer gets to its callback, and callbacks are not kept.

**Warps** (`Essentials/warp.cpp`). State: two tables; the lists menus have copied.
Operations: set, delete, teleport, the menus, listeners that refuse. Hard: the tables
change while a menu is on the screen. Correct if: a button leads where it says.

**Mod loader** (`Base/loader.cpp`, `settings.hpp`, `dllmain.cpp`). State: the list of
mapped mods with the dependencies they still wait for, the list of initialised mods,
the node of `custom.yaml` and the file. Operations: the start with its loop over the
directory and its passes over the list, `reload`, the end of the process. Hard: mods
that import each other in any way and are mapped in any order, callbacks that throw,
an operator who edits the file at any time, a file that is emptied before it is written.
Correct if: a mod comes behind what it imports, loading ends, edits are lost only where the
write of the file makes it unavoidable, what is reported as reloaded is in effect.

**Hooks** (`ModLoader/hook_impl.cpp`, `hook.h`). State: for each hooked address the
hook whose `original` is the entry, and that variable of each hook. Operations:
registration before and after funchook's installation. Hard: the order in which
DLLs register, and refusals halfway. Correct if: a call runs every hook once and ends
in the game's code.

**Events** (`base/event.h`), with the **chat** (`ChatAPI`) that uses them. State: a
multiset of listeners by priority, the trampolines of an emission in progress, a
`CallbackToken`. Hard: listeners that add listeners, call on twice or not at all,
refuse or throw. Correct if: listeners are called in order, nobody twice, and a line that
is sent was refused by nobody.

**Script modules** (`script_loader.cpp`). State: the cache from paths and names to module
records, the stack of modules being parsed. Operations: the start, `import` and
`import()`. Hard: cycles, files and mods that are missing, a cache asked for what is
spelled before what is meant. Correct if: all who import a module share one.

**Script values** (`chakra_helper.h`). State: reference counts of functions C++ holds.
Hard: `std::function` copies and moves holders at will while the engine collects at any
time. Correct if: what is held is not collected, and what is not is.

**Script commands** (`commandapi.cpp`). State: enumerations, overloads, the memory of a
command object. Hard: three pieces of code compute the offset of a parameter. Correct
if: the script's function gets the arguments of the line.

**Script SQLite** (`sqlite3.cpp`). State: a prepared statement with its bound values, the
loops over its rows. Hard: callbacks that use the statement, exceptions that skip the
clean-up, objects of values. Correct if: a statement runs with the values of the call.

**Boss bars** (`BossBarSupport`). State: the bars of each player, which of them the client
has, timers of rebuilds. Operations: create, show, hide, destroy, the two halves of a
change of dimension, leaving. Hard: everything may happen between these halves and
before the timer, and the game may refuse the change. Correct if: a player sees its own
bars, and all it should.

### Inventory: what is not modelled

| component | what it does | why it is not modelled |
|---|---|---|
| Log (`Base/log.cpp`) | prints and appends rows with one statement all threads share without a lock | undefined behaviour whose outcomes no document limits: no property to state |
| Player and entity handles (`playerapi.cpp`, `entity.cpp`, ...) | script objects with properties | the lifetime of a handle is that of a listener in `PlayerDatabase`; what is read through it keeps nothing |
| Other script functions | convert arguments and call a component above | no state |
| Bus (`BuiltinMods/Bus`) | publishes events, serves calls | connection, retries, calls and answers are the library `mini_bus`, whose source is not in the repository |
| Spawn protection | a distance refuses an action | a guard, no state but settings |
| Sign commands | text of a sign, run as a command | one step, no state of its own |
| Audit, packet dumper, debug tool | rows appended and printed | input and output only |
| Basic anti cheat, FlatWorld, NetworkStatus, NoEncryption, NullPlayerData, CrashHandler, WineFix, Experimental | one hook each, or a few | replace an argument or a result of one call |
| Dynamic motd | one interval | covered by `TickScheduler`, with the interval 0 its settings allow |
| Custom scoreboard, homes, transfer | functions that send packets | keep nothing |
| `forward.cpp`, checks of files at start-up | forward symbols, check files | input and output only |
| `MinecraftHeaders` | declarations of the game's classes | external |

This is most of the lines of the repository, and of the rest a good part is
declarations and conversions: headers of the game, converters between C++ and JavaScript
in `chakra_helper.h`, properties of script objects, registration tables of commands.
Nothing of it has an order of steps, a failure path or a state to get wrong that is not in
a module already, so a model of it would repeat the code and check nothing.

Of the modelled components, these parts are left out; each note in `PROJECT.json` says
what: columns nothing reads, sums beyond 2^63, a request's own headers and redirects, promises that
are rejected, `import()` from code that is no module, opening and closing a database,
formatting.

The *game* (and SQLite, the XHR object, the client) is outside of `src/`. What the
modules assume of it is said in their comments: the game may reuse the address of a
deleted object, calls the two hooks one after the other, and deletes an object only
through `_onPlayerLeft`; a statement outside of a transaction takes effect as a whole
or not at all; the callbacks of one request come one at a time.

## The modules

    TickScheduler <---- Teleport          (INSTANCE: the timers of a request)
    FormUI <---- Warp                     (EXTENDS: the forms of the menu)
    PlayerDatabase      Blacklist
    WorkerThread, HttpRequest             in the run MCThreads
    Economy, CustomName, Warp             in the run MCStores
    ModLoader, HookChain                  in the run MCLoader
    ScriptModules, Handles, CommandParameters, Statements, Events, BossBars
                                          in the run MCScripts

`MC<module>` gives a module small sets for TLC. `MCThreads`, `MCStores`, `MCLoader` and
`MCScripts` check several modules that share no state: a behaviour is one of one of them, chosen by the
initial state, and the others rest, so their states add up instead of multiplying.
`<module>Proofs` holds the theorems of a module; those of `FormUI` are in `WarpProofs`,
those of `Economy`, `CustomName` and `Blacklist` in `StoreProofs`, those of `WorkerThread`,
`ModLoader`, `HookChain` and `Events` in `BaseProofs`, and those of `Handles`, `Statements`,
`BossBars`, `CommandParameters` and `ScriptModules` in `ScriptProofs`. A definition whose name is `<operator>_<word>`
is a mutant: the operator with a plausible bug. No specification uses mutants; they
show that the property they are listed with in `PROJECT.json` can fail.

How long a step is: an action is one handler from its first line to its last, when
it runs on the server thread without calling anything back. It is cut where the code
hands control away: at a handler called from a loop (`TickScheduler`), at every
acquisition, test and wait on a lock (`WorkerThread`, `HttpRequest`), at every
statement that the death of the process may separate from the next (`CustomName`,
`Economy`).

### TickScheduler

| in the model | in the code |
|---|---|
| `timeouts`, `intervals` | `container<OneShotEvent>`, `container<IntervalEvent>` |
| `ticks`, `maxTimeout`, `maxInterval` | `current_ticks`, the two static `max` |
| `phase`, `running`, `last` | where the hook on `Level::tick` stands, whose handler is on the stack, the iterator |
| `SetTimeOut`, `SetInterval`, `ClearTimeOut`, `ClearInterval` | the functions of these names |
| `Tick`, `CallTimeout`, `TimeoutReturn`, `EndTimeouts` | the hook up to the end of the first loop |
| `CallInterval`, `IntervalReturn`, `Rearmed`, `EndIntervals` | the second loop and the call of the original |
| `Plus`, `ToGameTick`, `ScriptInterval` | the addition in `uint64_t`, the conversions of `timer.cpp` |

A handler is not one step: between `CallTimeout` and `TimeoutReturn` it may call all
four operations, as scripts and mods do. The clock has `Modulus` values, so that a
negative delay wraps as it does in 64 bits. If a handler clears its own timer, the
loop goes on with an erased iterator: the phase `undefined`, which nothing leaves.
`Continue` is a handler that arms its own successor (a timeout of 0 that arms one, as a
chain of promise continuations does); the number of other timeouts is bounded, that of
successors is not, as a successor takes the token of the one it follows.

### WorkerThread

`mtx`, `exited`, `tasks` are the mutex, the flag and the queue; `worker`, `main` and
`submitter` say where each thread is. `Lock`, `Test`, `Block`, `Check`, `RunTask`,
`EndTasks` are the worker's loop; `Block` releases the mutex and begins to wait in
one step, as a condition variable does. `SetExited`, `NotifyExit`, `Join` are
`OnExit`, which does not take the mutex. A wait may end without a signal
(`SpuriousWakeup`). `submitted` and `ran` are there for the properties.

### PlayerDatabase

`alive`, `identity` and `leaving` are the game's: objects, whose they are, and those it
was told to kick or has begun to remove. `container` is the multi-index; `told` is what each listener has
heard of and not been told to forget, which is what teleport, bus, boss bars and
script handles keep; `aux` is the map of auxiliary data. `CreateNewPlayer` is the hook
on joins, by how far its `try` block gets: `IllegalXuid`, `ListenerThrows`,
`SqlThrows`, `PlayerJoins`. `PlayerLeft` is the hook on leaving, by how far it gets as well:
`LogoutThrows` and `LeftListenerThrows` are exceptions out of the hook, which leave the
entry, the auxiliary data and the object behind, `Released` is its end. `handles` are the
entries that scripts keep a copy of, and `GetAux` is a use of one, whoever is at the
address by then.

### Teleport

`Request` is `/tpa`; `Accept` and `Deny` are the answers; `Left` is `onPlayerLeft`;
`CallTimeout` is the step of the timers' loop that calls a handler, together with
what the handler does if it is that of a request. All other mods' timers arm, clear
and run between them (`OtherTimer`).

### Blacklist

`uuidRows`, `xuidRows`, `nameRows` are the keys of the three tables, `users` the user
table in the order a scan visits it. `RefuseLogin` and `Admit` are a login; the first makes
a match by name one of uuid and xuid (`UpdateIDs`). `Ban`, `BanName` and `Unban` are
the commands. `playing` is who is online for the game, `online` the container, which does
not take a player whose key it has (`Taken`) and through which `/ban` finds whom it kicks.
For the properties, `turnedAway` records who was refused, `cameAs` under which names
accounts have come, `selected` and `bannedNames` what operators have asked for.

### Economy

`committed` is the database file, `view` what the open connection reads; both map a
player to the sum of its rows in the log, or to `NoRow`. `Begin`, `UpdateNext`,
`Commit`, `Rollback` are the command `update-balance`; `UpdateBalance` is the
function of the mod's API. `Prohibited` is the trigger's condition, which is NULL,
hence false, for a player without rows; so the first change of any amount passes. The death
of the process is a `Rollback`.

### CustomName

`file` is the database as of the last commit, `work` as the open connection sees it,
`pc` the statement `initDatabase` comes to. `Die` may follow any statement. The
initial states are the files that the releases of the mod leave behind: none, versions
0 to 2, and a version this release does not know.

### HttpRequest

`network[r]` says how far the callbacks of request `r` are, `refs[r]` counts the
references to its callback object, `token[r]` is the `NotifyToken` on the stack of
`OnHeadersAvailable`, `queue` holds the functions for the server thread. `promise[r]` is
what the script got, `data[r]` the promise for the body, and `holder[r]` says whose
functions the two holders contain. `RunHeadersThrows` is an engine call that throws in the
function of `OnHeadersAvailable`, behind which the token is never notified. Using a token or
an object that is gone is the state `Undefined` of the server thread.

### FormUI and Warp

`data[p]` is the map of `FormAuxData`, `screens[p]` what the player has before it,
`sent` numbers the forms so that a property can say whose answer a callback gets.
`Respond` is the answer to a form: its callback runs, may send a form or throw, and
then its entry is erased, if the answer is null or a number or the callback threw.
`Warp` adds the tables `own` and `global`, the commands, and menus whose callbacks hold
the list they were made from. `moved` is where a player was last sent.

### ModLoader

`customYaml` is the file, `cfg` the node it was read into. `Start` and `MapMod` are the
loop over the directory (a mod at a time, in any order, mapped or not), `Analyse` the
analysis of the import tables, `Visit` and `EndPass` the passes over `LibList`, `Loaded` the
return into `dllenter`, which writes the file. `BeginReload`, `ReloadMod`, `EndReload` are
the hook on the command, `ReloadThrows` is a file it cannot parse; a mod of `Throwing` may
throw in any of its callbacks, with its settings applied or not. A write of the file is two
steps, `Truncate` (opening the stream empties it) and `Write`; `Tear` is the death of the
process in between, with some of the sections written. `Down` is its end anywhere else,
`Edit` the operator, who may leave a file that does not parse. For the property, `written`
remembers an edit that no process was about to overwrite, and `lost` what a torn write cost.

### HookChain

`hookmap` is `hookmap` of `hook_impl.cpp`, `original` the variables of the hooks.
`RegisterFirst` asks funchook, `RegisterNext` links a hook into the chain, `Refuse` is
the exception that unmaps the DLL. `order` is the list a call should run through.

### Events

`set` is the multiset in its order, `running` the calls in progress, each with the iterator of
its trampoline. `Line` begins an emission, `CallNext` is the trampoline, `GiveReason` the
token, `AddWithin` a listener that adds one, `Throw` an exception into the handler of
`_displayGameMessage`. What each listener does is a sequence of such parts.

### ScriptModules

`modcache` is `mod_cache`, `records` the records the engine has made, `parsing` the calls of
`JsParseModuleSource` in progress, innermost last. The actions of `FetchModule` are the
branches of the callback of this name, `Parsed` is the return of the engine, behind which
the cache is filled. `links` records what every import was answered with.

### Handles

`holder` maps places to what a `ValueHolder` there holds; each constructor, assignment and
the destructor is an action. `count` is the engine's reference count, `Forget` and `Collect`
are the scripts and the engine. `SetHandler` is the one `LeakedHolder` that is assigned to.
`ConstructUnset` is the default constructor together with the assignment that follows it in
`ScriptAuxData`: what is released then is whatever the memory held. `robbed` are the values
a reference was given back of by one who had not taken it.

### CommandParameters

`memory` is the command object byte by byte, behind the base class. `Offset` is how all
three pieces of code find a parameter, `FlagOffset` and `FetchedFlag` how the parser and
the call find the flag of an optional one. `Make`, `Parse`, `Execute`, `Destroy` are a
command's life.

### Statements

`stmt` and `bound` are SQLite's state of the statement, `loops` the calls of `forEach` in
progress. `ExecWith`, `ForEach` and the steps of a loop are cut where the script's function
runs. Values are bound one by one up to the first that is refused (`Taken`), so a call that
throws may leave some (`BindThrows`). An array binds its elements; of an object `BindAll`
looks for the names in the object itself, so it binds nothing but nulls, to the parameters
that properties 0, 1, ... of it name (`Listed`), and throws for every other (`ObjectThrows`).
`asked` and `used` are the values a call was given and those its run began with; `own` says
that a script has done what the property asks of it, `thrown` what has thrown since.

### BossBars

`sets` is the auxiliary data that owns the bars of the player at an address, `actors` and
`shown` are what the client has. `LeaveDimension` and `EnterDimension` are the two calls
of the hook. The first takes the bars away and then asks the game, which may refuse: then
the bars are `refused`, otherwise `away`. `BarsTick` runs the timers of `Rebuild`.
`session` tells players at one address apart. A timer that uses a deleted bar is `freed`.

## What is checked

Every run that passes has visited all reachable states. Times are those of two workers.

| run | instance | distinct states | time |
|---|---|---|---|
| `timers` | 3 timeouts and their successors, 2 intervals, 3 ticks, delays -1, 0, 2, intervals 0, 2 | 331,628 | 66 s |
| `threads` | 3 submitters, the task of one submits again; 2 requests, 2 blocks | 9,876 | 8 s |
| `http_response` | the same; ends with a counterexample | | 4 s |
| `playerdb` | 2 addresses, 4 identities, 2 listeners | 1,117,784 | 90 s |
| `teleport` | 3 players, 3 timers, timeout 2 | 40,616 | 10 s |
| `blacklist` | 2 accounts, 3 names, 3 xuids | 749,856 | 108 s |
| `blacklist_unban` | the same; ends with a counterexample | | 2 s |
| `stores` | 3 players, changes by 1 and 2; 3 names in databases of all versions; warps of 1 player, 2 names, 3 forms | 484,053 | 86 s |
| `economy_debt` | the same; ends with a counterexample | | 2 s |
| `loader` | 3 mods, 12 ways to import, one edit; 4 hooks of 2 DLLs on 2 functions | 1,359,388 | 128 s |
| `scripts` | 5 files; 2 functions in 3 places; 3 parameters; 2 bound values; 3 listeners; 2 bars of 2 players | 233,581 | 47 s |
| `scripts_objects` | the same; ends with a counterexample | | 11 s |

**timers.** `RunsOnTime`: a timeout's handler runs in the tick the timer is for,
whatever handlers arm and clear under the loop and whatever wraps around. `PassComplete`: a
pass leaves only what was armed during it, behind the iterator, with a negative delay; a
delay of 0 asked for in a handler runs in the same pass, on which the continuations of
script promises rely. `NoResurrection`: rearming an interval never brings back one that was
cleared. `TickEnds`: a tick ends but in two cases, in which the server hangs in the hook: an
interval is rearmed for the tick it runs in (it is 0, or wraps), or handlers of timeouts arm
timeouts that are due at once without end (`Endless`). `TimeoutResolved`: unless one of them
happens, every timeout is run or cleared. Handlers may clear their own timers here.

**threads.** `TasksInOrder`, `TaskRuns`: tasks run in order and once, and each runs unless
the server exits first: no signal of a submitter is lost. `ExitReturns`: `OnExit` returns
unless its signal falls exactly between the worker's test of the flag and its wait, which
the missing lock in `OnExit` allows; the property names the only window.
`UsableUnlessReleased`: while a function is in the server's queue, what it refers to on
another thread's stack is alive (`ByReference`), the body it has is whole and in order
(`BodyComplete`), and the object behind its raw `this` is there exactly until the XHR object
lets go of it (`RawThis`): the functions of the last callback may run later than that and
then use freed memory. `RequestsSettle`: no network thread is left waiting while the server
runs, unless the function it waits for has thrown, and an error before the headers rejects
the script's promise.

**playerdb.** `EntriesOwned` and `NoStaleListener`: nothing dangles, neither in the
container nor in what listeners keep, even if keys collide and joins and leaves fail halfway.
`AnnouncedOrLeaving`: a player some listener does not know is being kicked, or a leave of it
failed halfway. `AuxStaysOwn`: a player comes to find auxiliary data of an earlier one at its
address only by a lookup through a handle that a script has kept, and no data outlives the
entry it was made for. `SmoothIsCurrent`: in behaviours where nothing collides and nothing
fails, the user table has the row of every online player and the only objects never
released are those of players whose xuid is not a number. It needs this restriction;
`MCPlayerDatabase` makes the choice in the initial state.

**teleport.** `PendingIffArmed`: a request is pending exactly as long as its timer.
`NoDanglingPlayer`: requests are about players who are there. `TimersValid`: no answer and no
timeout invalidates the iterator of the loop over the timers. `Resolved`: no request
stays forever. (The timers of other mods have a delay of 1 here; what one of them does to a
tick by arming timeouts without end is said in `timers`.)

**blacklist.** `TurnedAwayStaysOut`: taking another name does not help. `BannedIsKicked`: an
account whose identity is banned is kicked wherever it is, with one exception: it plays
without an entry in the container, because it has no xuid or came under a name another
account has come under; `/ban` does not find it. `NobodyElseIsBlocked`: a login is refused
only to accounts that were selected in a command, that have come under a banned name (rows
are stale: under any name they ever had), or that have such a name now; and to accounts
without xuid once one of these has none either.

**stores.** `DebtIsTheFirstChange`: a player comes into debt by the first change of its log
only, and a debt then stays as it is until it is paid off at once. `AllOrNothing`: a command
changes all its targets or none. `NamesKept`, `RefusedForAReason`: no row is lost at any
point of death, and a start is refused only for a later version or after a death between the
commit (or the creation) and the `PRAGMA`. `CallbackPerForm`: an answer gets to the callback
sent with its form, and the callback of a list of buttons goes with its form. `ButtonsLead`:
a button leads to the warp whose name is on it, at the place it had when the menu was made.
`WithinLimit`: a listener that counts rows keeps its limit, although rows are written before
listeners are asked.

**loader.** `DependenciesFirst`: mods are initialised once, behind what they import.
`LoadEnds`: loading ends and leaves none out unless mods import each other in a cycle.
`EditsKept`: what an operator wrote survives every start, stop and reload, but for three
cases the property names: the process dies within the write of the file, after it was
emptied; the edit was made between its read and its write; the mod throws in
`ApplySettings`. `ReportedIsEffective`: what a reload reports as reloaded runs
with the settings of the file. `CallsEveryHookOnce`: following `original` from the entry runs
through every hook once, whatever the order of registration.

**scripts.** `SharedModules`: all who import a module get the same record of it; ambiguous
specifiers (below) are excepted, and what follows from two answers to them. `HeldIsAlive`:
what C++ holds is not collected, and the count is the number of holders plus what move
assignments have lost; values are excepted that lost a reference to the handler of `/!` or
to a holder whose ref was unset. `ArgumentsAsGiven`: the function of a command without
optional selectors (below) gets what the line gives, in place, and `undefined` for what it
does not, and the parser stays inside the command's memory. `OwnParameters`: a script that
uses a statement by `execWith` and `forEachWith` alone runs it with every value of the call,
also after one of them has thrown: then SQLite refuses new values or the run has them, but
parameters the call gives no value for may have one of an earlier call. If nothing has
thrown they are null. `CalledInOrder`: a line of chat comes to the listeners by
priority and age, to none twice, and when it is sent nobody has refused it. `BarsOnScreen`:
bars on the screen are the player's own, and every bar is there but those whose timer is to
run and those a change of dimension has taken, one under way or one that was refused. Only
the bars taken by a refused change are excepted for longer, until a timer or a later change
makes them again.

### The four runs that end with a counterexample

**blacklist_unban.** `BuiltinMods/Blacklist/README.md` says `/unban target` takes a
"player name / uuid / xuid". Ban a name nobody has joined under; its owner tries to log
in and is refused, which adds rows for uuid and xuid; `/unban` of the name removes
the row of the name, and the owner is still refused.

**economy_debt.** The trigger of `Economy/database.cpp` says "Prohibition of negative
balance". Its condition is NULL for a player without rows, whose balance the API reports
as 0: a first withdrawal of any amount passes, and the player is in debt.

**http_response.** `ez.d.ts` declares `HttpRequest` to return a `Promise<HttpResponse>`.
`OnHeadersAvailable` puts the functions of the promise for the body into the holders
*before* it calls the holder `resolve` with the response (`httprequest.cpp:203`): the
promise for the body is resolved with the response, and the script's promise stays
pending, whether a response or an error follows.

**scripts_objects.** `ez.d.ts` declares `execWith`, `forEachWith` and `bindAll` for objects of
values by name. `BindAll` fetches the list of the names and then reads the names from the
object instead of the list (`sqlite3.cpp:117`): the first one is `undefined`, and the call
throws.

### Bounds, and why they are enough

* `Modulus` 16 and `MaxTick` 3: wrapping needs a delay of -1 only, and the ticks are
  far enough from the modulus that nothing else wraps, as in 64 bits. Three timeouts
  give one before, at and behind an iterator; two intervals give one that clears the
  other. A handler that arms its own successor does so with the token of its timer, as often
  as it likes, so no bound ends such a chain. The proofs do not depend on these numbers.
* Three submitters: one runs, one is queued behind it, one comes at any time.
* Two addresses and four identities: enough for every pair of colliding keys (same
  account under two names; another account with the first's name), for reuse of an
  address, and for an xuid that does not parse. `MaxSkew` 1 caps the difference of login
  and logout rows, which smooth behaviours do not exceed.
* Three players for teleports: a request, and another whose source or target it shares.
* Two accounts, three names: a name can change hands and a third be free. The xuids are
  chosen in the initial state, so that both, one or none of the accounts has one.
* Balances from -3 to 3: debts, 0, and room above; the bound is a guard of the changes
  (`InSums`), so a change that leaves it is not made.
* Three mods with twelve import graphs: none, chains, one that imports two, cycles of two
  and of three; two values of a setting and one edit at any time, so that an edit can fall
  before, between and behind every read and write; a write that is cut off keeps the first
  section and loses the others. Four hooks: three on one function, of
  two DLLs, and one on another.
* Five files in two directories, among the contents cycles, a missing file, a mod that is
  not loaded and a name that means different files; a stack of 5 and one `import()`.
* Three places for two functions: a copy, a move and an assignment among them; counts up to 3.
* Three parameters of three types, one of which is a selector, every choice of optional
  ones; two parameters of a statement, two loops inside each other; three listeners, two of
  equal priority, three lines; arrays of up to three values for the two parameters, so that
  there can be one too many; two bars, two players, one session of each address before it
  is used again, and a rebuild of two ticks, so that it can be overtaken.
* Two requests: the queue can hold functions of both in any order; two blocks: a body
  in none, one or two parts.
* One player address with three forms before it: forms of different players do not meet,
  while a player who leaves and another at the same address do. Form numbers from
  {0, 1, 2}: collisions are the normal case, and a third form can take the number of a
  second while the first is still open. One height, as only `/warp to` computes with it.

`SYMMETRY` is used for accounts, names and xuids in `blacklist` and for the names of warps in
`stores`, which check no liveness. `CHECK_DEADLOCK FALSE` is used where the system may stop:
`timers` and `threads` end in a state marked undefined or after the exit, `playerdb` when all
addresses hold objects that are never released, `loader` and
`scripts` where a bound on edits, calls or lines is reached or the stack has run over.

### Fairness

* `TickScheduler`, `Teleport`: weak fairness of the tick and of the hook's steps. The game
  calls `Level::tick` forever and a handler returns; nobody is obliged to call the API.
* `WorkerThread` (`MCThreads` states the fairness of both of its parts): weak fairness of the
  worker, of the two steps after `SetExited` and of
  each submitter's signal: threads that can run do. The mutex is only ever held by the
  worker between two steps, so weak fairness is enough to get it. No fairness of
  `SpuriousWakeup`, `Enqueue` or `SetExited`.
* `HttpRequest`: weak fairness of the server thread's queue and of each request's network
  thread. The XHR object ends every request with a response or an error. No fairness of
  `HttpRequest`, `SpuriousWakeup` and `Exit`. That a function throws is a step of the server
  thread like its running through, so fairness does not exclude it.
* `ModLoader`: weak fairness of `LoadStep`: the thread that starts the process goes on.
  Nobody is obliged to start, edit, reload or stop.

## What is proved

All theorems hold for every value of the constants the assumptions of the modules
allow (`BoundsAssumption` and the like; they only type the constants and ask that the
ticks of a behaviour stay below the modulus, that names are finitely many and that the
tables have room for one login without a logout, `MaxSkew` at least 1). Every invariant and
every action property that a run checks is stated by a theorem. Each is proved from an inductive invariant;
for an invariant `I` that takes more than a few steps, `IInit` and `IStep` are its lemmas.

* **TickSchedulerProofs.** `TypeCorrect`. `TimeoutsRunOnTime`, `PassIsComplete` from
  `TimeoutInv`: tokens are unique (`TimeoutTokens`); the running handler is that of the
  entry at the iterator (`AtIterator`); outside the pass nothing due is older than this
  tick (`NothingLeftBehind`); within it, what is due is ahead of the iterator or was
  armed with a negative delay (`DueAhead`). `RunsOnTime` alone is not inductive: that a
  timer is not late follows from the previous pass having been complete.
  `IntervalsRunOnTime` from `IntervalInv`; `TimersStayGone`; `IteratorsStayValid` from
  `IteratorInv`.
* **PlayerDatabaseProofs.** `EntriesAreOwned`, `ListenersAreCurrent`, `PlayersAreAnnounced` from
  `DatabaseInv`, with one lemma for joins, however far they get, and one for leaving;
  `AuxDataStaysOwn` needs `EntriesAreOwned` only: each action that changes the data or the
  entry of an address either takes both or is a lookup, through a handle of the player who is
  there or of one who is not. `TypeCorrect`. `SmoothRowsAreCurrent` is about the specification of
  `MCPlayerDatabase`, which chooses smooth behaviours. Its invariant `SmoothInv` adds that an
  account without an entry has as many logouts as logins (`RowsMatch`): without it nothing says
  that a login is the only one without a logout.
* **TeleportProofs.** `RequestsAreAboutPlayers`, `RequestsHaveTimers`, `RequestsAreExclusive`,
  `RequestsKeepTimersValid` from `RequestInv`. The
  uniqueness of tokens is what keeps the timer of one request away from another.
  `RequestsUseTimers` is a refinement, step by step: what `Teleport` does to the timers is one
  step of `TickScheduler`, none, or, when a player leaves, two calls of `ClearTimeOut` in a row
  (`LeftClearsTwo`: of two requests at most, by `Exclusive`). `TimeoutInv`, from an instance of
  TickSchedulerProofs, therefore holds of these timers too, and with `ArmedFor`, that a
  request's timer was armed with the delay of the settings, gives `RequestsExpireOnTime`: a
  request its timer erases is exactly as old as the setting says.
* **StoreProofs.** `EconomyTypeCorrect`; `DebtsAreFirstChanges`, `CommandsAreAtomic` from
  `CommandInv`: the view is the file plus the amount for the targets already done, each of
  which the trigger has let pass (`BalanceStep` is what that says of one balance). `NamesAreKept`,
  `RunsOnTheNewest`, `RefusesForAReason` from `MigrationInv`: what each statement finds in the
  file and in the transaction. `TurnedAwayStayOut`, `BansHitTheirTargets`,
  `BannedAreKicked` of the blacklist, from `BanInv`: rows and entries carry the xuid of their
  account, an account with an entry plays, a row by identity is there for somebody operators
  may have meant, who has come under every name its rows and entries carry, and who plays
  without an entry has no xuid or shares a name.
* **HttpRequestProofs.** `ReferencesAreAlive`, `BodiesAreComplete`, `RawThisLivesAsLongAsXHR`,
  together `QueuedUsableUnlessReleased`, from `RequestInv`: the count is what the state of the network thread says (`Counted`), the first callback's function is
  queued once and waited for (`Awaited`), and the body is in the buffer or, after the last
  callback, in its function (`Gathered`).
* **WarpProofs.** `AnswersGetToTheirCallbacks`, `MenusAreForgotten`, together
  `FormsHaveTheirCallbacks`, from `FormInv`, over lemmas about the map;
  `PlayersStayWithinLimit` from `LimitInv`; `ButtonsLeadToTheirWarps` from `FormInv` and
  `MenuInv`: a menu's list holds rows, and the form and the callback have the same list.
* **BaseProofs.** Of `WorkerThread`: `WorkerTypeCorrect`; `NoTaskIsStranded` from `SignalInv`
  (who holds the mutex, and that a worker about to block has seen an empty queue, which stays
  empty while the mutex is held); `ExitIsFinal` from `JoinInv`; `TasksRunInOrder` from
  `BatchInv`. Of the loader: `LoaderTypeCorrect`; `DependenciesAreFirst` from `LoadInv`: what a
  mod that is left imports is among its dependencies or was initialised by an earlier pass,
  which is why the cache of the current pass must not be taken from them before its end.
  `EditsAreKept` from `EditsInv`: what was written is in the file and, unless the mod's
  section was read too early, in what the process is going to write. `ReportedIsInEffect`;
  `HooksAreCalledOnce`. Of `Events`:
  `EventsTypeCorrect`; `ListenersAreCalledInOrder` from `EventsInv`. The set is sorted by
  priority and age (`SetOrdered`), which needs that a listener goes behind all whose priority
  is not higher. A trampoline goes on to one behind its listener (`Trampolines`), and unless a
  listener passes the line on twice only the innermost call still may (`OnlyLastPassesOn`), so
  that the calls are in the order of the set (`CalledOrdered`). Who was there at the start is
  called, at or behind the iterator of a call that will go on, or somebody called does not
  pass the line on (`EveryoneAwaited`); who refuses is yet to do so until a reason is given
  (`RefusersAwaited`).
* **ScriptProofs.** `HeldFunctionsLive` from `HandlesInv`, over lemmas about the number of
  places that hold a value when one place changes or two exchange. `StatementsRunWithOwn` from
  `StatementsInv`: a script that keeps to the two calls has at most one loop in progress, the
  values of its call are bound, and its run has begun with them; parameters it gives no value
  are null as long as nothing has thrown. `BarsAreOnScreen` from `BarsInv`, whose addition is
  that nobody who has left owns a bar and every bar that was taken away has an owner. `ArgumentsAreAsGiven` from `ParametersInv`: the bytes
  hold what was parsed (`Holds`), and parameters are apart: the place of one and its flag end
  before that of any later one begins (`OffsetsGrow`). `ModulesAreShared` from `ModulesInv`.
  What is in the cache is whole, that is parsed and no longer on the stack (`CacheInv`); each
  parse in progress is of the file the parse around it wants (`StackInv`); of a whole record
  without errors all imports were answered (`LinksInv`). A file can have two whole records, as
  a cycle parses it inside itself. `TwinsInv` says how: the older one got, for some import, a
  record newer than itself, and for the same import the newer one got another, which is newer
  still or of another module (`Outlived`). So if two answers ever differed, take the two whose
  older record is the newest possible: an import of theirs differs as well, by newer records, or
  was answered with two modules, which is the exception `Diverted` of the property.

Several definitions a theorem is about are parts of what a run checks (`ByReference`,
`BodyComplete` and `RawThis` of `UsableUnlessReleased`, `OwnCallback` and `ListCallbacksErased` of
`CallbackPerForm`), or were checked before they were proved and are stated by a theorem only
(`NoTaskStranded`, `NothingRunsAfterExit`, `IntervalOnTime`, `IteratorsValid`, `Exclusive`,
`ExpiresOnTime`, `RunsOnNewest`).

Induction over numbers is done by the least counterexample (`LeastNumber`, from the
library's fact that `<` on the natural numbers is well-founded): the sums that offsets are and
the order of two records above use it. No theorem rests on induction over data.

Only model-checked: everything under fairness (`TimeoutResolved`, `TickEnds`, `TaskRuns`,
`ExitReturns`, `Resolved`, `RequestsSettle`, `LoadEnds`), which the prover does not handle.

## Departures: where documents and code differ

Beside the four counterexamples:

* `ez.d.ts` calls a handle's `aux` "shared between all instances". It is made on lookup
  at the address the handle holds, so a handle of a player who has left makes data that
  the next player at the address finds (`AuxStaysOwn` says that nothing else does).
* `/ban` with a uuid or an xuid takes the string as a name; only `/unban` interprets it.
* `createNewPlayer` lets a player in whose key the container has already, two without xuid for
  instance: he plays without an entry, and neither form of `/ban` finds him (`Unlisted`).
* A handler that arms a timeout of 0 each time it runs, or a script promise that continues
  itself, is run again in the same pass over the timeouts: the tick never ends (`Endless`).
* An exception in the hook on leaving, of the logout row or of a listener of `left`, leaves
  it before the entry is erased and the game's own function called: the object stays.
* `writeConfig` opens `custom.yaml`, which empties it, and then writes: a death in between
  loses sections that no one had changed (`Tear`).
* An engine call that throws in the function of `OnHeadersAvailable` leaves the network
  thread waiting for good (`Thrown`).
* A death between the commit of the migration and `PRAGMA user_version` makes every later
  start fail, as the migration finds the new table already there.
* `Bus/README.md` lists the streams `joined` and `left`; the listener on `left` sends
  `player-join`.
* `/warp to` takes one from the height, the menu does not: the same warp leads to two
  places.
* The functions queued by `OnResponseReceived` and `OnError` keep a raw `this`; when the
  XHR object releases the callback first, they use a deleted object. The model has the
  state `Undefined` for it.
* The settings form always has the number 0 and `emplace` keeps what is there: the answer
  may get to the callback of an earlier one (`OwnCallback` excludes this number). The random
  number of a menu may be 0 too: closing a settings form then erases the menu's callback, and
  the answer to the menu may get to that of the next one (`ButtonsLead` excludes it as well).
* A specifier is looked up in the cache as it is spelled before it is resolved: `"b.js"` in
  a file of a directory gets the `b.js` of `scripts/` once that is in the cache, and its own
  before (`Ambiguous`). Inside a cycle that can even end the cycle and leave two records of
  one module (`Diverted`). Other cycles of imports overflow the stack, as a module is in the
  cache only after all it imports was parsed; the root is loaded twice if it is imported.
* A move assignment of a `ValueHolder` adds a reference it never gives back (`lost`). The
  handler of `/!` is not referenced at all, and replacing it takes a reference of another
  holder. The default constructor leaves the ref unset, and the assignment in `ScriptAuxData`
  releases whatever it was (`ConstructUnset`).
* An optional selector of a script command has its flag where the parser believes a selector
  ends, outside of the command (`FlagOffset`). That the parser writes the flag of every optional
  parameter, given or not, is assumed of the game.
* Text and blobs are bound by address and may be gone when the statement is stepped (`Text`
  becomes `Illegal` in `used`). After a call that has thrown, parameters that the next call gives
  no value run with those of the earlier one. `forEach` throws when its function returns `false`, though the types in `ez.d.ts`
  allow a boolean.
* A bar that was hidden is in view again after a change of dimension; a change that is refused
  leaves all bars removed (`refused`), until a later one succeeds. The timer of a rebuild keeps a raw `this` and uses a bar that was
  destroyed meanwhile (`freed`).
* Two mods that import each other: no pass finds one to initialise, and the server never
  starts (`LoadEnds`). A reload in which a mod throws still writes the file.
* Four places the models leave out are worth a look: a player is found in `Economy/api.cpp:24` by
  the address in a handle, `custom-name clear` (`custom_name.cpp:110`) dereferences an iterator
  it has not compared with `end()`, `isBlocked` (`Blacklist/dllmain.cpp:208`) answers from
  the previous call's result until a login resets it, and threads that log share one
  statement without a lock.
* Of the handlers registered with the bus only those of `command.cpp` use the server thread's
  queue. If the client calls handlers on its own thread, as that suggests, `find-player` reads
  the player database there and `announce` the level's players, without a lock.
* `AfterReload` of the spawn protection is empty: a reload replaces `allow-operator`, but not
  the mode that `PreInit` computed from it.

## Further work

The project is kept to a dozen runs and forty properties, so that it can be repeated on every
change; a property that a deeper one implies gives way to it. What could be added:

* the composition of `Teleport` and `BossBars` with `PlayerDatabase` itself instead of a set
  of players, and the refinement that justifies the set;
* more of `Bus`, if the source of its library becomes available.
