------------------------------ MODULE BaseProofs ------------------------------
(***************************************************************************)
(* What the parts of Base and the process start promise: the worker        *)
(* thread, for every set of submitters; the loader and the chains of       *)
(* hooks, for every set of mods, every way they import each other, every   *)
(* file and every set of hooks; and the events, for every set of           *)
(* listeners, priorities and whatever each of them does.                   *)
(***************************************************************************)
EXTENDS WorkerThread, ModLoader, HookChain, Events,
        SequenceTheorems, WellFoundedInduction, TLAPS

\* The worker's state has its types in every reachable state.
THEOREM WorkerTypeCorrect == WorkerSpec => []WorkerTypeOK
<1>1. WorkerInit => WorkerTypeOK
  <2> SUFFICES ASSUME WorkerInit PROVE WorkerTypeOK
    OBVIOUS
  <2>1. <<>> \in Seq(Submitters) /\ Len(<<>>) = 0
    BY EmptySeq
  <2>2. position \in 1..(Len(tasks) + 1)
    BY <2>1 DEF WorkerInit
  <2>3. submitter \in [Submitters -> SubmitterState]
    BY DEF WorkerInit, SubmitterState
  <2> QED
    BY <2>1, <2>2, <2>3 DEF WorkerInit, Free, WorkerTypeOK, WorkerState, MainState
<1>2. WorkerTypeOK /\ [WorkerNext]_workerVars => WorkerTypeOK'
  <2> SUFFICES ASSUME WorkerTypeOK, [WorkerNext]_workerVars PROVE WorkerTypeOK'
    OBVIOUS
  <2> USE DEF WorkerTypeOK, WorkerState, MainState, SubmitterState, Free
  <2>1. ASSUME NEW s \in Submitters, Enqueue(s) PROVE WorkerTypeOK'
    BY <2>1 DEF Enqueue
  <2>2. ASSUME NEW s \in Submitters, NotifyTask(s) PROVE WorkerTypeOK'
    BY <2>2 DEF NotifyTask, Notified
  <2>3. CASE Lock \/ TestTasks \/ Block \/ Check \/ WorkerWakeup
    BY <2>3 DEF Lock, TestTasks, Block, Check, WorkerWakeup
  <2>4. CASE RunTask
    <3>1. position \in 1..Len(tasks) /\ Len(tasks) \in Nat
      BY <2>4 DEF RunTask
    <3>2. tasks[position] \in Submitters
      BY <3>1, ElementOfSeq
    <3> QED
      BY <2>4, <3>1, <3>2 DEF RunTask
  <2>5. CASE EndTasks
    <3>1. <<>> \in Seq(Submitters) /\ Len(<<>>) = 0
      BY EmptySeq
    <3> QED
      BY <2>5, <3>1 DEF EndTasks
  <2>6. CASE SetExited \/ NotifyExit \/ Join
    BY <2>6 DEF SetExited, NotifyExit, Notified, Join
  <2>7. CASE UNCHANGED workerVars
    BY <2>7 DEF workerVars
  <2> QED
    BY <2>1, <2>2, <2>3, <2>4, <2>5, <2>6, <2>7 DEF WorkerNext, Worker
<1> QED
  BY <1>1, <1>2, PTL DEF WorkerSpec

----------------------------------------------------------------------------

\* The worker owns the mutex from its test to the end of the batch.
MutexHeld == mtx = "worker" <=> worker \in {"test", "block", "check", "run", "undefined"}

\* What the worker has seen of the queue stays true while it owns the mutex.
BlocksOnEmpty == worker = "block" => tasks = <<>>

SignalInv == MutexHeld /\ BlocksOnEmpty /\ NoTaskStranded

(***************************************************************************)
(* No task's signal is lost.                                               *)
(***************************************************************************)
THEOREM NoTaskIsStranded == WorkerSpec => []NoTaskStranded
<1>1. WorkerInit => SignalInv
  BY DEF WorkerInit, Free, SignalInv, MutexHeld, BlocksOnEmpty, NoTaskStranded
<1>2. WorkerTypeOK /\ SignalInv /\ [WorkerNext]_workerVars => SignalInv'
  <2> SUFFICES ASSUME WorkerTypeOK, SignalInv, [WorkerNext]_workerVars PROVE SignalInv'
    OBVIOUS
  <2> USE DEF WorkerTypeOK, Free, WorkerState, SignalInv, MutexHeld, BlocksOnEmpty, NoTaskStranded
  <2>1. ASSUME NEW s \in Submitters, Enqueue(s) PROVE SignalInv'
    BY <2>1 DEF Enqueue
  <2>2. ASSUME NEW s \in Submitters, NotifyTask(s) PROVE SignalInv'
    BY <2>2 DEF NotifyTask, Notified
  <2>3. CASE Worker
    BY <2>3 DEF Worker, Lock, TestTasks, Block, Check, RunTask, EndTasks
  <2>4. CASE WorkerWakeup
    BY <2>4 DEF WorkerWakeup
  <2>5. CASE SetExited \/ NotifyExit \/ Join
    BY <2>5 DEF SetExited, NotifyExit, Notified, Join
  <2>6. CASE UNCHANGED workerVars
    BY <2>6 DEF workerVars
  <2> QED
    BY <2>1, <2>2, <2>3, <2>4, <2>5, <2>6 DEF WorkerNext
<1>3. SignalInv => NoTaskStranded
  BY DEF SignalInv
<1> QED
  BY <1>1, <1>2, <1>3, WorkerTypeCorrect, PTL DEF WorkerSpec

----------------------------------------------------------------------------

JoinInv ==
    /\ MutexHeld
    /\ main = "exited" => worker = "done"

(***************************************************************************)
(* Once OnExit has returned no task runs any more.                         *)
(***************************************************************************)
THEOREM ExitIsFinal == WorkerSpec => NothingRunsAfterExit
<1>1. WorkerInit => JoinInv
  BY DEF WorkerInit, Free, JoinInv, MutexHeld
<1>2. JoinInv /\ [WorkerNext]_workerVars => JoinInv'
  BY DEF JoinInv, Free, MutexHeld, WorkerNext, workerVars, Enqueue, NotifyTask, Notified, Worker, Lock, TestTasks, Block,
         Check, RunTask, EndTasks, WorkerWakeup, SetExited, NotifyExit, Join
<1>3. JoinInv /\ [WorkerNext]_workerVars
        => [main = "exited" => ran' = ran /\ worker' = worker]_workerVars
  BY DEF JoinInv, Free, WorkerNext, workerVars, Enqueue, NotifyTask, Notified, Worker, Lock, TestTasks, Block,
         Check, RunTask, EndTasks, WorkerWakeup, SetExited, NotifyExit, Join
<1> QED
  BY <1>1, <1>2, <1>3, PTL DEF WorkerSpec, NothingRunsAfterExit

----------------------------------------------------------------------------

\* Outside a batch the whole queue remains.
BatchInv ==
    /\ MutexHeld
    /\ worker \notin {"run", "undefined"} => position = 1
    /\ TasksInOrder

LEMMA BatchInvStep == WorkerTypeOK /\ BatchInv /\ [WorkerNext]_workerVars => BatchInv'
<1> SUFFICES ASSUME WorkerTypeOK, BatchInv, [WorkerNext]_workerVars PROVE BatchInv'
  OBVIOUS
<1> USE DEF WorkerTypeOK, Free, WorkerState, BatchInv, MutexHeld
<1>1. ASSUME NEW s \in Submitters, Enqueue(s) PROVE BatchInv'
  <2>1. position = 1
    BY <1>1 DEF Enqueue
  <2>2. submitted = ran \o tasks
    BY <2>1, SubSeqFull DEF TasksInOrder, Remaining
  <2>3. tasks' \in Seq(Submitters) /\ tasks' = tasks \o <<s>>
    BY <1>1, AppendIsConcat DEF Enqueue
  <2>4. submitted' = submitted \o <<s>>
    BY <1>1, AppendIsConcat DEF Enqueue
  <2>5. submitted' = ran \o tasks'
    BY <2>2, <2>3, <2>4, ConcatAssociative
  <2>6. Remaining' = tasks'
    BY <1>1, <2>1, <2>3, SubSeqFull DEF Enqueue, Remaining
  <2> QED
    BY <1>1, <2>1, <2>5, <2>6 DEF Enqueue, TasksInOrder
<1>2. ASSUME NEW s \in Submitters, NotifyTask(s) PROVE BatchInv'
  BY <1>2 DEF NotifyTask, Notified, TasksInOrder, Remaining
<1>3. CASE Lock \/ TestTasks \/ Block \/ Check \/ WorkerWakeup
  BY <1>3 DEF Lock, TestTasks, Block, Check, WorkerWakeup, TasksInOrder, Remaining
<1>4. CASE RunTask
  <2> DEFINE task == tasks[position]
             rest == SubSeq(tasks, position + 1, Len(tasks))
  <2>1. position \in 1..Len(tasks) /\ Len(tasks) \in position..Len(tasks)
    BY <1>4 DEF RunTask
  <2>2. task \in Submitters
    BY <2>1, ElementOfSeq
  <2>3. Remaining = <<task>> \o rest
    BY <2>1, SubSeqRecursiveFirst DEF Remaining
  <2>4. Remaining' = rest
    BY <1>4 DEF RunTask, Remaining
  <2>5. rest \in Seq(Submitters)
    BY <2>1, SubSeqProperties, ElementOfSeq
  <2>6. ran' = ran \o <<task>>
    BY <1>4, <2>2, AppendIsConcat DEF RunTask
  <2>7. ran \in Seq(Submitters) /\ <<task>> \in Seq(Submitters)
    BY <2>2
  <2> HIDE DEF task, rest
  <2>8. ran \o (<<task>> \o rest) = (ran \o <<task>>) \o rest
    BY ONLY <2>5, <2>7, ConcatAssociative
  <2> QED
    BY <1>4, <2>3, <2>4, <2>6, <2>8 DEF RunTask, TasksInOrder
<1>5. CASE EndTasks
  <2>1. Remaining = <<>>
    BY <1>5, SubSeqEmpty DEF EndTasks, Remaining
  <2>2. Remaining' = <<>>
    BY <1>5, SubSeqEmpty, EmptySeq DEF EndTasks, Remaining
  <2> QED
    BY <1>5, <2>1, <2>2 DEF EndTasks, TasksInOrder
<1>6. CASE SetExited \/ NotifyExit \/ Join
  BY <1>6 DEF SetExited, NotifyExit, Notified, Join, TasksInOrder, Remaining
<1>7. CASE UNCHANGED workerVars
  BY <1>7 DEF workerVars, TasksInOrder, Remaining
<1> QED
  BY <1>1, <1>2, <1>3, <1>4, <1>5, <1>6, <1>7 DEF WorkerNext, Worker

(***************************************************************************)
(* Tasks run in the order they were queued, once each, and none is lost or *)
(* duplicated while the worker lives.                                      *)
(***************************************************************************)
THEOREM TasksRunInOrder == WorkerSpec => []TasksInOrder
<1>1. WorkerInit => BatchInv
  <2>1. SubSeq(<<>>, 1, Len(<<>>)) = <<>> /\ <<>> \o <<>> = <<>>
    BY SubSeqEmpty, EmptySeq, ConcatEmptySeq
  <2> QED
    BY <2>1 DEF WorkerInit, Free, BatchInv, MutexHeld, TasksInOrder, Remaining
<1>2. BatchInv => TasksInOrder
  BY DEF BatchInv
<1> QED
  BY <1>1, <1>2, BatchInvStep, WorkerTypeCorrect, PTL DEF WorkerSpec

----------------------------------------------------------------------------
\* The loader.

\* What a mod that is left still waits for is in deps: the rest of what it imports
\* was initialised by an earlier pass.
LoadInv ==
    /\ libs \in Seq(Mods) /\ loaded \in Seq(Mods)
    /\ step = "load" =>
          /\ at \in Nat \ {0}
          /\ left \subseteq Listed /\ left \cap Initialised = {}
          /\ cache \subseteq Initialised
          /\ \A m \in left : imports[m] \cap Listed \subseteq deps[m] \cup (Initialised \ cache)
    /\ step \in {"down", "directory"} => loaded = <<>>
    /\ DependenciesFirst

LEMMA NothingLoaded ==
  ASSUME loaded' = <<>>
  PROVE  DependenciesFirst' /\ Initialised' = {}
BY DEF DependenciesFirst, Initialised

LEMMA SameLists ==
  ASSUME loaded' = loaded, libs' = libs, imports' = imports
  PROVE  /\ DependenciesFirst' = DependenciesFirst
         /\ Initialised' = Initialised /\ Listed' = Listed
BY DEF DependenciesFirst, Initialised, Listed

\* Initialising a mod whose imports are initialised.
LEMMA OneMore ==
  ASSUME loaded \in Seq(Mods), DependenciesFirst, UNCHANGED <<libs, imports>>,
         NEW m \in Mods, loaded' = Append(loaded, m),
         m \notin Initialised, imports[m] \cap Listed \subseteq Initialised
  PROVE  DependenciesFirst' /\ Initialised' = Initialised \cup {m}
<1>1. /\ Len(loaded') = Len(loaded) + 1 /\ loaded'[Len(loaded) + 1] = m
      /\ \A i \in 1..Len(loaded) : loaded'[i] = loaded[i]
      /\ Len(loaded) \in Nat
  OBVIOUS
<1>2. Initialised' = Initialised \cup {m}
  BY <1>1 DEF Initialised
<1>3. Listed' = Listed
  BY DEF Listed
<1>4. ASSUME NEW i \in 1..Len(loaded')
      PROVE  /\ imports'[loaded'[i]] \cap Listed' \subseteq {loaded'[j] : j \in 1..(i - 1)}
             /\ loaded'[i] \notin {loaded'[j] : j \in 1..(i - 1)}
  <2>1. {loaded'[j] : j \in 1..(i - 1)} = {loaded[j] : j \in 1..(i - 1)}
    BY <1>1
  <2>2. CASE i = Len(loaded) + 1
    BY <1>1, <1>3, <2>1, <2>2 DEF Initialised
  <2>3. CASE i \in 1..Len(loaded)
    BY <1>1, <1>3, <2>1, <2>3 DEF DependenciesFirst
  <2>4. i = Len(loaded) + 1 \/ i \in 1..Len(loaded)
    BY <1>1
  <2> QED
    BY ONLY <2>2, <2>3, <2>4
<1> QED
  BY <1>2, <1>4 DEF DependenciesFirst

LEMMA LoadInvStep == LoaderTypeOK /\ LoadInv /\ [LoaderNext]_loaderVars => LoadInv'
<1> SUFFICES ASSUME LoaderTypeOK, LoadInv, [LoaderNext]_loaderVars PROVE LoadInv'
  OBVIOUS
<1>1. CASE Start \/ Down \/ (\E kept \in Torn : Tear(kept))
  <2>1. /\ loaded' = <<>> /\ libs' \in {libs, <<>>} /\ step' # "load"
    BY <1>1 DEF Start, Truncate, Down, Tear, Gone, LoadInv
  <2>2. libs' \in Seq(Mods) /\ loaded' \in Seq(Mods)
    BY <2>1, EmptySeq DEF LoadInv
  <2> QED
    BY <2>1, <2>2, NothingLoaded DEF LoadInv
<1>2. ASSUME NEW m \in todo, MapMod(m) PROVE LoadInv'
  <2>1. m \in Mods
    BY DEF LoaderTypeOK
  <2>2. /\ loaded' = <<>> /\ loaded' \in Seq(Mods) /\ step' # "load"
        /\ libs' \in {libs, Append(libs, m)}
    BY <1>2 DEF MapMod, LoadInv
  <2> QED
    BY <2>1, <2>2, NothingLoaded DEF LoadInv
<1>3. CASE Analyse
  <2>1. /\ step = "directory" /\ UNCHANGED <<libs, loaded, imports>>
        /\ left' = Listed /\ at' = 1 /\ cache' = {}
        /\ deps' = [m \in Mods |-> imports[m] \cap Listed]
    BY <1>3 DEF Analyse
  <2>2. Initialised = {} /\ Listed \subseteq Mods /\ libs \in Seq(Mods) /\ loaded \in Seq(Mods)
    BY <2>1 DEF LoadInv, Initialised, Listed
  <2> QED
    BY <1>3, <2>1, <2>2, SameLists DEF LoadInv, Analyse
<1>4. CASE Visit
  <2> DEFINE m == libs[at]
  <2>1. step = "load" /\ step' = "load" /\ at' = at + 1 /\ UNCHANGED <<libs, deps, imports>>
    BY <1>4 DEF Visit
  <2>2. /\ at \in Nat \ {0} /\ at \in 1..Len(libs) /\ m \in Mods /\ m \in Listed
    BY <1>4 DEF Visit, LoadInv, Listed
  <2>3. CASE m \in left /\ deps[m] = {}
    <3>1. /\ loaded' = Append(loaded, m) /\ left' = left \ {m} /\ cache' = cache \cup {m}
      BY <1>4, <2>3 DEF Visit, Initialise
    <3>2. m \notin Initialised /\ imports[m] \cap Listed \subseteq Initialised
      BY <2>1, <2>3 DEF LoadInv
    <3>3. DependenciesFirst' /\ Initialised' = Initialised \cup {m}
      BY <2>1, <2>2, <3>1, <3>2, OneMore DEF LoadInv
    <3>4. Listed' = Listed /\ Initialised' \ cache' = Initialised \ cache
      BY <2>1, <3>1, <3>2, <3>3 DEF Listed
    <3>5. loaded' \in Seq(Mods)
      BY <2>2, <3>1 DEF LoadInv
    <3> QED
      BY <2>1, <2>2, <3>1, <3>3, <3>4, <3>5 DEF LoadInv
  <2>4. CASE ~(m \in left /\ deps[m] = {})
    <3>1. UNCHANGED <<left, cache, loaded>>
      BY <1>4, <2>4 DEF Visit
    <3> QED
      BY <2>1, <2>2, <3>1, SameLists DEF LoadInv
  <2> QED
    BY <2>3, <2>4
<1>5. CASE EndPass
  <2>1. /\ step = "load" /\ step' = "load" /\ UNCHANGED <<libs, loaded, left, imports>>
        /\ at' = 1 /\ cache' = {}
        /\ \A m \in left : m \in Mods => deps'[m] = deps[m] \ cache
    BY <1>5 DEF EndPass
  <2>2. left \subseteq Mods
    BY DEF LoaderTypeOK
  <2> QED
    BY <2>1, <2>2, SameLists DEF LoadInv
<1>6. CASE Loaded \/ Write \/ BeginReload \/ ReloadThrows \/ EndReload
  <2>1. /\ step' \notin {"load", "down", "directory"}
        /\ UNCHANGED <<libs, loaded, imports>>
    BY <1>6 DEF Loaded, Truncate, Write, BeginReload, ReloadThrows, EndReload, loadVars
  <2> QED
    BY <2>1, SameLists DEF LoadInv
<1>7. ASSUME NEW m \in todo, ReloadMod(m) PROVE LoadInv'
  <2>1. step = "reload" /\ step' = "reload" /\ UNCHANGED <<libs, loaded, imports>>
    BY <1>7 DEF ReloadMod
  <2> QED
    BY <2>1, SameLists DEF LoadInv
<1>8. CASE UNCHANGED <<imports, step, loadVars>>
  BY <1>8, SameLists DEF LoadInv, loadVars
<1> QED
  BY <1>1, <1>2, <1>3, <1>4, <1>5, <1>6, <1>7, <1>8 DEF LoaderNext, LoadStep, Edit, loaderVars

----------------------------------------------------------------------------

LEMMA SectionTypes ==
  ASSUME NEW s \in Section
  PROVE  /\ WithDefault(s) \in Section /\ WithDefault(s).value = s.value
         /\ \A value \in Values : [s EXCEPT !.value = value] \in Section
BY DEF Section, WithDefault

\* The state has its types in every reachable state.
THEOREM LoaderTypeCorrect == LoaderSpec => []LoaderTypeOK
<1>1. LoaderInit => LoaderTypeOK
  <2> SUFFICES ASSUME LoaderInit PROVE LoaderTypeOK
    OBVIOUS
  <2>1. /\ imports \in [Mods -> SUBSET Mods] /\ customYaml \in [Mods -> Section]
        /\ step = "down" /\ edits = 0 /\ at = 1 /\ libs = <<>> /\ loaded = <<>>
        /\ parses = TRUE /\ lost = {}
        /\ cfg = customYaml /\ todo = {} /\ left = {} /\ cache = {} /\ reported = {}
        /\ deps = [m \in Mods |-> {}]
        /\ settings = [m \in Mods |-> Default] /\ effective = settings
        /\ written = [m \in Mods |-> customYaml[m].value]
    BY ModsAssumption DEF LoaderInit
  <2>2. written \in [Mods -> Values \cup {Unreadable}]
    BY <2>1 DEF Section
  <2> QED
    BY <2>1, <2>2, ModsAssumption, EmptySeq DEF LoaderTypeOK, Step
<1>2. LoaderTypeOK /\ [LoaderNext]_loaderVars => LoaderTypeOK'
  <2> SUFFICES ASSUME LoaderTypeOK, [LoaderNext]_loaderVars PROVE LoaderTypeOK'
    OBVIOUS
  <2> USE DEF LoaderTypeOK
  <2>a. NoSection \in Section
    BY DEF NoSection, Section
  <2>b. ASSUME Truncate
        PROVE  step' \in Step /\ customYaml' \in [Mods -> Section] /\ parses' \in BOOLEAN /\ lost' \subseteq Mods
    BY <2>b, <2>a DEF Truncate, Step
  <2>c. ASSUME Gone
        PROVE  /\ step' \in Step /\ todo' \subseteq Mods /\ left' \subseteq Mods /\ cache' \subseteq Mods
               /\ libs' \in Seq(Mods) /\ loaded' \in Seq(Mods) /\ at' \in Nat \ {0}
               /\ deps' \in [Mods -> SUBSET Mods] /\ reported' \subseteq Mods
               /\ settings' \in [Mods -> Values] /\ effective' \in [Mods -> Values]
               /\ UNCHANGED <<imports, cfg, written, edits>>
    BY <2>c, ModsAssumption, EmptySeq DEF Gone, Step, operatorVars
  <2>1. CASE Start
    <3>1. /\ step' \in Step /\ customYaml' \in [Mods -> Section] /\ parses' \in BOOLEAN /\ lost' \subseteq Mods
          /\ cfg' \in [Mods -> Section]
      BY <2>1, <2>b DEF Start, Step, fileVars
    <3> QED
      BY <2>1, <3>1 DEF Start, modVars, operatorVars
  <2>2. ASSUME NEW m \in todo, MapMod(m) PROVE LoaderTypeOK'
    <3>1. m \in Mods /\ cfg[m] \in Section
      OBVIOUS
    <3>2. cfg' \in [Mods -> Section] /\ libs' \in Seq(Mods) /\ step' \in Step
      <4>1. /\ cfg' \in {cfg, [cfg EXCEPT ![m] = WithDefault(cfg[m])]}
            /\ libs' \in {libs, Append(libs, m)}
            /\ step' \in {step, "aborted"}
        BY <2>2 DEF MapMod
      <4>2. WithDefault(cfg[m]) \in Section
        BY <3>1, SectionTypes
      <4>3. cfg' \in [Mods -> Section]
        BY <3>1, <4>1, <4>2
      <4>4. libs' \in Seq(Mods)
        <5>1. libs \in Seq(Mods)
          OBVIOUS
        <5> QED
          BY ONLY <3>1, <4>1, <5>1
      <4>5. step' \in Step
        BY <4>1 DEF Step
      <4> QED
        BY <4>3, <4>4, <4>5
    <3>3. todo' \subseteq Mods
      BY <2>2 DEF MapMod
    <3> QED
      BY <2>2, <3>2, <3>3 DEF MapMod, fileVars, modVars, operatorVars
  <2>3. CASE Analyse
    BY <2>3 DEF Analyse, Step, Listed, fileVars, modVars, operatorVars
  <2>4. CASE Visit
    <3> DEFINE m == libs[at]
    <3>1. at' \in Nat \ {0} /\ m \in Mods
      BY <2>4 DEF Visit
    <3>2. CASE m \in left /\ deps[m] = {}
      <4>1. Initialise(m) /\ left' = left \ {m} /\ cache' = cache \cup {m}
        BY <2>4, <3>2 DEF Visit
      <4>2. PICK value : /\ value \in Values
                         /\ settings' = [settings EXCEPT ![m] = value]
                         /\ effective' = [effective EXCEPT ![m] = value]
                         /\ cfg' = [cfg EXCEPT ![m] = [enabled |-> "yes", value |-> value]]
        BY <3>1, <4>1 DEF Initialise, Applied, Section
      <4>3. [enabled |-> "yes", value |-> value] \in Section
        BY <4>2 DEF Section
      <4>4. loaded' \in Seq(Mods)
        BY <3>1, <4>1 DEF Initialise
      <4> QED
        BY <2>4, <3>1, <4>1, <4>2, <4>3, <4>4 DEF Visit, fileVars, operatorVars
    <3>3. CASE ~(m \in left /\ deps[m] = {})
      BY <2>4, <3>1, <3>3 DEF Visit, fileVars, operatorVars
    <3> QED
      BY <3>2, <3>3
  <2>5. CASE EndPass
    BY <2>5 DEF EndPass, fileVars, modVars, operatorVars
  <2>6. CASE Loaded \/ EndReload
    <3>1. Truncate /\ UNCHANGED <<imports, cfg, loadVars, modVars, operatorVars>>
      BY <2>6 DEF Loaded, EndReload
    <3> QED
      BY <3>1, <2>b DEF loadVars, modVars, operatorVars
  <2>7. CASE BeginReload
    BY <2>7, ModsAssumption DEF BeginReload, Step, fileVars, operatorVars
  <2>8. ASSUME NEW m \in todo, ReloadMod(m) PROVE LoaderTypeOK'
    <3>1. m \in Mods /\ cfg[m] \in Section /\ Applied(m) \in Values
      BY DEF Applied, Section
    <3>2. [cfg[m] EXCEPT !.value = Applied(m)] \in Section
      BY <3>1, SectionTypes
    <3>3. /\ cfg' \in {cfg, [cfg EXCEPT ![m].value = Applied(m)]}
          /\ settings' \in {settings, [settings EXCEPT ![m] = Applied(m)]}
          /\ effective' \in {effective, [effective EXCEPT ![m] = Applied(m)]}
          /\ reported' \in {reported, reported \cup {m}}
      BY <2>8 DEF ReloadMod, modVars
    <3> HIDE DEF Section
    <3>4. cfg' \in [Mods -> Section]
      BY <3>1, <3>2, <3>3
    <3>5. settings' \in [Mods -> Values] /\ effective' \in [Mods -> Values]
      BY <3>1, <3>3, SMTT(20)
    <3> QED
      BY <2>8, <3>1, <3>3, <3>4, <3>5 DEF ReloadMod, fileVars, operatorVars, modVars
  <2>9. CASE Down
    BY <2>9, <2>c DEF Down, fileVars
  <2>10. ASSUME NEW m \in Mods, NEW section \in Edits, Edit(m, section) PROVE LoaderTypeOK'
    <3>1. section \in Section /\ section.value \in Values \cup {Unreadable}
      BY ModsAssumption DEF Section
    <3> QED
      BY <2>10, <3>1 DEF Edit, loadVars, modVars
  <2>11. CASE UNCHANGED loaderVars
    BY <2>11 DEF loaderVars, loadVars, fileVars, modVars, operatorVars
  <2>12. CASE Write
    BY <2>12 DEF Write, Step, loadVars, modVars, operatorVars
  <2>13. CASE ReloadThrows
    BY <2>13 DEF ReloadThrows, loadVars, fileVars, operatorVars
  <2>14. ASSUME NEW kept \in Torn, Tear(kept) PROVE LoaderTypeOK'
    <3>1. customYaml' \in [Mods -> Section] /\ parses' \in BOOLEAN /\ lost' \subseteq Mods
      BY <2>14, <2>a DEF Tear
    <3>2. Gone
      BY <2>14 DEF Tear
    <3> QED
      BY <3>1, <3>2, <2>c
  <2> QED
    BY <2>1, <2>2, <2>3, <2>4, <2>5, <2>6, <2>7, <2>8, <2>9, <2>10, <2>11, <2>12, <2>13, <2>14
       DEF LoaderNext, LoadStep
<1> QED
  BY <1>1, <1>2, PTL DEF LoaderSpec

(***************************************************************************)
(* Every mod is initialised behind the mods of the list it imports.        *)
(***************************************************************************)
THEOREM DependenciesAreFirst == LoaderSpec => []DependenciesFirst
<1>1. LoaderInit => LoadInv
  BY EmptySeq DEF LoaderInit, LoadInv, DependenciesFirst
<1>2. LoadInv => DependenciesFirst
  BY DEF LoadInv
<1> QED
  BY <1>1, <1>2, LoadInvStep, LoaderTypeCorrect, PTL DEF LoaderSpec

\* Between its read and its write the process has what the operator wrote before.
EditsInv ==
    /\ EditsKept
    /\ step \in {"directory", "load", "reload"} =>
          \A m \in Mods \ (Throwing \cup lost) : written[m] = Unreadable \/ cfg[m].value = written[m]

LEMMA EditsInvStep == LoaderTypeOK /\ EditsInv /\ [LoaderNext]_loaderVars => EditsInv'
<1> SUFFICES ASSUME LoaderTypeOK, EditsInv, [LoaderNext]_loaderVars PROVE EditsInv'
  OBVIOUS
<1> USE DEF EditsInv, EditsKept
<1>0. cfg \in [Mods -> Section] /\ customYaml \in [Mods -> Section] /\ written \in [Mods -> Values \cup {Unreadable}]
  BY DEF LoaderTypeOK
<1>1. CASE Start \/ Down
  BY <1>1 DEF Start, Truncate, Down, Gone, fileVars, operatorVars
<1>2. ASSUME NEW m \in todo, MapMod(m) PROVE EditsInv'
  <2>1. m \in Mods /\ WithDefault(cfg[m]).value = cfg[m].value
    BY <1>0, SectionTypes DEF LoaderTypeOK
  <2>2. /\ cfg' \in {cfg, [cfg EXCEPT ![m] = WithDefault(cfg[m])]} /\ step = "directory"
        /\ UNCHANGED <<customYaml, written, lost>> /\ step' \in {"directory", "aborted"}
    BY <1>2 DEF MapMod, fileVars, operatorVars
  <2>3. \A n \in Mods : cfg'[n].value = cfg[n].value
    BY <1>0, <2>1, <2>2
  <2> QED
    BY <2>2, <2>3
<1>3. CASE Analyse \/ EndPass
  BY <1>3 DEF Analyse, EndPass, fileVars, operatorVars
<1>4. CASE Visit
  <2> DEFINE m == libs[at]
  <2>1. step = "load" /\ UNCHANGED <<customYaml, written, lost, step>> /\ m \in Mods
    BY <1>4 DEF Visit, fileVars, operatorVars, LoaderTypeOK
  <2>2. ASSUME NEW n \in Mods \ (Throwing \cup lost), written[n] # Unreadable
        PROVE  cfg'[n].value = cfg[n].value
    <3>1. CASE n = m /\ m \in left /\ deps[m] = {}
      <4>1. cfg' = [cfg EXCEPT ![m] = [enabled |-> "yes", value |-> Applied(m)]]
        BY <1>4, <3>1 DEF Visit, Initialise
      <4>2. Applied(m) = cfg[m].value
        BY <2>1, <2>2, <3>1 DEF Applied
      <4> QED
        BY <1>0, <2>1, <3>1, <4>1, <4>2
    <3>2. CASE n # m \/ ~(m \in left /\ deps[m] = {})
      <4>1. cfg'[n] = cfg[n]
        BY <1>0, <1>4, <2>1, <3>2 DEF Visit, Initialise
      <4> QED
        BY <4>1
    <3> QED
      BY <3>1, <3>2
  <2> QED
    BY <2>1, <2>2
<1>5. CASE Loaded \/ EndReload
  BY <1>5 DEF Loaded, EndReload, Truncate, operatorVars
<1>6. CASE BeginReload \/ ReloadThrows \/ Write
  BY <1>6 DEF BeginReload, ReloadThrows, Write, fileVars, operatorVars
<1>7. ASSUME NEW m \in todo, ReloadMod(m) PROVE EditsInv'
  <2>1. step = "reload" /\ UNCHANGED <<customYaml, written, lost, step>> /\ m \in Mods
    BY <1>7 DEF ReloadMod, fileVars, operatorVars, LoaderTypeOK
  <2>2. ASSUME NEW n \in Mods \ (Throwing \cup lost), written[n] # Unreadable
        PROVE  cfg'[n].value = cfg[n].value
    <3>1. cfg' \in {cfg, [cfg EXCEPT ![m].value = Applied(m)]}
      BY <1>7 DEF ReloadMod
    <3>2. n = m => Applied(m) = cfg[m].value
      BY <2>1, <2>2 DEF Applied
    <3>3. cfg[m] \in Section
      BY <1>0, <2>1
    <3> QED
      BY <1>0, <2>1, <3>1, <3>2, <3>3 DEF Section
  <2> QED
    BY <2>1, <2>2
<1>8. ASSUME NEW m \in Mods, NEW section \in Edits, Edit(m, section) PROVE EditsInv'
  <2>1. /\ customYaml' = [customYaml EXCEPT ![m] = section] /\ UNCHANGED <<cfg, step>>
        /\ lost' = lost \ {m}
        /\ written' = [written EXCEPT ![m] =
              IF step \in {"down", "aborted", "serving"} THEN section.value ELSE Unreadable]
    BY <1>8 DEF Edit
  <2>2. \A n \in Mods : n # m => customYaml'[n] = customYaml[n] /\ written'[n] = written[n]
    BY <1>0, <2>1
  <2>3. customYaml'[m] = section /\ written'[m] \in {section.value, Unreadable}
    BY <1>0, <2>1
  <2>4. step \in {"directory", "load", "reload", "write"} => written'[m] = Unreadable
    BY <1>0, <2>1
  <2>5. \A n \in Mods \ (Throwing \cup lost') : n # m => n \in Mods \ (Throwing \cup lost)
    BY <2>1
  <2> QED
    BY <2>1, <2>2, <2>3, <2>4, <2>5
<1>9. CASE UNCHANGED loaderVars
  BY <1>9 DEF loaderVars, fileVars, operatorVars
<1>10. ASSUME NEW kept \in Torn, Tear(kept) PROVE EditsInv'
  <2>1. /\ step = "write" /\ step' = "down" /\ UNCHANGED <<cfg, written>>
        /\ lost' = lost \cup (Mods \ kept)
        /\ \A m \in Mods : m \in kept => customYaml'[m] = cfg[m]
    BY <1>10 DEF Tear, Gone, operatorVars
  <2> QED
    BY <2>1
<1> QED
  BY <1>1, <1>2, <1>3, <1>4, <1>5, <1>6, <1>7, <1>8, <1>9, <1>10 DEF LoaderNext, LoadStep

(***************************************************************************)
(* No edit of the configuration is lost but by a death in writeConfig.     *)
(***************************************************************************)
THEOREM EditsAreKept == LoaderSpec => []EditsKept
<1>1. LoaderInit => EditsInv
  <2> SUFFICES ASSUME LoaderInit, NEW m \in Mods \ Throwing
               PROVE  customYaml[m].value = written[m] /\ cfg[m].value = written[m]
    BY DEF EditsInv, EditsKept, LoaderInit
  <2>1. written = [n \in Mods |-> customYaml[n].value] /\ cfg = customYaml
    BY DEF LoaderInit
  <2> QED
    BY <2>1
<1>2. EditsInv => EditsKept
  BY DEF EditsInv
<1> QED
  BY <1>1, <1>2, EditsInvStep, LoaderTypeCorrect, PTL DEF LoaderSpec

\* Only a reload reports, and never twice.
ReportInv ==
    /\ ReportedIsEffective
    /\ step \notin {"serving", "reload", "write"} => reported = {}
    /\ step = "reload" => todo \cap reported = {}

LEMMA ReportInvStep == LoaderTypeOK /\ ReportInv /\ [LoaderNext]_loaderVars => ReportInv'
<1> SUFFICES ASSUME LoaderTypeOK, ReportInv, [LoaderNext]_loaderVars PROVE ReportInv'
  OBVIOUS
<1> USE DEF ReportInv, ReportedIsEffective
<1>1. CASE Start \/ Down \/ (\E kept \in Torn : Tear(kept)) \/ BeginReload \/ ReloadThrows
  <2>1. reported' = {}
    BY <1>1 DEF Start, Down, Tear, Gone, BeginReload, ReloadThrows, modVars
  <2> QED
    BY <2>1
<1>2. CASE (\E m \in todo : MapMod(m)) \/ Analyse \/ Visit \/ EndPass
  <2>1. reported = {} /\ reported' = {}
    BY <1>2 DEF MapMod, Analyse, Visit, EndPass, modVars
  <2> QED
    BY <2>1
<1>3. CASE Loaded \/ EndReload \/ Write
  BY <1>3 DEF Loaded, EndReload, Truncate, Write, loadVars, modVars
<1>4. ASSUME NEW m \in todo, ReloadMod(m) PROVE ReportInv'
  <2>1. /\ step = "reload" /\ step' = step /\ todo' = todo \ {m} /\ m \in Mods /\ m \notin reported
        /\ cfg \in [Mods -> Section] /\ cfg[m] \in Section /\ reported \subseteq Mods
        /\ settings \in [Mods -> Values] /\ effective \in [Mods -> Values]
    BY <1>4 DEF ReloadMod, LoaderTypeOK
  <2>2. CASE UNCHANGED <<cfg, modVars>>
    BY <2>1, <2>2 DEF modVars
  <2>3. CASE /\ settings' = [settings EXCEPT ![m] = Applied(m)]
             /\ cfg' = [cfg EXCEPT ![m].value = Applied(m)]
             /\ \/ effective' = [effective EXCEPT ![m] = Applied(m)] /\ reported' = reported \cup {m}
                \/ UNCHANGED <<effective, reported>>
    <3>1. \A n \in reported : /\ cfg'[n] = cfg[n] /\ settings'[n] = settings[n]
                               /\ effective'[n] = effective[n]
      BY <2>1, <2>3
    <3>2. m \in reported' => /\ settings'[m] = Applied(m) /\ effective'[m] = Applied(m)
                             /\ cfg'[m].value = Applied(m)
      BY <2>1, <2>3 DEF Section
    <3>3. reported' \subseteq reported \cup {m}
      BY <2>3
    <3> QED
      BY <2>1, <3>1, <3>2, <3>3
  <2> QED
    BY <1>4, <2>2, <2>3 DEF ReloadMod
<1>5. CASE UNCHANGED <<cfg, step, loadVars, modVars>>
  BY <1>5 DEF loadVars, modVars
<1> QED
  BY <1>1, <1>2, <1>3, <1>4, <1>5 DEF LoaderNext, LoadStep, Edit, loaderVars

(***************************************************************************)
(* What a reload reports is in effect.                                     *)
(***************************************************************************)
THEOREM ReportedIsInEffect == LoaderSpec => []ReportedIsEffective
<1>1. LoaderInit => ReportInv
  BY DEF LoaderInit, ReportInv, ReportedIsEffective
<1>2. ReportInv => ReportedIsEffective
  BY DEF ReportInv
<1> QED
  BY <1>1, <1>2, ReportInvStep, LoaderTypeCorrect, PTL DEF LoaderSpec

----------------------------------------------------------------------------

HooksInv == HooksTypeOK /\ CallsEveryHookOnce

LEMMA SingleSeq ==
  ASSUME NEW S, NEW x \in S
  PROVE  <<x>> \in Seq(S) /\ Len(<<x>>) = 1 /\ <<x>>[1] = x
OBVIOUS

\* Inserting behind the head of a sequence.
LEMMA SecondPlace ==
  ASSUME NEW S, NEW s \in Seq(S), s # <<>>, NEW x \in S, NEW t, t = <<s[1], x>> \o Tail(s)
  PROVE  /\ t \in Seq(S) /\ Len(t) = Len(s) + 1
         /\ t[1] = s[1] /\ t[2] = x
         /\ \A i \in 3..Len(t) : t[i] = s[i - 1]
<1>1. Len(s) \in Nat /\ Len(s) >= 1 /\ s[1] \in S
  OBVIOUS
<1>2. Tail(s) \in Seq(S) /\ Len(Tail(s)) = Len(s) - 1
      /\ \A i \in 1..(Len(s) - 1) : Tail(s)[i] = s[i + 1]
  BY <1>1
<1>3. <<s[1], x>> \in Seq(S) /\ Len(<<s[1], x>>) = 2 /\ <<s[1], x>>[1] = s[1] /\ <<s[1], x>>[2] = x
  BY <1>1
<1>4. \A a, b \in Seq(S) :
         /\ a \o b \in Seq(S) /\ Len(a \o b) = Len(a) + Len(b)
         /\ \A i \in 1..Len(a) : (a \o b)[i] = a[i]
         /\ \A i \in 1..Len(b) : (a \o b)[Len(a) + i] = b[i]
  OBVIOUS
<1> DEFINE p == <<s[1], x>>
          q == Tail(s)
<1>5. /\ p \in Seq(S) /\ Len(p) = 2 /\ p[1] = s[1] /\ p[2] = x /\ t = p \o q
      /\ q \in Seq(S) /\ Len(q) = Len(s) - 1 /\ \A i \in 1..(Len(s) - 1) : q[i] = s[i + 1]
  BY <1>2, <1>3
<1> HIDE DEF p, q
<1>6. /\ t \in Seq(S) /\ Len(t) = Len(s) + 1 /\ t[1] = s[1] /\ t[2] = x
      /\ \A i \in 1..Len(q) : t[2 + i] = q[i]
  BY <1>1, <1>4, <1>5
<1>7. ASSUME NEW i \in 3..Len(t) PROVE t[i] = s[i - 1]
  <2>1. i - 2 \in 1..Len(q) /\ 2 + (i - 2) = i /\ (i - 2) + 1 = i - 1
    BY <1>1, <1>5, <1>6
  <2> QED
    BY <1>5, <1>6, <2>1
<1> QED
  BY <1>6, <1>7

\* A hook of another function, or one that is registered already.
LEMMA OthersKeep ==
  ASSUME HooksInv, NEW f \in Functions, NEW g \in Functions, g # f,
         NEW i \in 1..Len(order[g])
  PROVE  order[g][i] \in Hooks /\ Target[order[g][i]] = g /\ original[order[g][i]] # None
<1>1. order[g] \in Seq(Hooks)
  BY DEF HooksInv, HooksTypeOK
<1>2. \A j \in 1..Len(order[g]) : order[g][j] \in Hooks
  BY <1>1
<1>3. i = Len(order[g]) \/ i + 1 \in 1..Len(order[g])
  BY <1>1
<1> QED
  BY <1>2, <1>3, HooksAssumption DEF HooksInv, CallsEveryHookOnce

\* What CallsEveryHookOnce says of one function.
ChainOf(f) ==
    /\ IF order[f] = <<>> THEN hookmap[f] = None ELSE hookmap[f] = order[f][1]
    /\ \A i \in 1..Len(order[f]) :
          /\ Target[order[f][i]] = f
          /\ original[order[f][i]] = IF i = Len(order[f]) THEN Code ELSE order[f][i + 1]
          /\ \A j \in 1..Len(order[f]) : order[f][i] = order[f][j] => i = j

LEMMA OldChains ==
  ASSUME HooksInv, NEW f \in Functions
  PROVE  ChainOf(f)
BY DEF HooksInv, CallsEveryHookOnce, ChainOf

LEMMA NewChains ==
  ASSUME HooksTypeOK', \A f \in Functions : ChainOf(f)',
         \A h \in Hooks : original'[h] # None
                            => \E i \in 1..Len(order'[Target[h]]) : order'[Target[h]][i] = h
  PROVE  HooksInv'
BY DEF HooksInv, CallsEveryHookOnce, ChainOf

LEMMA HooksInvStep == HooksInv /\ [HooksNext]_hooksVars => HooksInv'
<1> SUFFICES ASSUME HooksInv, [HooksNext]_hooksVars PROVE HooksInv'
  OBVIOUS
<1>0. /\ hookmap \in [Functions -> Hooks \cup {None}]
      /\ original \in [Hooks -> Hooks \cup {Code, None}]
      /\ order \in [Functions -> Seq(Hooks)] /\ \A f \in Functions : order[f] \in Seq(Hooks)
      /\ installed \in BOOLEAN /\ refused \subseteq {Dll[h] : h \in Hooks}
      /\ \A h \in Hooks : Target[h] \in Functions
  BY HooksAssumption DEF HooksInv, HooksTypeOK
<1>1. ASSUME NEW h \in Hooks, RegisterFirst(h) PROVE HooksInv'
  <2> DEFINE f == Target[h]
  <2>1. /\ f \in Functions /\ order' = [order EXCEPT ![f] = <<h>>] /\ hookmap[f] = None
        /\ hookmap' = [hookmap EXCEPT ![f] = h] /\ original' = [original EXCEPT ![h] = Code]
        /\ original[h] = None /\ UNCHANGED <<installed, refused>>
    BY <1>0, <1>1 DEF RegisterFirst, Unregistered
  <2>2. order[f] = <<>>
    BY <2>1, <1>0, HooksAssumption DEF HooksInv, CallsEveryHookOnce
  <2>3. HooksTypeOK'
    BY <1>0, <2>1, SingleSeq DEF HooksTypeOK
  <2>4. /\ order'[f] = <<h>> /\ hookmap'[f] = h /\ original'[h] = Code
        /\ \A k \in Hooks : k # h => original'[k] = original[k]
        /\ \A g \in Functions : g # f => order'[g] = order[g] /\ hookmap'[g] = hookmap[g]
    BY <1>0, <2>1
  <2>5. ASSUME NEW g \in Functions PROVE ChainOf(g)'
    <3>1. CASE g = f
      <4>0. Len(<<h>>) = 1 /\ <<h>>[1] = h /\ <<h>> # <<>>
        BY SingleSeq, EmptySeq
      <4>1. Len(order'[g]) = 1 /\ order'[g][1] = h /\ order'[g] # <<>>
        BY <2>4, <3>1, <4>0
      <4> QED
        BY <2>1, <2>4, <3>1, <4>1 DEF ChainOf
    <3>2. CASE g # f
      <4>1. order'[g] = order[g] /\ hookmap'[g] = hookmap[g]
        BY <2>4, <3>2
      <4>2. \A i \in 1..Len(order[g]) : order[g][i] \in Hooks /\ original[order[g][i]] # None
        BY <2>1, <3>2, OthersKeep
      <4>3. \A i \in 1..Len(order[g]) : original'[order[g][i]] = original[order[g][i]]
        BY <2>1, <2>4, <4>2
      <4> QED
        BY <4>1, <4>3, OldChains DEF ChainOf
    <3> QED
      BY <3>1, <3>2
  <2>6. ASSUME NEW k \in Hooks, original'[k] # None
        PROVE  \E i \in 1..Len(order'[Target[k]]) : order'[Target[k]][i] = k
    <3>1. CASE k = h
      <4>1. Len(order'[f]) = 1 /\ order'[f][1] = h
        BY <2>4, SingleSeq
      <4> QED
        BY <3>1, <4>1
    <3>2. CASE k # h
      <4>1. original[k] # None /\ Target[k] \in Functions
        BY <1>0, <2>4, <2>6, <3>2
      <4>2. PICK i \in 1..Len(order[Target[k]]) : order[Target[k]][i] = k
        BY <4>1 DEF HooksInv, CallsEveryHookOnce
      <4>3. Target[k] # f
        BY <2>2, <4>2
      <4> QED
        BY <2>4, <4>1, <4>2, <4>3
    <3> QED
      BY <3>1, <3>2
  <2> QED
    BY <2>3, <2>5, <2>6, NewChains
<1>2. ASSUME NEW h \in Hooks, RegisterNext(h) PROVE HooksInv'
  <2> DEFINE f == Target[h]
             s == order[f]
             t == <<s[1], h>> \o Tail(s)
  <2>1. /\ f \in Functions /\ hookmap[f] # None /\ original[h] = None
        /\ original' = [original EXCEPT ![h] = original[hookmap[f]], ![hookmap[f]] = h]
        /\ order' = [order EXCEPT ![f] = <<hookmap[f], h>> \o Tail(@)]
        /\ UNCHANGED <<hookmap, installed, refused>>
    BY <1>0, <1>2 DEF RegisterNext, Unregistered
  <2>2. s # <<>> /\ hookmap[f] = s[1] /\ s \in Seq(Hooks)
    BY <1>0, <2>1 DEF HooksInv, CallsEveryHookOnce
  <2>3. Len(s) \in Nat /\ Len(s) >= 1 /\ \A i \in 1..Len(s) : s[i] \in Hooks
    BY <2>2
  <2>4. \A i \in 1..Len(s) : original[s[i]] # None /\ s[i] # h /\ Target[s[i]] = f
    <3>1. \A i \in 1..Len(s) : i = Len(s) \/ i + 1 \in 1..Len(s)
      BY <2>3
    <3> QED
      BY <2>1, <2>3, <3>1, OldChains, HooksAssumption DEF ChainOf
  <2>5. /\ t \in Seq(Hooks) /\ Len(t) = Len(s) + 1 /\ t[1] = s[1] /\ t[2] = h
        /\ \A i \in 3..Len(t) : t[i] = s[i - 1]
    BY <2>2, SecondPlace
  <2>6. /\ order'[f] = t /\ \A g \in Functions : g # f => order'[g] = order[g]
        /\ original'[h] = original[s[1]] /\ original'[s[1]] = h
        /\ \A k \in Hooks : k # h /\ k # s[1] => original'[k] = original[k]
        /\ hookmap' = hookmap
    BY <1>0, <2>1, <2>2, <2>3, <2>4
  <2>7. HooksTypeOK'
    <3>1. original' \in [Hooks -> Hooks \cup {Code, None}]
      BY <1>0, <2>1, <2>2, <2>3
    <3>2. order' \in [Functions -> Seq(Hooks)]
      BY <1>0, <2>1, <2>2, <2>5
    <3> QED
      BY <1>0, <2>1, <3>1, <3>2 DEF HooksTypeOK
  <2>s. /\ \A m \in 1..Len(s) : original[s[m]] = IF m = Len(s) THEN Code ELSE s[m + 1]
        /\ \A m, n \in 1..Len(s) : s[m] = s[n] => m = n
    BY OldChains, <2>1 DEF ChainOf
  <2> HIDE DEF t, s
  <2>8. ChainOf(f)'
    <3>1. hookmap'[f] = t[1] /\ t # <<>>
      BY <2>2, <2>3, <2>5, <2>6, EmptySeq
    <3>2. ASSUME NEW i \in 1..Len(t) PROVE
             /\ Target[t[i]] = f
             /\ original'[t[i]] = IF i = Len(t) THEN Code ELSE t[i + 1]
      <4>1. CASE i = 1
        BY <2>3, <2>4, <2>5, <2>6, <4>1
      <4>2. CASE i = 2
        <5>1. 1 \in 1..Len(s) /\ original[s[1]] = IF 1 = Len(s) THEN Code ELSE s[2]
          <6>1. 1 \in 1..Len(s) /\ 1 + 1 = 2
            BY <2>3
          <6>2. original[s[1]] = IF 1 = Len(s) THEN Code ELSE s[1 + 1]
            BY <2>s, <6>1
          <6> QED
            BY <6>1, <6>2
        <5>2. /\ Len(s) # 1 => 3 \in 3..Len(t) /\ Len(t) # 2
              /\ 3 - 1 = 2
          <6>1. \A n \in Nat : n >= 1 /\ n # 1 => 3 \in 3..(n + 1) /\ n + 1 # 2
            OBVIOUS
          <6>2. 3 - 1 = 2
            OBVIOUS
          <6> QED
            BY ONLY <2>3, <2>5, <6>1, <6>2
        <5>3. Len(s) # 1 => t[3] = s[2]
          BY <2>5, <5>2
        <5> QED
          BY <2>1, <2>3, <2>5, <2>6, <4>2, <5>1, <5>2, <5>3
      <4>3. CASE i >= 3
        <5>1. i - 1 \in 1..Len(s) /\ i - 1 # 1 /\ t[i] = s[i - 1] /\ (i - 1 = Len(s) <=> i = Len(t))
          BY <2>3, <2>5, <4>3
        <5>3. original[s[i - 1]] = IF i - 1 = Len(s) THEN Code ELSE s[i]
          BY <2>s, <5>1
        <5>4. s[i - 1] # s[1] /\ s[i - 1] # h /\ s[i - 1] \in Hooks
          <6>1. 1 \in 1..Len(s)
            BY <2>3
          <6> QED
            BY <2>s, <2>3, <2>4, <5>1, <6>1
        <5>5. i # Len(t) => t[i + 1] = s[i]
          <6>1. i # Len(t) => i + 1 \in 3..Len(t) /\ (i + 1) - 1 = i
            BY <2>3, <2>5, <4>3
          <6> QED
            BY <2>5, <6>1
        <5> QED
          BY <2>3, <2>4, <2>6, <5>1, <5>3, <5>4, <5>5
      <4> QED
        BY <2>3, <2>5, <4>1, <4>2, <4>3
    <3>3. ASSUME NEW i \in 1..Len(t), NEW j \in 1..Len(t), t[i] = t[j] PROVE i = j
      <4>1. ASSUME NEW m \in 1..Len(t), m # 2
            PROVE  \E n \in 1..Len(s) : t[m] = s[n] /\ n = IF m = 1 THEN 1 ELSE m - 1
        BY <2>3, <2>5, <4>1
      <4>2. ASSUME NEW m \in 1..Len(t), m # 2 PROVE t[m] # h
        BY <2>4, <4>1, <4>2
      <4>3. CASE i = 2 \/ j = 2
        BY <2>5, <3>3, <4>2, <4>3
      <4>4. CASE i # 2 /\ j # 2
        <5>1. PICK m \in 1..Len(s) : t[i] = s[m] /\ m = IF i = 1 THEN 1 ELSE i - 1
          BY <4>1, <4>4
        <5>2. PICK n \in 1..Len(s) : t[j] = s[n] /\ n = IF j = 1 THEN 1 ELSE j - 1
          BY <4>1, <4>4
        <5>3. m = n
          BY <2>s, <3>3, <5>1, <5>2
        <5> QED
          BY <2>3, <2>5, <4>4, <5>1, <5>2, <5>3
      <4> QED
        BY <4>3, <4>4
    <3> QED
      BY <2>6, <3>1, <3>2, <3>3 DEF ChainOf
  <2>9. ASSUME NEW g \in Functions, g # f PROVE ChainOf(g)'
    <3>1. \A i \in 1..Len(order[g]) :
             order[g][i] \in Hooks /\ Target[order[g][i]] = g /\ original[order[g][i]] # None
      BY <2>1, <2>9, OthersKeep
    <3>2. Target[s[1]] = f
      BY <2>3, <2>4
    <3>3. \A i \in 1..Len(order[g]) : original'[order[g][i]] = original[order[g][i]]
      BY <2>1, <2>6, <2>9, <3>1, <3>2
    <3>4. order'[g] = order[g] /\ hookmap'[g] = hookmap[g]
      BY <2>6, <2>9
    <3> QED
      BY <3>3, <3>4, OldChains DEF ChainOf
  <2>10. ASSUME NEW k \in Hooks, original'[k] # None
         PROVE  \E i \in 1..Len(order'[Target[k]]) : order'[Target[k]][i] = k
    <3>1. CASE k = h
      BY <2>3, <2>5, <2>6, <3>1
    <3>2. CASE k # h
      <4>1. original[k] # None /\ Target[k] \in Functions
        BY <1>0, <2>3, <2>4, <2>6, <2>10, <3>2
      <4>2. PICK i \in 1..Len(order[Target[k]]) : order[Target[k]][i] = k
        BY <4>1 DEF HooksInv, CallsEveryHookOnce
      <4>3. CASE Target[k] # f
        BY <2>6, <4>1, <4>2, <4>3
      <4>4. CASE Target[k] = f
        <5>1. i \in 1..Len(s) /\ s[i] = k
          BY <4>2, <4>4 DEF s
        <5>2. i = 1 \/ (i + 1 \in 3..Len(t) /\ (i + 1) - 1 = i)
          BY <2>3, <2>5, <5>1
        <5>3. \E j \in 1..Len(t) : t[j] = k
          <6>1. CASE i = 1
            BY <2>3, <2>5, <5>1, <6>1
          <6>2. CASE i + 1 \in 3..Len(t) /\ (i + 1) - 1 = i
            <7>1. t[i + 1] = s[i] /\ i + 1 \in 1..Len(t)
              BY <2>5, <6>2
            <7> QED
              BY <5>1, <7>1
          <6> QED
            BY <5>2, <6>1, <6>2
        <5> QED
          BY <2>6, <4>4, <5>3
      <4> QED
        BY <4>3, <4>4
    <3> QED
      BY <3>1, <3>2
  <2> QED
    BY <2>7, <2>8, <2>9, <2>10, NewChains
<1>3. CASE UNCHANGED <<hookmap, original, order>> /\ HooksTypeOK'
  BY <1>3 DEF HooksInv, CallsEveryHookOnce
<1>4. ASSUME NEW h \in Hooks, Refuse(h) PROVE HooksInv'
  BY <1>0, <1>3, <1>4 DEF Refuse, HooksTypeOK
<1>5. ASSUME Install PROVE HooksInv'
  BY <1>0, <1>3, <1>5 DEF Install, HooksTypeOK
<1>6. CASE UNCHANGED hooksVars
  BY <1>0, <1>3, <1>6 DEF hooksVars, HooksTypeOK
<1> QED
  BY <1>1, <1>2, <1>4, <1>5, <1>6 DEF HooksNext

(***************************************************************************)
(* THEOREM HooksAreCalledOnce (hook_impl.cpp, HookFunction): however many  *)
(* hooks however many DLLs set on however many functions, a call of a      *)
(* function goes through each of its hooks once and ends in its own code.  *)
(***************************************************************************)
THEOREM HooksAreCalledOnce == HooksSpec => []CallsEveryHookOnce
<1>1. HooksInit => HooksInv
  <2> SUFFICES ASSUME HooksInit PROVE HooksInv
    OBVIOUS
  <2>1. HooksTypeOK
    BY HooksAssumption, EmptySeq DEF HooksInit, HooksTypeOK
  <2>2. \A g \in Functions : order[g] = <<>> /\ Len(order[g]) = 0
    BY EmptySeq DEF HooksInit
  <2>3. CallsEveryHookOnce
    BY <2>2 DEF HooksInit, CallsEveryHookOnce
  <2> QED
    BY <2>1, <2>3 DEF HooksInv
<1>2. HooksInv => CallsEveryHookOnce
  BY DEF HooksInv
<1> QED
  BY <1>1, <1>2, HooksInvStep, PTL DEF HooksSpec

----------------------------------------------------------------------------
\* The events: sequences first.

LEMMA LastFrontFacts ==
  ASSUME NEW S, NEW s \in Seq(S), s # <<>>
  PROVE  /\ Len(s) \in Nat \ {0}
         /\ Last(s) = s[Len(s)] /\ Last(s) \in S
         /\ Front(s) \in Seq(S) /\ Len(Front(s)) = Len(s) - 1
         /\ \A i \in 1..(Len(s) - 1) : Front(s)[i] = s[i]
<1>1. Len(s) \in Nat \ {0}  BY EmptySeq
<1>2. \A i \in 1..Len(s) : s[i] \in S  BY ElementOfSeq
<1>3. Last(s) = s[Len(s)] /\ Last(s) \in S  BY <1>1, <1>2 DEF Last
<1>4. Front(s) = SubSeq(s, 1, Len(s) - 1)  BY DEF Front
<1>5. 1 \in Int /\ Len(s) - 1 \in Int /\ \A i \in 1..(Len(s) - 1) : s[i] \in S
  BY <1>1, <1>2
<1>6. /\ Front(s) \in Seq(S)
      /\ Len(Front(s)) = IF 1 <= Len(s) - 1 THEN (Len(s) - 1) - 1 + 1 ELSE 0
      /\ \A i \in 1..((Len(s) - 1) - 1 + 1) : Front(s)[i] = s[1 + i - 1]
  BY <1>4, <1>5, SubSeqProperties
<1>7. /\ (Len(s) - 1) - 1 + 1 = Len(s) - 1 /\ (1 <= Len(s) - 1 \/ Len(s) - 1 = 0)
      /\ \A i \in 1..(Len(s) - 1) : 1 + i - 1 = i
  <2>1. \A k \in Nat \ {0} : /\ (k - 1) - 1 + 1 = k - 1 /\ (1 <= k - 1 \/ k - 1 = 0)
                              /\ \A i \in 1..(k - 1) : 1 + i - 1 = i
    OBVIOUS
  <2> QED  BY <1>1, <2>1
<1>8. \A i \in 1..(Len(s) - 1) : Front(s)[i] = s[i]
  BY <1>6, <1>7
<1>9. Len(Front(s)) = Len(s) - 1
  BY <1>6, <1>7
<1>10. QED  BY <1>1, <1>3, <1>6, <1>8, <1>9

\* The innermost call changes.
WithLast(s, x) == Front(s) \o <<x>>

LEMMA LastReplaced ==
  ASSUME NEW S, NEW s \in Seq(S), s # <<>>, NEW x \in S
  PROVE  WithLast(s, x) = [s EXCEPT ![Len(s)] = x]
<1> DEFINE t == WithLast(s, x)
           u == Front(s)
           v == <<x>>
<1>1. /\ Len(s) \in Nat \ {0} /\ u \in Seq(S) /\ Len(u) = Len(s) - 1
      /\ \A i \in 1..(Len(s) - 1) : u[i] = s[i]
  BY LastFrontFacts
<1>2. v \in Seq(S) /\ Len(v) = 1 /\ v[1] = x
  OBVIOUS
<1>3. t = u \o v
  BY DEF WithLast
<1> HIDE DEF t, u, v
<1>4. /\ t \in Seq(S) /\ Len(t) = Len(u) + Len(v)
      /\ \A i \in 1..(Len(u) + Len(v)) : t[i] = IF i <= Len(u) THEN u[i] ELSE v[i - Len(u)]
  BY <1>1, <1>2, <1>3, ConcatProperties
<1>5. Len(t) = Len(s) /\ t[Len(s)] = x /\ \A i \in 1..(Len(s) - 1) : t[i] = s[i]
  BY <1>1, <1>2, <1>4
<1>6. \A i \in 1..Len(s) : t[i] = [s EXCEPT ![Len(s)] = x][i]
  BY <1>1, <1>5
<1>7. t = [s EXCEPT ![Len(s)] = x]
  BY <1>1, <1>4, <1>5, <1>6, SMTT(20)
<1> QED  BY <1>7 DEF t

LEMMA Inserted ==
  ASSUME NEW S, NEW s \in Seq(S), NEW m \in 1..(Len(s) + 1), NEW x \in S,
         NEW t, t = InsertAt(s, m, x)
  PROVE  /\ t \in Seq(S) /\ Len(t) = Len(s) + 1
         /\ \A i \in 1..(m - 1) : t[i] = s[i]
         /\ t[m] = x
         /\ \A i \in m..Len(s) : t[i + 1] = s[i]
<1>1. Len(s) \in Nat /\ m \in Nat \ {0} /\ m <= Len(s) + 1 /\ \A i \in 1..Len(s) : s[i] \in S
  BY ElementOfSeq
<1> DEFINE u == SubSeq(s, 1, m - 1)
           v == SubSeq(s, m, Len(s))
           w == u \o <<x>>
<1>0. \A k \in Nat, j \in Nat \ {0} : j <= k + 1 =>
         /\ (1 <= j - 1 => (j - 1) - 1 + 1 = j - 1) /\ (~(1 <= j - 1) => j - 1 = 0)
         /\ (j - 1) - 1 + 1 = j - 1 /\ j - 1 \in Nat /\ (j - 1) + 1 = j
         /\ (j <= k => k - j + 1 = k + 1 - j) /\ (~(j <= k) => k + 1 - j = 0)
         /\ k - j + 1 = k + 1 - j /\ j + (k + 1 - j) = k + 1 /\ k + 1 - j \in Nat
         /\ \A i \in 1..(j - 1) : i \in 1..k /\ i \in 1..j /\ i <= j - 1 /\ i <= j
                                   /\ i \in 1..(k + 1) /\ 1 + i - 1 = i
         /\ j \in 1..j /\ j \in 1..(k + 1) /\ ~(j <= j - 1) /\ j - (j - 1) = 1 /\ j <= j
         /\ \A i \in j..k : /\ i + 1 \in 1..(k + 1) /\ ~(i + 1 <= j) /\ (i + 1) - j \in 1..(k + 1 - j)
                            /\ j + ((i + 1) - j) - 1 = i /\ i \in 1..k
  OBVIOUS
<1>2. u \in Seq(S) /\ Len(u) = m - 1 /\ \A i \in 1..(m - 1) : u[i] = s[i]
  <2>1. 1 \in Int /\ m - 1 \in Int /\ \A i \in 1..(m - 1) : s[i] \in S
    BY <1>1, <1>0
  <2>2. /\ u \in Seq(S) /\ Len(u) = IF 1 <= m - 1 THEN (m - 1) - 1 + 1 ELSE 0
        /\ \A i \in 1..((m - 1) - 1 + 1) : u[i] = s[1 + i - 1]
    BY <2>1, SubSeqProperties
  <2>3. Len(u) = m - 1
    BY <1>1, <1>0, <2>2
  <2>4. \A i \in 1..(m - 1) : u[i] = s[i]
    BY <1>1, <1>0, <2>2
  <2> QED  BY <2>2, <2>3, <2>4
<1>3. v \in Seq(S) /\ Len(v) = Len(s) + 1 - m /\ \A i \in 1..(Len(s) + 1 - m) : v[i] = s[m + i - 1]
  <2>1. m \in Int /\ Len(s) \in Int /\ \A i \in m..Len(s) : s[i] \in S
    BY <1>1, <1>0
  <2>2. /\ v \in Seq(S) /\ Len(v) = IF m <= Len(s) THEN Len(s) - m + 1 ELSE 0
        /\ \A i \in 1..(Len(s) - m + 1) : v[i] = s[m + i - 1]
    BY <2>1, SubSeqProperties
  <2>3. Len(v) = Len(s) + 1 - m
    BY <1>1, <1>0, <2>2
  <2>4. Len(s) - m + 1 = Len(s) + 1 - m
    BY <1>1, <1>0
  <2>5. \A i \in 1..(Len(s) + 1 - m) : v[i] = s[m + i - 1]
    BY <2>2, <2>4
  <2> QED  BY <2>2, <2>3, <2>5
<1>4. <<x>> \in Seq(S) /\ Len(<<x>>) = 1 /\ <<x>>[1] = x
  OBVIOUS
<1>5. t = w \o v
  BY Zenon DEF InsertAt
<1> HIDE DEF u, v
<1>6. /\ w \in Seq(S) /\ Len(w) = m
      /\ \A i \in 1..(m - 1) : w[i] = u[i]
      /\ w[m] = x
  <2>1. /\ w \in Seq(S) /\ Len(w) = Len(u) + Len(<<x>>)
        /\ \A i \in 1..(Len(u) + Len(<<x>>)) : w[i] = IF i <= Len(u) THEN u[i] ELSE <<x>>[i - Len(u)]
    BY <1>2, <1>4, ConcatProperties
  <2>2. /\ w \in Seq(S) /\ Len(w) = (m - 1) + 1
        /\ \A i \in 1..((m - 1) + 1) : w[i] = IF i <= m - 1 THEN u[i] ELSE <<x>>[i - (m - 1)]
    BY <1>2, <1>4, <2>1, Zenon
  <2> HIDE DEF w
  <2>3. \A i \in 1..m : w[i] = IF i <= m - 1 THEN u[i] ELSE <<x>>[i - (m - 1)]
    BY <1>0, <1>1, <2>2
  <2>4. \A i \in 1..(m - 1) : w[i] = u[i]
    BY <1>0, <1>1, <2>3
  <2>5. w[m] = x
    BY <1>0, <1>1, <1>4, <2>3
  <2>6. Len(w) = m
    BY <1>0, <1>1, <2>2
  <2> QED  BY <2>2, <2>4, <2>5, <2>6
<1> HIDE DEF w
<1>7. /\ t \in Seq(S) /\ Len(t) = Len(s) + 1
      /\ \A i \in 1..(Len(s) + 1) : t[i] = IF i <= m THEN w[i] ELSE v[i - m]
  <2>1. /\ t \in Seq(S) /\ Len(t) = Len(w) + Len(v)
        /\ \A i \in 1..(Len(w) + Len(v)) : t[i] = IF i <= Len(w) THEN w[i] ELSE v[i - Len(w)]
    <3>1. w \in Seq(S) /\ v \in Seq(S) /\ t = w \o v
      BY <1>3, <1>5, <1>6
    <3> QED  BY <3>1, ConcatProperties
  <2>2. Len(w) + Len(v) = Len(s) + 1 /\ Len(w) = m
    BY <1>0, <1>1, <1>3, <1>6
  <2> QED  BY <2>1, <2>2, Zenon
<1>8. \A i \in 1..(m - 1) : t[i] = s[i]
  BY <1>0, <1>1, <1>2, <1>6, <1>7
<1>9. t[m] = x
  BY <1>0, <1>1, <1>6, <1>7
<1>10. \A i \in m..Len(s) : t[i + 1] = s[i]
  <2> SUFFICES ASSUME NEW i \in m..Len(s) PROVE t[i + 1] = s[i]
    OBVIOUS
  <2>1. /\ i + 1 \in 1..(Len(s) + 1) /\ ~(i + 1 <= m) /\ (i + 1) - m \in 1..(Len(s) + 1 - m)
        /\ m + ((i + 1) - m) - 1 = i
    BY <1>0, <1>1
  <2>2. t[i + 1] = v[(i + 1) - m]
    BY <1>7, <2>1
  <2>3. v[(i + 1) - m] = s[m + ((i + 1) - m) - 1]
    BY <1>3, <2>1
  <2> QED  BY <2>1, <2>2, <2>3
<1> QED  BY <1>7, <1>8, <1>9, <1>10

----------------------------------------------------------------------------

Frames == [who : Listeners, todo : Seq(Acts), it : Listeners \cup {End}]

IsTail(t, s) == Len(t) <= Len(s) /\ \A i \in 1..Len(t) : t[i] = s[Len(s) - Len(t) + i]

\* Earlier, for listeners added one after the other.
EarlierIn(adds, k, l) ==
    \/ Priority[k] < Priority[l]
    \/ /\ Priority[k] = Priority[l]
       /\ \E i, j \in 1..Len(adds) : i < j /\ adds[i] = k /\ adds[j] = l

IsOrdered(s, adds) == \A i, j \in 1..Len(s) : i < j => EarlierIn(adds, s[i], s[j])

RegistrationsOnce == \A i, j \in 1..Len(added) : added[i] = added[j] => i = j

SetOrdered == ToSet(set) = ToSet(added) /\ IsOrdered(set, added)

\* Is what one of the calls in progress is still to do among it?
Awaits(act) == \E k \in 1..Len(running) : act \in ToSet(running[k].todo)

\* A call in progress is of a listener the line has come to, is to do the rest of what that
\* listener does, and its trampoline goes on to one behind it.
Trampolines ==
    \A k \in 1..Len(running) :
       /\ running[k].who \in ToSet(called)
       /\ IsTail(running[k].todo, acting[running[k].who])
       /\ running[k].it # End =>
             running[k].it \in ToSet(set) /\ EarlierIn(added, running[k].who, running[k].it)

\* Only the innermost call goes on to those behind it, and only if nobody was called since.
OnlyLastPassesOn ==
    \A k \in 1..Len(running) :
       (k < Len(running) \/ Last(called) # running[k].who) /\ ~PassesOnTwice(running[k].who)
          => "next" \notin ToSet(running[k].todo)

CalledOrdered == (\A l \in ToSet(called) : ~PassesOnTwice(l)) => IsOrdered(called, added)

\* Until a reason is given, those who refuse are yet to do so.
RefusersAwaited ==
    outcome \in {"pending", "sent"} /\ ~token =>
       \A l \in ToSet(called) : "refuse" \in ToSet(acting[l]) => Awaits("refuse")

\* Who was there is called, or will be, if everyone passes the line on.
EveryoneAwaited ==
    outcome \in {"pending", "sent"} =>
       \A p \in present :
          \/ p \in ToSet(called)
          \/ \E l \in ToSet(called) : ~PassesOn(l)
          \/ \E k \in 1..Len(running) :
                /\ "next" \in ToSet(running[k].todo) /\ running[k].it # End
                /\ p = running[k].it \/ EarlierIn(added, running[k].it, p)

Outcomes ==
    /\ outcome # "pending" => running = <<>>
    /\ outcome = "sent" => ~token
    /\ ToSet(called) \subseteq ToSet(set) /\ present \subseteq ToSet(set)

EventsInv ==
    /\ EventsTypeOK /\ RegistrationsOnce /\ SetOrdered /\ Outcomes
    /\ Trampolines /\ OnlyLastPassesOn /\ CalledOrdered
    /\ RefusersAwaited /\ EveryoneAwaited

LEMMA EarlierOrders ==
  ASSUME EventsTypeOK, RegistrationsOnce
  PROVE  /\ \A a, b, c \in Listeners : EarlierIn(added, a, b) /\ EarlierIn(added, b, c) => EarlierIn(added, a, c)
         /\ \A a, b \in Listeners : EarlierIn(added, a, b) => ~EarlierIn(added, b, a)
<1>1. \A a \in Listeners : Priority[a] \in Int
  BY EventsAssumption
<1>2. Len(added) \in Nat
  BY DEF EventsTypeOK
<1>3. ASSUME NEW a \in Listeners, NEW b \in Listeners, NEW c \in Listeners,
             EarlierIn(added, a, b), EarlierIn(added, b, c)
      PROVE  EarlierIn(added, a, c)
  BY <1>1, <1>2, <1>3 DEF EarlierIn, RegistrationsOnce
<1>4. ASSUME NEW a \in Listeners, NEW b \in Listeners, EarlierIn(added, a, b), EarlierIn(added, b, a) PROVE FALSE
  BY <1>1, <1>2, <1>4 DEF EarlierIn, RegistrationsOnce
<1> QED  BY <1>3, <1>4

LEMMA AppendedSet ==
  ASSUME NEW S, NEW s \in Seq(S), NEW x \in S
  PROVE  /\ ToSet(Append(s, x)) = ToSet(s) \cup {x}
         /\ ToSet(s) = {s[i] : i \in 1..Len(s)}
<1> DEFINE t == Append(s, x)
<1>1. DOMAIN s = 1..Len(s) /\ Len(s) \in Nat
  OBVIOUS
<1>2. DOMAIN t = 1..(Len(s) + 1) /\ t[Len(s) + 1] = x /\ (\A i \in 1..Len(s) : t[i] = s[i])
  OBVIOUS
<1>3. ToSet(s) = {s[i] : i \in 1..Len(s)} /\ ToSet(t) = {t[i] : i \in 1..(Len(s) + 1)}
  BY <1>1, <1>2, Zenon DEF ToSet
<1> HIDE DEF t
<1>4. ASSUME NEW y \in ToSet(t) PROVE y \in ToSet(s) \cup {x}
  <2>1. PICK i \in 1..(Len(s) + 1) : y = t[i]
    BY <1>3, <1>4, Zenon
  <2>2. CASE i = Len(s) + 1
    BY <1>2, <2>1, <2>2, Zenon
  <2>3. CASE i # Len(s) + 1
    <3>1. i \in 1..Len(s)
      BY <1>1, <2>1, <2>3
    <3> QED
      BY <1>2, <1>3, <2>1, <3>1, Zenon
  <2> QED
    BY <2>2, <2>3
<1>5. ASSUME NEW i \in 1..Len(s) PROVE s[i] \in ToSet(t)
  <2>1. i \in 1..(Len(s) + 1)
    BY <1>1
  <2> QED
    BY <1>2, <1>3, <2>1, Zenon
<1>6. x \in ToSet(t)
  <2>1. Len(s) + 1 \in 1..(Len(s) + 1)
    BY <1>1
  <2> QED
    BY <1>2, <1>3, <2>1, Zenon
<1>7. ToSet(t) = ToSet(s) \cup {x}
  BY <1>3, <1>4, <1>5, <1>6, Zenon
<1> QED
  BY <1>3, <1>7 DEF t

\* Where a new listener goes: behind those whose priority is not higher.
LEMMA PlaceExists ==
  ASSUME EventsTypeOK, NEW l \in Listeners
  PROVE  LET n == Prefix({e \in Listeners : Priority[e] <= Priority[l]}) IN
         /\ n \in 0..Len(set) /\ \A i \in 1..n : Priority[set[i]] <= Priority[l]
         /\ n < Len(set) => ~(Priority[set[n + 1]] <= Priority[l])
<1> DEFINE T == {k \in 0..Len(set) : k < Len(set) => ~(Priority[set[k + 1]] <= Priority[l])}
<1>1. Len(set) \in Nat
  BY DEF EventsTypeOK
<1>2. Len(set) \in T /\ T \subseteq Nat
  BY <1>1
<1>3. PICK m \in T : \A k \in T : m <= k
  <2>1. PICK m \in T : \A k \in T : ~(<<k, m>> \in OpToRel(<, Nat))
    BY <1>2, WFMin, NatLessThanWellFounded, Zenon
  <2>2. \A k \in Nat, j \in Nat : ~(<<k, j>> \in OpToRel(<, Nat)) => j <= k
    BY DEF OpToRel
  <2> HIDE DEF T
  <2> QED  BY <1>2, <2>1, <2>2
<1>4. \A i \in 1..m : Priority[set[i]] <= Priority[l]
  <2> SUFFICES ASSUME NEW i \in 1..m, ~(Priority[set[i]] <= Priority[l]) PROVE FALSE
    OBVIOUS
  <2>1. i - 1 \in 0..Len(set) /\ (i - 1) + 1 = i /\ ~(m <= i - 1)
    BY <1>1
  <2>2. i - 1 \in T
    BY <2>1
  <2> QED  BY <1>3, <2>1, <2>2
<1>5. /\ m \in 0..Len(set) /\ \A i \in 1..m : Priority[set[i]] <= Priority[l]
      /\ m < Len(set) => ~(Priority[set[m + 1]] <= Priority[l])
  BY <1>4
<1> HIDE DEF T
<1> DEFINE before == {e \in Listeners : Priority[e] <= Priority[l]}
<1>6. \A i \in 1..Len(set) : set[i] \in before <=> Priority[set[i]] <= Priority[l]
  BY DEF EventsTypeOK
<1>7. \A n \in 0..Len(set) :
         /\ \A i \in 1..n : i \in 1..Len(set)
         /\ n < Len(set) => n + 1 \in 1..Len(set)
  BY <1>1
<1>8. PICK n \in 0..Len(set) : n = Prefix(before) /\ (\A i \in 1..n : set[i] \in before)
                             /\ (n < Len(set) => set[n + 1] \notin before)
  <2> HIDE DEF before
  <2> QED  BY <1>5, <1>6, <1>7 DEF Prefix
<1> HIDE DEF before
<1>9. /\ Prefix(before) \in 0..Len(set) /\ \A i \in 1..Prefix(before) : Priority[set[i]] <= Priority[l]
      /\ Prefix(before) < Len(set) => ~(Priority[set[Prefix(before) + 1]] <= Priority[l])
  BY <1>6, <1>7, <1>8
<1> QED  BY <1>9 DEF before

LEMMA OrderGrows ==
  ASSUME EventsTypeOK, NEW l \in Listeners, added' = Append(added, l)
  PROVE  /\ \A a, b : EarlierIn(added, a, b) => EarlierIn(added', a, b)
         /\ \A a \in ToSet(added) : a # l /\ Priority[a] = Priority[l] => EarlierIn(added', a, l)
<1>1. /\ Len(added) \in Nat /\ Len(added') = Len(added) + 1
      /\ \A i \in 1..Len(added) : added'[i] = added[i]
      /\ added'[Len(added) + 1] = l
  BY DEF EventsTypeOK
<1>2. \A a, b : EarlierIn(added, a, b) => EarlierIn(added', a, b)
  BY <1>1 DEF EarlierIn
<1>3. ASSUME NEW a \in ToSet(added), Priority[a] = Priority[l] PROVE EarlierIn(added', a, l)
  <2>0. added \in Seq(Listeners) /\ l \in Listeners
    BY DEF EventsTypeOK
  <2>3. ToSet(added) = {added[i] : i \in 1..Len(added)}
    BY ONLY <2>0, AppendedSet
  <2>1. PICK i \in 1..Len(added) : added[i] = a
    BY ONLY <1>3, <2>3
  <2>2. i \in 1..Len(added') /\ Len(added) + 1 \in 1..Len(added') /\ i < Len(added) + 1
    BY <1>1
  <2> QED  BY <1>1, <1>3, <2>1, <2>2 DEF EarlierIn
<1> QED  BY <1>2, <1>3

LEMMA AddedInOrder ==
  ASSUME EventsTypeOK, RegistrationsOnce, SetOrdered, NEW l \in Listeners, AddListener(l)
  PROVE  /\ set' \in Seq(Listeners) /\ added' \in Seq(Listeners)
         /\ RegistrationsOnce' /\ SetOrdered' /\ ToSet(set') = ToSet(set) \cup {l}
         /\ \A a, b : EarlierIn(added, a, b) => EarlierIn(added', a, b)
<1> DEFINE n == Prefix({e \in Listeners : Priority[e] <= Priority[l]})
<1>1. /\ n \in 0..Len(set) /\ \A i \in 1..n : Priority[set[i]] <= Priority[l]
      /\ n < Len(set) => ~(Priority[set[n + 1]] <= Priority[l])
  BY PlaceExists
<1>2. l \notin ToSet(added) /\ added' = Append(added, l) /\ set' = InsertAt(set, n + 1, l)
  BY DEF AddListener, Missing, Emplaced
<1> HIDE DEF n
<1>3. /\ Len(set) \in Nat /\ set \in Seq(Listeners) /\ n + 1 \in 1..(Len(set) + 1)
      /\ (n + 1) - 1 = n /\ \A i \in 1..Len(set) : set[i] \in Listeners
  BY <1>1 DEF EventsTypeOK
<1>4. /\ set' \in Seq(Listeners) /\ Len(set') = Len(set) + 1
      /\ \A i \in 1..n : set'[i] = set[i]
      /\ set'[n + 1] = l
      /\ \A i \in (n + 1)..Len(set) : set'[i + 1] = set[i]
  <2> DEFINE m == n + 1
  <2>1. m \in 1..(Len(set) + 1) /\ set' = InsertAt(set, m, l) /\ m - 1 = n
    BY <1>2, <1>3
  <2> HIDE DEF m
  <2>2. /\ set' \in Seq(Listeners) /\ Len(set') = Len(set) + 1
        /\ \A i \in 1..(m - 1) : set'[i] = set[i]
        /\ set'[m] = l
        /\ \A i \in m..Len(set) : set'[i + 1] = set[i]
    BY <1>3, <2>1, Inserted, SMTT(20)
  <2> QED  BY <2>1, <2>2 DEF m
<1>5. /\ Len(added) \in Nat /\ added \in Seq(Listeners) /\ Len(added') = Len(added) + 1
      /\ added' \in Seq(Listeners)
      /\ \A i \in 1..Len(added) : added'[i] = added[i]
      /\ added'[Len(added) + 1] = l
  BY <1>2 DEF EventsTypeOK
<1>6. ToSet(set) = {set[i] : i \in 1..Len(set)} /\ ToSet(set') = {set'[i] : i \in 1..Len(set')}
  BY <1>3, <1>4, AppendedSet
<1>7. ToSet(set') = ToSet(set) \cup {l}
  <2>1. ASSUME NEW a \in ToSet(set') PROVE a \in ToSet(set) \cup {l}
    <3>1. PICK i \in 1..(Len(set) + 1) : set'[i] = a
      BY <1>4, <1>6
    <3>2. i \in 1..n \/ i = n + 1 \/ (i - 1 \in (n + 1)..Len(set) /\ (i - 1) + 1 = i)
      BY <1>1, <1>3
    <3>3. i \in 1..n => i \in 1..Len(set)
      BY <1>1, <1>3
    <3>4. i - 1 \in (n + 1)..Len(set) => i - 1 \in 1..Len(set)
      BY <1>1, <1>3
    <3> QED  BY <1>4, <1>6, <3>1, <3>2, <3>3, <3>4
  <2>2. ASSUME NEW a \in ToSet(set) PROVE a \in ToSet(set')
    <3>1. PICK i \in 1..Len(set) : set[i] = a
      BY <1>6
    <3>2. i \in 1..n \/ i \in (n + 1)..Len(set)
      BY <1>1, <1>3
    <3>3. i \in 1..Len(set') /\ i + 1 \in 1..Len(set')
      BY <1>3, <1>4
    <3> QED  BY <1>4, <1>6, <3>1, <3>2, <3>3
  <2>3. l \in ToSet(set')
    BY <1>3, <1>4, <1>6
  <2> QED  BY <2>1, <2>2, <2>3
<1>8. ToSet(added') = ToSet(added) \cup {l}
  BY <1>2, <1>5, AppendedSet
<1>9. RegistrationsOnce'
  <2>1. \A i \in 1..Len(added) : added[i] # l
    BY <1>2, <1>5, AppendedSet
  <2> QED  BY <1>5, <2>1 DEF RegistrationsOnce
<1>10. /\ \A a, b : EarlierIn(added, a, b) => EarlierIn(added', a, b)
       /\ \A a \in ToSet(added) : a # l /\ Priority[a] = Priority[l] => EarlierIn(added', a, l)
  BY <1>2, OrderGrows
<1>11. \A a \in Listeners : Priority[a] \in Int
  BY EventsAssumption
<1>12. IsOrdered(set', added')
  <2>1. \A i \in 1..n : EarlierIn(added', set[i], l)
    <3> SUFFICES ASSUME NEW i \in 1..n PROVE EarlierIn(added', set[i], l)
      OBVIOUS
    <3>0. i \in 1..Len(set)
      BY <1>1, <1>3
    <3>1. set[i] \in ToSet(set) /\ set[i] # l /\ set[i] \in Listeners
      BY <1>2, <1>3, <1>6, <3>0 DEF SetOrdered
    <3>2. Priority[set[i]] <= Priority[l]
      BY <1>1
    <3>3. CASE Priority[set[i]] = Priority[l]
      BY <1>10, <3>1, <3>3 DEF SetOrdered
    <3>4. CASE Priority[set[i]] # Priority[l]
      BY <1>11, <3>1, <3>2, <3>4 DEF EarlierIn
    <3> QED  BY <3>3, <3>4
  <2>2. \A i \in (n + 1)..Len(set) : EarlierIn(added', l, set[i])
    <3> SUFFICES ASSUME NEW i \in (n + 1)..Len(set) PROVE EarlierIn(added', l, set[i])
      OBVIOUS
    <3>1. n < Len(set) /\ n + 1 \in 1..Len(set) /\ i \in 1..Len(set) /\ (i = n + 1 \/ n + 1 < i)
      BY <1>1, <1>3
    <3>2. Priority[l] < Priority[set[n + 1]]
      BY <1>1, <1>3, <1>11, <3>1
    <3>3. Priority[set[n + 1]] <= Priority[set[i]]
      <4>1. CASE i = n + 1
        BY <1>3, <1>11, <3>1, <4>1
      <4>2. CASE n + 1 < i
        <5>1. EarlierIn(added, set[n + 1], set[i])
          BY <3>1, <4>2 DEF SetOrdered, IsOrdered
        <5> QED  BY <1>3, <1>11, <3>1, <5>1 DEF EarlierIn
      <4> QED  BY <3>1, <4>1, <4>2
    <3>4. Priority[l] < Priority[set[i]]
      BY <1>3, <1>11, <3>1, <3>2, <3>3
    <3> QED  BY <3>4 DEF EarlierIn
  <2>3. \A i, j \in 1..Len(set) : i < j => EarlierIn(added', set[i], set[j])
    BY <1>10 DEF SetOrdered, IsOrdered
  <2>4. ASSUME NEW i \in 1..Len(set'), NEW j \in 1..Len(set'), i < j
        PROVE  EarlierIn(added', set'[i], set'[j])
    <3>1. CASE j \in 1..n
      <4>1. i \in 1..n /\ i \in 1..Len(set) /\ j \in 1..Len(set)
        BY <1>1, <1>3, <2>4, <3>1
      <4> QED  BY <1>4, <2>3, <2>4, <3>1, <4>1
    <3>2. CASE j = n + 1
      <4>1. i \in 1..n
        BY <1>1, <2>4, <3>2
      <4> QED  BY <1>4, <2>1, <3>2, <4>1
    <3>3. CASE j - 1 \in (n + 1)..Len(set)
      <4>1. j - 1 \in 1..Len(set) /\ set'[j] = set[j - 1]
        <5>1. (j - 1) + 1 = j /\ j - 1 \in 1..Len(set)
          BY <1>1, <1>3, <3>3
        <5> QED  BY <1>4, <3>3, <5>1
      <4>2. CASE i \in 1..n
        <5>1. i \in 1..Len(set) /\ i < j - 1
          BY <1>1, <1>3, <3>3, <4>2
        <5> QED  BY <1>4, <2>3, <4>1, <4>2, <5>1
      <4>3. CASE i = n + 1
        BY <1>4, <2>2, <3>3, <4>1, <4>3
      <4>4. CASE i - 1 \in (n + 1)..Len(set)
        <5>1. (i - 1) + 1 = i /\ i - 1 \in 1..Len(set) /\ i - 1 < j - 1
          BY <1>1, <1>3, <2>4, <4>4
        <5>2. set'[i] = set[i - 1]
          BY <1>4, <4>4, <5>1
        <5> QED  BY <2>3, <4>1, <5>1, <5>2
      <4>5. i \in 1..n \/ i = n + 1 \/ i - 1 \in (n + 1)..Len(set)
        BY <1>1, <1>3, <1>4
      <4> QED  BY <4>2, <4>3, <4>4, <4>5
    <3>4. j \in 1..n \/ j = n + 1 \/ j - 1 \in (n + 1)..Len(set)
      BY <1>1, <1>3, <1>4
    <3> QED  BY <3>1, <3>2, <3>3, <3>4
  <2> QED  BY <2>4 DEF IsOrdered
<1> QED  BY <1>4, <1>5, <1>7, <1>8, <1>9, <1>10, <1>12 DEF SetOrdered

----------------------------------------------------------------------------

LEMMA InToSet ==
  ASSUME NEW S, NEW s \in Seq(S)
  PROVE  /\ Len(s) \in Nat /\ ToSet(s) \subseteq S
         /\ \A i \in 1..Len(s) : s[i] \in ToSet(s)
         /\ \A a \in ToSet(s) : \E i \in 1..Len(s) : s[i] = a
BY DEF ToSet

LEMMA SuccessorFacts ==
  ASSUME EventsTypeOK, RegistrationsOnce, SetOrdered, NEW l \in ToSet(set)
  PROVE  /\ Successor(l) \in Listeners \cup {End}
         /\ Successor(l) # End => Successor(l) \in ToSet(set) /\ EarlierIn(added, l, Successor(l))
         /\ \A p \in ToSet(set) : EarlierIn(added, l, p) =>
               Successor(l) # End /\ (p = Successor(l) \/ EarlierIn(added, Successor(l), p))
<1> DEFINE i == CHOOSE j \in 1..Len(set) : set[j] = l
<1>1. /\ Len(set) \in Nat /\ ToSet(set) \subseteq Listeners /\ set \in Seq(Listeners)
      /\ \A j \in 1..Len(set) : set[j] \in ToSet(set)
      /\ \A a \in ToSet(set) : \E j \in 1..Len(set) : set[j] = a
  BY InToSet DEF EventsTypeOK
<1>2. i \in 1..Len(set) /\ set[i] = l
  BY <1>1
<1>3. Successor(l) = IF i = Len(set) THEN End ELSE set[i + 1]
  BY DEF Successor
<1> HIDE DEF i
<1>4. i # Len(set) => i + 1 \in 1..Len(set)
  BY <1>1, <1>2
<1>5. \A a, c \in 1..Len(set) : a < c => EarlierIn(added, set[a], set[c])
  BY DEF SetOrdered, IsOrdered
<1>6. i # Len(set) => EarlierIn(added, l, set[i + 1])
  BY <1>1, <1>2, <1>4, <1>5
<1>7. ASSUME NEW p \in ToSet(set), EarlierIn(added, l, p)
      PROVE  i # Len(set) /\ (p = set[i + 1] \/ EarlierIn(added, set[i + 1], p))
  <2>1. PICK j \in 1..Len(set) : set[j] = p
    BY <1>1
  <2>2. ~EarlierIn(added, p, l) /\ p # l
    BY <1>1, <1>7, EarlierOrders
  <2>3. i < j
    <3>1. ~(j < i) /\ j # i
      BY <1>2, <1>5, <2>1, <2>2
    <3> QED  BY <1>1, <1>2, <2>1, <3>1
  <2>4. i # Len(set) /\ (j = i + 1 \/ i + 1 < j)
    BY <1>1, <1>2, <2>1, <2>3
  <2> QED  BY <1>4, <1>5, <2>1, <2>4
<1>8. Successor(l) # End => i # Len(set)
  BY <1>3
<1>9. i # Len(set) => Successor(l) = set[i + 1] /\ set[i + 1] \in ToSet(set) /\ Successor(l) # End
  <2>1. set[i + 1] \in Listeners => set[i + 1] # End
    BY EventsAssumption
  <2> QED  BY <1>1, <1>3, <1>4, <2>1
<1> QED  BY <1>1, <1>3, <1>6, <1>7, <1>8, <1>9

LEMMA BeginFacts ==
  ASSUME EventsTypeOK, RegistrationsOnce, SetOrdered
  PROVE  /\ Begin \in Listeners \cup {End}
         /\ Begin # End => Begin \in ToSet(set)
         /\ \A p \in ToSet(set) : Begin # End /\ (p = Begin \/ EarlierIn(added, Begin, p))
<1>1. /\ Len(set) \in Nat /\ ToSet(set) \subseteq Listeners
      /\ \A j \in 1..Len(set) : set[j] \in ToSet(set)
      /\ \A a \in ToSet(set) : \E j \in 1..Len(set) : set[j] = a
  BY InToSet DEF EventsTypeOK
<1>2. set # <<>> => 1 \in 1..Len(set)
  BY <1>1, EmptySeq DEF EventsTypeOK
<1>3. Len(set) = 0 => \A p \in ToSet(set) : FALSE
  BY <1>1
<1>4. set = <<>> => \A p \in ToSet(set) : FALSE
  BY <1>3
<1>5. \A a \in Listeners : a # End
  BY EventsAssumption
<1>6. set # <<>> => Begin = set[1] /\ set[1] \in ToSet(set) /\ Begin # End
  BY <1>1, <1>2, <1>5 DEF Begin
<1>7. ASSUME NEW p \in ToSet(set), set # <<>> PROVE p = set[1] \/ EarlierIn(added, set[1], p)
  <2>1. PICK j \in 1..Len(set) : set[j] = p
    BY <1>1
  <2>2. j = 1 \/ 1 < j
    BY <1>1
  <2> QED  BY <1>2, <1>7, <2>1, <2>2 DEF SetOrdered, IsOrdered
<1> QED  BY <1>1, <1>4, <1>6, <1>7 DEF Begin

LEMMA TailFacts ==
  ASSUME NEW S, NEW s \in Seq(S), NEW t \in Seq(S), IsTail(t, s), t # <<>>
  PROVE  /\ Tail(t) \in Seq(S) /\ IsTail(Tail(t), s)
         /\ ToSet(t) = {Head(t)} \cup ToSet(Tail(t))
         /\ Head(t) \in ToSet(Tail(t)) =>
               \E i, j \in DOMAIN s : i < j /\ s[i] = Head(t) /\ s[j] = Head(t)
<1>1. /\ Len(t) \in Nat \ {0} /\ Len(s) \in Nat /\ Len(t) <= Len(s)
      /\ \A i \in 1..Len(t) : t[i] = s[Len(s) - Len(t) + i]
      /\ DOMAIN s = 1..Len(s)
  BY EmptySeq DEF IsTail
<1> DEFINE u == Tail(t)
<1>2. /\ u \in Seq(S) /\ Len(u) = Len(t) - 1 /\ Head(t) = t[1]
      /\ \A i \in 1..Len(u) : u[i] = t[i + 1]
  BY <1>1
<1> HIDE DEF u
<1>0. \A m, n \in Nat : m # 0 /\ m <= n =>
         /\ \A i \in 1..(m - 1) : i + 1 \in 1..m /\ n - m + (i + 1) = n - (m - 1) + i
         /\ 1 \in 1..m /\ m - 1 <= n /\ n - m + 1 \in 1..n
         /\ \A i \in 1..(m - 1) : n - m + (i + 1) \in 1..n /\ n - m + 1 < n - m + (i + 1)
         /\ \A i \in 1..m : i = 1 \/ (i - 1 \in 1..(m - 1) /\ (i - 1) + 1 = i)
  OBVIOUS
<1>3. IsTail(u, s)
  BY <1>0, <1>1, <1>2 DEF IsTail
<1>4. /\ ToSet(t) = {t[i] : i \in 1..Len(t)} /\ ToSet(u) = {u[i] : i \in 1..Len(u)}
  BY <1>2, AppendedSet
<1>5. ToSet(t) = {Head(t)} \cup ToSet(u)
  <2>1. ASSUME NEW a \in ToSet(t) PROVE a = t[1] \/ a \in ToSet(u)
    <3>1. PICK i \in 1..Len(t) : a = t[i]
      BY <1>4
    <3>2. i = 1 \/ (i - 1 \in 1..Len(u) /\ (i - 1) + 1 = i)
      BY <1>0, <1>1, <1>2
    <3>3. i - 1 \in 1..Len(u) /\ (i - 1) + 1 = i => u[i - 1] = t[i]
      BY <1>2
    <3> QED  BY <1>4, <3>1, <3>2, <3>3
  <2>2. ASSUME NEW a \in ToSet(u) PROVE a \in ToSet(t)
    <3>1. PICK i \in 1..Len(u) : a = u[i]
      BY <1>4
    <3>2. i + 1 \in 1..Len(t) /\ a = t[i + 1]
      BY <1>0, <1>1, <1>2, <3>1
    <3> QED  BY <1>4, <3>2
  <2>3. t[1] \in ToSet(t)
    BY <1>0, <1>1, <1>4
  <2> QED  BY <1>2, <2>1, <2>2, <2>3
<1>6. ASSUME Head(t) \in ToSet(u)
      PROVE  \E i, j \in DOMAIN s : i < j /\ s[i] = Head(t) /\ s[j] = Head(t)
  <2>1. PICK i \in 1..Len(u) : u[i] = Head(t)
    BY <1>4, <1>6
  <2>2. t[i + 1] = Head(t) /\ i \in 1..(Len(t) - 1) /\ i + 1 \in 1..Len(t)
    BY <1>0, <1>1, <1>2, <2>1
  <2>3. /\ s[Len(s) - Len(t) + 1] = Head(t)
        /\ s[Len(s) - Len(t) + (i + 1)] = Head(t)
    BY <1>0, <1>1, <1>2, <2>2
  <2>4. /\ Len(s) - Len(t) + 1 \in 1..Len(s) /\ Len(s) - Len(t) + (i + 1) \in 1..Len(s)
        /\ Len(s) - Len(t) + 1 < Len(s) - Len(t) + (i + 1)
    BY <1>0, <1>1, <2>2
  <2> QED  BY <1>1, <2>3, <2>4
<1> QED  BY <1>2, <1>3, <1>5, <1>6 DEF u

LEMMA AdvancedFacts ==
  ASSUME EventsTypeOK, running # <<>>, Current.todo # <<>>, Trampolines
  PROVE  /\ Len(running) \in Nat \ {0} /\ Current = running[Len(running)] /\ Current \in Frames
         /\ Advanced \in Seq(Frames) /\ Len(Advanced) = Len(running) /\ Advanced # <<>>
         /\ \A k \in 1..(Len(running) - 1) : Advanced[k] = running[k]
         /\ Advanced[Len(running)].who = Current.who /\ Advanced[Len(running)].it = Current.it
         /\ Advanced[Len(running)].todo = Tail(Current.todo)
         /\ IsTail(Tail(Current.todo), acting[Current.who])
         /\ ToSet(Current.todo) = {Head(Current.todo)} \cup ToSet(Tail(Current.todo))
         /\ Head(Current.todo) = "next" /\ ~PassesOnTwice(Current.who) =>
               "next" \notin ToSet(Tail(Current.todo))
<1>1. running \in Seq(Frames)
  BY DEF EventsTypeOK, Frames
<1>2. Len(running) \in Nat \ {0} /\ Current = running[Len(running)] /\ Current \in Frames
  BY <1>1, LastFrontFacts DEF Current
<1>3. /\ Len(running) \in 1..Len(running) /\ acting[Current.who] \in Seq(Acts)
      /\ Current.todo \in Seq(Acts) /\ Current.who \in Listeners /\ Current.it \in Listeners \cup {End}
  BY <1>2, EventsAssumption DEF EventsTypeOK, Frames
<1>4. IsTail(Current.todo, acting[Current.who])
  BY <1>2, <1>3 DEF Trampolines
<1>5. /\ Tail(Current.todo) \in Seq(Acts) /\ IsTail(Tail(Current.todo), acting[Current.who])
      /\ ToSet(Current.todo) = {Head(Current.todo)} \cup ToSet(Tail(Current.todo))
      /\ Head(Current.todo) \in ToSet(Tail(Current.todo)) =>
            \E i, j \in DOMAIN acting[Current.who] :
               i < j /\ acting[Current.who][i] = Head(Current.todo)
                     /\ acting[Current.who][j] = Head(Current.todo)
  <2> DEFINE t == Current.todo
             s == acting[Current.who]
  <2>1. s \in Seq(Acts) /\ t \in Seq(Acts) /\ IsTail(t, s) /\ t # <<>>
    BY <1>3, <1>4
  <2> HIDE DEF t, s
  <2>2. /\ Tail(t) \in Seq(Acts) /\ IsTail(Tail(t), s)
        /\ ToSet(t) = {Head(t)} \cup ToSet(Tail(t))
        /\ Head(t) \in ToSet(Tail(t)) =>
              \E i, j \in DOMAIN s : i < j /\ s[i] = Head(t) /\ s[j] = Head(t)
    BY <2>1, TailFacts
  <2> QED  BY <2>2 DEF t, s
<1> DEFINE f == [Current EXCEPT !.todo = Tail(@)]
<1>6. f \in Frames /\ f.who = Current.who /\ f.it = Current.it /\ f.todo = Tail(Current.todo)
  BY <1>2, <1>5 DEF Frames
<1>7. Advanced = Front(running) \o <<f>>
  BY DEF Advanced
<1> HIDE DEF f
<1>8. /\ Advanced \in Seq(Frames) /\ Len(Advanced) = Len(running) /\ Advanced # <<>>
      /\ Advanced[Len(running)] = f
      /\ \A k \in 1..(Len(running) - 1) : Advanced[k] = running[k]
  <2>1. Advanced = WithLast(running, f)
    BY <1>7 DEF WithLast
  <2>2. WithLast(running, f) = [running EXCEPT ![Len(running)] = f]
    BY <1>1, <1>6, LastReplaced
  <2> QED  BY <1>1, <1>2, <1>6, <2>1, <2>2
<1>9. Head(Current.todo) = "next" /\ ~PassesOnTwice(Current.who) =>
               "next" \notin ToSet(Tail(Current.todo))
  BY <1>5 DEF PassesOnTwice
<1> QED  BY <1>2, <1>5, <1>6, <1>8, <1>9

\* The innermost listener does something else than to pass the line on, or there is nobody
\* behind it.
LEMMA AdvancedKeeps ==
  ASSUME EventsInv, running # <<>>, Current.todo # <<>>, running' = Advanced,
         Head(Current.todo) # "next" \/ Current.it = End,
         Head(Current.todo) = "refuse" => token', Head(Current.todo) # "refuse" => token' = token,
         token' \in BOOLEAN, set' \in Seq(Listeners), added' \in Seq(Listeners),
         ToSet(set) \subseteq ToSet(set'), RegistrationsOnce', SetOrdered',
         \A a, b : EarlierIn(added, a, b) => EarlierIn(added', a, b),
         UNCHANGED <<acting, called, present, lines, outcome>>
  PROVE  EventsInv'
<1> USE DEF EventsInv
<1> DEFINE N == Len(running)
<1>1. /\ N \in Nat \ {0} /\ Current = running[N] /\ Current \in Frames
      /\ running' \in Seq(Frames) /\ Len(running') = N /\ running' # <<>>
      /\ \A k \in 1..(N - 1) : running'[k] = running[k]
      /\ running'[N].who = Current.who /\ running'[N].it = Current.it
      /\ running'[N].todo = Tail(Current.todo)
      /\ IsTail(Tail(Current.todo), acting[Current.who])
      /\ ToSet(Current.todo) = {Head(Current.todo)} \cup ToSet(Tail(Current.todo))
  BY AdvancedFacts
<1> HIDE DEF N
<1>2. EventsTypeOK'
  BY <1>1 DEF EventsTypeOK, Frames
<1>3. Outcomes'
  BY <1>1 DEF Outcomes
<1>4. \A k \in 1..N : k = N \/ k \in 1..(N - 1)
  BY <1>1
<1>5. N \in 1..N /\ N = Len(running) /\ \A k \in 1..(N - 1) : k \in 1..N
  BY <1>1 DEF N
<1>6. Trampolines'
  <2>1. ASSUME NEW k \in 1..N
        PROVE  /\ running'[k].who \in ToSet(called)
               /\ IsTail(running'[k].todo, acting[running'[k].who])
               /\ running'[k].it # End =>
                   running'[k].it \in ToSet(set') /\ EarlierIn(added', running'[k].who, running'[k].it)
    BY <1>1, <1>4, <1>5 DEF Trampolines
  <2> QED  BY <1>1, <2>1 DEF Trampolines
<1>7. \A k \in 1..N : /\ ToSet(running'[k].todo) \subseteq ToSet(running[k].todo)
                      /\ running'[k].who = running[k].who /\ running'[k].it = running[k].it
                      /\ \A a \in ToSet(running[k].todo) :
                            a \in ToSet(running'[k].todo) \/ (k = N /\ a = Head(Current.todo))
  <2> SUFFICES ASSUME NEW k \in 1..N
      PROVE  /\ ToSet(running'[k].todo) \subseteq ToSet(running[k].todo)
             /\ running'[k].who = running[k].who /\ running'[k].it = running[k].it
             /\ \A a \in ToSet(running[k].todo) :
                   a \in ToSet(running'[k].todo) \/ (k = N /\ a = Head(Current.todo))
    OBVIOUS
  <2>1. CASE k \in 1..(N - 1)
    <3>1. running'[k] = running[k]
      BY <1>1, <2>1
    <3> QED  BY <3>1, Zenon
  <2>2. CASE k = N
    <3>1. /\ running[k] = Current /\ running'[k].todo = Tail(Current.todo)
          /\ running'[k].who = Current.who /\ running'[k].it = Current.it
      BY <1>1, <2>2
    <3> QED  BY <1>1, <2>2, <3>1
  <2> QED  BY <1>4, <2>1, <2>2
<1>8. OnlyLastPassesOn'
  <2>1. ASSUME NEW k \in 1..N, k < N \/ Last(called) # running'[k].who,
               ~PassesOnTwice(running'[k].who)
        PROVE  "next" \notin ToSet(running'[k].todo)
    <3>1. (k < N \/ Last(called) # running[k].who) /\ ~PassesOnTwice(running[k].who)
      BY <1>7, <2>1
    <3>2. "next" \notin ToSet(running[k].todo)
      BY <1>5, <1>7, <2>1, <3>1 DEF OnlyLastPassesOn
    <3> QED  BY <1>7, <3>2
  <2>2. \A l : PassesOnTwice(l)' = PassesOnTwice(l)
    BY DEF PassesOnTwice
  <2> QED  BY <1>1, <2>1, <2>2 DEF OnlyLastPassesOn
<1>9. CalledOrdered'
  <2>1. (\A l \in ToSet(called) : ~PassesOnTwice(l))' => \A l \in ToSet(called) : ~PassesOnTwice(l)
    BY DEF PassesOnTwice
  <2>2. IsOrdered(called, added) => IsOrdered(called', added')
    BY DEF IsOrdered
  <2> QED  BY <2>1, <2>2 DEF CalledOrdered
<1>10. RefusersAwaited'
  <2>1. ASSUME outcome \in {"pending", "sent"}, ~token', NEW l \in ToSet(called),
               "refuse" \in ToSet(acting[l])
        PROVE  Awaits("refuse")'
    <3>1. PICK k \in 1..N : "refuse" \in ToSet(running[k].todo)
      BY <1>5, <2>1 DEF RefusersAwaited, Awaits
    <3>2. "refuse" \in ToSet(running'[k].todo)
      BY <1>7, <2>1, <3>1
    <3> QED  BY <1>1, <3>2 DEF Awaits
  <2> QED  BY <2>1 DEF RefusersAwaited
<1>11. EveryoneAwaited'
  <2>1. ASSUME outcome \in {"pending", "sent"}, NEW p \in present
        PROVE  \/ p \in ToSet(called)
               \/ \E l \in ToSet(called) : ~PassesOn(l)
               \/ \E k \in 1..Len(running') :
                     /\ "next" \in ToSet(running'[k].todo) /\ running'[k].it # End
                     /\ p = running'[k].it \/ EarlierIn(added', running'[k].it, p)
    <3>1. \/ p \in ToSet(called)
          \/ \E l \in ToSet(called) : ~PassesOn(l)
          \/ \E k \in 1..N :
                /\ "next" \in ToSet(running[k].todo) /\ running[k].it # End
                /\ p = running[k].it \/ EarlierIn(added, running[k].it, p)
      BY <1>5, <2>1 DEF EveryoneAwaited
    <3>2. ASSUME NEW k \in 1..N,
                 "next" \in ToSet(running[k].todo), running[k].it # End,
                 p = running[k].it \/ EarlierIn(added, running[k].it, p)
          PROVE  /\ "next" \in ToSet(running'[k].todo) /\ running'[k].it # End
                 /\ p = running'[k].it \/ EarlierIn(added', running'[k].it, p)
      BY <1>1, <1>7, <3>2
    <3> QED  BY <1>1, <3>1, <3>2
  <2> QED  BY <2>1 DEF EveryoneAwaited, PassesOn
<1> QED  BY <1>2, <1>3, <1>6, <1>8, <1>9, <1>10, <1>11

\* A listener calls its trampoline, and there is one behind it.
LEMMA NextCalled ==
  ASSUME EventsInv, CallNext, Current.it # End
  PROVE  EventsInv'
<1> USE DEF EventsInv
<1> DEFINE N == Len(running)
           it == Current.it
<1>0. /\ running # <<>> /\ Current.todo # <<>> /\ Head(Current.todo) = "next"
      /\ UNCHANGED <<acting, set, added, token, present, lines, outcome>>
      /\ running' = Append(Advanced, [who |-> it, todo |-> acting[it], it |-> Successor(it)])
      /\ called' = Append(called, it)
  BY DEF CallNext, Doing, Invoke
<1>1. /\ N \in Nat \ {0} /\ Current = running[N] /\ Current \in Frames
      /\ Advanced \in Seq(Frames) /\ Len(Advanced) = N
      /\ \A k \in 1..(N - 1) : Advanced[k] = running[k]
      /\ Advanced[N].who = Current.who /\ Advanced[N].it = Current.it
      /\ Advanced[N].todo = Tail(Current.todo)
      /\ IsTail(Tail(Current.todo), acting[Current.who])
      /\ ToSet(Current.todo) = {Head(Current.todo)} \cup ToSet(Tail(Current.todo))
      /\ ~PassesOnTwice(Current.who) => "next" \notin ToSet(Tail(Current.todo))
  BY <1>0, AdvancedFacts
<1>2. N \in 1..N /\ N = Len(running) /\ \A k \in 1..N : k = N \/ k \in 1..(N - 1)
  BY <1>1
<1>3. /\ it \in ToSet(set) /\ EarlierIn(added, Current.who, it) /\ it \in Listeners /\ it # End
      /\ Current.who \in Listeners /\ Current.who \in ToSet(called)
  BY <1>1, <1>2 DEF Trampolines, Frames
<1>4. /\ Successor(it) \in Listeners \cup {End}
      /\ Successor(it) # End => Successor(it) \in ToSet(set) /\ EarlierIn(added, it, Successor(it))
      /\ \A p \in ToSet(set) : EarlierIn(added, it, p) =>
            Successor(it) # End /\ (p = Successor(it) \/ EarlierIn(added, Successor(it), p))
  BY <1>3, SuccessorFacts
<1> DEFINE f == [who |-> it, todo |-> acting[it], it |-> Successor(it)]
<1>5. /\ f \in Frames /\ f.who = it /\ f.todo = acting[it] /\ f.it = Successor(it)
      /\ acting[it] \in Seq(Acts) /\ IsTail(f.todo, acting[it])
  <2>1. acting[it] \in Seq(Acts)
    BY <1>3, EventsAssumption DEF EventsTypeOK
  <2>2. IsTail(acting[it], acting[it])
    BY <2>1 DEF IsTail
  <2> QED  BY <1>3, <1>4, <2>1, <2>2 DEF Frames
<1>6. /\ running' \in Seq(Frames) /\ Len(running') = N + 1 /\ running'[N + 1] = f
      /\ \A k \in 1..N : running'[k] = Advanced[k]
  <2>1. running' = Append(Advanced, f)
    BY <1>0
  <2> HIDE DEF f
  <2> QED  BY <1>1, <1>5, <2>1
<1>7. /\ called \in Seq(Listeners) /\ Len(called) \in Nat /\ called' \in Seq(Listeners)
      /\ Len(called') = Len(called) + 1
      /\ called'[Len(called) + 1] = it /\ \A i \in 1..Len(called) : called'[i] = called[i]
      /\ Last(called') = it
      /\ ToSet(called') = ToSet(called) \cup {it}
  BY <1>0, <1>3, AppendedSet DEF EventsTypeOK, Last
<1> HIDE DEF N, it, f
<1>8. \A k \in 1..(N + 1) : k \in 1..N \/ k = N + 1
  BY <1>1
<1>9. \A k \in 1..N : /\ running'[k].who = running[k].who /\ running'[k].it = running[k].it
                      /\ ToSet(running'[k].todo) \subseteq ToSet(running[k].todo)
                      /\ IsTail(running'[k].todo, acting[running'[k].who])
                      /\ \A a \in ToSet(running[k].todo) :
                            a \in ToSet(running'[k].todo) \/ (k = N /\ a = "next")
  <2> SUFFICES ASSUME NEW k \in 1..N
      PROVE  /\ running'[k].who = running[k].who /\ running'[k].it = running[k].it
             /\ ToSet(running'[k].todo) \subseteq ToSet(running[k].todo)
             /\ IsTail(running'[k].todo, acting[running'[k].who])
             /\ \A a \in ToSet(running[k].todo) :
                   a \in ToSet(running'[k].todo) \/ (k = N /\ a = "next")
    OBVIOUS
  <2>1. CASE k \in 1..(N - 1)
    <3>1. running'[k] = running[k]
      BY <1>1, <1>6, <2>1
    <3>2. IsTail(running[k].todo, acting[running[k].who])
      BY <1>2 DEF Trampolines
    <3> QED  BY <3>1, <3>2, Zenon
  <2>2. CASE k = N
    <3>1. /\ running[k] = Current /\ running'[k].todo = Tail(Current.todo)
          /\ running'[k].who = Current.who /\ running'[k].it = Current.it
      BY <1>1, <1>6, <2>2
    <3> QED  BY <1>0, <1>1, <2>2, <3>1
  <2> QED  BY <1>2, <2>1, <2>2
<1>10. EventsTypeOK'
  BY <1>0, <1>6, <1>7 DEF EventsTypeOK, Frames
<1>11. RegistrationsOnce' /\ SetOrdered'
  BY <1>0 DEF RegistrationsOnce, SetOrdered
<1>12. Outcomes'
  <2>1. outcome = "pending"
    BY <1>0 DEF Outcomes
  <2> QED  BY <1>0, <1>3, <1>7, <2>1 DEF Outcomes
<1>13. Trampolines'
  <2>1. ASSUME NEW k \in 1..(N + 1)
        PROVE  /\ running'[k].who \in ToSet(called')
               /\ IsTail(running'[k].todo, acting[running'[k].who])
               /\ running'[k].it # End =>
                   running'[k].it \in ToSet(set) /\ EarlierIn(added, running'[k].who, running'[k].it)
    <3>1. CASE k \in 1..N
      BY <1>2, <1>7, <1>9, <3>1 DEF Trampolines
    <3>2. CASE k = N + 1
      BY <1>4, <1>5, <1>6, <1>7, <3>2
    <3> QED  BY <1>8, <3>1, <3>2
  <2> QED  BY <1>0, <1>6, <2>1 DEF Trampolines
<1>14. OnlyLastPassesOn'
  <2>1. ASSUME NEW k \in 1..(N + 1), k < N + 1 \/ it # running'[k].who,
               ~PassesOnTwice(running'[k].who)
        PROVE  "next" \notin ToSet(running'[k].todo)
    <3>1. k # N + 1
      BY <1>1, <1>5, <1>6, <2>1
    <3>2. CASE k \in 1..(N - 1)
      <4>1. k < Len(running) /\ k \in 1..N /\ ~PassesOnTwice(running[k].who)
        BY <1>1, <1>2, <1>9, <2>1, <3>2
      <4>2. "next" \notin ToSet(running[k].todo)
        BY <1>2, <4>1 DEF OnlyLastPassesOn
      <4> QED  BY <1>9, <4>1, <4>2
    <3>3. CASE k = N
      BY <1>1, <1>2, <1>6, <2>1, <3>3
    <3> QED  BY <1>2, <1>8, <3>1, <3>2, <3>3
  <2>2. \A l : PassesOnTwice(l)' = PassesOnTwice(l)
    BY <1>0 DEF PassesOnTwice
  <2> QED  BY <1>6, <1>7, <2>1, <2>2 DEF OnlyLastPassesOn
<1>15. CalledOrdered'
  <2> SUFFICES ASSUME \A l \in ToSet(called') : ~PassesOnTwice(l)
      PROVE  IsOrdered(called', added)
    BY <1>0 DEF CalledOrdered, PassesOnTwice
  <2>1. IsOrdered(called, added)
    BY <1>7 DEF CalledOrdered
  <2>2. Last(called) = Current.who
    <3>1. ~PassesOnTwice(Current.who) /\ "next" \in ToSet(running[N].todo)
      BY <1>0, <1>1, <1>3, <1>7
    <3> QED  BY <1>1, <1>2, <3>1 DEF OnlyLastPassesOn
  <2>3. Len(called) \in 1..Len(called) /\ Last(called) = called[Len(called)]
    <3>1. PICK i \in 1..Len(called) : called[i] = Current.who
      BY <1>3, <1>7, InToSet
    <3> QED  BY <1>7, <3>1 DEF Last
  <2>4. \A i \in 1..Len(called) : called[i] \in Listeners
    BY <1>7
  <2>5. ASSUME NEW i \in 1..Len(called) PROVE EarlierIn(added, called[i], it)
    <3>1. CASE i = Len(called)
      BY <1>3, <2>2, <2>3, <3>1
    <3>2. CASE i # Len(called)
      <4>1. i < Len(called)
        BY <1>7, <3>2
      <4>2. EarlierIn(added, called[i], Current.who)
        BY <2>1, <2>2, <2>3, <4>1 DEF IsOrdered
      <4> QED  BY <1>3, <2>4, <4>2, EarlierOrders
    <3> QED  BY <3>1, <3>2
  <2>6. ASSUME NEW i \in 1..Len(called'), NEW j \in 1..Len(called'), i < j
        PROVE  EarlierIn(added, called'[i], called'[j])
    <3>1. i \in 1..Len(called) /\ (j \in 1..Len(called) \/ j = Len(called) + 1)
      BY <1>7, <2>6
    <3>2. CASE j \in 1..Len(called)
      BY <1>7, <2>1, <2>6, <3>1, <3>2 DEF IsOrdered
    <3>3. CASE j = Len(called) + 1
      BY <1>7, <2>5, <3>1, <3>3
    <3> QED  BY <3>1, <3>2, <3>3
  <2> QED  BY <2>6 DEF IsOrdered
<1>16. RefusersAwaited'
  <2>1. ASSUME outcome \in {"pending", "sent"}, ~token, NEW l \in ToSet(called'),
               "refuse" \in ToSet(acting[l])
        PROVE  \E k \in 1..(N + 1) : "refuse" \in ToSet(running'[k].todo)
    <3>1. CASE l \in ToSet(called)
      <4>1. PICK k \in 1..N : "refuse" \in ToSet(running[k].todo)
        BY <1>2, <2>1, <3>1 DEF RefusersAwaited, Awaits
      <4>2. "refuse" \in ToSet(running'[k].todo) /\ k \in 1..(N + 1)
        BY <1>1, <1>9, <4>1
      <4> QED  BY <4>2
    <3>2. CASE l = it
      <4>1. N + 1 \in 1..(N + 1)
        BY <1>1
      <4> QED  BY <1>5, <1>6, <2>1, <3>2, <4>1
    <3> QED  BY <1>7, <3>1, <3>2
  <2> QED  BY <1>0, <1>6, <2>1 DEF RefusersAwaited, Awaits
<1>17. EveryoneAwaited'
  <2>1. ASSUME outcome \in {"pending", "sent"}, NEW p \in present
        PROVE  \/ p \in ToSet(called')
               \/ \E l \in ToSet(called') : ~PassesOn(l)
               \/ \E k \in 1..(N + 1) :
                     /\ "next" \in ToSet(running'[k].todo) /\ running'[k].it # End
                     /\ p = running'[k].it \/ EarlierIn(added, running'[k].it, p)
    <3>1. \/ p \in ToSet(called)
          \/ \E l \in ToSet(called) : ~PassesOn(l)
          \/ \E k \in 1..N :
                /\ "next" \in ToSet(running[k].todo) /\ running[k].it # End
                /\ p = running[k].it \/ EarlierIn(added, running[k].it, p)
      BY <1>2, <2>1 DEF EveryoneAwaited
    <3>2. p \in ToSet(set)
      BY <2>1 DEF Outcomes
    <3>3. ASSUME NEW k \in 1..(N - 1),
                 "next" \in ToSet(running[k].todo), running[k].it # End,
                 p = running[k].it \/ EarlierIn(added, running[k].it, p)
          PROVE  /\ k \in 1..(N + 1)
                 /\ "next" \in ToSet(running'[k].todo) /\ running'[k].it # End
                 /\ p = running'[k].it \/ EarlierIn(added, running'[k].it, p)
      <4>1. k \in 1..N /\ k \in 1..(N + 1) /\ k # N
        BY <1>1
      <4> QED  BY <1>9, <3>3, <4>1
    <3>4. ASSUME p = it \/ EarlierIn(added, it, p)
          PROVE  \/ p \in ToSet(called')
                 \/ \E l \in ToSet(called') : ~PassesOn(l)
                 \/ /\ N + 1 \in 1..(N + 1)
                    /\ "next" \in ToSet(running'[N + 1].todo) /\ running'[N + 1].it # End
                    /\ p = running'[N + 1].it \/ EarlierIn(added, running'[N + 1].it, p)
      <4>1. CASE p = it
        BY <1>7, <4>1
      <4>2. CASE EarlierIn(added, it, p) /\ ~PassesOn(it)
        BY <1>7, <4>2
      <4>3. CASE EarlierIn(added, it, p) /\ PassesOn(it)
        <5>1. "next" \in ToSet(f.todo) /\ f.it # End
              /\ (p = f.it \/ EarlierIn(added, f.it, p))
          BY <1>4, <1>5, <3>2, <4>3 DEF PassesOn
        <5>2. N + 1 \in 1..(N + 1)
          BY <1>1
        <5> QED  BY <1>6, <5>1, <5>2
      <4> QED  BY <3>4, <4>1, <4>2, <4>3
    <3>5. \A k \in 1..N : k \in 1..(N - 1) \/ running[k].it = it
      BY <1>1, <1>2 DEF it
    <3> QED  BY <1>7, <3>1, <3>3, <3>4, <3>5
  <2> QED  BY <1>0, <1>6, <2>1 DEF EveryoneAwaited, PassesOn
<1> QED  BY <1>10, <1>11, <1>12, <1>13, <1>14, <1>15, <1>16, <1>17

LEMMA EventsInit_Inv == EventsInit => EventsInv
<1> SUFFICES ASSUME EventsInit PROVE EventsInv
  OBVIOUS
<1>1. ToSet(<<>>) = {}
  BY DEF ToSet
<1>2. EventsTypeOK
  <2>1. \A S : <<>> \in Seq(S)
    OBVIOUS
  <2>2. 0 \in 0..MaxLines
    BY EventsAssumption
  <2> QED  BY <2>1, <2>2 DEF EventsInit, EventsTypeOK
<1>3. RegistrationsOnce /\ SetOrdered /\ Outcomes
  BY <1>1 DEF EventsInit, RegistrationsOnce, SetOrdered, IsOrdered, Outcomes
<1>4. Trampolines /\ OnlyLastPassesOn /\ CalledOrdered
  BY DEF EventsInit, Trampolines, OnlyLastPassesOn, CalledOrdered, IsOrdered
<1>5. RefusersAwaited /\ EveryoneAwaited
  BY DEF EventsInit, RefusersAwaited, EveryoneAwaited
<1> QED  BY <1>2, <1>3, <1>4, <1>5 DEF EventsInv

\* A line comes to the first.
LEMMA LineBegins ==
  ASSUME EventsInv, Line
  PROVE  EventsInv'
<1> USE DEF EventsInv
<1>1. /\ lines' = lines + 1 /\ lines < MaxLines /\ outcome' = "pending" /\ token' = FALSE
      /\ present' = ToSet(set) /\ UNCHANGED <<acting, set, added>>
      /\ running = <<>>
  BY DEF Line, Outcomes
<1>2. /\ Begin \in Listeners \cup {End}
      /\ Begin # End => Begin \in ToSet(set)
      /\ \A p \in ToSet(set) : Begin # End /\ (p = Begin \/ EarlierIn(added, Begin, p))
  BY BeginFacts
<1>3. ToSet(set) \subseteq Listeners /\ lines' \in 0..MaxLines
  BY <1>1, InToSet, EventsAssumption DEF EventsTypeOK
<1>4. RegistrationsOnce' /\ SetOrdered'
  BY <1>1 DEF RegistrationsOnce, SetOrdered
<1>5. CASE Begin = End
  <2>1. running' = <<>> /\ called' = <<>> /\ ToSet(called') = {}
    BY <1>5 DEF Line, ToSet
  <2>2. EventsTypeOK'
    <3>1. \A S : <<>> \in Seq(S)
      OBVIOUS
    <3> QED  BY <1>1, <1>3, <2>1, <3>1 DEF EventsTypeOK
  <2>3. Outcomes'
    BY <1>1, <2>1 DEF Outcomes
  <2>4. Trampolines' /\ OnlyLastPassesOn' /\ CalledOrdered'
    BY <2>1 DEF Trampolines, OnlyLastPassesOn, CalledOrdered, IsOrdered
  <2>5. RefusersAwaited' /\ EveryoneAwaited'
    BY <1>1, <1>2, <1>5, <2>1 DEF RefusersAwaited, EveryoneAwaited
  <2> QED  BY <1>4, <2>2, <2>3, <2>4, <2>5
<1>6. CASE Begin # End
  <2> DEFINE it == Begin
             f == [who |-> it, todo |-> acting[it], it |-> Successor(it)]
  <2>1. running' = <<f>> /\ called' = <<it>>
    BY <1>6 DEF Line
  <2>2. it \in ToSet(set) /\ it \in Listeners /\ acting[it] \in Seq(Acts)
    BY <1>2, <1>3, <1>6, EventsAssumption DEF EventsTypeOK
  <2>3. /\ Successor(it) \in Listeners \cup {End}
        /\ Successor(it) # End => Successor(it) \in ToSet(set) /\ EarlierIn(added, it, Successor(it))
        /\ \A p \in ToSet(set) : EarlierIn(added, it, p) =>
              Successor(it) # End /\ (p = Successor(it) \/ EarlierIn(added, Successor(it), p))
    BY <2>2, SuccessorFacts
  <2>4. /\ f \in Frames /\ f.who = it /\ f.todo = acting[it] /\ f.it = Successor(it)
        /\ IsTail(f.todo, acting[it])
    BY <2>2, <2>3 DEF Frames, IsTail
  <2>5. /\ called' \in Seq(Listeners) /\ ToSet(called') = {it} /\ Len(called') = 1
        /\ called'[1] = it /\ Last(called') = it
    BY <2>1, <2>2 DEF ToSet, Last
  <2> HIDE DEF f
  <2>6. running' \in Seq(Frames) /\ Len(running') = 1 /\ running'[1] = f
    BY <2>1, <2>4
  <2> HIDE DEF it
  <2>7. \A k : k \in 1..1 <=> k = 1
    OBVIOUS
  <2>8. EventsTypeOK'
    BY <1>1, <1>3, <2>5, <2>6 DEF EventsTypeOK, Frames
  <2>9. Outcomes'
    BY <1>1, <2>2, <2>5 DEF Outcomes
  <2>10. Trampolines'
    BY <1>1, <2>3, <2>4, <2>5, <2>6, <2>7 DEF Trampolines
  <2>11. OnlyLastPassesOn' /\ CalledOrdered'
    <3>1. OnlyLastPassesOn'
      BY <2>4, <2>5, <2>6, <2>7 DEF OnlyLastPassesOn
    <3>2. \A i, j \in 1..1 : ~(i < j)
      OBVIOUS
    <3>3. CalledOrdered'
      BY <2>5, <3>2 DEF CalledOrdered, IsOrdered
    <3> QED  BY <3>1, <3>3
  <2>12. RefusersAwaited'
    <3>1. \A l \in ToSet(called') : "refuse" \in ToSet(acting[l]) => "refuse" \in ToSet(f.todo)
      BY <2>4, <2>5
    <3> QED  BY <1>1, <2>6, <2>7, <3>1 DEF RefusersAwaited, Awaits
  <2>13. EveryoneAwaited'
    <3> SUFFICES ASSUME NEW p \in ToSet(set)
                 PROVE  \/ p = it \/ ~PassesOn(it)
                        \/ /\ "next" \in ToSet(f.todo) /\ f.it # End
                           /\ p = f.it \/ EarlierIn(added, f.it, p)
      BY <1>1, <2>5, <2>6, <2>7 DEF EveryoneAwaited, PassesOn
    <3>1. p = it \/ EarlierIn(added, it, p)
      BY <1>2 DEF it
    <3> QED  BY <2>3, <2>4, <3>1 DEF PassesOn
  <2> QED  BY <1>4, <2>8, <2>9, <2>10, <2>11, <2>12, <2>13
<1> QED  BY <1>5, <1>6

\* A listener returns.
LEMMA ReturnKeeps ==
  ASSUME EventsInv, ListenerReturns
  PROVE  EventsInv'
<1> USE DEF EventsInv
<1> DEFINE N == Len(running)
<1>1. /\ running # <<>> /\ Current.todo = <<>> /\ running' = Front(running)
      /\ UNCHANGED <<acting, set, added, token, called, present, lines, outcome>>
  BY DEF ListenerReturns
<1>2. /\ running \in Seq(Frames) /\ N \in Nat \ {0} /\ Current = running[N]
      /\ running' \in Seq(Frames) /\ Len(running') = N - 1
      /\ \A k \in 1..(N - 1) : running'[k] = running[k]
  <2>1. running \in Seq(Frames)
    BY DEF EventsTypeOK, Frames
  <2> QED  BY <1>1, <2>1, LastFrontFacts DEF Current
<1>3. N = Len(running) /\ \A k \in 1..N : k = N \/ k \in 1..(N - 1)
  BY <1>2
<1>4. \A k \in 1..(N - 1) : k \in 1..N /\ k < N
  BY <1>2
<1>5. \A a : a \notin ToSet(running[N].todo)
  BY <1>1, <1>2 DEF ToSet
<1> HIDE DEF N
<1>6. EventsTypeOK'
  BY <1>1, <1>2 DEF EventsTypeOK, Frames
<1>7. RegistrationsOnce' /\ SetOrdered' /\ CalledOrdered'
  BY <1>1 DEF RegistrationsOnce, SetOrdered, CalledOrdered, PassesOnTwice
<1>8. Outcomes'
  BY <1>1 DEF Outcomes
<1>9. Trampolines'
  BY <1>1, <1>2, <1>3, <1>4 DEF Trampolines
<1>10. OnlyLastPassesOn'
  <2>1. \A l : PassesOnTwice(l)' = PassesOnTwice(l)
    BY <1>1 DEF PassesOnTwice
  <2> QED  BY <1>1, <1>2, <1>3, <1>4, <2>1 DEF OnlyLastPassesOn
<1>11. RefusersAwaited'
  BY <1>1, <1>2, <1>3, <1>5 DEF RefusersAwaited, Awaits
<1>12. EveryoneAwaited'
  <2>1. ASSUME outcome \in {"pending", "sent"}, NEW p \in present
        PROVE  \/ p \in ToSet(called)
               \/ \E l \in ToSet(called) : ~PassesOn(l)
               \/ \E k \in 1..(N - 1) :
                     /\ "next" \in ToSet(running[k].todo) /\ running[k].it # End
                     /\ p = running[k].it \/ EarlierIn(added, running[k].it, p)
    BY <1>3, <1>5, <2>1 DEF EveryoneAwaited
  <2> QED  BY <1>1, <1>2, <2>1 DEF EveryoneAwaited, PassesOn
<1> QED  BY <1>6, <1>7, <1>8, <1>9, <1>10, <1>11, <1>12

LEMMA EventsStep ==
  ASSUME EventsInv, [EventsNext]_eventsVars
  PROVE  EventsInv'
<1> USE DEF EventsInv
<1>1. ASSUME NEW l \in Listeners, Register(l) PROVE EventsInv'
  <2>1. /\ AddListener(l) /\ running = <<>> /\ outcome # "pending"
        /\ UNCHANGED <<acting, running, token, called, present, lines, outcome>>
    BY <1>1 DEF Register
  <2>2. /\ set' \in Seq(Listeners) /\ added' \in Seq(Listeners)
        /\ RegistrationsOnce' /\ SetOrdered' /\ ToSet(set') = ToSet(set) \cup {l}
        /\ \A a, b : EarlierIn(added, a, b) => EarlierIn(added', a, b)
    BY <2>1, AddedInOrder
  <2>3. EventsTypeOK'
    BY <2>1, <2>2 DEF EventsTypeOK
  <2>4. Outcomes'
    BY <2>1, <2>2 DEF Outcomes
  <2>5. Len(running') = 0
    BY <2>1
  <2>6. Trampolines' /\ OnlyLastPassesOn'
    BY <2>5 DEF Trampolines, OnlyLastPassesOn
  <2>7. CalledOrdered'
    BY <2>1, <2>2 DEF CalledOrdered, IsOrdered, PassesOnTwice
  <2>8. RefusersAwaited' /\ EveryoneAwaited'
    BY <2>1, <2>5 DEF RefusersAwaited, EveryoneAwaited, Awaits, PassesOn
  <2> QED  BY <2>2, <2>3, <2>4, <2>6, <2>7, <2>8
<1>2. ASSUME NEW l \in Listeners, AddWithin(l) PROVE EventsInv'
  <2>1. /\ AddListener(l) /\ running # <<>> /\ Current.todo # <<>> /\ Head(Current.todo) = "add"
        /\ running' = Advanced /\ UNCHANGED <<acting, token, called, present, lines, outcome>>
    BY <1>2 DEF AddWithin, Doing
  <2>2. /\ set' \in Seq(Listeners) /\ added' \in Seq(Listeners)
        /\ RegistrationsOnce' /\ SetOrdered' /\ ToSet(set') = ToSet(set) \cup {l}
        /\ \A a, b : EarlierIn(added, a, b) => EarlierIn(added', a, b)
    BY <2>1, AddedInOrder
  <2>3. token \in BOOLEAN
    BY DEF EventsTypeOK
  <2> QED  BY <2>1, <2>2, <2>3, AdvancedKeeps
<1>3. ASSUME GiveReason \/ AddNothing \/ (CallNext /\ Current.it = End) PROVE EventsInv'
  <2>1. /\ running # <<>> /\ Current.todo # <<>>
        /\ Head(Current.todo) # "next" \/ Current.it = End
        /\ running' = Advanced
        /\ UNCHANGED <<acting, set, added, called, present, lines, outcome>>
        /\ Head(Current.todo) = "refuse" => token'
        /\ Head(Current.todo) # "refuse" => token' = token
        /\ token' \in BOOLEAN
    BY <1>3 DEF GiveReason, AddNothing, CallNext, Invoke, Doing, EventsTypeOK
  <2>2. set' \in Seq(Listeners) /\ added' \in Seq(Listeners) /\ RegistrationsOnce' /\ SetOrdered'
    BY <2>1 DEF EventsTypeOK, RegistrationsOnce, SetOrdered
  <2> QED  BY <2>1, <2>2, AdvancedKeeps
<1>4. ASSUME Throw PROVE EventsInv'
  <2>1. /\ running' = <<>> /\ outcome' = "dropped" /\ Len(running') = 0
        /\ UNCHANGED <<acting, set, added, token, called, present, lines>>
    BY <1>4 DEF Throw
  <2>2. EventsTypeOK' /\ RegistrationsOnce' /\ SetOrdered' /\ Outcomes'
    BY <2>1 DEF EventsTypeOK, RegistrationsOnce, SetOrdered, Outcomes
  <2>3. Trampolines' /\ OnlyLastPassesOn' /\ RefusersAwaited' /\ EveryoneAwaited'
    BY <2>1 DEF Trampolines, OnlyLastPassesOn, RefusersAwaited, EveryoneAwaited
  <2>4. CalledOrdered'
    BY <2>1 DEF CalledOrdered, PassesOnTwice
  <2> QED  BY <2>2, <2>3, <2>4
<1>5. ASSUME Emitted PROVE EventsInv'
  <2>1. /\ outcome = "pending" /\ running = <<>> /\ outcome' = IF token THEN "blocked" ELSE "sent"
        /\ Len(running') = 0 /\ Len(running) = 0
        /\ UNCHANGED <<acting, set, added, running, token, called, present, lines>>
    BY <1>5 DEF Emitted
  <2>2. EventsTypeOK' /\ RegistrationsOnce' /\ SetOrdered' /\ Outcomes'
    BY <2>1 DEF EventsTypeOK, RegistrationsOnce, SetOrdered, Outcomes
  <2>3. Trampolines' /\ OnlyLastPassesOn'
    BY <2>1 DEF Trampolines, OnlyLastPassesOn
  <2>4. CalledOrdered'
    BY <2>1 DEF CalledOrdered, PassesOnTwice
  <2>5. RefusersAwaited' /\ EveryoneAwaited'
    BY <2>1 DEF RefusersAwaited, EveryoneAwaited, Awaits, PassesOn
  <2> QED  BY <2>2, <2>3, <2>4, <2>5
<1>6. CASE UNCHANGED eventsVars
  <2>1. UNCHANGED <<acting, set, added, running, token, called, present, lines, outcome>>
    BY <1>6 DEF eventsVars
  <2>2. EventsTypeOK' /\ RegistrationsOnce' /\ SetOrdered' /\ Outcomes'
    BY <2>1 DEF EventsTypeOK, RegistrationsOnce, SetOrdered, Outcomes
  <2>3. Trampolines' /\ OnlyLastPassesOn' /\ CalledOrdered'
    BY <2>1 DEF Trampolines, OnlyLastPassesOn, CalledOrdered, PassesOnTwice
  <2>4. RefusersAwaited' /\ EveryoneAwaited'
    BY <2>1 DEF RefusersAwaited, EveryoneAwaited, Awaits, PassesOn
  <2> QED  BY <2>2, <2>3, <2>4
<1> QED
  BY <1>1, <1>2, <1>3, <1>4, <1>5, <1>6, LineBegins, NextCalled, ReturnKeeps DEF EventsNext

LEMMA EventsInvariant == EventsSpec => []EventsInv
<1>1. EventsInit => EventsInv
  BY EventsInit_Inv
<1>2. EventsInv /\ [EventsNext]_eventsVars => EventsInv'
  BY EventsStep
<1> QED  BY <1>1, <1>2, PTL DEF EventsSpec

\* The registry of a server's events, the calls in progress and the fate of a line have their
\* types: every call is of a listener and has a trampoline.
THEOREM EventsTypeCorrect == EventsSpec => []EventsTypeOK
<1>1. EventsInv => EventsTypeOK
  BY DEF EventsInv
<1> QED  BY <1>1, EventsInvariant, PTL

\* A line comes to the listeners in the order in which the multiset keeps them, to none twice,
\* though listeners are added while it does; what is sent has come to everybody and nobody
\* refused it.
THEOREM ListenersAreCalledInOrder == EventsSpec => []CalledInOrder
<1>1. EventsInv => CalledInOrder
  <2> SUFFICES ASSUME EventsInv PROVE CalledInOrder
    OBVIOUS
  <2>1. (\A l \in ToSet(called) : ~PassesOnTwice(l))
           => \A i, j \in 1..Len(called) : i < j => Earlier(called[i], called[j])
    BY DEF EventsInv, CalledOrdered, IsOrdered, EarlierIn, Earlier
  <2>2. ASSUME outcome = "sent"
        PROVE  /\ (\A l \in ToSet(called) : PassesOn(l)) => present \subseteq ToSet(called)
               /\ \A l \in ToSet(called) : "refuse" \notin ToSet(acting[l])
    <3>1. Len(running) = 0 /\ ~token
      BY <2>2 DEF EventsInv, Outcomes
    <3> QED  BY <2>2, <3>1 DEF EventsInv, RefusersAwaited, EveryoneAwaited, Awaits
  <2> QED  BY <2>1, <2>2 DEF CalledInOrder
<1> QED  BY <1>1, EventsInvariant, PTL
===============================================================================
