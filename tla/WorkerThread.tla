---------------------------- MODULE WorkerThread ----------------------------
(***************************************************************************)
(* The worker thread of Base/scheduler.cpp: RunInWorkerThread queues a     *)
(* task under a mutex and signals a condition variable; the worker takes   *)
(* the mutex, waits for tasks or for the exit flag, and runs all queued    *)
(* tasks while it holds the mutex; OnExit, on the server thread, sets the  *)
(* flag without the mutex, signals, and joins.                             *)
(*                                                                         *)
(* Each submitter calls RunInWorkerThread once, with a task of its own     *)
(* that is named after it.                                                 *)
(***************************************************************************)
EXTENDS Naturals, Sequences

CONSTANTS
    Submitters,    \* the calls of RunInWorkerThread
    Resubmitting   \* those whose task calls RunInWorkerThread itself

ASSUME ResubmittingAssumption == Resubmitting \subseteq Submitters

VARIABLES
    mtx,        \* who owns the mutex, between two steps
    exited,     \* the atomic flag
    tasks,      \* the queue
    position,   \* where the worker's loop over the queue stands
    worker,     \* control state of the worker
    main,       \* control state of the server thread
    submitter,  \* control state of each submitter
    submitted,  \* every task queued so far, in order (for the properties)
    ran         \* every task run so far, in order (for the properties)

workerVars == <<mtx, exited, tasks, position, worker, main, submitter, submitted, ran>>

Free == "free"

WorkerState == {"lock", "test", "block", "waiting", "check", "run", "done", "undefined"}

MainState == {"serving", "notify", "join", "exited"}

SubmitterState == {"start", "notify", "done"}

----------------------------------------------------------------------------

WorkerInit ==
    /\ mtx = Free
    /\ exited = FALSE
    /\ tasks = <<>> /\ position = 1
    /\ worker = "lock"
    /\ main = "serving"
    /\ submitter = [s \in Submitters |-> "start"]
    /\ submitted = <<>> /\ ran = <<>>

\* cv.notify_one(): the worker is the only thread that ever waits.  A signal
\* nobody waits for is lost.
Notified == IF worker = "waiting" THEN "lock" ELSE worker

\* Mutant of Enqueue: without the mutex.
Enqueue_Unlocked(s) ==
    /\ submitter[s] = "start"
    /\ tasks' = Append(tasks, s)
    /\ submitted' = Append(submitted, s)
    /\ submitter' = [submitter EXCEPT ![s] = "notify"]
    /\ UNCHANGED <<mtx, exited, position, worker, main, ran>>

(***************************************************************************)
(* RunInWorkerThread.  Nothing but the mutex can come between taking and   *)
(* releasing it, so the critical section is one step.                      *)
(***************************************************************************)
Enqueue(s) ==
    /\ submitter[s] = "start" /\ mtx = Free
    /\ tasks' = Append(tasks, s)
    /\ submitted' = Append(submitted, s)
    /\ submitter' = [submitter EXCEPT ![s] = "notify"]
    /\ UNCHANGED <<mtx, exited, position, worker, main, ran>>

NotifyTask(s) ==
    /\ submitter[s] = "notify"
    /\ submitter' = [submitter EXCEPT ![s] = "done"]
    /\ worker' = Notified
    /\ UNCHANGED <<mtx, exited, tasks, position, main, submitted, ran>>

(***************************************************************************)
(* The worker.  "lock": about to take the mutex, at the top of the loop or *)
(* on its way out of the wait.                                             *)
(***************************************************************************)
Lock ==
    /\ worker = "lock" /\ mtx = Free
    /\ mtx' = "worker"
    /\ worker' = "test"
    /\ UNCHANGED <<exited, tasks, position, main, submitter, submitted, ran>>

\* The predicate of cv.wait.
TestTasks ==
    /\ worker = "test"
    /\ worker' = IF exited \/ tasks # <<>> THEN "check" ELSE "block"
    /\ UNCHANGED <<mtx, exited, tasks, position, main, submitter, submitted, ran>>

\* cv.wait releases the mutex and starts waiting for a signal, in one step.
Block ==
    /\ worker = "block"
    /\ mtx' = Free
    /\ worker' = "waiting"
    /\ UNCHANGED <<exited, tasks, position, main, submitter, submitted, ran>>

\* A condition variable may wake up without a signal.
WorkerWakeup ==
    /\ worker = "waiting"
    /\ worker' = "lock"
    /\ UNCHANGED <<mtx, exited, tasks, position, main, submitter, submitted, ran>>

\* The flag is read again after the wait; tasks still queued are dropped.
Check ==
    /\ worker = "check"
    /\ IF exited
       THEN worker' = "done" /\ mtx' = Free /\ UNCHANGED position
       ELSE worker' = "run" /\ position' = 1 /\ UNCHANGED mtx
    /\ UNCHANGED <<exited, tasks, main, submitter, submitted, ran>>

(***************************************************************************)
(* A task runs with the mutex held.  If it queues another one it locks a   *)
(* mutex its thread already owns, which has no defined meaning: the state  *)
(* "undefined", which is final.                                            *)
(***************************************************************************)
RunTask ==
    /\ worker = "run" /\ position <= Len(tasks)
    /\ ran' = Append(ran, tasks[position])
    /\ position' = position + 1
    /\ worker' = IF tasks[position] \in Resubmitting THEN "undefined" ELSE "run"
    /\ UNCHANGED <<mtx, exited, tasks, main, submitter, submitted>>

\* Mutant of EndTasks: the queue is not cleared.
EndTasks_Keep ==
    /\ worker = "run" /\ position > Len(tasks)
    /\ position' = 1
    /\ mtx' = Free
    /\ worker' = "lock"
    /\ UNCHANGED <<exited, tasks, main, submitter, submitted, ran>>

\* tasks.clear() and the end of the scope of the lock.
EndTasks ==
    /\ worker = "run" /\ position > Len(tasks)
    /\ tasks' = <<>> /\ position' = 1
    /\ mtx' = Free
    /\ worker' = "lock"
    /\ UNCHANGED <<exited, main, submitter, submitted, ran>>

Worker == Lock \/ TestTasks \/ Block \/ Check \/ RunTask \/ EndTasks

(***************************************************************************)
(* OnExit, called by the hook that leaves the game.                        *)
(***************************************************************************)
SetExited ==
    /\ main = "serving"
    /\ exited' = TRUE
    /\ main' = "notify"
    /\ UNCHANGED <<mtx, tasks, position, worker, submitter, submitted, ran>>

\* Mutant of NotifyExit: no signal.
NotifyExit_Silent ==
    /\ main = "notify"
    /\ main' = "join"
    /\ UNCHANGED <<mtx, exited, tasks, position, worker, submitter, submitted, ran>>

NotifyExit ==
    /\ main = "notify"
    /\ main' = "join"
    /\ worker' = Notified
    /\ UNCHANGED <<mtx, exited, tasks, position, submitter, submitted, ran>>

Join ==
    /\ main = "join" /\ worker = "done"
    /\ main' = "exited"
    /\ UNCHANGED <<mtx, exited, tasks, position, worker, submitter, submitted, ran>>

WorkerNext ==
    \/ \E s \in Submitters : Enqueue(s) \/ NotifyTask(s)
    \/ Worker
    \/ WorkerWakeup
    \/ SetExited \/ NotifyExit \/ Join

WorkerSpec == WorkerInit /\ [][WorkerNext]_workerVars

(***************************************************************************)
(* Every thread makes progress.  Nothing obliges the server to exit, a     *)
(* submitter to submit, or a wait to end without a signal.                 *)
(***************************************************************************)
WorkerFairness ==
    /\ WF_workerVars(Worker)
    /\ WF_workerVars(NotifyExit) /\ WF_workerVars(Join)
    /\ \A s \in Submitters : WF_workerVars(NotifyTask(s))

WorkerFairSpec == WorkerSpec /\ WorkerFairness

----------------------------------------------------------------------------

WorkerTypeOK ==
    /\ mtx \in {Free, "worker"}
    /\ exited \in BOOLEAN
    /\ tasks \in Seq(Submitters)
    /\ position \in 1..(Len(tasks) + 1)
    /\ worker \in WorkerState
    /\ main \in MainState
    /\ submitter \in [Submitters -> SubmitterState]
    /\ submitted \in Seq(Submitters)
    /\ ran \in Seq(Submitters)

\* The queued tasks that have not run.
Remaining == SubSeq(tasks, position, Len(tasks))

(***************************************************************************)
(* Tasks are run in the order they were queued, each of them once, and     *)
(* none is lost or duplicated by a batch, whatever is queued around it.    *)
(***************************************************************************)
TasksInOrder == submitted = ran \o Remaining

(***************************************************************************)
(* No task's signal is lost: the worker never waits while tasks are        *)
(* queued, unless the signal for them is still to come.                    *)
(***************************************************************************)
NoTaskStranded ==
    worker = "waiting" /\ tasks # <<>> => \E s \in Submitters : submitter[s] = "notify"

(***************************************************************************)
(* Once OnExit has returned no task runs any more, so that nothing uses    *)
(* what the server tears down next.                                        *)
(***************************************************************************)
NothingRunsAfterExit == [][main = "exited" => ran' = ran /\ worker' = worker]_workerVars

(***************************************************************************)
(* Every task is run, unless the server exits first or a task brings the   *)
(* worker down.                                                            *)
(***************************************************************************)
TaskRuns ==
    \A s \in Submitters :
        (submitter[s] # "start")
            ~> ((\E i \in 1..Len(ran) : ran[i] = s) \/ exited \/ worker = "undefined")

\* OnExit's signal came after the worker's test and before its wait.
ExitSignalLost == worker = "block" /\ main = "join"

(***************************************************************************)
(* OnExit returns, unless its signal comes between the worker's test of    *)
(* the flag and its wait: the flag is set without the mutex, and then the  *)
(* worker waits for a signal that was already sent, the server for the     *)
(* worker.  That window is the only one.                                   *)
(***************************************************************************)
ExitReturns ==
    \/ <>[](main = "serving")
    \/ <>(main = "exited")
    \/ <>ExitSignalLost
    \/ <>(worker = "undefined")
=============================================================================
