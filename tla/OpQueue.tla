------------------------------- MODULE OpQueue -------------------------------
(* The background operation queue, internal/fileops/queue.go: the task table *)
(* of OpQueueManager, its scheduler goroutine (workerLoop), one goroutine    *)
(* per started task (executeTask), the teardown goroutine Cancel starts for  *)
(* a task that never ran, and the UI goroutine that enqueues, cancels,       *)
(* clears, runs completions and quits (panel/apply_shutdown.go).             *)
(*                                                                           *)
(* One step is one critical section or one call that may block.  Abstracted: *)
(* what a task does, progress texts, and the redraws of the queue window     *)
(* (module QueueView).  A task is enqueued at most once; the list `tasks` is *)
(* a set, since ids grow with every Enqueue and the list is in id order.     *)
EXTENDS Naturals, Sequences, FiniteSets, Functions

CONSTANTS
  Tasks,        \* the tasks the user may enqueue
  NoTask,       \* no task
  Keys,         \* resource keys: disks, volumes, mounts
  ResKeys,      \* ResKeys[t]: what t occupies while it runs
  Paths,        \* Paths[t]: the paths t reads or writes, each a sequence of names
  Preconds,     \* Preconds[t]: the selected entries, as they were at Enqueue
  MaxFiles,     \* queueSmallMaxFiles
  MaxBytes      \* queueSmallMaxBytes

ASSUME NoTaskAssumption == NoTask \notin Tasks
ASSUME KeysAssumption == ResKeys \in [Tasks -> SUBSET Keys]

VARIABLES
  tasks,        \* OpQueueManager.tasks
  nextID,       \* OpQueueManager.nextID
  id,           \* QueueTask.ID, 0 before Enqueue
  state,        \* QueueTask.State, "New" before Enqueue
  finalizing,   \* QueueTask.queuedFinalizing
  bypass,       \* QueueTask.bypass
  ctxDone,      \* the task's context is cancelled
  activeKeys,   \* OpQueueManager.activeKeys
  wake,         \* the wake channel (capacity 1) holds a token
  worker,       \* where workerLoop stands: "select" or "scan"
  exec,         \* where executeTask of a task stands, "idle" before it is started
  teardown,     \* where the goroutine started by Cancel stands
  err,          \* taskErr of executeTask: "none", "cancelled" or "failed"
  finalized,    \* Finalize of the task has returned
  posted,       \* completions waiting in the UI task queue
  completed,    \* OnComplete of the task has run
  ui,           \* the UI goroutine: "loop", "cancel", "sweep", "wait", "drained", "expired"
  quitting,     \* CancelOperationsForShutdown has begun
  target,       \* inside Cancel, between its lock and cancel(): the task, else NoTask
  complete,     \* ... and whether Cancel found it queued
  sweep         \* the tasks CancelAll still has to cancel

manager == <<tasks, nextID, id, activeKeys, wake, worker, bypass>>
task    == <<state, finalizing, ctxDone, exec, teardown, err, finalized>>
uiVars  == <<posted, completed, ui, quitting, target, complete, sweep>>
vars    == <<manager, task, uiVars>>

(***************************************************************************)
(* Predicates on task states and the admission rule                        *)
(***************************************************************************)
TerminalStates    == {"Done", "Error", "Cancelled"}
CancellableStates == {"Queued", "Starting", "Scanning", "Running"}
ActiveStates      == CancellableStates \cup {"Cancelling"}

QueueTaskTerminal(t) == state[t] \in TerminalStates

QueueTaskActive(t) == state[t] \in ActiveStates

ActiveTasks == {t \in tasks : QueueTaskActive(t)}

\* A path is a sequence of names with case and separators already folded.
QueuePathWithin(p, dir) ==
  Len(dir) <= Len(p) /\ SubSeq(p, 1, Len(dir)) = dir

QueuePathsMeet(a, b) ==
  \/ a = {} \/ b = {}
  \/ \E p \in a, q \in b : QueuePathWithin(p, q) \/ QueuePathWithin(q, p)

PathsMeet(t, u) == QueuePathsMeet(Paths[t], Paths[u])

\* Preconds[t] maps each selected entry to [isDir |-> ..., size |-> ...].
TotalSize(pre) ==
  FoldFunction(LAMBDA entry, sum : entry.size + sum, 0, pre)

SmallQueueTask(t) ==
  /\ Paths[t] # {}
  /\ DOMAIN Preconds[t] # {}
  /\ Cardinality(DOMAIN Preconds[t]) <= MaxFiles
  /\ \A f \in DOMAIN Preconds[t] : ~ Preconds[t][f].isDir
  /\ TotalSize(Preconds[t]) <= MaxBytes

KeysFree(t) == \A k \in ResKeys[t] : ~ activeKeys[k]

MeetsRunning(t, onlyBypass) ==
  \E r \in tasks \ {t} :
    /\ onlyBypass => bypass[r]
    /\ QueueTaskActive(r) /\ state[r] # "Queued"
    /\ PathsMeet(t, r)

\* (mutant) A task that takes its keys does not wait for small ones.
TakesKeysOnly(t) == KeysFree(t)

\* The two ways nextRunnable lets a queued task start; `on` is the setting
\* QueueSmallOpsBypass, which the user may change at any time.
TakesKeys(t) == KeysFree(t) /\ ~ MeetsRunning(t, TRUE)
Bypasses(t, on) ==
  ~ KeysFree(t) /\ on /\ SmallQueueTask(t) /\ ~ MeetsRunning(t, FALSE)

Runnable(on) ==
  {t \in tasks : state[t] = "Queued" /\ (TakesKeys(t) \/ Bypasses(t, on))}

\* The members of a set of enqueued tasks that come first in the list.
First(S) == {t \in S : \A u \in S : id[t] <= id[u]}
-----------------------------------------------------------------------------
Init ==
  /\ tasks = {} /\ nextID = 0
  /\ id = [t \in Tasks |-> 0]
  /\ state = [t \in Tasks |-> "New"]
  /\ finalizing = [t \in Tasks |-> FALSE]
  /\ bypass = [t \in Tasks |-> FALSE]
  /\ ctxDone = [t \in Tasks |-> FALSE]
  /\ activeKeys = [k \in Keys |-> FALSE]
  /\ wake = FALSE /\ worker = "select"
  /\ exec = [t \in Tasks |-> "idle"]
  /\ teardown = [t \in Tasks |-> "idle"]
  /\ err = [t \in Tasks |-> "none"]
  /\ finalized = [t \in Tasks |-> FALSE]
  /\ posted = {}
  /\ completed = [t \in Tasks |-> FALSE]
  /\ ui = "loop" /\ quitting = FALSE /\ target = NoTask
  /\ complete = FALSE /\ sweep = {}
-----------------------------------------------------------------------------
(***************************************************************************)
(* The UI goroutine                                                        *)
(***************************************************************************)
\* Enqueue and its signalWorker.
Enqueue(t) ==
  /\ ui = "loop" /\ state[t] = "New"
  /\ nextID' = nextID + 1
  /\ id' = [id EXCEPT ![t] = nextID']
  /\ state' = [state EXCEPT ![t] = "Queued"]
  /\ tasks' = tasks \cup {t}
  /\ wake' = TRUE
  /\ UNCHANGED <<activeKeys, worker, bypass, finalizing, ctxDone, exec,
                 teardown, err, finalized, uiVars>>

\* (mutant) Cancel leaves a queued task in state Queued while it tears it down.
CancelMarkStillQueued(t) ==
  \/ /\ t \in tasks /\ state[t] = "Queued" /\ ~ finalizing[t]
     /\ finalizing' = [finalizing EXCEPT ![t] = TRUE]
     /\ target' = t /\ complete' = TRUE
     /\ UNCHANGED state
  \/ /\ t \in tasks /\ state[t] \in {"Starting", "Scanning", "Running"}
     /\ state' = [state EXCEPT ![t] = "Cancelling"]
     /\ target' = t /\ complete' = FALSE
     /\ UNCHANGED finalizing

\* The part of Cancel(id) under the locks.  A task already torn down by an
\* earlier Cancel, terminal or cleared is not found.
CancelMark(t) ==
  \/ /\ t \in tasks /\ state[t] = "Queued"
     /\ state' = [state EXCEPT ![t] = "Cancelling"]
     /\ finalizing' = [finalizing EXCEPT ![t] = TRUE]
     /\ target' = t /\ complete' = TRUE
  \/ /\ t \in tasks /\ state[t] \in {"Starting", "Scanning", "Running"}
     /\ state' = [state EXCEPT ![t] = "Cancelling"]
     /\ target' = t /\ complete' = FALSE
     /\ UNCHANGED finalizing
  \/ /\ t \in tasks /\ state[t] = "Cancelling" /\ ~ finalizing[t]
     /\ target' = t /\ complete' = FALSE
     /\ UNCHANGED <<state, finalizing>>

CancelNotFound(t) ==
  \/ t \notin tasks
  \/ QueueTaskTerminal(t)
  \/ state[t] = "Cancelling" /\ finalizing[t]

\* The user cancels one task, from the queue window, the command palette or
\* the output window of an apply command.
Cancel(t) ==
  /\ ui = "loop" /\ CancelMark(t)
  /\ ui' = "cancel"
  /\ UNCHANGED <<manager, ctxDone, exec, teardown, err, finalized, posted,
                 completed, quitting, sweep>>

\* (mutant) Only a task that was still queued has its context cancelled.
CancelContextOfQueued ==
  /\ ui = "cancel"
  /\ ctxDone' = [ctxDone EXCEPT ![target] = complete]
  /\ teardown' = IF complete THEN [teardown EXCEPT ![target] = "finalize"]
                              ELSE teardown
  /\ target' = NoTask /\ complete' = FALSE
  /\ ui' = IF quitting THEN "sweep" ELSE "loop"
  /\ UNCHANGED <<manager, state, finalizing, exec, err, finalized, posted,
                 completed, quitting, sweep>>

\* The rest of Cancel: cancel() of the context, and for a task that was still
\* queued the goroutine that tears it down.
CancelContext ==
  /\ ui = "cancel"
  /\ ctxDone' = [ctxDone EXCEPT ![target] = TRUE]
  /\ teardown' = IF complete THEN [teardown EXCEPT ![target] = "finalize"]
                             ELSE teardown
  /\ target' = NoTask /\ complete' = FALSE
  /\ ui' = IF quitting THEN "sweep" ELSE "loop"
  /\ UNCHANGED <<manager, state, finalizing, exec, err, finalized, posted,
                 completed, quitting, sweep>>

\* ClearFinished, and the Clear button of the queue window.
ClearFinished ==
  /\ ui = "loop"
  /\ tasks' = {t \in tasks : ~ QueueTaskTerminal(t)}
  /\ UNCHANGED <<nextID, id, activeKeys, wake, worker, bypass, task, uiVars>>

\* The UI task posted by postTaskCompletion calls OnComplete.
RunCompletion(t) ==
  /\ ui = "loop" /\ t \in posted
  /\ posted' = posted \ {t}
  /\ completed' = [completed EXCEPT ![t] = TRUE]
  /\ UNCHANGED <<manager, task, ui, quitting, target, complete, sweep>>

\* (mutant) CancelAll takes the ids of the tasks still waiting only.
CancelAllQueued ==
  /\ ui = "loop"
  /\ ui' = "sweep" /\ quitting' = TRUE
  /\ sweep' = {t \in tasks : state[t] = "Queued"}
  /\ UNCHANGED <<manager, task, posted, completed, target, complete>>

\* Quitting: CancelAll takes the ids of the active tasks under the lock ...
CancelAll ==
  /\ ui = "loop"
  /\ ui' = "sweep" /\ quitting' = TRUE
  /\ sweep' = ActiveTasks
  /\ UNCHANGED <<manager, task, posted, completed, target, complete>>

\* ... and cancels them one by one, by then in whatever state they are.
SweepCancel(t) ==
  /\ ui = "sweep" /\ t \in First(sweep)
  /\ sweep' = sweep \ {t}
  /\ \/ CancelMark(t) /\ ui' = "cancel"
     \/ CancelNotFound(t) /\ UNCHANGED <<state, finalizing, target, complete, ui>>
  /\ UNCHANGED <<manager, ctxDone, exec, teardown, err, finalized, posted,
                 completed, quitting>>

SweepEnd ==
  /\ ui = "sweep" /\ sweep = {}
  /\ ui' = "wait"
  /\ UNCHANGED <<manager, task, posted, completed, quitting, target, complete, sweep>>

\* The wait of CancelOperationsForShutdown blocks the UI goroutine until
\* ActiveTasksCount is zero or five seconds have passed; then the process
\* releases its mounts and leaves.
WaitDrained ==
  /\ ui = "wait" /\ ActiveTasks = {}
  /\ ui' = "drained"
  /\ UNCHANGED <<manager, task, posted, completed, quitting, target, complete, sweep>>

WaitExpired ==
  /\ ui = "wait"
  /\ ui' = "expired"
  /\ UNCHANGED <<manager, task, posted, completed, quitting, target, complete, sweep>>
-----------------------------------------------------------------------------
(***************************************************************************)
(* workerLoop                                                              *)
(***************************************************************************)
WorkerWoken ==
  /\ worker = "select" /\ wake
  /\ wake' = FALSE /\ worker' = "scan"
  /\ UNCHANGED <<tasks, nextID, id, activeKeys, bypass, task, uiVars>>

\* (mutant) The timer fires but the scheduler only looks at the queue when woken.
WorkerNoTimeout ==
  /\ worker = "select"
  /\ UNCHANGED vars

\* The 200ms fallback.
WorkerTimeout ==
  /\ worker = "select"
  /\ worker' = "scan"
  /\ UNCHANGED <<tasks, nextID, id, activeKeys, wake, bypass, task, uiVars>>

\* nextRunnable claims at most one task, and executeTask is started for it.
StartTask(t, on) ==
  /\ worker = "scan" /\ t \in First(Runnable(on))
  /\ LET passes == ~ TakesKeys(t) IN
       /\ bypass' = [bypass EXCEPT ![t] = passes]
       /\ activeKeys' = IF passes THEN activeKeys
                        ELSE [k \in Keys |-> activeKeys[k] \/ k \in ResKeys[t]]
  /\ state' = [state EXCEPT ![t] = "Starting"]
  /\ exec' = [exec EXCEPT ![t] = "claimed"]
  /\ worker' = "select"
  /\ UNCHANGED <<tasks, nextID, id, wake, finalizing, ctxDone, teardown, err,
                 finalized, uiVars>>

NothingToStart(on) ==
  /\ worker = "scan" /\ Runnable(on) = {}
  /\ worker' = "select"
  /\ UNCHANGED <<tasks, nextID, id, activeKeys, wake, bypass, task, uiVars>>
-----------------------------------------------------------------------------
(***************************************************************************)
(* executeTask                                                             *)
(***************************************************************************)
ExecTo(t, step, e) ==
  /\ exec' = [exec EXCEPT ![t] = step]
  /\ err' = [err EXCEPT ![t] = e]
  /\ UNCHANGED <<manager, state, finalizing, ctxDone, teardown, finalized, uiVars>>

\* The first look at the context, before the preconditions.
CheckContext(t) ==
  /\ exec[t] = "claimed"
  /\ IF ctxDone[t] THEN ExecTo(t, "finalize", "cancelled")
                   ELSE ExecTo(t, "precond", "none")

\* The preconditions are compared with the file system (external: a selected
\* entry may be gone or changed) and the context is looked at once more.
CheckPreconditions(t) ==
  /\ exec[t] = "precond"
  /\ \/ DOMAIN Preconds[t] # {} /\ ExecTo(t, "finalize", "failed")
     \/ IF ctxDone[t] THEN ExecTo(t, "finalize", "cancelled")
                      ELSE ExecTo(t, "run", "none")

\* (mutant) A progress report only checks for a terminal state.
ProgressWhileCancelling(t) ==
  /\ exec[t] = "run"
  /\ state[t] \notin TerminalStates
  /\ \E s \in {"Scanning", "Running"} : state' = [state EXCEPT ![t] = s]
  /\ UNCHANGED <<manager, finalizing, ctxDone, exec, teardown, err, finalized,
                 uiVars>>

\* UpdateScan and UpdateTransfer, called by Run.
Progress(t) ==
  /\ exec[t] = "run"
  /\ state[t] \notin TerminalStates \cup {"Cancelling"}
  /\ \E s \in {"Scanning", "Running"} : state' = [state EXCEPT ![t] = s]
  /\ UNCHANGED <<manager, finalizing, ctxDone, exec, teardown, err, finalized,
                 uiVars>>

\* Run returns: done, failed, or context.Canceled, which a user's answer to a
\* dialog of the operation also produces.
RunReturns(t) ==
  /\ exec[t] = "run"
  /\ \E e \in {"none", "failed", "cancelled"} : ExecTo(t, "finalize", e)

\* (mutant) Finalize is left to postTaskCompletion.
ExecFinalizeLater(t) ==
  /\ exec[t] = "finalize"
  /\ exec' = [exec EXCEPT ![t] = "publish"]
  /\ UNCHANGED <<manager, state, finalizing, ctxDone, teardown, err, finalized,
                 uiVars>>

ExecFinalize(t) ==
  /\ exec[t] = "finalize"
  /\ finalized' = [finalized EXCEPT ![t] = TRUE]
  /\ exec' = [exec EXCEPT ![t] = "publish"]
  /\ UNCHANGED <<manager, state, finalizing, ctxDone, teardown, err, uiVars>>

\* The terminal state is published under the task's lock ...
Publish(t) ==
  /\ exec[t] = "publish"
  /\ state' = [state EXCEPT ![t] =
                 IF err[t] = "cancelled" \/ ctxDone[t] THEN "Cancelled"
                 ELSE IF err[t] = "failed" THEN "Error" ELSE "Done"]
  /\ exec' = [exec EXCEPT ![t] = "release"]
  /\ UNCHANGED <<manager, finalizing, ctxDone, teardown, err, finalized, uiVars>>

\* (mutant) A bypassing task releases keys it never took.
ReleaseAnyway(t) ==
  /\ exec[t] = "release"
  /\ activeKeys' = [k \in Keys |-> activeKeys[k] /\ k \notin ResKeys[t]]
  /\ exec' = [exec EXCEPT ![t] = "post"]
  /\ UNCHANGED <<tasks, nextID, id, wake, worker, bypass, state, finalizing,
                 ctxDone, teardown, err, finalized, uiVars>>

\* (mutant) The completion is posted before the keys are given back.
ReleaseAfterPost(t) ==
  /\ exec[t] = "release"
  /\ \/ /\ posted' = posted \cup {t}
        /\ UNCHANGED <<activeKeys, exec>>
     \/ /\ activeKeys' = [k \in Keys |-> activeKeys[k] /\ (k \notin ResKeys[t] \/ bypass[t])]
        /\ exec' = [exec EXCEPT ![t] = "post"]
        /\ UNCHANGED posted
  /\ UNCHANGED <<tasks, nextID, id, wake, worker, bypass, state, finalizing,
                 ctxDone, teardown, err, finalized, completed, ui, quitting,
                 target, complete, sweep>>

\* ... the keys are given back later, under the manager's lock ...
Release(t) ==
  /\ exec[t] = "release"
  /\ activeKeys' = IF bypass[t] THEN activeKeys
                   ELSE [k \in Keys |-> activeKeys[k] /\ k \notin ResKeys[t]]
  /\ exec' = [exec EXCEPT ![t] = "post"]
  /\ UNCHANGED <<tasks, nextID, id, wake, worker, bypass, state, finalizing,
                 ctxDone, teardown, err, finalized, uiVars>>

\* (mutant) A completion is dropped while another one is waiting.
ExecPostIfNone(t) ==
  /\ exec[t] = "post"
  /\ wake' = TRUE
  /\ posted' = IF posted = {} THEN {t} ELSE posted
  /\ exec' = [exec EXCEPT ![t] = "ended"]
  /\ UNCHANGED <<tasks, nextID, id, activeKeys, worker, bypass, state,
                 finalizing, ctxDone, teardown, err, finalized, completed, ui,
                 quitting, target, complete, sweep>>

\* ... and then the scheduler is woken and the completion posted.
ExecPost(t) ==
  /\ exec[t] = "post"
  /\ wake' = TRUE
  /\ posted' = posted \cup {t}
  /\ exec' = [exec EXCEPT ![t] = "ended"]
  /\ UNCHANGED <<tasks, nextID, id, activeKeys, worker, bypass, state,
                 finalizing, ctxDone, teardown, err, finalized, completed, ui,
                 quitting, target, complete, sweep>>
-----------------------------------------------------------------------------
(***************************************************************************)
(* The goroutine Cancel starts for a task that was still queued            *)
(***************************************************************************)
TeardownFinalize(t) ==
  /\ teardown[t] = "finalize"
  /\ finalized' = [finalized EXCEPT ![t] = TRUE]
  /\ teardown' = [teardown EXCEPT ![t] = "publish"]
  /\ UNCHANGED <<manager, state, finalizing, ctxDone, exec, err, uiVars>>

TeardownPublish(t) ==
  /\ teardown[t] = "publish"
  /\ finalizing' = [finalizing EXCEPT ![t] = FALSE]
  /\ state' = [state EXCEPT ![t] = "Cancelled"]
  /\ teardown' = [teardown EXCEPT ![t] = "post"]
  /\ UNCHANGED <<manager, ctxDone, exec, err, finalized, uiVars>>

TeardownPost(t) ==
  /\ teardown[t] = "post"
  /\ posted' = posted \cup {t}
  /\ teardown' = [teardown EXCEPT ![t] = "ended"]
  /\ UNCHANGED <<manager, state, finalizing, ctxDone, exec, err, finalized,
                 completed, ui, quitting, target, complete, sweep>>
-----------------------------------------------------------------------------
UIThread ==
  \/ \E t \in Tasks : Enqueue(t) \/ Cancel(t) \/ RunCompletion(t) \/ SweepCancel(t)
  \/ CancelContext \/ ClearFinished \/ CancelAll \/ SweepEnd
  \/ WaitDrained \/ WaitExpired

WorkerLoop ==
  \/ WorkerWoken \/ WorkerTimeout
  \/ \E on \in BOOLEAN : NothingToStart(on) \/ \E t \in Tasks : StartTask(t, on)

ExecuteTask(t) ==
  \/ CheckContext(t) \/ CheckPreconditions(t) \/ Progress(t) \/ RunReturns(t)
  \/ ExecFinalize(t) \/ Publish(t) \/ Release(t) \/ ExecPost(t)

Teardown(t) == TeardownFinalize(t) \/ TeardownPublish(t) \/ TeardownPost(t)

Next ==
  \/ UIThread
  \/ WorkerLoop
  \/ \E t \in Tasks : ExecuteTask(t) \/ Teardown(t)

Spec == Init /\ [][Next]_vars

(***************************************************************************)
(* Fairness.  Goroutines are scheduled; the UI goroutine finishes what it   *)
(* began, runs posted tasks, and waits at quit no longer than the deadline  *)
(* of that wait; posted tasks get their turn however busy the keyboard is   *)
(* (strong fairness: the loop selects among the two at random).  Nothing    *)
(* obliges the user to do anything, and nothing says that a Run ever        *)
(* returns, cancelled or not: it may sit in a system call or wait for the   *)
(* answer to a box that does not know its context.                          *)
(***************************************************************************)
UIFairness ==
  /\ WF_vars(CancelContext) /\ WF_vars(SweepEnd)
  /\ WF_vars(WaitDrained \/ WaitExpired)
  /\ \A t \in Tasks : SF_vars(RunCompletion(t)) /\ WF_vars(SweepCancel(t))

WorkerFairness ==
  /\ WF_vars(WorkerWoken \/ WorkerTimeout)
  /\ WF_vars(\E on \in BOOLEAN : NothingToStart(on) \/ \E t \in Tasks : StartTask(t, on))

\* Every step of executeTask and of a teardown is taken, but for the progress
\* and the return of Run.
Advance(t) ==
  \/ CheckContext(t) \/ CheckPreconditions(t) \/ ExecFinalize(t)
  \/ Publish(t) \/ Release(t) \/ ExecPost(t)

TaskFairness(t) == WF_vars(Advance(t)) /\ WF_vars(Teardown(t))

Fairness == UIFairness /\ WorkerFairness /\ \A t \in Tasks : TaskFairness(t)

FairSpec == Spec /\ Fairness
-----------------------------------------------------------------------------
(***************************************************************************)
(* Properties                                                              *)
(***************************************************************************)
ExecSteps == {"idle", "claimed", "precond", "run", "finalize", "publish",
              "release", "post", "ended"}
Executing == {"claimed", "precond", "run", "finalize", "publish"}
Holding   == Executing \cup {"release"}

\* Every variable has the type its comment gives.
TypeOK ==
  /\ tasks \subseteq Tasks /\ nextID \in Nat /\ id \in [Tasks -> Nat]
  /\ state \in [Tasks -> {"New"} \cup ActiveStates \cup TerminalStates]
  /\ finalizing \in [Tasks -> BOOLEAN] /\ bypass \in [Tasks -> BOOLEAN]
  /\ ctxDone \in [Tasks -> BOOLEAN] /\ finalized \in [Tasks -> BOOLEAN]
  /\ completed \in [Tasks -> BOOLEAN]
  /\ activeKeys \in [Keys -> BOOLEAN]
  /\ wake \in BOOLEAN /\ worker \in {"select", "scan"}
  /\ exec \in [Tasks -> ExecSteps]
  /\ teardown \in [Tasks -> {"idle", "finalize", "publish", "post", "ended"}]
  /\ err \in [Tasks -> {"none", "cancelled", "failed"}]
  /\ posted \subseteq Tasks /\ sweep \subseteq Tasks /\ quitting \in BOOLEAN
  /\ ui \in {"loop", "cancel", "sweep", "wait", "drained", "expired"}
  /\ target \in Tasks \cup {NoTask} /\ complete \in BOOLEAN

Holds(t, k) == exec[t] \in Holding /\ ~ bypass[t] /\ k \in ResKeys[t]

\* activeKeys is a map of flags without owners: a key is marked exactly while
\* one task that did not bypass the keys stands between nextRunnable and the
\* release at the end of executeTask, so no release frees another task's key.
KeysHaveOneOwner ==
  \A k \in Keys :
    /\ activeKeys[k] <=> \E t \in Tasks : Holds(t, k)
    /\ \A t, u \in Tasks : Holds(t, k) /\ Holds(u, k) => t = u

\* A small task that started while its keys were taken never executes beside a
\* task whose paths meet its own, whichever of the two started first (f4#1894).
SmallTaskApart ==
  \A t, u \in Tasks :
    t # u /\ exec[t] \in Executing /\ exec[u] \in Executing /\ bypass[t]
      => ~ PathsMeet(t, u)

\* Cancel and the worker race for a queued task: whichever claims it owns its
\* teardown and completion, the other never touches it.
OneOwner == \A t \in Tasks : exec[t] = "idle" \/ teardown[t] = "idle"

\* Shutdown counts active tasks: when the count is zero every task ever
\* enqueued has given back the resources its Finalize releases.
ZeroMeansFinalized ==
  ActiveTasks = {} => \A t \in Tasks : state[t] # "New" => finalized[t]

\* When quitting stopped waiting on a zero count, no operation is running and
\* none will be started by the scheduler, which is still alive.
DrainedIsOver ==
  ui = "drained" =>
    \A t \in Tasks :
      state[t] # "New" => QueueTaskTerminal(t) /\ exec[t] \notin Executing

\* The count of active tasks can be trusted: at zero everything is finalized,
\* and once the wait for zero has ended nothing runs any more.
ZeroIsOver == ZeroMeansFinalized /\ DrainedIsOver

\* OnComplete runs after the task ended, was finalized and gave its keys back:
\* a follow-up it enqueues is not blocked by the task itself.
CompletionIsLast ==
  \A t \in Tasks : t \in posted \/ completed[t] =>
    QueueTaskTerminal(t) /\ finalized[t] /\ \A k \in Keys : ~ Holds(t, k)

\* No late progress report or second Cancel revives a task: a cancelling task
\* only ends, an ended one keeps its state, and only ended ones leave the list.
NoRevival ==
  [][\A t \in Tasks :
       /\ QueueTaskTerminal(t) => state'[t] = state[t]
       /\ state[t] = "Cancelling" => state'[t] \in {"Cancelling"} \cup TerminalStates
       /\ t \in tasks /\ t \notin tasks' => finalized[t]]_vars

\* Two Enqueues may leave one token in wake, and the scheduler starts one task
\* per token: a task whose keys are free starts all the same, even when every
\* task before it hangs.
FreeTaskStarts ==
  \A t \in Tasks : state[t] = "Queued" ~> state[t] # "Queued" \/ ~ TakesKeys(t)

\* OnComplete of every ended task runs, unless the program is quitting.
EveryCompletionRuns ==
  \A t \in Tasks : QueueTaskTerminal(t) ~> completed[t] \/ quitting

\* An accepted cancellation is never lost: the task ends, unless it stands for
\* ever in a Run that was told to stop and does not return.
CancelSettles ==
  \A t \in Tasks :
    state[t] = "Cancelling" ~> QueueTaskTerminal(t) \/ [](exec[t] = "run" /\ ctxDone[t])

\* Quitting ends, and CancelAll reaches every task, those the scheduler starts
\* while it is walking its list included: when the wait is over, either
\* nothing is active or the deadline passed on tasks that were all told to stop.
QuitDrains ==
  quitting ~> \/ ui = "drained"
              \/ ui = "expired" /\ \A t \in ActiveTasks : ctxDone[t]
=============================================================================
