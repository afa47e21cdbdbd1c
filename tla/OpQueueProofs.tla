---------------------------- MODULE OpQueueProofs ----------------------------
(* Proofs about OpQueue for any tasks, keys, paths and selections.            *)
EXTENDS OpQueue, TLAPS

(***************************************************************************)
(* Types                                                                   *)
(***************************************************************************)
LEMMA InitTypes == ASSUME Init PROVE TypeOK
  <1> USE DEF Init, ExecSteps, ActiveStates, CancellableStates, TerminalStates
  <1>1. tasks \subseteq Tasks /\ nextID \in Nat /\ id \in [Tasks -> Nat]
    OBVIOUS
  <1>2. /\ state \in [Tasks -> {"New"} \cup ActiveStates \cup TerminalStates]
        /\ finalizing \in [Tasks -> BOOLEAN] /\ bypass \in [Tasks -> BOOLEAN]
    OBVIOUS
  <1>3. /\ ctxDone \in [Tasks -> BOOLEAN] /\ finalized \in [Tasks -> BOOLEAN]
        /\ completed \in [Tasks -> BOOLEAN] /\ activeKeys \in [Keys -> BOOLEAN]
    OBVIOUS
  <1>4. /\ wake \in BOOLEAN /\ worker \in {"select", "scan"}
        /\ exec \in [Tasks -> ExecSteps]
        /\ teardown \in [Tasks -> {"idle", "finalize", "publish", "post", "ended"}]
        /\ err \in [Tasks -> {"none", "cancelled", "failed"}]
    OBVIOUS
  <1>5. /\ posted \subseteq Tasks /\ sweep \subseteq Tasks /\ quitting \in BOOLEAN
        /\ ui \in {"loop", "cancel", "sweep", "wait", "drained", "expired"}
        /\ target \in Tasks \cup {NoTask} /\ complete \in BOOLEAN
    OBVIOUS
  <1> QED BY <1>1, <1>2, <1>3, <1>4, <1>5 DEF TypeOK

LEMMA StepTypes == ASSUME TypeOK, [Next]_vars PROVE TypeOK'
  <1> USE DEF TypeOK, ExecSteps, ActiveStates, CancellableStates,
              TerminalStates, manager, task, uiVars
  <1>1. ASSUME NEW t \in Tasks, Enqueue(t)
        PROVE  TypeOK'
    BY <1>1 DEF Enqueue
  <1>2. ASSUME NEW t \in Tasks, Cancel(t)
        PROVE  TypeOK'
    BY <1>2 DEF Cancel, CancelMark
  <1>3. ASSUME NEW t \in Tasks, RunCompletion(t)
        PROVE  TypeOK'
    BY <1>3 DEF RunCompletion
  <1>4. ASSUME NEW t \in Tasks, SweepCancel(t)
        PROVE  TypeOK'
    BY <1>4 DEF SweepCancel, CancelMark, CancelNotFound
  <1>5. CASE CancelContext
    BY <1>5 DEF CancelContext
  <1>6. CASE ClearFinished
    BY <1>6 DEF ClearFinished
  <1>7. CASE CancelAll
    BY <1>7 DEF CancelAll, ActiveTasks
  <1>8. CASE SweepEnd
    BY <1>8 DEF SweepEnd
  <1>9. CASE WaitDrained
    BY <1>9 DEF WaitDrained
  <1>10. CASE WaitExpired
    BY <1>10 DEF WaitExpired
  <1>11. CASE WorkerWoken
    BY <1>11 DEF WorkerWoken
  <1>12. CASE WorkerTimeout
    BY <1>12 DEF WorkerTimeout
  <1>13. ASSUME NEW on \in BOOLEAN, NothingToStart(on)
        PROVE  TypeOK'
    BY <1>13 DEF NothingToStart
  <1>14. ASSUME NEW t \in Tasks, NEW on \in BOOLEAN, StartTask(t, on)
        PROVE  TypeOK'
    BY <1>14 DEF StartTask
  <1>15. ASSUME NEW t \in Tasks, CheckContext(t)
        PROVE  TypeOK'
    BY <1>15 DEF CheckContext, ExecTo
  <1>16. ASSUME NEW t \in Tasks, CheckPreconditions(t)
        PROVE  TypeOK'
    BY <1>16 DEF CheckPreconditions, ExecTo
  <1>17. ASSUME NEW t \in Tasks, Progress(t)
        PROVE  TypeOK'
    BY <1>17 DEF Progress
  <1>18. ASSUME NEW t \in Tasks, RunReturns(t)
        PROVE  TypeOK'
    BY <1>18 DEF RunReturns, ExecTo
  <1>19. ASSUME NEW t \in Tasks, ExecFinalize(t)
        PROVE  TypeOK'
    BY <1>19 DEF ExecFinalize
  <1>20. ASSUME NEW t \in Tasks, Publish(t)
        PROVE  TypeOK'
    BY <1>20 DEF Publish
  <1>21. ASSUME NEW t \in Tasks, Release(t)
        PROVE  TypeOK'
    BY <1>21 DEF Release
  <1>22. ASSUME NEW t \in Tasks, ExecPost(t)
        PROVE  TypeOK'
    BY <1>22 DEF ExecPost
  <1>23. ASSUME NEW t \in Tasks, TeardownFinalize(t)
        PROVE  TypeOK'
    BY <1>23 DEF TeardownFinalize
  <1>24. ASSUME NEW t \in Tasks, TeardownPublish(t)
        PROVE  TypeOK'
    BY <1>24 DEF TeardownPublish
  <1>25. ASSUME NEW t \in Tasks, TeardownPost(t)
        PROVE  TypeOK'
    BY <1>25 DEF TeardownPost
  <1>s. CASE UNCHANGED vars
    BY <1>s DEF vars, manager, task, uiVars
  <1> QED
    BY <1>1, <1>2, <1>3, <1>4, <1>5, <1>6, <1>7, <1>8, <1>9, <1>10, <1>11, <1>12, <1>13, <1>14, <1>15, <1>16, <1>17, <1>18, <1>19, <1>20, <1>21, <1>22, <1>23, <1>24, <1>25, <1>s
    DEF Next, UIThread, WorkerLoop, ExecuteTask, Teardown

\* Every variable of the queue keeps its type, whatever the tasks.
THEOREM TypeCorrect == Spec => []TypeOK
  <1>1. Init => TypeOK BY InitTypes
  <1>2. TypeOK /\ [Next]_vars => TypeOK' BY StepTypes
  <1> QED BY <1>1, <1>2, PTL DEF Spec

(***************************************************************************)
(* The life of a task, which goroutine owns it in which state.  None of the *)
(* properties is inductive without it.                                      *)
(***************************************************************************)
InFlight == {"Starting", "Scanning", "Running", "Cancelling"}

TaskLife(t) ==
  /\ t \in tasks => state[t] # "New"
  /\ QueueTaskActive(t) => t \in tasks
  /\ state[t] \in {"New", "Queued"} =>
       exec[t] = "idle" /\ teardown[t] = "idle" /\ ~ finalizing[t]
  /\ exec[t] \in Executing =>
       state[t] \in InFlight /\ teardown[t] = "idle" /\ ~ finalizing[t]
  /\ exec[t] = "publish" => finalized[t]
  /\ exec[t] \in {"release", "post", "ended"} =>
       QueueTaskTerminal(t) /\ finalized[t] /\ teardown[t] = "idle"
  /\ exec[t] = "idle" /\ teardown[t] = "idle" =>
       state[t] \in {"New", "Queued"} \/ (target = t /\ complete)
  /\ target = t /\ complete =>
       /\ state[t] = "Cancelling" /\ finalizing[t]
       /\ exec[t] = "idle" /\ teardown[t] = "idle"
  /\ teardown[t] \in {"finalize", "publish"} =>
       state[t] = "Cancelling" /\ finalizing[t] /\ exec[t] = "idle"
  /\ teardown[t] = "publish" => finalized[t]
  /\ teardown[t] \in {"post", "ended"} =>
       QueueTaskTerminal(t) /\ finalized[t] /\ exec[t] = "idle"
  /\ t \in posted \/ completed[t] => exec[t] = "ended" \/ teardown[t] = "ended"

Life ==
  /\ \A t \in Tasks : TaskLife(t)
  /\ ui = "cancel" <=> target # NoTask
  /\ ui = "drained" => ActiveTasks = {}

LEMMA InitLife == ASSUME Init PROVE Life
  <1>1. ASSUME NEW t \in Tasks PROVE TaskLife(t)
    <2>1. /\ state[t] = "New" /\ exec[t] = "idle" /\ teardown[t] = "idle"
          /\ ~ finalizing[t] /\ ~ completed[t] /\ t \notin posted
          /\ t \notin tasks /\ target # t
      BY NoTaskAssumption, SMTT(40) DEF Init
    <2> QED
      BY <2>1 DEF TaskLife, QueueTaskActive, QueueTaskTerminal,
         ActiveStates, CancellableStates, TerminalStates, Executing
  <1> QED
    BY <1>1 DEF Init, Life, ActiveTasks

LEMMA StepLife == ASSUME TypeOK, Life, [Next]_vars PROVE Life'
  <1> USE NoTaskAssumption DEF TypeOK, Life, TaskLife, ActiveTasks, InFlight,
          QueueTaskActive, QueueTaskTerminal, ActiveStates, CancellableStates,
          TerminalStates, Executing, ExecSteps, manager, task, uiVars
  <1>1. ASSUME NEW t \in Tasks, Enqueue(t)
        PROVE  Life'
    BY <1>1 DEF Enqueue
  <1>2. ASSUME NEW t \in Tasks, Cancel(t)
        PROVE  Life'
    <2>1. ui = "loop" /\ target = NoTask /\ target' = t /\ ui' = "cancel"
      BY <1>2 DEF Cancel, CancelMark
    <2>2. ASSUME NEW u \in Tasks, u # t PROVE TaskLife(u)'
      <3>1. state'[u] = state[u] /\ finalizing'[u] = finalizing[u]
        BY <1>2, <2>2 DEF Cancel, CancelMark
      <3> QED
        BY <1>2, <2>1, <2>2, <3>1 DEF Cancel
    <2>3. TaskLife(t)'
      BY <1>2, <2>1 DEF Cancel, CancelMark
    <2> QED
      BY <2>1, <2>2, <2>3
  <1>3. ASSUME NEW t \in Tasks, RunCompletion(t)
        PROVE  Life'
    BY <1>3 DEF RunCompletion
  <1>4. ASSUME NEW t \in Tasks, SweepCancel(t)
        PROVE  Life'
    <2>1. CASE CancelNotFound(t) /\ UNCHANGED <<state, finalizing, target, complete, ui>>
      BY <1>4, <2>1 DEF SweepCancel
    <2>2. CASE CancelMark(t) /\ ui' = "cancel"
      <3>1. ui = "sweep" /\ target = NoTask /\ target' = t
        BY <1>4, <2>2 DEF SweepCancel, CancelMark
      <3>2. ASSUME NEW u \in Tasks, u # t PROVE TaskLife(u)'
        <4>1. state'[u] = state[u] /\ finalizing'[u] = finalizing[u]
          BY <1>4, <2>2, <3>2 DEF CancelMark
        <4> QED
          BY <1>4, <3>1, <3>2, <4>1 DEF SweepCancel
      <3>3. TaskLife(t)'
        BY <1>4, <2>2, <3>1 DEF SweepCancel, CancelMark
      <3> QED
        BY <2>2, <3>1, <3>2, <3>3
    <2> QED
      BY <1>4, <2>1, <2>2 DEF SweepCancel
  <1>5. CASE CancelContext
    <2>1. target \in Tasks /\ target' = NoTask /\ ui' \in {"sweep", "loop"}
      BY <1>5 DEF CancelContext
    <2>2. CASE complete
      <3>1. ASSUME NEW u \in Tasks, u # target PROVE TaskLife(u)'
        <4>1. teardown'[u] = teardown[u]
          BY <1>5, <2>2, <3>1 DEF CancelContext
        <4> QED
          BY <1>5, <2>1, <3>1, <4>1 DEF CancelContext
      <3>2. \A u \in Tasks : u = target => TaskLife(u)'
        BY <1>5, <2>1, <2>2 DEF CancelContext
      <3> QED
        BY <2>1, <3>1, <3>2
    <2>3. CASE ~ complete
      <3>1. \A u \in Tasks : TaskLife(u)'
        BY <1>5, <2>1, <2>3 DEF CancelContext
      <3> QED
        BY <2>1, <3>1
    <2> QED
      BY <2>2, <2>3
  <1>6. CASE ClearFinished
    BY <1>6 DEF ClearFinished
  <1>7. CASE CancelAll
    BY <1>7 DEF CancelAll, ActiveTasks
  <1>8. CASE SweepEnd
    BY <1>8 DEF SweepEnd
  <1>9. CASE WaitDrained
    BY <1>9 DEF WaitDrained
  <1>10. CASE WaitExpired
    BY <1>10 DEF WaitExpired
  <1>11. CASE WorkerWoken
    BY <1>11 DEF WorkerWoken
  <1>12. CASE WorkerTimeout
    BY <1>12 DEF WorkerTimeout
  <1>13. ASSUME NEW on \in BOOLEAN, NothingToStart(on)
        PROVE  Life'
    BY <1>13 DEF NothingToStart
  <1>14. ASSUME NEW t \in Tasks, NEW on \in BOOLEAN, StartTask(t, on)
        PROVE  Life'
    BY <1>14 DEF StartTask, First, Runnable
  <1>15. ASSUME NEW t \in Tasks, CheckContext(t)
        PROVE  Life'
    BY <1>15 DEF CheckContext, ExecTo
  <1>16. ASSUME NEW t \in Tasks, CheckPreconditions(t)
        PROVE  Life'
    BY <1>16 DEF CheckPreconditions, ExecTo
  <1>17. ASSUME NEW t \in Tasks, Progress(t)
        PROVE  Life'
    BY <1>17 DEF Progress
  <1>18. ASSUME NEW t \in Tasks, RunReturns(t)
        PROVE  Life'
    BY <1>18 DEF RunReturns, ExecTo
  <1>19. ASSUME NEW t \in Tasks, ExecFinalize(t)
        PROVE  Life'
    BY <1>19 DEF ExecFinalize
  <1>20. ASSUME NEW t \in Tasks, Publish(t)
        PROVE  Life'
    BY <1>20 DEF Publish
  <1>21. ASSUME NEW t \in Tasks, Release(t)
        PROVE  Life'
    BY <1>21 DEF Release
  <1>22. ASSUME NEW t \in Tasks, ExecPost(t)
        PROVE  Life'
    BY <1>22 DEF ExecPost
  <1>23. ASSUME NEW t \in Tasks, TeardownFinalize(t)
        PROVE  Life'
    BY <1>23 DEF TeardownFinalize
  <1>24. ASSUME NEW t \in Tasks, TeardownPublish(t)
        PROVE  Life'
    BY <1>24 DEF TeardownPublish
  <1>25. ASSUME NEW t \in Tasks, TeardownPost(t)
        PROVE  Life'
    BY <1>25 DEF TeardownPost
  <1>s. CASE UNCHANGED vars
    BY <1>s DEF vars, manager, task, uiVars
  <1> QED
    BY <1>1, <1>2, <1>3, <1>4, <1>5, <1>6, <1>7, <1>8, <1>9, <1>10, <1>11, <1>12, <1>13, <1>14, <1>15, <1>16, <1>17, <1>18, <1>19, <1>20, <1>21, <1>22, <1>23, <1>24, <1>25, <1>s
    DEF Next, UIThread, WorkerLoop, ExecuteTask, Teardown

(***************************************************************************)
(* The life of a task is invariant, and what follows from it at once       *)
(***************************************************************************)
LEMMA LifeCorrect == Spec => [](TypeOK /\ Life)
  <1>1. Init => TypeOK /\ Life
    BY InitTypes, InitLife
  <1>2. (TypeOK /\ Life) /\ [Next]_vars => (TypeOK /\ Life)'
    BY StepTypes, StepLife
  <1> QED
    BY <1>1, <1>2, PTL DEF Spec

\* A task is executed or torn down as never started, never both: Cancel and
\* nextRunnable claim a queued task under the same locks.
THEOREM OneOwnerAlways == Spec => []OneOwner
  <1>1. TypeOK /\ Life => OneOwner
    BY DEF TypeOK, Life, TaskLife, OneOwner, Executing, ExecSteps
  <1> QED
    BY <1>1, LifeCorrect, PTL

\* Whenever the count of active tasks is zero, every enqueued task has been
\* finalized: what the wait of the shutdown relies on.
LEMMA ZeroMeansFinalizedAlways == Spec => []ZeroMeansFinalized
  <1>1. TypeOK /\ Life => ZeroMeansFinalized
    <2> SUFFICES ASSUME TypeOK, Life, ActiveTasks = {},
                        NEW t \in Tasks, state[t] # "New"
                 PROVE  finalized[t]
      BY DEF ZeroMeansFinalized
    <2>1. TaskLife(t)
      BY DEF Life
    <2>2. QueueTaskTerminal(t)
      BY <2>1 DEF TaskLife, ActiveTasks, TypeOK, QueueTaskActive, QueueTaskTerminal
    <2> QED
      BY <2>1, <2>2 DEF TaskLife, TypeOK, ExecSteps, Executing, InFlight,
         QueueTaskTerminal, TerminalStates, ActiveStates, CancellableStates
  <1> QED
    BY <1>1, LifeCorrect, PTL

\* After a drained shutdown no operation runs and none is started.
LEMMA DrainedIsOverAlways == Spec => []DrainedIsOver
  <1>1. TypeOK /\ Life => DrainedIsOver
    <2> SUFFICES ASSUME TypeOK, Life, ui = "drained",
                        NEW t \in Tasks, state[t] # "New"
                 PROVE  QueueTaskTerminal(t) /\ exec[t] \notin Executing
      BY DEF DrainedIsOver
    <2>1. TaskLife(t) /\ ActiveTasks = {}
      BY DEF Life
    <2>2. QueueTaskTerminal(t)
      BY <2>1 DEF TaskLife, ActiveTasks, TypeOK, QueueTaskActive, QueueTaskTerminal
    <2> QED
      BY <2>1, <2>2 DEF TaskLife, InFlight, QueueTaskTerminal, TerminalStates
  <1> QED
    BY <1>1, LifeCorrect, PTL

\* Both together: the shutdown may trust the count of active tasks.
THEOREM ZeroIsOverAlways == Spec => []ZeroIsOver
  BY ZeroMeansFinalizedAlways, DrainedIsOverAlways, PTL DEF ZeroIsOver

\* OnComplete runs for ended, finalized tasks that hold no key.
THEOREM CompletionIsLastAlways == Spec => []CompletionIsLast
  <1>1. TypeOK /\ Life => CompletionIsLast
    <2> SUFFICES ASSUME TypeOK, Life, NEW t \in Tasks, t \in posted \/ completed[t]
                 PROVE  /\ QueueTaskTerminal(t) /\ finalized[t]
                        /\ \A k \in Keys : ~ Holds(t, k)
      BY DEF CompletionIsLast
    <2>1. TaskLife(t)
      BY DEF Life
    <2>2. exec[t] = "ended" \/ teardown[t] = "ended"
      BY <2>1 DEF TaskLife
    <2> QED
      BY <2>1, <2>2 DEF TaskLife, Holds, Holding, Executing
  <1> QED
    BY <1>1, LifeCorrect, PTL

(***************************************************************************)
(* Resource keys and small tasks                                           *)
(***************************************************************************)
\* Only StartTask lets a task in and only Release changes keys otherwise.
CalmStep ==
  /\ UNCHANGED <<activeKeys, bypass>>
  /\ \A t \in Tasks : exec'[t] \in Holding <=> exec[t] \in Holding
  /\ \A t \in Tasks : exec'[t] \in Executing => exec[t] \in Executing

LEMMA StepKinds ==
  ASSUME TypeOK, [Next]_vars
  PROVE  \/ \E t \in Tasks, on \in BOOLEAN : StartTask(t, on)
         \/ \E t \in Tasks : Release(t)
         \/ CalmStep
  <1> USE DEF TypeOK, CalmStep, Holding, Executing, ExecSteps, manager, task, uiVars
  <1> DEFINE Kinds == \/ \E t \in Tasks, on \in BOOLEAN : StartTask(t, on)
                      \/ \E t \in Tasks : Release(t)
                      \/ CalmStep
  <1>1. ASSUME NEW t \in Tasks, Enqueue(t)
        PROVE  Kinds
    BY <1>1 DEF Enqueue
  <1>2. ASSUME NEW t \in Tasks, Cancel(t)
        PROVE  Kinds
    BY <1>2 DEF Cancel, CancelMark
  <1>3. ASSUME NEW t \in Tasks, RunCompletion(t)
        PROVE  Kinds
    BY <1>3 DEF RunCompletion
  <1>4. ASSUME NEW t \in Tasks, SweepCancel(t)
        PROVE  Kinds
    BY <1>4 DEF SweepCancel, CancelMark, CancelNotFound
  <1>5. CASE CancelContext
    BY <1>5 DEF CancelContext
  <1>6. CASE ClearFinished
    BY <1>6 DEF ClearFinished
  <1>7. CASE CancelAll
    BY <1>7 DEF CancelAll, ActiveTasks
  <1>8. CASE SweepEnd
    BY <1>8 DEF SweepEnd
  <1>9. CASE WaitDrained
    BY <1>9 DEF WaitDrained
  <1>10. CASE WaitExpired
    BY <1>10 DEF WaitExpired
  <1>11. CASE WorkerWoken
    BY <1>11 DEF WorkerWoken
  <1>12. CASE WorkerTimeout
    BY <1>12 DEF WorkerTimeout
  <1>13. ASSUME NEW on \in BOOLEAN, NothingToStart(on)
        PROVE  Kinds
    BY <1>13 DEF NothingToStart
  <1>14. ASSUME NEW t \in Tasks, NEW on \in BOOLEAN, StartTask(t, on)
        PROVE  Kinds
    BY <1>14
  <1>15. ASSUME NEW t \in Tasks, CheckContext(t)
        PROVE  Kinds
    BY <1>15 DEF CheckContext, ExecTo
  <1>16. ASSUME NEW t \in Tasks, CheckPreconditions(t)
        PROVE  Kinds
    BY <1>16 DEF CheckPreconditions, ExecTo
  <1>17. ASSUME NEW t \in Tasks, Progress(t)
        PROVE  Kinds
    BY <1>17 DEF Progress
  <1>18. ASSUME NEW t \in Tasks, RunReturns(t)
        PROVE  Kinds
    BY <1>18 DEF RunReturns, ExecTo
  <1>19. ASSUME NEW t \in Tasks, ExecFinalize(t)
        PROVE  Kinds
    BY <1>19 DEF ExecFinalize
  <1>20. ASSUME NEW t \in Tasks, Publish(t)
        PROVE  Kinds
    BY <1>20 DEF Publish
  <1>21. ASSUME NEW t \in Tasks, Release(t)
        PROVE  Kinds
    BY <1>21
  <1>22. ASSUME NEW t \in Tasks, ExecPost(t)
        PROVE  Kinds
    BY <1>22 DEF ExecPost
  <1>23. ASSUME NEW t \in Tasks, TeardownFinalize(t)
        PROVE  Kinds
    BY <1>23 DEF TeardownFinalize
  <1>24. ASSUME NEW t \in Tasks, TeardownPublish(t)
        PROVE  Kinds
    BY <1>24 DEF TeardownPublish
  <1>25. ASSUME NEW t \in Tasks, TeardownPost(t)
        PROVE  Kinds
    BY <1>25 DEF TeardownPost
  <1>s. CASE UNCHANGED vars
    BY <1>s DEF vars, manager, task, uiVars
  <1> QED
    BY <1>1, <1>2, <1>3, <1>4, <1>5, <1>6, <1>7, <1>8, <1>9, <1>10, <1>11, <1>12, <1>13, <1>14, <1>15, <1>16, <1>17, <1>18, <1>19, <1>20, <1>21, <1>22, <1>23, <1>24, <1>25, <1>s
    DEF Next, UIThread, WorkerLoop, ExecuteTask, Teardown

LEMMA PathsMeetSymmetric ==
  ASSUME NEW t, NEW u, PathsMeet(t, u) PROVE PathsMeet(u, t)
  BY DEF PathsMeet, QueuePathsMeet

LEMMA StepKeys ==
  ASSUME TypeOK, TypeOK', Life, KeysHaveOneOwner, [Next]_vars
  PROVE  KeysHaveOneOwner'
  <1> USE DEF KeysHaveOneOwner, Holds, Holding, Executing, TypeOK
  <1>1. ASSUME NEW t \in Tasks, NEW on \in BOOLEAN, StartTask(t, on)
        PROVE  KeysHaveOneOwner'
    <2>1. state[t] = "Queued" /\ exec[t] = "idle"
      BY <1>1 DEF StartTask, First, Runnable, Life, TaskLife
    <2>2. \A u \in Tasks : u # t => \A k \in Keys : Holds(u, k)' <=> Holds(u, k)
      BY <1>1 DEF StartTask
    <2>3. \A k \in Keys : ~ Holds(t, k)
      BY <2>1
    <2>4. CASE TakesKeys(t)
      <3>1. \A k \in Keys : Holds(t, k)' <=> k \in ResKeys[t]
        BY <1>1, <2>4 DEF StartTask
      <3>2. \A k \in Keys : activeKeys'[k] <=> activeKeys[k] \/ k \in ResKeys[t]
        BY <1>1, <2>4 DEF StartTask
      <3>3. \A k \in Keys, u \in Tasks : Holds(u, k) => k \notin ResKeys[t]
        BY <2>4 DEF TakesKeys, KeysFree
      <3> QED
        BY <2>2, <2>3, <3>1, <3>2, <3>3, ZenonT(40)
    <2>5. CASE ~ TakesKeys(t)
      <3>1. \A k \in Keys : ~ Holds(t, k)' /\ activeKeys'[k] = activeKeys[k]
        BY <1>1, <2>5, ZenonT(40) DEF StartTask
      <3> SUFFICES ASSUME NEW k \in Keys
                   PROVE  /\ activeKeys'[k] <=> \E u \in Tasks : Holds(u, k)'
                          /\ \A u, w \in Tasks : Holds(u, k)' /\ Holds(w, k)' => u = w
        OBVIOUS
      <3>2. ~ Holds(t, k) /\ ~ Holds(t, k)'
        BY <2>3, <3>1
      <3>3. ASSUME NEW u \in Tasks PROVE Holds(u, k)' <=> Holds(u, k)
        <4>1. CASE u # t
          BY <2>2, <4>1
        <4>2. CASE u = t
          BY <3>2, <4>2
        <4> QED
          BY <4>1, <4>2
      <3>4. activeKeys'[k] <=> activeKeys[k]
        BY <3>1
      <3> QED
        BY <3>2, <3>3, <3>4
    <2> QED
      BY <2>4, <2>5
  <1>2. ASSUME NEW t \in Tasks, Release(t)
        PROVE  KeysHaveOneOwner'
    <2>1. \A u \in Tasks : u # t => \A k \in Keys : Holds(u, k)' <=> Holds(u, k)
      BY <1>2 DEF Release
    <2>2. \A k \in Keys : ~ Holds(t, k)'
      BY <1>2 DEF Release
    <2>3. CASE bypass[t]
      BY <1>2, <2>1, <2>2, <2>3 DEF Release
    <2>4. CASE ~ bypass[t]
      <3>1. \A k \in Keys : Holds(t, k) <=> k \in ResKeys[t]
        BY <1>2, <2>4 DEF Release
      <3>2. \A k \in Keys : activeKeys'[k] <=> activeKeys[k] /\ k \notin ResKeys[t]
        BY <1>2, <2>4 DEF Release
      <3> SUFFICES ASSUME NEW k \in Keys
                   PROVE  /\ activeKeys'[k] <=> \E u \in Tasks : Holds(u, k)'
                          /\ \A u, w \in Tasks : Holds(u, k)' /\ Holds(w, k)' => u = w
        OBVIOUS
      <3>3. \A u \in Tasks : Holds(u, k)' => u # t /\ Holds(u, k)
        BY <2>1, <2>2
      <3>4. \A u \in Tasks : u # t /\ Holds(u, k) => Holds(u, k)'
        BY <2>1
      <3>5. CASE k \in ResKeys[t]
        <4>1. ~ activeKeys'[k] /\ Holds(t, k)
          BY <3>1, <3>2, <3>5
        <4>2. \A u \in Tasks : ~ Holds(u, k)'
          BY <3>3, <4>1
        <4> QED
          BY <4>1, <4>2
      <3>6. CASE k \notin ResKeys[t]
        <4>1. (activeKeys'[k] <=> activeKeys[k]) /\ ~ Holds(t, k)
          BY <3>1, <3>2, <3>6
        <4> QED
          BY <3>3, <3>4, <4>1
      <3> QED
        BY <3>5, <3>6
    <2> QED
      BY <2>3, <2>4
  <1>3. CASE CalmStep
    BY <1>3 DEF CalmStep
  <1> QED
    BY <1>1, <1>2, <1>3, StepKinds

\* The flags of activeKeys always stand for one task each: no two tasks that
\* took their keys run with a key in common, and no key leaks.
THEOREM KeysHaveOneOwnerAlways == Spec => []KeysHaveOneOwner
  <1>1. Init => KeysHaveOneOwner
    BY DEF Init, KeysHaveOneOwner, Holds, Holding, Executing
  <1>2. TypeOK /\ TypeOK' /\ Life /\ KeysHaveOneOwner /\ [Next]_vars
          => KeysHaveOneOwner'
    BY StepKeys
  <1> QED
    BY <1>1, <1>2, LifeCorrect, PTL DEF Spec

LEMMA StepSmallTaskApart ==
  ASSUME TypeOK, Life, SmallTaskApart, [Next]_vars
  PROVE  SmallTaskApart'
  <1> USE DEF SmallTaskApart, TypeOK
  <1>1. ASSUME NEW t \in Tasks, NEW on \in BOOLEAN, StartTask(t, on)
        PROVE  SmallTaskApart'
    <2>1. t \in tasks /\ (TakesKeys(t) \/ Bypasses(t, on))
      BY <1>1 DEF StartTask, First, Runnable
    <2>2. \A u \in Tasks \ {t} : exec'[u] = exec[u] /\ bypass'[u] = bypass[u]
      BY <1>1 DEF StartTask
    <2>3. ASSUME NEW u \in Tasks \ {t}, exec[u] \in Executing,
                 bypass'[t] \/ bypass[u]
          PROVE  ~ PathsMeet(t, u)
      <3>1. u \in tasks /\ QueueTaskActive(u) /\ state[u] # "Queued"
        BY <2>3 DEF Life, TaskLife, InFlight, QueueTaskActive, ActiveStates,
                    CancellableStates
      <3>2. CASE TakesKeys(t)
        <4>1. bypass[u]
          BY <1>1, <2>3, <3>2 DEF StartTask
        <4> QED
          BY <2>3, <3>1, <3>2, <4>1 DEF TakesKeys, MeetsRunning
      <3>3. CASE ~ TakesKeys(t)
        BY <2>1, <2>3, <3>1, <3>3 DEF Bypasses, MeetsRunning
      <3> QED
        BY <3>2, <3>3
    <2> QED
      BY <2>2, <2>3, PathsMeetSymmetric, ZenonT(40) DEF PathsMeet
  <1>2. ASSUME NEW t \in Tasks, Release(t)
        PROVE  SmallTaskApart'
    BY <1>2 DEF Release, Executing, PathsMeet
  <1>3. CASE CalmStep
    BY <1>3 DEF CalmStep, PathsMeet
  <1> QED
    BY <1>1, <1>2, <1>3, StepKinds

\* A task that bypassed its keys never executes beside a task whose paths meet
\* its own: neither it nor a later task that takes the keys overlooks the other.
THEOREM SmallTaskApartAlways == Spec => []SmallTaskApart
  <1>1. Init => SmallTaskApart
    BY DEF Init, SmallTaskApart, Executing
  <1>2. TypeOK /\ Life /\ SmallTaskApart /\ [Next]_vars => SmallTaskApart'
    BY StepSmallTaskApart
  <1> QED
    BY <1>1, <1>2, LifeCorrect, PTL DEF Spec

(***************************************************************************)
(* No revival                                                              *)
(***************************************************************************)
Kept(t) ==
  /\ QueueTaskTerminal(t) => state'[t] = state[t]
  /\ state[t] = "Cancelling" => state'[t] \in {"Cancelling"} \cup TerminalStates
  /\ t \in tasks /\ t \notin tasks' => finalized[t]

LEMMA StepKept ==
  ASSUME TypeOK, Life, [Next]_vars PROVE \A q \in Tasks : Kept(q)
  <1> SUFFICES ASSUME NEW q \in Tasks PROVE Kept(q)
    OBVIOUS
  <1>0. TaskLife(q)
    BY DEF Life
  <1> USE DEF TypeOK, TaskLife, Kept, InFlight, QueueTaskTerminal, ActiveStates,
          QueueTaskActive, CancellableStates, TerminalStates, Executing,
          ExecSteps, manager, task, uiVars
  <1>1. ASSUME NEW t \in Tasks, Enqueue(t)
        PROVE  Kept(q)
    BY <1>0, <1>1 DEF Enqueue
  <1>2. ASSUME NEW t \in Tasks, Cancel(t)
        PROVE  Kept(q)
    BY <1>0, <1>2 DEF Cancel, CancelMark
  <1>3. ASSUME NEW t \in Tasks, RunCompletion(t)
        PROVE  Kept(q)
    BY <1>0, <1>3 DEF RunCompletion
  <1>4. ASSUME NEW t \in Tasks, SweepCancel(t)
        PROVE  Kept(q)
    BY <1>0, <1>4 DEF SweepCancel, CancelMark, CancelNotFound
  <1>5. CASE CancelContext
    BY <1>0, <1>5 DEF CancelContext
  <1>6. CASE ClearFinished
    BY <1>0, <1>6 DEF ClearFinished
  <1>7. CASE CancelAll
    BY <1>0, <1>7 DEF CancelAll, ActiveTasks
  <1>8. CASE SweepEnd
    BY <1>0, <1>8 DEF SweepEnd
  <1>9. CASE WaitDrained
    BY <1>0, <1>9 DEF WaitDrained
  <1>10. CASE WaitExpired
    BY <1>0, <1>10 DEF WaitExpired
  <1>11. CASE WorkerWoken
    BY <1>0, <1>11 DEF WorkerWoken
  <1>12. CASE WorkerTimeout
    BY <1>0, <1>12 DEF WorkerTimeout
  <1>13. ASSUME NEW on \in BOOLEAN, NothingToStart(on)
        PROVE  Kept(q)
    BY <1>0, <1>13 DEF NothingToStart
  <1>14. ASSUME NEW t \in Tasks, NEW on \in BOOLEAN, StartTask(t, on)
        PROVE  Kept(q)
    BY <1>0, <1>14 DEF StartTask, First, Runnable
  <1>15. ASSUME NEW t \in Tasks, CheckContext(t)
        PROVE  Kept(q)
    BY <1>0, <1>15 DEF CheckContext, ExecTo
  <1>16. ASSUME NEW t \in Tasks, CheckPreconditions(t)
        PROVE  Kept(q)
    BY <1>0, <1>16 DEF CheckPreconditions, ExecTo
  <1>17. ASSUME NEW t \in Tasks, Progress(t)
        PROVE  Kept(q)
    BY <1>0, <1>17 DEF Progress
  <1>18. ASSUME NEW t \in Tasks, RunReturns(t)
        PROVE  Kept(q)
    BY <1>0, <1>18 DEF RunReturns, ExecTo
  <1>19. ASSUME NEW t \in Tasks, ExecFinalize(t)
        PROVE  Kept(q)
    BY <1>0, <1>19 DEF ExecFinalize
  <1>20. ASSUME NEW t \in Tasks, Publish(t)
        PROVE  Kept(q)
    BY <1>0, <1>20 DEF Publish
  <1>21. ASSUME NEW t \in Tasks, Release(t)
        PROVE  Kept(q)
    BY <1>0, <1>21 DEF Release
  <1>22. ASSUME NEW t \in Tasks, ExecPost(t)
        PROVE  Kept(q)
    BY <1>0, <1>22 DEF ExecPost
  <1>23. ASSUME NEW t \in Tasks, TeardownFinalize(t)
        PROVE  Kept(q)
    BY <1>0, <1>23 DEF TeardownFinalize
  <1>24. ASSUME NEW t \in Tasks, TeardownPublish(t)
        PROVE  Kept(q)
    BY <1>0, <1>24 DEF TeardownPublish
  <1>25. ASSUME NEW t \in Tasks, TeardownPost(t)
        PROVE  Kept(q)
    BY <1>0, <1>25 DEF TeardownPost
  <1>s. CASE UNCHANGED vars
    BY <1>s DEF vars, manager, task, uiVars
  <1> QED
    BY <1>1, <1>2, <1>3, <1>4, <1>5, <1>6, <1>7, <1>8, <1>9, <1>10, <1>11, <1>12, <1>13, <1>14, <1>15, <1>16, <1>17, <1>18, <1>19, <1>20, <1>21, <1>22, <1>23, <1>24, <1>25, <1>s
    DEF Next, UIThread, WorkerLoop, ExecuteTask, Teardown

\* Ended tasks keep their state, cancelling ones only end, and only finalized
\* tasks are cleared from the list.
THEOREM NoRevivalAlways == Spec => NoRevival
  <1>1. TypeOK /\ Life /\ [Next]_vars => [\A t \in Tasks : Kept(t)]_vars
    BY StepKept
  <1>2. Spec => [][\A t \in Tasks : Kept(t)]_vars
    BY <1>1, LifeCorrect, PTL DEF Spec
  <1> QED
    BY <1>2 DEF NoRevival, Kept
=============================================================================
