------------------------------ MODULE QueueView ------------------------------
(* The queue window, internal/fileops/queue.go: how what happens to the      *)
(* tasks of OpQueueManager reaches the window through RequestRefresh, the UI *)
(* tasks that Enqueue and a completion post, and RefreshUI.  The tasks       *)
(* themselves are module OpQueue; here a task only makes news, numbered in   *)
(* the order the locks take it.  nextRunnable makes none: "Starting" is      *)
(* drawn with the next news of any task.                                     *)
EXTENDS Naturals, Sequences, FiniteSets, SequencesExt

CONSTANTS
  Tasks,
  UI,           \* the UI goroutine
  MaxNews       \* bound: the news ever made

Actors == Tasks \cup {UI}

VARIABLES
  news,            \* the latest news
  refreshPending,  \* OpQueueManager.refreshPending
  at,              \* where a goroutine stands, "new" for a task before Enqueue
  queue,           \* the UI task queue
  frame,           \* OpQueueManager.frame is set
  shown            \* the news the window shows

vars == <<news, refreshPending, at, queue, frame, shown>>

Init ==
  /\ news = 0 /\ refreshPending = FALSE /\ queue = <<>> /\ frame = FALSE /\ shown = 0
  /\ at = [a \in Actors |-> IF a = UI THEN "run" ELSE "new"]

MakeNews == news < MaxNews /\ news' = news + 1
Goto(a, place) == at' = [at EXCEPT ![a] = place]
PostTask(what) == queue' = Append(queue, what)
-----------------------------------------------------------------------------
\* Enqueue lists the task and wakes the scheduler: the task may run ...
Enqueue(t) ==
  /\ at[UI] = "run" /\ at[t] = "new" /\ MakeNews
  /\ at' = [at EXCEPT ![UI] = "enqueue", ![t] = "run"]
  /\ UNCHANGED <<refreshPending, queue, frame, shown>>

\* ... before the task that opens the window is posted.
EnqueuePost ==
  /\ at[UI] = "enqueue" /\ Goto(UI, "run")
  /\ PostTask("ensure")
  /\ UNCHANGED <<news, refreshPending, frame, shown>>

\* UpdateScan and UpdateTransfer on the task's goroutine, and Cancel on the UI
\* goroutine, change a task and then call RequestRefresh.
Change(a) ==
  /\ at[a] = "run" /\ MakeNews
  /\ \E t \in Tasks : at[t] \notin {"new", "ended"}
  /\ Goto(a, "request")
  /\ UNCHANGED <<refreshPending, queue, frame, shown>>

\* (mutant) The pending refresh is not looked for.
RequestRefreshAlways(a) ==
  /\ at[a] = "request"
  /\ Goto(a, "post") /\ refreshPending' = TRUE
  /\ UNCHANGED <<news, queue, frame, shown>>

RequestRefresh(a) ==
  /\ at[a] = "request"
  /\ Goto(a, IF refreshPending THEN "run" ELSE "post")
  /\ refreshPending' = TRUE
  /\ UNCHANGED <<news, queue, frame, shown>>

PostRefresh(a) ==
  /\ at[a] = "post"
  /\ Goto(a, "run") /\ PostTask("refresh")
  /\ UNCHANGED <<news, refreshPending, frame, shown>>

\* The task ends; its completion refreshes the window as well.
End(t) ==
  /\ at[t] = "run" /\ MakeNews
  /\ Goto(t, "complete")
  /\ UNCHANGED <<refreshPending, queue, frame, shown>>

PostCompletion(t) ==
  /\ at[t] = "complete"
  /\ Goto(t, "ended") /\ PostTask("plain")
  /\ UNCHANGED <<news, refreshPending, frame, shown>>
-----------------------------------------------------------------------------
\* (mutant) The pending mark is never taken away.
RunTaskKeepsPending ==
  /\ at[UI] = "run" /\ queue # <<>>
  /\ queue' = Tail(queue) /\ Goto(UI, "show")
  /\ frame' = (frame \/ Head(queue) = "ensure")
  /\ UNCHANGED <<news, refreshPending, shown>>

\* The UI goroutine takes the next UI task up to its RefreshUI: a refresh
\* takes its pending mark away, and EnsureQueueWorkspace finds or opens the
\* window.
RunTask ==
  /\ at[UI] = "run" /\ queue # <<>>
  /\ queue' = Tail(queue) /\ Goto(UI, "show")
  /\ refreshPending' = (refreshPending /\ Head(queue) # "refresh")
  /\ frame' = (frame \/ Head(queue) = "ensure")
  /\ UNCHANGED <<news, shown>>

\* ClearFinished and the Clear button refresh the window themselves.
ClearFinished ==
  /\ at[UI] = "run" /\ frame /\ MakeNews
  /\ Goto(UI, "show")
  /\ UNCHANGED <<refreshPending, queue, frame, shown>>

\* RefreshUI lists the tasks for the window, when there is one, and the window
\* draws them as they are.
RefreshUI ==
  /\ at[UI] = "show" /\ Goto(UI, "run")
  /\ shown' = IF frame THEN news ELSE shown
  /\ UNCHANGED <<news, refreshPending, queue, frame>>

Reports(a) == Change(a) \/ RequestRefresh(a) \/ PostRefresh(a)

Next ==
  \/ \E t \in Tasks : Enqueue(t) \/ End(t) \/ PostCompletion(t)
  \/ \E a \in Actors : Reports(a)
  \/ EnqueuePost \/ RunTask \/ ClearFinished \/ RefreshUI

Spec == Init /\ [][Next]_vars

\* Goroutines go on with what they began and the UI goroutine runs its tasks.
FairSpec ==
  /\ Spec /\ WF_vars(EnqueuePost) /\ WF_vars(RunTask) /\ WF_vars(RefreshUI)
  /\ \A t \in Tasks : WF_vars(PostCompletion(t))
  /\ \A a \in Actors : WF_vars(RequestRefresh(a)) /\ WF_vars(PostRefresh(a))
-----------------------------------------------------------------------------
TypeOK ==
  /\ news \in 0..MaxNews /\ shown \in 0..news
  /\ refreshPending \in BOOLEAN /\ frame \in BOOLEAN
  /\ at \in [Actors -> {"new", "run", "enqueue", "show", "request", "post",
                        "complete", "ended"}]
  /\ queue \in Seq({"ensure", "refresh", "plain"})

\* However often tasks report, the UI task queue holds at most one refresh for
\* all of them beside what each task posts once.
QueueIsBounded ==
  /\ Cardinality({i \in DOMAIN queue : queue[i] = "refresh"}) <= 1
  /\ Len(queue) <= 1 + 2 * Cardinality({t \in Tasks : at[t] # "new"})

\* Whatever happened to a task is shown in the end, the news made while the
\* window was being opened or drawn included.
View == INSTANCE LatestWins WITH
          MaxValues <- MaxNews, newest <- news, over <- FALSE

ShowsLatest == View!Spec
===============================================================================
