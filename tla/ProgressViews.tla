---------------------------- MODULE ProgressViews ----------------------------
(* The two views of running operations beside each other: the progress       *)
(* dialog of one of them and the window of the whole queue.  They share the  *)
(* UI goroutine, so a run of one waits until the task of the other is done.  *)
(* The UI task queue is first in, first out; which of the two views' tasks   *)
(* comes first is left open.                                                 *)
EXTENDS DialogProgress

CONSTANTS Tasks, UI, MaxNews

ASSUME WindowAssumption == MaxNews \in Nat /\ IsFiniteSet(Tasks) /\ UI \notin Tasks

VARIABLES news, refreshPending, at, queue, frame, shown

Window == INSTANCE QueueView

ViewsInit == Init /\ Window!Init

UIIsFree == at[UI] = "run" /\ picked = 0

window == <<news, refreshPending, at, queue, frame, shown>>

\* What a view does on the UI goroutine begins when the goroutine is free.
DialogOnUI == UIIsFree /\ (RunRead \/ CloseDialog \/ StopReporter)

WindowOnUI ==
  /\ picked = 0
  /\ \/ Window!EnqueuePost \/ Window!RunTask \/ Window!ClearFinished \/ Window!RefreshUI
     \/ \E t \in Tasks : Window!Enqueue(t)
     \/ Window!Reports(UI)

DialogElsewhere ==
  RunApply \/ Tick \/ TickPost \/ \E r \in Reporters : Request(r) \/ Post(r)

WindowElsewhere ==
  \E t \in Tasks : Window!End(t) \/ Window!PostCompletion(t) \/ Window!Reports(t)

ViewsNext ==
  \/ (DialogOnUI \/ DialogElsewhere) /\ UNCHANGED window
  \/ (WindowOnUI \/ WindowElsewhere) /\ UNCHANGED vars

ViewsSpec == ViewsInit /\ [][ViewsNext]_<<vars, window>>

\* Every goroutine goes on with what it began, timers fire, and the UI
\* goroutine runs its tasks; nobody has to report anything.
ViewsFairSpec ==
  /\ ViewsSpec
  /\ \A r \in Reporters : WF_vars(Post(r))
  /\ WF_vars(UIIsFree /\ RunRead) /\ WF_vars(RunApply) /\ WF_vars(Tick) /\ WF_vars(TickPost)
  /\ WF_window(picked = 0 /\ (Window!EnqueuePost \/ Window!RunTask \/ Window!RefreshUI))
  /\ \A t \in Tasks : WF_window(Window!PostCompletion(t))
  /\ \A a \in Tasks : WF_window(Window!RequestRefresh(a) \/ Window!PostRefresh(a))
  /\ WF_window(picked = 0 /\ (Window!RequestRefresh(UI) \/ Window!PostRefresh(UI)))
-----------------------------------------------------------------------------
\* However often tasks report, the queue window puts a bounded number of tasks
\* on the UI goroutine: one refresh for all of them beside each task's own two.
WindowIsBounded == Window!QueueIsBounded

\* The queue window shows everything that happened to a task in the end, while
\* the progress dialog takes the UI goroutine away from it.
WindowShowsLatest == Window!ShowsLatest
===============================================================================
