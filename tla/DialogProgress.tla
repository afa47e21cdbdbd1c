---------------------------- MODULE DialogProgress ----------------------------
(* The progress dialog's updates: dialogProgressScheduler, internal/fileops/ *)
(* queue.go.  Goroutines of the operation request updates; the UI goroutine  *)
(* applies the latest one, at most one per interval.  Updates are numbered   *)
(* in the order the scheduler's lock takes them.                             *)
EXTENDS Naturals, FiniteSets

CONSTANTS
  Reporters,    \* the goroutines that report progress
  MaxUpdates    \* bound: updates ever requested

ASSUME ReportersAssumption == IsFiniteSet(Reporters)
ASSUME MaxUpdatesAssumption == MaxUpdates \in Nat

VARIABLES
  latest, dirty, scheduled, stopped,   \* the scheduler's fields
  posting,      \* the reporters past the lock of request, about to post run
  queued,       \* how many runs wait in the UI task queue
  picked,       \* the update the running run has read, 0 when none runs
  timers,       \* interval timers set
  fired,        \* timer callbacks past their lock, about to post run
  closed,       \* the dialog is done: the user cancelled it, or it was closed
  applied       \* the update on display

vars == <<latest, dirty, scheduled, stopped, posting, queued, picked, timers,
          fired, closed, applied>>

Init ==
  /\ latest = 0 /\ dirty = FALSE /\ scheduled = FALSE /\ stopped = FALSE
  /\ posting = {} /\ queued = 0 /\ picked = 0 /\ timers = 0 /\ fired = 0
  /\ closed = FALSE /\ applied = 0

\* (mutant) Every update schedules a run.
RequestAlways(r) ==
  /\ r \notin posting /\ ~ stopped /\ latest < MaxUpdates
  /\ latest' = latest + 1
  /\ scheduled' = TRUE /\ dirty' = FALSE
  /\ posting' = posting \cup {r}
  /\ UNCHANGED <<stopped, queued, picked, timers, fired, closed, applied>>

\* request, under its lock: the first update schedules a run, one that comes
\* while a run is scheduled only marks that there is more.
Request(r) ==
  /\ r \notin posting /\ ~ stopped /\ latest < MaxUpdates
  /\ latest' = latest + 1
  /\ scheduled' = TRUE /\ dirty' = scheduled
  /\ posting' = IF scheduled THEN posting ELSE posting \cup {r}
  /\ UNCHANGED <<stopped, queued, picked, timers, fired, closed, applied>>

\* ... and the post after it.
Post(r) ==
  /\ r \in posting
  /\ posting' = posting \ {r} /\ queued' = queued + 1
  /\ UNCHANGED <<latest, dirty, scheduled, stopped, picked, timers, fired,
                 closed, applied>>

\* run, on the UI goroutine: the latest update is read ...
RunRead ==
  /\ queued > 0 /\ picked = 0
  /\ queued' = queued - 1 /\ picked' = latest
  /\ UNCHANGED <<latest, dirty, scheduled, stopped, posting, timers, fired,
                 closed, applied>>

\* ... applied to a dialog that is not done, and the interval begins.
RunApply ==
  /\ picked > 0
  /\ applied' = IF closed THEN applied ELSE picked
  /\ picked' = 0 /\ timers' = timers + 1
  /\ UNCHANGED <<latest, dirty, scheduled, stopped, posting, queued, fired, closed>>

\* (mutant) A run that found nothing more to show stays scheduled.
TickStaysScheduled ==
  /\ timers > 0 /\ timers' = timers - 1
  /\ IF stopped \/ ~ dirty THEN UNCHANGED <<dirty, fired>>
     ELSE dirty' = FALSE /\ fired' = fired + 1
  /\ UNCHANGED <<latest, scheduled, stopped, posting, queued, picked, closed, applied>>

\* The interval is over: another run when there is more, else none is
\* scheduled any longer.
Tick ==
  /\ timers > 0 /\ timers' = timers - 1
  /\ IF stopped \/ ~ dirty THEN scheduled' = FALSE /\ UNCHANGED <<dirty, fired>>
     ELSE dirty' = FALSE /\ fired' = fired + 1 /\ UNCHANGED scheduled
  /\ UNCHANGED <<latest, stopped, posting, queued, picked, closed, applied>>

TickPost ==
  /\ fired > 0 /\ fired' = fired - 1 /\ queued' = queued + 1
  /\ UNCHANGED <<latest, dirty, scheduled, stopped, posting, picked, timers,
                 closed, applied>>

\* The user cancels the dialog; the operation goes on until it notices.
CloseDialog ==
  /\ picked = 0 /\ ~ closed /\ closed' = TRUE
  /\ UNCHANGED <<latest, dirty, scheduled, stopped, posting, queued, picked,
                 timers, fired, applied>>

\* The operation ended: Stop and Close, in one UI task.
StopReporter ==
  /\ picked = 0 /\ ~ stopped
  /\ stopped' = TRUE /\ dirty' = FALSE /\ closed' = TRUE
  /\ UNCHANGED <<latest, scheduled, posting, queued, picked, timers, fired, applied>>

Next ==
  \/ \E r \in Reporters : Request(r) \/ Post(r)
  \/ RunRead \/ RunApply \/ Tick \/ TickPost \/ CloseDialog \/ StopReporter

Spec == Init /\ [][Next]_vars

\* Goroutines are scheduled, the UI goroutine runs its tasks and timers fire.
FairSpec ==
  /\ Spec
  /\ \A r \in Reporters : WF_vars(Post(r))
  /\ WF_vars(RunRead) /\ WF_vars(RunApply) /\ WF_vars(Tick) /\ WF_vars(TickPost)
-----------------------------------------------------------------------------
TypeOK ==
  /\ latest \in 0..MaxUpdates /\ picked \in 0..latest /\ applied \in 0..latest
  /\ dirty \in BOOLEAN /\ scheduled \in BOOLEAN /\ stopped \in BOOLEAN
  /\ closed \in BOOLEAN /\ posting \subseteq Reporters
  /\ queued \in Nat /\ timers \in Nat /\ fired \in Nat

\* The places a run can be: a reporter or a timer about to post it, the UI
\* queue, the UI goroutine, and the interval after it.
Runs ==
  Cardinality(posting) + queued + (IF picked > 0 THEN 1 ELSE 0) + timers + fired

\* However fast updates come, the UI queue holds at most one run, and there is
\* one somewhere exactly while scheduled says so.
OneRun == Runs = IF scheduled THEN 1 ELSE 0

\* An update nobody will apply is either on display, or too late: the dialog
\* is done.  What is not shown yet has a mark or a run on its way to read it.
NothingForgotten ==
  applied = latest \/ closed \/ dirty \/ picked = latest
    \/ posting # {} \/ queued > 0 \/ fired > 0

\* The display only moves forward and in the end shows the latest update.
View == INSTANCE LatestWins WITH
          MaxValues <- MaxUpdates, newest <- latest, shown <- applied, over <- closed

ShowsLatest == View!Spec
===============================================================================
