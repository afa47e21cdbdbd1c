------------------------------- MODULE CopyPool -------------------------------
(* The multi-threaded copy engine of internal/fileops/copypool.go: copyPool   *)
(* (a fixed number of workers fed one file at a time by the goroutine that    *)
(* walks the tree; the first failure stops all of them) and dirScope (the     *)
(* counter that tells when everything under a folder is done, so that the     *)
(* folder's attributes are set last).  The walker opens a folder, hands out   *)
(* its files, walks its subfolders and gives the folder back, as walkFake     *)
(* does in copypool_test.go.  A job takes a view of the operation's state     *)
(* (FileOpState.acquireWorker), asks through the questionGate when its        *)
(* destination is taken, and copies its file, fails, or notices that the pool *)
(* has stopped.                                                               *)
EXTENDS Integers, Sequences, FiniteSets, Functions, SequencesExt

CONSTANTS
  Workers,      \* the goroutines of the pool
  Walker,       \* the goroutine that walks the tree and calls Wait
  Dirs, Root,   \* the folders of the tree and its root
  Parent,       \* Parent[d] for d # Root
  Files,
  FileDir,      \* FileDir[f]: the folder of file f
  Taken         \* files whose destination exists, which the user is asked about

Actors == Workers \cup {Walker}
None == "none"

Subdirs(d) == {s \in Dirs \ {Root} : Parent[s] = d}

\* The folders of a set that has d and, with a folder, its subfolders.
Under(d) ==
  {e \in Dirs : \A S \in SUBSET Dirs :
                  d \in S /\ (\A s \in S : Subdirs(s) \subseteq S) => e \in S}
FilesUnder(d) == {f \in Files : FileDir[f] \in Under(d)}

\* The folders are the tree under the root: no folder is below itself, so that
\* among any of them there is one with none of the others right below it.
ASSUME CopyAssumption ==
  /\ IsFiniteSet(Workers) /\ Walker \notin Workers
  /\ IsFiniteSet(Dirs) /\ Root \in Dirs /\ Parent \in [Dirs \ {Root} -> Dirs]
  /\ FileDir \in [Files -> Dirs]
  /\ Under(Root) = Dirs
  /\ \A S \in (SUBSET Dirs) \ {{}} : \E d \in S : Subdirs(d) \cap S = {}
  /\ Files \cap Dirs = {} /\ Actors \cap Dirs = {}
  /\ {None, "cancel", "ok"} \cap Files = {} /\ None \notin Workers

VARIABLES
  stopped,      \* the pool's context is done: a job failed or the parent cancelled
  cancelled,    \* the parent context is done
  err,          \* copyPool.err: "none", a file that failed, or "cancel"
  pending,      \* dirScope.pending of every folder
  stack,        \* the folders the walker has open, the innermost last
  walked,       \* folders the walker has entered and files it has taken up
  at,           \* where each goroutine stands
  arg,          \* the file or folder it is busy with there
  joberr,       \* what the job a worker has run returned
  ended,        \* files whose job returned, and how: "copied", "failed", "cancel"
  finishes,     \* how often finish ran for a folder
  result,       \* what Wait returned, "none" before
  gate,         \* questionGate.slot: the worker that holds it, or "none"
  answer,       \* the operation's answer: "each", or "all" once one is for all
  idle,         \* FileOpState.idle: the views given back, the last one on top
  view,         \* the view each worker has, 0 for none
  made          \* how many views newWorker has made

pool  == <<stopped, cancelled, err, result>>
walk  == <<stack, walked>>
local == <<at, arg, joberr>>
views == <<idle, view, made>>
asks  == <<gate, answer>>
vars  == <<pool, walk, local, pending, ended, finishes, asks, views>>

Init ==
  /\ stopped = FALSE /\ cancelled = FALSE /\ err = None /\ result = None
  /\ pending = [d \in Dirs |-> 0]
  /\ stack = <<>> /\ walked = {}
  /\ at = [a \in Actors |-> IF a = Walker THEN "walk" ELSE "idle"]
  /\ arg = [a \in Actors |-> None]
  /\ joberr = [w \in Workers |-> None]
  /\ ended = [f \in Files |-> None]
  /\ finishes = [d \in Dirs |-> 0]
  /\ gate = None /\ answer = "each"
  /\ idle = <<>> /\ view = [w \in Workers |-> 0] /\ made = 0

Goto(a, place) == at' = [at EXCEPT ![a] = place]
With(a, x)     == arg' = [arg EXCEPT ![a] = x]

\* The caller of the copy cancels it.
ParentCancel ==
  /\ ~ cancelled /\ result = None
  /\ cancelled' = TRUE /\ stopped' = TRUE
  /\ UNCHANGED <<err, result, walk, local, pending, ended, finishes, asks, views>>
-----------------------------------------------------------------------------
(***************************************************************************)
(* The walker                                                              *)
(***************************************************************************)
\* (mutant) A folder does not count in its parent.
OpenDirUncounted(d) ==
  /\ at[Walker] = "walk" /\ d \notin walked
  /\ IF d = Root THEN stack = <<>>
     ELSE /\ stack # <<>> /\ Parent[d] = Last(stack)
          /\ {f \in Files : FileDir[f] = Last(stack)} \subseteq walked
  /\ stack' = Append(stack, d)
  /\ walked' = walked \cup {d}
  /\ pending' = [pending EXCEPT ![d] = 1]
  /\ UNCHANGED <<pool, local, ended, finishes, asks, views>>

\* newDirScope: one count for the walker, one in the parent for the folder.
OpenDir(d) ==
  /\ at[Walker] = "walk" /\ d \notin walked
  /\ IF d = Root THEN stack = <<>>
     ELSE /\ stack # <<>> /\ Parent[d] = Last(stack)
          /\ {f \in Files : FileDir[f] = Last(stack)} \subseteq walked
  /\ stack' = Append(stack, d)
  /\ walked' = walked \cup {d}
  /\ pending' = [e \in Dirs |->
       CASE e = d -> 1
         [] d # Root /\ e = Parent[d] -> pending[e] + 1
         [] OTHER -> pending[e]]
  /\ UNCHANGED <<pool, local, ended, finishes, asks, views>>

\* goFile adds the file to its folder and asks the pool for a worker.  On a
\* stopped pool the count is taken back, and the walker gives up the walk, as
\* Go asks, or only the file and what it had not reached, as walkFake does.
GoFile(f) ==
  /\ at[Walker] = "walk" /\ stack # <<>>
  /\ FileDir[f] = Last(stack) /\ f \notin walked
  /\ walked' = walked \cup {f}
  /\ IF stopped
     THEN /\ Goto(Walker, "wait") \/ UNCHANGED at
          /\ UNCHANGED <<arg, pending>>
     ELSE /\ Goto(Walker, "send") /\ With(Walker, f)
          /\ pending' = [pending EXCEPT ![FileDir[f]] = @ + 1]
  /\ UNCHANGED <<pool, stack, joberr, ended, finishes, asks, views>>

\* The select of Go: a free worker takes the job, or the pool stops.
Send(w) ==
  /\ at[Walker] = "send" /\ at[w] = "idle"
  /\ at' = [at EXCEPT ![Walker] = "walk", ![w] = "got"]
  /\ arg' = [arg EXCEPT ![Walker] = None, ![w] = arg[Walker]]
  /\ UNCHANGED <<pool, walk, joberr, pending, ended, finishes, asks, views>>

SendRefused ==
  /\ at[Walker] = "send" /\ stopped
  /\ Goto(Walker, "wait") \/ Goto(Walker, "walk")
  /\ With(Walker, None)
  /\ pending' = [pending EXCEPT ![FileDir[arg[Walker]]] = @ - 1]
  /\ UNCHANGED <<pool, walk, joberr, ended, finishes, asks, views>>

\* Every entry of the innermost folder is handed out: the walker gives its
\* count back.
CloseDir ==
  /\ at[Walker] = "walk" /\ stack # <<>>
  /\ {f \in Files : FileDir[f] = Last(stack)} \cup Subdirs(Last(stack)) \subseteq walked
  /\ Goto(Walker, "done") /\ With(Walker, Last(stack))
  /\ stack' = Front(stack)
  /\ UNCHANGED <<pool, walked, joberr, pending, ended, finishes, asks, views>>

\* The whole tree is walked.
WalkEnd ==
  /\ at[Walker] = "walk" /\ stack = <<>> /\ Root \in walked
  /\ Goto(Walker, "wait")
  /\ UNCHANGED <<pool, walk, arg, joberr, pending, ended, finishes, asks, views>>

\* Wait closes the channel, waits for the workers and reports.
WaitReturns ==
  /\ at[Walker] = "wait" /\ \A w \in Workers : at[w] = "gone"
  /\ result' = IF err # None THEN err ELSE IF stopped THEN "cancel" ELSE "ok"
  /\ stopped' = TRUE
  /\ Goto(Walker, "gone")
  /\ UNCHANGED <<cancelled, err, walk, arg, joberr, pending, ended, finishes, asks, views>>
-----------------------------------------------------------------------------
(***************************************************************************)
(* The workers                                                             *)
(***************************************************************************)
\* acquireWorker: a view given back is used again, else one is made.
Acquire(w) ==
  IF idle # <<>>
  THEN view' = [view EXCEPT ![w] = Last(idle)] /\ idle' = Front(idle) /\ made' = made
  ELSE view' = [view EXCEPT ![w] = made + 1] /\ made' = made + 1 /\ idle' = idle

\* On a stopped pool a job is taken off the walker without being run.
TakeJob(w) ==
  /\ at[w] = "got"
  /\ IF stopped THEN Goto(w, "idle") /\ With(w, None) /\ UNCHANGED views
     ELSE Goto(w, IF arg[w] \in Taken THEN "ask" ELSE "copy") /\ UNCHANGED arg /\ Acquire(w)
  /\ UNCHANGED <<pool, walk, joberr, pending, ended, finishes, asks>>

\* The job ends with how; its deferred releaseWorker comes next.
Ends(w, how) ==
  /\ ended' = [ended EXCEPT ![arg[w]] = how]
  /\ joberr' = [joberr EXCEPT ![w] =
       CASE how = "copied" -> None [] how = "failed" -> arg[w] [] OTHER -> how]
  /\ Goto(w, "release")
  /\ UNCHANGED <<pool, walk, arg, pending, finishes, answer, views>>

\* ask gives up on an operation that is over, before the slot and while it
\* waits for it; a free slot may win over a context that is done.
AskCancelled(w) == at[w] \in {"ask", "gate"} /\ stopped /\ gate' = gate /\ Ends(w, "cancel")

AskWaits(w) ==
  /\ at[w] = "ask" /\ ~ stopped /\ Goto(w, "gate")
  /\ UNCHANGED <<pool, walk, arg, joberr, pending, ended, finishes, asks, views>>

TakeSlot(w) ==
  /\ at[w] = "gate" /\ gate = None
  /\ gate' = w /\ Goto(w, "slot")
  /\ UNCHANGED <<pool, walk, arg, joberr, pending, ended, finishes, answer, views>>

\* (mutant) The answers given meanwhile are not looked at again.
SlotAsksAnyway(w) ==
  /\ at[w] = "slot"
  /\ IF stopped THEN Ends(w, "cancel") /\ gate' = None
     ELSE /\ Goto(w, "show")
          /\ UNCHANGED <<pool, walk, arg, joberr, pending, ended, finishes, asks, views>>

\* With the slot: the context again, then the answers given meanwhile.
Slot(w) ==
  /\ at[w] = "slot"
  /\ \/ stopped /\ Ends(w, "cancel") /\ gate' = None
     \/ /\ ~ stopped
        /\ IF answer = "all" THEN Goto(w, "copy") /\ gate' = None
                             ELSE Goto(w, "show") /\ gate' = gate
        /\ UNCHANGED <<pool, walk, arg, joberr, pending, ended, finishes, answer, views>>

\* The user answers, for this file or for all; the gate is given back.
Answered(w) ==
  /\ at[w] = "show"
  /\ answer' \in {answer, "all"} /\ gate' = None
  /\ Goto(w, "copy")
  /\ UNCHANGED <<pool, walk, arg, joberr, pending, ended, finishes, views>>

\* The file is copied, or skipped on the user's word, or the copy fails.
JobReturns(w) ==
  /\ at[w] = "copy"
  /\ \E how \in {"copied", "failed"} \cup IF stopped THEN {"cancel"} ELSE {} : Ends(w, how)
  /\ gate' = gate

\* releaseWorker, and then the deferred done of the file's folder.
Release(w) ==
  /\ at[w] = "release"
  /\ idle' = Append(idle, view[w]) /\ view' = [view EXCEPT ![w] = 0] /\ made' = made
  /\ Goto(w, "done") /\ With(w, FileDir[arg[w]])
  /\ UNCHANGED <<pool, walk, joberr, pending, ended, finishes, asks>>

\* (mutant) The last error wins.
FailRecordLast(w) ==
  /\ at[w] = "fail"
  /\ err' = joberr[w]
  /\ Goto(w, "cancel")
  /\ UNCHANGED <<stopped, cancelled, result, walk, arg, joberr, pending, ended, finishes, asks, views>>

\* fail: the error is stored first ...
FailRecord(w) ==
  /\ at[w] = "fail"
  /\ err' = IF err = None THEN joberr[w] ELSE err
  /\ Goto(w, "cancel")
  /\ UNCHANGED <<stopped, cancelled, result, walk, arg, joberr, pending, ended, finishes, asks, views>>

\* ... and then every job is stopped.
FailCancel(w) ==
  /\ at[w] = "cancel"
  /\ stopped' = TRUE
  /\ joberr' = [joberr EXCEPT ![w] = None]
  /\ Goto(w, "idle")
  /\ UNCHANGED <<cancelled, err, result, walk, arg, pending, ended, finishes, asks, views>>

\* (mutant) Wait closes the channel only after the workers have left.
WorkerLeavesAfterWait(w) ==
  /\ at[w] = "idle" /\ at[Walker] = "gone"
  /\ Goto(w, "gone")
  /\ UNCHANGED <<pool, walk, arg, joberr, pending, ended, finishes, asks, views>>

\* The channel is closed and empty.
WorkerLeaves(w) ==
  /\ at[w] = "idle" /\ at[Walker] = "wait"
  /\ Goto(w, "gone")
  /\ UNCHANGED <<pool, walk, arg, joberr, pending, ended, finishes, asks, views>>
-----------------------------------------------------------------------------
(***************************************************************************)
(* dirScope.done, called by the walker and by the workers                   *)
(***************************************************************************)
\* Where a goroutine goes on after done.
Continue(a) ==
  /\ Goto(a, IF a = Walker THEN "walk"
             ELSE IF joberr[a] = None THEN "idle" ELSE "fail")
  /\ With(a, None)

DoneCount(a) ==
  /\ at[a] = "done"
  /\ pending' = [pending EXCEPT ![arg[a]] = @ - 1]
  /\ IF pending'[arg[a]] # 0 THEN Continue(a)
                            ELSE Goto(a, "last") /\ UNCHANGED arg
  /\ UNCHANGED <<pool, walk, joberr, ended, finishes, asks, views>>

\* The count is zero: finish unless the pool has stopped.
DoneLast(a) ==
  /\ at[a] = "last"
  /\ Goto(a, IF stopped THEN "up" ELSE "finish")
  /\ UNCHANGED <<pool, walk, arg, joberr, pending, ended, finishes, asks, views>>

DoneFinish(a) ==
  /\ at[a] = "finish"
  /\ finishes' = [finishes EXCEPT ![arg[a]] = @ + 1]
  /\ Goto(a, "up")
  /\ UNCHANGED <<pool, walk, arg, joberr, pending, ended, asks, views>>

\* Then the parent folder is told.
DoneParent(a) ==
  /\ at[a] = "up"
  /\ IF arg[a] = Root THEN Continue(a)
     ELSE Goto(a, "done") /\ With(a, Parent[arg[a]])
  /\ UNCHANGED <<pool, walk, joberr, pending, ended, finishes, asks, views>>
-----------------------------------------------------------------------------
WalkerStep ==
  \/ \E d \in Dirs : OpenDir(d)
  \/ \E f \in Files : GoFile(f)
  \/ \E w \in Workers : Send(w)
  \/ SendRefused \/ CloseDir \/ WalkEnd \/ WaitReturns

WorkerStep(w) ==
  \/ TakeJob(w) \/ AskCancelled(w) \/ AskWaits(w) \/ Slot(w) \/ Answered(w)
  \/ JobReturns(w) \/ Release(w) \/ FailRecord(w) \/ FailCancel(w) \/ WorkerLeaves(w)

Done(a) == DoneCount(a) \/ DoneLast(a) \/ DoneFinish(a) \/ DoneParent(a)

Next ==
  \/ ParentCancel \/ WalkerStep
  \/ \E w \in Workers : WorkerStep(w) \/ TakeSlot(w)
  \/ \E a \in Actors : Done(a)

Spec == Init /\ [][Next]_vars

\* Goroutines are scheduled, the user answers, and every job returns: a copy
\* sees the cancelled context between two blocks.  A slot given back again and
\* again is got by everyone who waits for it, which the runtime's queue of
\* senders sees to.  Nothing obliges anyone to cancel.
FairSpec ==
  /\ Spec /\ WF_vars(WalkerStep)
  /\ \A w \in Workers : WF_vars(WorkerStep(w)) /\ SF_vars(TakeSlot(w))
  /\ \A a \in Actors : WF_vars(Done(a))
-----------------------------------------------------------------------------
(***************************************************************************)
(* Properties                                                              *)
(***************************************************************************)
\* Where a goroutine has a file on its hands, and where a folder.
JobPlaces    == {"got", "ask", "gate", "slot", "show", "copy", "release"}
FinishPlaces == {"last", "finish", "up"}

\* Every variable has the type its comment gives; no count is ever negative.
TypeOK ==
  /\ stopped \in BOOLEAN /\ cancelled \in BOOLEAN
  /\ err \in Files \cup {None, "cancel"}
  /\ result \in Files \cup {None, "cancel", "ok"}
  /\ pending \in [Dirs -> Nat] /\ finishes \in [Dirs -> Nat]
  /\ stack \in Seq(Dirs) /\ walked \subseteq Dirs \cup Files
  /\ at \in [Actors -> JobPlaces \cup FinishPlaces \cup
                       {"walk", "send", "wait", "idle", "done", "fail", "cancel", "gone"}]
  /\ arg \in [Actors -> Dirs \cup Files \cup {None}]
  /\ joberr \in [Workers -> Files \cup {None, "cancel"}]
  /\ ended \in [Files -> {None, "copied", "failed", "cancel"}]
  /\ gate \in Workers \cup {None} /\ answer \in {"each", "all"}
  /\ idle \in Seq(Nat) /\ made \in Nat /\ view \in [Workers -> 0..made]

\* Attributes are set last: finish runs at most once for a folder, when every
\* file under it has been run and every subfolder is finished.
FinishIsLast ==
  \A d \in Dirs :
    /\ finishes[d] <= 1
    /\ finishes[d] = 1 =>
         /\ \A f \in FilesUnder(d) : ended[f] # None
         /\ \A s \in Subdirs(d) : finishes[s] = 1

\* Questions come one at a time, and one on display was not settled by an answer
\* for all that was given before it came up.
OneQuestion ==
  \A w \in Workers : at[w] = "show" => gate = w /\ answer = "each"

\* The workers' views are apart: a view has one worker or lies idle once, and
\* no more are made than worked at one time.
ViewsApart ==
  /\ IsInjective(idle) /\ made <= Cardinality(Workers)
  /\ \A w, x \in Workers : view[w] # 0 => view[w] \notin Range(idle) /\ (view[w] = view[x] => w = x)

\* The workers of a copy share the questions and the views, and never at once.
WorkersApart == OneQuestion /\ ViewsApart

\* Wait tells the truth: "ok" means every file was copied and every folder
\* finished; a job that merely saw the cancel never hides the real failure.
WaitIsTruthful ==
  /\ result = "ok" =>
       /\ \A f \in Files : ended[f] = "copied"
       /\ \A d \in Dirs : finishes[d] = 1
  /\ result = "cancel" => cancelled
  /\ result \in Files => ended[result] = "failed"

\* The walker never waits for ever for a worker, nor Wait for a worker that
\* is itself waiting: every copy ends, whatever fails or is cancelled when.
CopyEnds == <>(result # None)

\* The folder of a failed file is left without its attributes (copypool.go, "a
\* failed or cancelled copy leaves its folders ... without attributes").  The
\* code does not keep this when the failing job is the last under its folder:
\* dirScope.done runs before the pool learns of the failure.
FailedFolderNotFinished ==
  \A d \in Dirs :
    (\E f \in FilesUnder(d) : ended[f] = "failed") => finishes[d] = 0
===============================================================================
