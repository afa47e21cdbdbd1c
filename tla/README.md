# f4: specifications, checks and proofs

f4 is a two-panel file manager written in Go. This directory holds TLA+ models
of the parts of f4 in which several actors meet or a failure may come between
two steps: the background operation queue, the copying and moving itself, the
FISH+ connections to remote hosts, the loads of a panel, the editor's text and
its saving, and the updater. TLC checks every model on a small instance; TLAPS
proves the safety of all of them for every instance.
`PROJECT.json` lists the runs, the source lines every definition stands for, the
hazards the properties were chosen for and the theorems.

Run a check with `tlc -config OpQueue.cfg MCOpQueue.tla` (the table under
"Runs" gives the pairs) and a proof with `tlapm OpQueueProofs.tla`.

## The system

f4 is one process. One **UI goroutine** runs the frame manager's loop: it
handles keys and runs, one at a time and first in first out, the tasks other
goroutines hand it with `vtui.FrameManager.PostTask`. Panels, dialogs, the
editor and the viewer live there. Everything slow runs elsewhere and comes back
by a posted task:

```
 panels, dialogs, editor, viewer      (UI goroutine, PostTask)
      |  Enqueue, Cancel, quit               ^ completions, progress
      v                                      |
 OpQueueManager: workerLoop -> executeTask -> ExecuteFileOp... -> pumpFile
      |                                      |        (copyPool: many workers)
      v                                      v
 vfs.VFS: local | archive | netfox | cloudfox | docker | k8s | adb | ...
                              |
                     fishPool -> fishConn -> fishplus.Session -> a remote shell
```

### Components

Every component is listed in `PROJECT.json`; those with concurrency, failure
or retries of their own are:

| Component | State | Operations | What is hard | What makes it correct |
|---|---|---|---|---|
| Operation queue, `internal/fileops/queue.go`, `panel/apply_shutdown.go` | task table, task states, `activeKeys`, the `wake` channel, per-task context | Enqueue, Cancel, CancelAll, ClearFinished, workerLoop, executeTask, teardown, completion, wait at quit | a scheduler, a goroutine per task, teardown goroutines and the UI race; state is published, keys released and completions posted in separate critical sections; operations hang | one owner per task and per key; finalized before it stops counting; nothing revived; every completion runs; a cancelled task ends if its Run returns; quit drains or gives up on tasks that were all told to stop |
| Progress dialog, `dialogProgressScheduler` | latest update, dirty/scheduled/stopped flags, timers | request, run, tick, stop | many reporters, a throttle timer, posted callbacks | never older than what it showed; the last update is shown; one run at a time |
| Queue window | `refreshPending`, `frame` | RequestRefresh, RefreshUI, EnsureQueueWorkspace, ClearFinished | refreshes are coalesced while tasks change and the window is being opened | shows the last state; bounded posts |
| Copy and move, `ops.go` | the worker's place in the tree, answers for all, server-copy probe, `leftBehind` | scan, rename, server copy, scp, open/create/pump/commit, rollback, questions, source removal | four ways to move bytes with fall-backs, definite and unknown failures, cancellation and other programs between any two steps | nothing lost or replaced unasked; what is left half done is accounted for |
| Pump, `pump.go` | offset, retry mode, failures | read, write, retry | short reads with errors, retries by offset | output is a prefix; success is the whole; it ends unless a stream gives nothing for ever |
| Copy pool, `copypool.go`, and the workers' views, `ops.go` | stop flag, first error, per-folder counters, the slot of the question gate, the answer for all, the stack of idle views | submit, worker loop, fail, done, wait, ask, acquireWorker, releaseWorker | workers leave when one fails while the walker hands out jobs; several want to ask at once | attributes last and once; Wait truthful; one question at a time, and none that was answered for all; a view has one worker; no deadlock |
| FISH+ pool, `netfox/fish_pool.go`, `fish_vfs.go` | one idle connection per site, idle timers, per-connection count, client and closed flag | take, park, idle timer, closeAll, retain, release, reconnect, shutdown | two mutexes never held together; a timer's callback that has already fired | no connection or session lost; nothing in use is parked; the idle is closed |
| FISH+ session, `netfox/fishplus/session.go`, `keepalive.go` | request gate, closing/broken flags, the byte stream both ways | request, upload, drain, noop, mark broken, close | cancellation in the middle of an answer; uploads that stop halfway; timeouts racing answers | answers belong to their request; stream at a boundary between requests; every call returns |
| Panels, `panel/list.go`, `list_reconnect.go`, `frame.go` | the file system and path shown, the newest load's context, one running and one waiting load, workers left behind, the mount under way, `IsLoading`, rows, `DirCache` | read, reload, navigate, enter or leave a file system, open a path, elevate, reconnect | reads, mounts, sudo lookups and reconnects come back in any order, also when cancelled; some never do | at rest shows the newest listing of where it is; one request per connection; no mounted file system lost; loading ends unless the call it waits for never returns |
| Editor, `editor/view.go`, `save_mapping.go`, `piecetable` | pieces and the two buffers, undo and redo, the clean state, the mapping | edit, undo, redo, save in place, by delta, by stage and rename or rewrite | the file is rewritten under the text that is read from it; every step of a save may fail or have an unknown outcome | shows the edits; unmodified is saved; the text is always somewhere |
| Updater, `update/`, `unpack/`, `app/updater.go` | the files, their `.old` and numbered copies, the backup, the recorded version | back up, unpack, start check, record, restart, roll back, elevate | a kill between any two steps; rollback that fails too; Windows' rules for a running file | a build that starts is always there; what is told and recorded is installed |
| Config saving, history, RPC multiplexer, find-file, directory watch | see below | | | planned or left out |

The rest (archives, cloud, containers, devices, terminal emulation, rendering,
parsers, themes, packaging) is sequential code over libraries and platform
calls: it is listed as not modelled, each with its reason and with a principal
file of each of its packages.

### Interactions

* The UI enqueues a task and later runs its completion; the queue calls the
  operation's `Run` and `Finalize` on the task's goroutine. The queue knows
  nothing of files but paths, devices and sizes. `OpQueue` therefore treats a
  run as a step of any result; `Transfer` is what a run does.
* A run reports progress to its dialog (`DialogProgress`) and, through the
  manager, to the queue window (`QueueView`). Both live on one UI goroutine:
  `ProgressViews` composes them.
* `Transfer` ends a stream in one step `PumpFile`; `Pump` opens that step up
  and shows what the step assumes: a whole file, or a failure with a prefix
  behind it.
* `FileOpState`'s views and the question gate are used by a job of the copy
  pool, so they are part of `CopyPool`.
* A panel's loads run requests of a session; `PanelLoads` takes from a remote
  file system that it serves one request at a time and may lose its session.
  The editor and the updater meet the rest only through the file system.
* `FishPool` opens, breaks and closes sessions without looking inside one;
  `FishSession` is one session: breaking is its `broken`, closing its `Close`.

## Modules

| Module | Models | Notes |
|---|---|---|
| `OpQueue` | the queue | one action per critical section or blocking call; `worker`, `exec`, `teardown`, `ui` are program counters of the four kinds of goroutine |
| `MCOpQueue` | instances | three tasks on two devices, or a pair with a task without keys |
| `OpQueueProofs` | | eight theorems |
| `LatestWins` | abstract | what a view that may skip values promises |
| `DialogProgress` | the progress scheduler | implements `LatestWins` (`View`) |
| `QueueView` | the queue window | implements `LatestWins` (`View`) |
| `ProgressViews`, `MCProgressViews`, `ProgressViewsProofs` | both on one UI goroutine | EXTENDS the one, INSTANCEs the other; the theorems about each and about both |
| `Transfer`, `MCTransfer`, `TransferProofs` | one copy or move | `fs` is a function from paths to contents; `opt.via` says which pair of file systems it runs between |
| `Pump`, `MCPump` | `pumpFile` | bytes are numbers, all different; its theorems are in `TransferProofs`, which extends it too, hence its own names for `PumpInit`, `PumpNext`, `PumpSpec` |
| `CopyPool`, `MCCopyPool`, `CopyPoolProofs` | `copyPool`, `dirScope`, `questionGate`, the workers' views | under a walker as in `copypool_test.go`; the tree is `Parent` and `FileDir`, `Under(d)` the least set closed under subfolders |
| `FishPool`, `MCFishPool` | pool and connections of one site | the two mutexes' critical sections are the actions |
| `FishSession`, `MCFishSession` | one session after the handshake | the answers are a sequence of tokens: line, frame head, payload, terminator; `unread` is what the remote has still to read |
| `FishProofs` | | the theorems about each of the two, which it extends (hence the names `PoolInit`, `PoolNext`, `PoolSpec`) |
| `PanelLoads`, `MCPanelLoads`, `PanelLoadsProofs` | what one panel shows and when | the UI goroutine runs posted tasks in order; reads, mounts, lookups and reconnects are steps of their own |
| `EditorBuffer`, `MCEditorBuffer`, `EditorBufferProofs` | the piece table, undo, saving | bytes are numbers; `env` says what the file system can do |
| `Updater`, `MCUpdater`, `UpdaterProofs` | an update and its rollback | a file's content is the build it is of |

A definition marked `(mutant)` is the plausible bug of its neighbour; no
specification uses it. `PROJECT.json` "mutants" says which property each one
must break.

What the data became: a path, a task, a session and a request are model values;
the content of a file is the file it came from; an error is what the code tells
apart (definite or of unknown outcome, permission or existence, cancelled); a
payload is known by whether reading it as text would end at a line. Texts,
speeds, sizes on display and logging are left out.

### Correspondence, where it is not one to one

* `OpQueue`: `id = 0` is a task not enqueued yet; the list `tasks` is a set,
  since ids only grow. `Cancel` takes the lock (`CancelMark`), releases it and
  calls `cancel()` (`CancelContext`): two actions. `CancelAll` copies the list
  and calls `Cancel` on each: `sweep`. `executeTask` is `claimed -> precond ->
  run -> finalize -> publish -> release -> post -> ended`. `PathsMeet` is the
  prefix relation of cleaned paths.
* `Transfer`: `pc` names the call the worker makes next. `dest` is
  `destPathForFile`, `existed` is `destinationExisted`, `left` is
  `leftBehind()`. `via` is the pair of file systems: `samedisk` (the rename is
  tried), `disk` (one local disk, the rename is not tried), `cloud` (one account,
  with a copy and a rename of its own and an `AbortableWriter` that puts its
  file in place at Close), `sftp` (one account), `fish` (one FISH+ session: mv,
  cp, then scp from the host to itself, then the stream), `scp` (two hosts that
  reach each other), `upload` (anything to SFTP or FISH+), `staged` (anything to
  a cloud account or an archive). What each does differently has a name:
  `Replaces` and `Overwrites` ignore the conflict decision, `Lossy` reads a lost
  answer as a plain failure, `Staged` publishes at Close. `Carrier` and `Direct`
  are the order of the ways a file may go. `Scp` is the up to four attempts of
  the code in one. `consented`, `arrived`, `doubtful`, `abandoned` (last written
  by an scp or a server copy that failed) and `doubt` (a change of unknown
  outcome, reported as such or lost silently) are history variables: no action's
  guard reads them.
* `FishPool`: `held` is where `take` or `release` stands between the pool's
  lock and the connection's; `fired` is a callback that `Timer.Stop` came too
  late for; `dials` are the reconnects between their two locks.
* `FishSession`: `pc` is where the goroutine of a request stands; "linger" is
  `readResponseLines` between having a line and looking at the context. A
  `select` with two ready cases takes either. A noop is two goroutines: `pc` is
  where the one that sends it stands, and its caller is the action `Interrupt`, the
  compare-and-swap of the timeout. The goroutine takes its answer, claims its
  end (`Publish`, the other compare-and-swap on `outcome`), gives the gate back
  (`Release`) and only then reports (`NoopReturns`): the timeout may come between
  any two of these. `Debris` is
  what is left of a body when its upload was answered before it was read; what a
  request sent into it is answered (`SentIntoDebris`) is the remote's affair.
* `CopyPool`: `view[w]` is the view worker `w` has, `idle` the stack of views
  given back, `gate` the one slot of `questionGate`; a job stands at "ask",
  "gate", "slot" and "show" before it copies.
* `PanelLoads`: `load` numbers the contexts, `live` is the newest one's; a load
  is current (`Alive`) if both say so, as `ctx.Err() != nil || fp.loadCtx !=
  ctx` asks. `rows` says whose rows are on screen and which load read how many
  of their chunks: enough to tell a fresh listing from a stale, partial or
  cached one. `left` are workers whose generation is over. `insts` follows each
  file system made from "opening" over "handed" (in its posted task) to
  "installed" or "closed". The loading generation is kept only as `elev.own`,
  the one place that reads it. A read ends "ok", with an error, with its session
  lost, or with a `context.Canceled` of its own, which the panel takes for one it
  asked for (`LoadCancelled`).
* `EditorBuffer`: `job` is where `saveToFile` stands. `backing` is what the
  original buffer reads from: a mapping or chunks of the file, a copy in memory,
  or nothing yet ("loading": given up before a rename, to be read back if that
  is refused). `shown`, `base` and `gen` are history variables. `Rewritten`
  says that bytes of a mapping not read before may be the old or the new ones.
* `Updater`: `old` and `numbered` are `X.old` and `X.old.1` and so on;
  `stage[f]` is where `writeFileSafe` stands with file `f`. `place` is the
  platform's rules: unix, windows (a running file can be renamed but not
  removed or written), or a windows directory that needs elevation. `told` is
  the set of claims of one message, since the dialog's may hold two; `promised`
  says that its error claims already that the previous build was put back.

## Runs

All passing runs together take every action of every next-state relation.

| Run | Module, cfg | Shows |
|---|---|---|
| queue | MCOpQueue, OpQueue | three tasks, two devices: ownership of tasks and keys, finalized before not counted, drained means over, completion last, no revival, the small task that bypasses the keys stays apart |
| queue_live | MCOpQueue, OpQueueLive | starts and completes although operations hang; a cancelled task settles unless its Run does not return; quitting drains or gives up at its deadline with every active task told to stop |
| views | MCProgressViews, ProgressViews | both views on one UI goroutine: one run, bounded posts, both implement `LatestWins` |
| transfer | MCTransfer, Transfer | nothing lost or replaced unasked; what is reported as uncertain is not retried; sources and destinations settled; a cancelled operation ends unless one box keeps it |
| copy_pool | MCCopyPool, CopyPool | folder attributes last and once, Wait truthful, workers apart, the copy ends |
| pump | MCPump, Pump | only the file, all of it on success; ends, but on a stream that gives nothing for ever |
| fish_pool | MCFishPool, FishPool | nothing lost between the locks, idle connections are closed |
| fish_session | MCFishSession, FishSession | client and helper in step, a noop's timeout closes nobody else's session, every call returns |
| panel | MCPanelLoads, PanelLoads | at rest the newest listing, one remote read, no file system lost, loading ends unless the call it waits for never returns |
| editor | MCEditorBuffer, EditorBuffer | the table reads as the text, unmodified is saved, the text is somewhere |
| updater | MCUpdater, Updater | a build that starts survives, what is told and recorded is true but after a rollback that failed |
| editor_history | MCEditorBuffer, EditorHistory | a counterexample, see Findings |

A property named as a conjunction (`ZeroIsOver`, `Settled`, `InStep`,
`WorkersApart`, `NothingLost`, `OnlyTheFile`) joins parts that are defined, with
their own comments, just before it.

### Bounds, and why they are enough

* **queue** (`CalmSpec`): `big` and `small` on one device, so that one may wait
  for the key, bypass it or take it after the other; `wide` wants both devices
  and its paths meet those of `small`. As long as `wide` has not been enqueued
  the two others do everything; once it is, operations do not fail (failing and
  ending well differ in the text of the state only), one kind of progress is
  reported and the user cancels by quitting. Ownership and publication races
  are between one task and one other goroutine; a second task makes the count
  of active tasks and the sweep of `CancelAll` more than one step; the third
  makes the keys more than one.
* **queue_live** (`LiveSpec`): a folder copy and a MkDir without keys. Runs may
  hang for ever, cancelled or not. The token race needs two enqueues and one start.
  Progress and failing are left out, as they change no guard of another
  goroutine; the user cancels `big` or everything.
* **views**: two reporters and two updates (one on display, one that comes
  before, while or after it is drawn); two tasks and four pieces of news (both
  enqueued, and two changes that race the refreshes).
* **transfer**: a file and a folder of two files, over four pairs
  (`samedisk`, `cloud`, `sftp`, `fish`); nothing, or the file's destination, the
  folder's and one of its destinations taken beforehand. Two items show what carries over from one to the next (answers
  for all, `leftBehind`, the server-copy probe); two files in a folder show a
  skipped or failed sibling. A Rename answer names a free path; one that
  names a source, the file's own included, is left to the proofs, which are about
  any names. Another program may create two of the destinations. `disk`, `scp`,
  `upload` and `staged` add no action and no order: each is the tail of one of the
  four, after the ways it does not have. The proofs are about all eight.
* **copy_pool**: two workers, a root with a file and a subfolder of two files, so
  that a folder is finished by a worker, by the walker, and after a child it
  waits for; the two files of the subfolder have taken destinations, so that
  two workers want to ask at once. A third worker would make a queue at the
  gate, but the gate is one slot whoever waits for it.
* **pump**: five bytes, a buffer of two, three attempts: a last short piece, a
  retry in the middle, at the start and at the end.
* **fish_pool**: two connections competing for one entry, three sessions so that
  two reconnects of one connection race (`MaxDials = 2`), two views each
  (`MaxViews = 2`). A connection has at most one timer armed and one callback
  fired.
* **fish_session**: an upload, a read and a keepalive noop, each made once: one is
  cancelled, one comes next, and the noop finds the gate taken or free. A read's
  answer holds one frame of either form, or a refusal, or a header or terminator
  that makes no sense. An upload succeeds, or fails with its body read, or not.

* **panel** (`CalmSpec`): two local directories, one below the other, and the
  root of a remote file system; listings of one chunk; three of what the user, a
  timer or a finished operation asks for and of what fails (`MaxActs`), enough
  for a load, one that supersedes it and one that supersedes that, or a mount,
  its failure and what comes next. `DirCache` starts empty or with the remote
  root. `Calm` leaves out two things the code gets wrong (Known deviations):
  an elevated lookup begun while a load runs, and a refused walk through the
  history over rows that are not the panel's own listing.
* **editor** (`CalmSpec`): a file of two bytes on six kinds of file system, two
  edits, two saves, one undo state kept. Two bytes are split, trimmed and
  joined in every way by one edit; the second save writes a table whose
  original is the first one's file. `CalmNext` leaves out what the code does not
  survive (Known deviations): editing while a save runs, loading a state of an
  earlier table, and patching a file the pieces are not ranges of.
* **updater**: the executable and one file beside it, two workers, an archive of
  both or of the other file only, two updates: the second meets what a killed
  one left. A helper ends with the process that started it; the temporary
  directory with the backup is not cleared by the system between the two.

`CHECK_DEADLOCK FALSE` stands where the system may come to rest: all requests
were made and answered, all updates shown, the tree copied, every connection
closed with no session left to open. Liveness is checked there instead.

### Fairness

Weak fairness, but for two actions, on what Go's scheduler and timers guarantee: a
goroutine that can go on does, a timer that is armed fires, the UI goroutine
runs the tasks posted to it. Where a call may never come back, the property says
so instead of assuming that it does. In detail:

* `OpQueue`: the UI finishes what it began (`CancelContext`, the sweep), and at
  quit waits until nothing is active or for its five seconds
  (`apply_shutdown.go:20`); a posted completion gets its turn however busy the
  keyboard is (strong fairness of `RunCompletion`: the loop selects between the
  two at random); the scheduler wakes; `executeTask` and teardowns go on.
  Nothing is asked of `Run`, cancelled or not: it may sit in a system call, or
  before the box of `ops.go:1809`. `CancelSettles` and `QuitDrains` name that
  case, and say that then the task was told to stop. The user owes nothing.
* `Transfer`: the worker goes on, every call to a file system coming back. The
  user owes nothing. Every question is left when the operation is cancelled
  (`GiveUpAsking`), but for one box, which says that Append and Resume are not
  supported and is waited for without the operation's context: `CancelEnds`
  allows an operation to stand there ("told") for ever, and nowhere else.
* `FishPool`: timers fire, their callbacks and the goroutines inside take,
  release and shutdown go on. No view need be closed, no session break.
* `FishSession`: each request's own steps, timeouts included. The remote is
  never fair: `EveryCallReturns` holds for one that never answers.
  `CloseTransport` follows Close.
* `CopyPool`: a worker that waits for the gate gets it (strong fairness of
  `TakeSlot`): goroutines blocked on a Go channel are served in turn. The user
  answers a question.
* `PanelLoads`: posted tasks run, the worker goes on to the next load, and
  reconnects come back, the only calls with a deadline (`list_reconnect.go:48`).
  Mounts, sudo lookups and reads need not: `LoadingEnds` says that a spinner
  that stays on stands for one of them which the panel still waits for
  (`MountHangs`, `LookupHangs`, `ReadHangs`), and never for one it has given up,
  as a superseded local read that sits on a password nobody gives (f4#1411).
  The user owes nothing.
* `Pump`: a read or a write comes back; nothing says that a stream whose last
  read gave nothing ever gives more (`idle`).
* The views: every goroutine goes on; nobody has to report.

### Abstract specification

`LatestWins` says what a throttled view promises: what it shows only moves
forward, is never ahead of what came, and in the end is the last value unless
the view is over. `DialogProgress` maps `newest <- latest`, `shown <- applied`,
`over <- closed`; `QueueView` maps `newest <- news`, `shown <- shown` and is never
over: the manager keeps its window, and one that was closed is replaced and
redrawn in one UI task. Both are checked as PROPERTY (safety and
catching up) in the composition, and the safety part of both is proved.

## Proofs

All proofs are about the specifications with arbitrary constants, under the
named assumptions of the modules: `NoTaskAssumption` (no task is the
placeholder) and `KeysAssumption` (resource keys are keys) for the queue,
`PumpAssumption` (a sequence of numbers, a buffer and attempts of at least
one), `TransferAssumption`
(paths, items and files are of their sets, every file is where it is said to
be, and nothing is half written or new before the operation), `MarksAssumption` (what is no file is told apart from one),
`ItemsAssumption` (below), `ReportersAssumption` (finitely many goroutines),
`MaxUpdatesAssumption` and `WindowAssumption` (finitely many tasks, none of them
the UI goroutine), `UpdaterAssumption` (the executable is one of the files,
archives hold files), `FishAssumption` (the placeholders are no connection
and no session), `CopyAssumption` (finitely many workers; a finite tree: every
folder is under the root and no set of folders is closed under going down),
`PanelAssumption` (some directories are local, a parent directory is on the same
file system) and `NoneAssumption` (nil is no load, no read, no place and no
lookup), `EnvironsAssumption`, `OpenedAssumption` and `BoundsAssumption`
(each file system an editor may meet is one of `Environ`, only a local one frees,
maps or links; the opened file is a sequence of numbers; the bounds on edits,
saves and undo states are numbers), and `SessionAssumption` (each request asks for one kind of thing, and every answer
to a kind is `WellFormed`: it ends at its one terminator, a payload follows a
header, and only what asks for data is answered with frames. Which answers there
are, how long they are and whether their headers make sense is left open; a
remote that breaks the framing itself is the one thing assumed away, since the
protocol has nothing else to tell where an answer ends).

* **OpQueue** (`OpQueueProofs`). None of the queue's properties is inductive:
  whether a task may be finalized depends on who owns it, which is spread over
  `state`, `queuedFinalizing`, `exec`, `teardown` and the canceller's local
  `complete`. `TaskLife` says which of their combinations occur: a task is new
  or queued, then owned by a canceller, a teardown or an execution, never two,
  and its publication follows its Finalize. `TypeOK /\ Life` is inductive (one
  step per action) and gives `OneOwner`, `ZeroIsOver` and `CompletionIsLast`. `KeysHaveOneOwner` is inductive
  relative to it, from `StepKinds`: every step leaves `exec` and the keys
  alone, starts one task, moves one task between two places that hold its
  keys, or releases one task's. `SmallTaskApart` then needs that a start, by
  either side, looked at everything executing, and that paths meet
  symmetrically. `NoRevival` follows step by step from `Life`.
* **Transfer** (`TransferProofs`). `NothingLostUnasked` is not inductive: whether
  a source may be removed depends on what became of the copy. `Disk` says what
  the paths hold: the sources of the items to come are as they were
  (`Sources`), a file that arrived is where it arrived (`Arrived`), one that did not
  is where it was (`InPlace`), but for the paths the user gave away, and a folder
  that is not there holds nothing (`Children`). `Place` says where the worker is:
  the files it still has to do are the item's (`Walk`), a file of the item that
  is not to come has arrived or was counted as left behind (`Counted`), and the
  destination in hand is new or the user's to replace (`Spot`). So `left = mark`
  at the end of an item means that every file of it arrived, and the removal of
  its source is safe. The steps fall into seven kinds (`StepChanges`: they look, write,
  copy, enter, remove, move a whole item, or another program creates a path),
  and each part of `Disk` is kept by each kind. `OthersFilesStay` follows from
  `Spot`: an unasked step changes what was free, half a file of its own, or a
  source; what lets it change more is named by the pair of file systems.
  `UncertainIsNotRetried` needs that a reported doubt ends the operation, and that a
  silent one is had of a `Lossy` pair only (`Certain`). All of it holds for any items, files, paths, Rename answers and other
  programs, under `ItemsAssumption`: the items have sources of their own and no
  file in common, as the entries of one panel have; no folder is copied into an
  item or onto a source, an operation that `recursiveCopy` lets fail at the item it
  would copy into itself (`ops.go:1605`, `ops.go:1617`) and that the module leaves out;
  the names in a folder differ, a listing names a file once, nothing else is
  copied or renamed into it; and a folder that is not there holds nothing.
* **Transfer, what it leaves** (`TransferProofs`). `WholeItemsMove` turns `Counted`
  around: with no read error ignored, `left # mark` must mean that a file of the
  item did not arrive (`Missing`). That needs that a file is taken up once and that
  what is to come has not arrived (`Queued`, `ToCome`); `Strides` sorts the steps
  into five by what they do to the queue (keep to the file in hand, leave it,
  begin an item, end it, wait). `Settled` needs to know who answers for half a
  file: `Halves` says that it is the user, a refused rollback, a failed scp or
  server copy (`abandoned`), or the destination in hand (`Pending`), and `Stays` that a source which outlives its
  item was counted. It is proved for operations none of whose files goes to, or
  may be renamed to, a path that another of its files comes from (`NamesApart`).
  Without that it is false, of the code as of the model: a Rename answer that
  names another item's source gives that source away, and if it is then left half
  written, its own turn copies half a file to a destination nobody was asked
  about. `NothingLostUnasked` and the others above hold with any names. An
  empty folder whose creation failed with the error ignored keeps its source and
  has no file that did not arrive, which is why `WholeItemsMove` speaks of items
  with files.
* **Pump** (`TransferProofs`). `Aligned` is the strengthening: while the
  pump runs, `offset` counts exactly what has gone out and a stream that has not
  failed stands at it; a stream that has is never read at its own position
  again. With lemmas about `SubSeq` and concatenation this gives
  `OnlyTheFile` for every file, and `AttemptsBound`. It is what one step `PumpFile`
  of the transfer takes for granted.
* **DialogProgress** (`ProgressViewsProofs`). `IInv` joins the types,
  `OneRun` (the places a run can be sum to one exactly while `scheduled`
  holds), `NothingForgotten` (an update not on display has `dirty` or a run on
  its way) and the order `applied <= picked <= latest`; the order alone is not
  inductive, since two runs could apply out of turn. `Refines` maps every step
  to a step of `LatestWins` or a stutter.
* **QueueView and ProgressViews** (`ProgressViewsProofs`). That the UI task queue
  stays short is not inductive: whether a report may post a refresh depends on
  `refreshPending`, which the goroutine that set it, the post and the task that
  clears it have between them. `Posted` counts: the refreshes in the queue and the
  goroutines about to post one are exactly one while the flag is set and none
  otherwise; tasks that open the window are at most the tasks enqueued, and
  completions at most the tasks ended. With the types and `Stands` (who can be
  where) it is inductive, from lemmas on the positions of a value in a queue that
  grows at its end and loses its head. `WindowIsBounded` adds the three up.
  `EachIsItself` says that sharing the UI goroutine adds no step to either view,
  so that each one's theorems hold beside the other, `BothRefine` the two
  refinements of `LatestWins` among them.
* **Updater** (`UpdaterProofs`). That a build survives cannot be seen from the
  files alone: while they are being replaced it depends on where the update
  stands. `IInv` adds `BackedUp` (from the backup on, and until the update lets
  go of it, it is the build that ran), `Unpacked` (which of a file, its `.old`
  and its numbered copies hold a build at each stage of `writeFileSafe`),
  `Told` and `Recorded` (what was said and saved agrees with `base` and the
  executable at each place of `pc`). `ABuildSurvives` follows from the first
  two, `TheRecordIsTrue` from the others.
* **FishPool** (`FishProofs`). `Owned` strengthens `NothingLost`: counts of
  views, the pool's entry, the goroutine between the two locks and fired
  callbacks are related for each connection, and each live session has exactly
  one connection or dial. It is inductive with the types, one step per critical
  section.
* **CopyPool** (`CopyPoolProofs`). A worker that gives back a folder's last count
  sees a number, not the tree, so `FinishIsLast` needs to know what the number
  counts: `Holding(d)` is the goroutines with a job of `d` or about to give its
  count back, the subfolders that are not over, and the walker while it has `d`
  open; `Counted` says `pending[d]` is never below its size and equal to it until
  the pool stops (a job taken off a stopped pool keeps its count for ever, which
  is why equality alone is false). With it go `Walk` (the walker's stack holds no
  folder twice; what it left was handed out), `OneJob` (each file is one
  goroutine's), `OneLast` (one goroutine takes the last count) and `Finished`.
  That everything *under* a folder is done, and not only what is in it, follows
  by the least closed set `Under`: no induction over the tree. `Errors` and
  `Returned` give `WaitIsTruthful`: what a worker carries is what its file ended
  with, so a failure is recorded or carried until it is, and one that merely
  saw the pool stop is recorded only after another's, or a real cancellation. Its "ok" part needs `Finished` at the root.
  `WorkersApart` follows from `Asking` and `Viewing`, with lemmas on injective
  sequences for the stack of idle views. `IInv` joins twelve named parts; TLC
  checked it on trees of two and of three levels before it was proved.
* **FishSession** (`FishProofs`). `InStep` speaks of the stream only while
  nobody reads, and of what was gathered; in between it depends on how much of
  the answer is still on its way. `Answering` says that what is left, sent or
  unsent, is the end of the reader's answer (`Remains(Whole(q))`), so the
  reader's terminator is the last thing there is: whoever stops there leaves
  nothing. `Quiet` is the other half: a session in order that nobody reads has
  nothing left. `Gathers` says that what was gathered and what is left make up
  the whole answer, and that the reader stands after a header exactly when it
  reads a frame: therefore no payload is read as lines while somebody wants
  the answer (it may be while draining, see `FramesDrainAsFrames` below, which is
  why `Gathering` ends there and `Remains` does not). `StepKinds` reduces the
  twenty-six actions to twelve kinds by what they do to the gate and the wire,
  and each part of `IInv` is one lemma over the kinds. `TimeoutHitsItsOwn` cannot be
  read off `Interrupt`, which looks at `outcome` only and not at the gate: `Claims`
  says that a noop that has given the gate back has claimed its end before, so
  that an unclaimed one still has the session, and that once a timeout has claimed
  one, nobody else is on the wire or can get there.
* **PanelLoads** (`PanelLoadsProofs`). `OneRemoteRead` is inductive at once as
  `LeftAreLocal`, since `Enqueue` leaves only a local read behind.
  `MadeIsOwned` needs to know who else might close or take a file system:
  `Owned` says that each mount under way has one that is "opening", each posted
  mount one that is "handed" or "closed", no two the same, and that the panel's
  and its parent's are installed and differ. Neither depends on which mount the
  panel waits for (`open`): a stale one closes only its own.
  `SettledIsNewest` needs where the newest load is: `Followed` says that it waits,
  is read, or has its chunks and then its end posted, in one place only, and
  that the chunks on display and those posted add up to what was read. A load that was
  superseded or cancelled is told apart by its number, which `Known` bounds
  wherever a load is kept. That its chunks never come under a spinner that is
  off follows by counting: a complete cached listing leaves none to come
  (`ChunkShown`). It is proved under `Calm`, without which the code does not
  keep it (Known deviations), and, unlike in the run, for any content of
  `DirCache` and any number of chunks. `LookupIsOne` (a sudo lookup is under way
  or has come exactly while `elev` says so) is part of the types: `Elevated` reads
  `elev`.

* **EditorBuffer** (`EditorBufferProofs`). The first half is about the piece table
  alone, for all lists of pieces, buffers and offsets: `Cut` (`Upto` and `From`
  read as the two halves of the text around an offset), from it `InsertReads`
  and `DeleteReads` (they do to the text what their names say, also where the
  last piece grows in place), `SameOriginal` and `SameBytes` (what a list of
  pieces reads depends only on the bytes it points at), and `Patched` (writing
  only the added pieces over the file, then truncating it, leaves the text, if every
  original piece stands where it was). `Size`, `TextOf` and `Overlaid` are recursive functions:
  that they exist and obey their equations is shown first (`Sums`, `Texts`,
  `Overlays`). The inductions are over sets of numbers and of sequences
  (`Climb`, `Growth`, from the least member of a set of numbers), since the
  library's theorems take the induction hypothesis as an operator.
  The second half is `EditorInv`. None of the three properties is inductive: that
  the table reads as the text has to survive `orig` becoming another buffer
  and the file another content, so `TableReads` says it of the bytes read and
  of the file the pieces are ranges of (`base`), which differ between a
  rename and the reopening. `Stacks` says the same of every state of the history
  that belongs to this table: `Undo` and `Redo` install one.
  `Staged` says what each place of `job` has reached, `Backed` when Windows
  may have let go of the text (`textLost`, or a save that can still map it again),
  `Saved` is `CleanIsSaved` also while a save runs. All is about `CalmSpec`,
  the editor used as it is meant to be; what happens otherwise is among the
  Findings, and `HistoryReads`, which the code does not keep, remains a
  counterexample.

Only model-checked: every liveness property (`IdleIsClosed`, the catching-up half of
`LatestWins`, the four of `queue_live`, `CopyEnds`, `EveryCallReturns`,
`LoadingEnds`, `PumpEnds`, `CancelEnds`), since the prover has neither
fairness nor ENABLED.

## Findings

`editor_history`: an ordinary save puts a new piece table on the reopened file
in the place of the old one (`view.go:6250`) and keeps the undo and redo stacks,
whose states are pieces of the old one. `save_as.go:379` says that such states
"would load garbage; the history has to start over", and does so for Save As
only. After one edit and one save an undo reads other bytes, or beyond the end
of the new table's add buffer.

### Known deviations no run checks

These promises are not kept by the code. Those that have a name are stated in their
modules and are in no run's list. Where a passing run meets one, either its
property excepts the case in so many words, as said here, or its specification
leaves the case out and the Bounds say so.

* Lost answers are retried (`Transfer`, `doubt = "silent"`): `ops.go:1835` says that
  "Streaming over that uncertain destination can duplicate data or destroy the only
  recoverable copy, so these errors must reach the user unchanged". SFTP's and
  FISH+'s rename, FISH+'s copy and every scp (`ops.go:1870`) report a lost answer as
  a plain failure, and the next way is tried: the other direction, the password,
  the stream. `UncertainIsNotRetried` says it of what is reported as uncertain,
  and of silence on every other pair. Nothing is lost by it (`NothingLostUnasked`).
* What a failed scp or FISH+ copy left half written is not removed, where the stream
  that follows is skipped or given up before it creates the file (`ops.go:1957`):
  no rollback is made outside the stream. `NoRemains` has it as `abandoned`.
* `ConcurrentCreatorSpared` on FISH+, SFTP and scp (`Transfer`): FISH+'s mv and cp
  (`mutate.go:53`, `mutate.go:63`), scp, and the Create of SFTP
  (`sftp_vfs.go:450`) and FISH+ (`write.go:176`) do not look at the conflict
  decision, and replace what another program created since the Stat.
* A cancelled operation waits at the box of `ops.go:1809`, which does not watch its
  context; quitting then gives up on it after five seconds.
* `NeverOntoItself` (`Transfer`): the refusal to copy a file onto itself
  (`ops.go:1609`) is made before the questions; a Rename answer that names the
  source itself (`ops.go:1801`) passes it, and Overwrite then truncates the
  source.
* `ConcurrentCreatorSpared` (`Transfer`): the rollback promises never to delete
  a concurrent creator's object (`ops.go:2060`), but after a definite Close
  failure of a staged writer it removes whatever stands at the destination
  (`ops.go:2069`). `OthersFilesStay` is the same promise where it is kept.
* A stream that gives nothing and no error is read again for ever (`pump.go:59`),
  what its comment says "must not spin here forever" of reads by offset. `PumpEnds`
  names the case.
* An answered noop may still lose its session (`FishSession`): `session.go:979`
  promises that "a completed noop never loses the select lottery and gets its
  healthy session closed", but the answer is taken before its end is claimed
  (`session.go:985`), and the timeout may claim it in between. The session is
  then closed before anybody else has it, which is what `TimeoutHitsItsOwn` says.
* `FramesDrainAsFrames` (`FishSession`): a request cancelled while a frame's
  header line is in flight drops the header and drains the payload as lines
  (`session.go:621`), against `docs/FISH+.md:413`. It costs the session, not an
  answer: `InStep` holds.
* `NoDebris` (`FishSession`): a failed upload may leave the rest of its body on the
  wire, and the next request "would be parsed out of the middle of a file"
  (`write.go:112`). The uploader marks the session broken, but after the gate
  was given back (`write.go:116`), so that a request that waited for it may be
  sent first; and when the upload's context had ended, the terminator is
  taken for the boundary (`session.go:622`) and nobody marks the session at all.
  `OwnAnswer` is about requests that were not sent into such a rest.
* `HeldStaysOpen` (`FishPool`): `fish_pool.go:147` says a connection is never
  shut down while a view holds it. The idle callback (`fish_pool.go:97`) drops
  its connection if the key has *an* entry; when it fired before `take`
  stopped the timer, and another connection was parked meanwhile, it shuts
  down the connection that `take` handed out. The view reconnects.
* `FailedFolderNotFinished` (`CopyPool`): `copypool.go:145` says that a failed
  copy leaves its folders without attributes. A failing job that is the last
  one under its folder tells the folder (`copypool.go:184`) before the pool
  hears of the failure, and the folder is finished. The engine has no caller
  outside its tests in this commit.
* `HelperStarts` (`Updater`): `docs/UPDATER.md:124` says of a build that does not
  start that "the dialog and `f4 --update` put the previous build back". In a
  directory denied to f4 the elevated helper that would do so is the executable
  itself, by then the build that does not start. The backup stays.
* `PutBackIsPutBack` (`Updater`): the dialog's error says "The previous build has been
  put back." (`updater.go:250`) before the rollback is tried (`updater.go:257`);
  when that fails the message shown says both. `TheRecordIsTrue` excepts it.
* A read that the file system cancels by itself is taken for one the panel gave up
  (`list.go:3176`): the panel stops with a partial or empty listing and no error
  (`LoadCancelled` of `PanelLoads`). `SettledIsNewest` excepts it.
* `RowsAreOwn` (`PanelLoads`): a path that is opened shows the cached rows of its
  target over the old file system, which "the panel's provider-open guard"
  makes harmless (`list.go:829`). A walk through the folder history that gives
  up the mount and finds no directory to enter (`frame.go:7692`), or a URI whose
  plugin is missing (`frame.go:7671`), takes the guard away and starts no read:
  the foreign rows stay, over the old file system, and can be acted on. The same
  step after a load was cancelled leaves a partial listing that looks finished.

Others were found while modelling and are not stated as a formula, because the
module leaves out what they need:

* Panels: closing a directory watch waits for its callback under the mutex the
  callback takes (`dirwatch.go:113`, whose comment says it never does): the UI
  goroutine can hang. A refused sudo lookup clears the spinner of an older load
  that still runs (`list.go:2596`). Switching from a mounted file system to
  another closes the child only, never its parent (`frame.go:7418`). A remote
  path that is refused after its load was cancelled (`list.go:2555`) leaves the
  spinner on. The error of a failed reconnect is shown over wherever the panel
  is by then. With SyncPanelLoad the rows of the old directory can be acted on
  under the new path.
* Editor: an edit made while a save runs is lost when the new table is installed,
  and the text is called unmodified (`view.go:6250`). After a failed reopen, a
  failed rewrite in place or a rename of unknown outcome, the next save may
  patch a file the pieces are not ranges of (the comment at `view.go:5625`).
  Undo after a save in place reads bytes that were overwritten. The clean state
  survives a failed rewrite. Replace All installs a text computed from an older
  snapshot. On Windows a torn patch in place that changed the size, followed by
  a refused rename, loses the text, since the file is no longer the one that
  was mapped (`save_mapping.go:366`).
* Updater: two f4 processes may update at once, and only the executable is rolled
  back: the files beside it stay as the failed update left them.

## Not modelled

* Of `Transfer`: symbolic links and reparse points, attributes, extended
  attributes and alternate streams, free-space and path checks before the
  start, deletion and permission changes, multi-threaded copying (`CopyPool` has the
  engine; it has no caller yet), names that differ in case only, copying in bulk
  out of an archive (`ops.go:913`), the FTP backend's rename and its upload on a
  goroutine of its own, a FISH+ mv between two mounts that stops half-way. The four
  attempts of scp are one step. A rename whose answer was lost is one step with
  the stream's failure to find its source. A copy that was whole when its answer was
  lost counts as half a file.
* Of `FishSession`: the handshake and its bootstraps. Of `FishPool`: more than one site, whose entries do not
  interact.
* Of the panel: selection, cursor and sorting, quick search, folder history,
  eviction from `DirCache`, reloads over a clone's kept entries, the polling of
  the directory's time (a `Reload`), closing the frame, the second panel, which
  shares nothing with the first but its cache. A remote file system accepts any
  path when it is named, as FISH+ does.
* Of the editor: Save As to another path and new files, symbolic links and the
  write that keeps a file's identity, codepages and line ends beyond "the bytes
  of the text changed", restoring metadata, the line index, closing.
* Of the updater: finding and downloading a build, two updates at once, the
  system clearing its temporary directory, a helper that outlives f4.
* Of the queue: disk-space preconditions (a start may find its preconditions
  changed; why is data), the texts of states, and repeated `Enqueue` of one
  task object, which the code does not do. Of its window: the state "Starting"
  (`queue.go:646`), which no refresh follows.
* Components with status `not_modelled` in `PROJECT.json`: rendering, parsing,
  adapters over libraries and platform calls, where a model would restate a
  library; and those planned below.

## Plan

Done, the most important behaviour first: (1) `OpQueue` with its proofs; (2)
`Transfer` and `Pump`; (3) `FishPool`, `FishSession`; (4) the views and
`LatestWins`; (5) `CopyPool`, with the question gate and the workers' views; (6)
`EditorBuffer`; (7) `Updater` with its proofs; (8) `PanelLoads`;
(9) `CopyPoolProofs`, `FishProofs`, `ProgressViewsProofs` for both views,
`PanelLoadsProofs`, `TransferProofs`, `EditorBufferProofs`.

Next, theorems, in the order of what they would say that the runs do not:

1. An abstract queue (enqueued, running, over, completed; keys with owners) that
   `OpQueue` implements.

Next, models, as far as room allows: the directory watch with its debounce,
composed with `PanelLoads`; the atomic save of settings and the
read-modify-write of history and file state; the f4rpc multiplexer; the
editor's line index; the find-file pause gate; the sync plan against a
reference definition; the Android FISH+ pool.
