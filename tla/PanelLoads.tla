----------------------------- MODULE PanelLoads -----------------------------
(* How a file panel gets the rows it shows: directory loads, navigation,     *)
(* provider mounts, elevated directories and reconnects of one               *)
(* FileSystemPanel.                                                          *)
(*                                                                           *)
(* Key presses and posted tasks run one at a time on the UI goroutine, each  *)
(* to its end; reads, mounts, sudo lookups and reconnects run beside it and  *)
(* come back as posted tasks, in order.  A load is superseded by cancelling  *)
(* its context: its read may go on, and tasks it posted may still be queued. *)
EXTENDS Integers, Sequences, FiniteSets

CONSTANTS
  Dirs,       \* the directories, of the local disk and of remote file systems
  Local,      \* those of the local disk
  Up,         \* the parent directory of each, None at the root of a file system
  Home,       \* where the panel starts
  None,
  MaxChunks,  \* bound: chunks of one listing
  MaxActs     \* bound: what the user, a timer or a finished operation asks for,
              \*   and what fails

ASSUME PanelAssumption ==
  /\ None \notin Dirs \cup Nat
  /\ Local \subseteq Dirs /\ Home \in Local
  /\ Up \in [Dirs -> Dirs \cup {None}]
  /\ \A d \in Dirs : Up[d] # None => (d \in Local <=> Up[d] \in Local)
  /\ MaxChunks \in Nat /\ MaxActs \in Nat

VARIABLES
  sync,       \* config.App.SyncPanelLoad
  vfs,        \* Vfs and its path: [inst, dir]
  parent,     \* its ParentVFS and the path of that, or None
  insts,      \* of each file system made so far: opening, handed, installed, closed
  load,       \* number of the newest load: loadCtx
  live,       \* its context is not cancelled
  isLoading,
  failed,     \* the last load ended without its listing: in an error, which the
              \*   panel shows, or cancelled by another than the panel
  rows,       \* whose rows, read by which load (0: not read but kept from
              \*   DirCache, or only ".."), and how many of its chunks
  last,       \* lastLoadedPath
  cache,      \* DirCache: the chunks of the listing kept of a directory, or None
  running,    \* the worker of the load queue: [load, st, got], or None
  pending,    \* pendingDirectoryLoad, or None
  left,       \* directories still read by workers left behind
  tasks,      \* posted to the UI goroutine
  open,       \* ProviderOpenTask: the file system being mounted, 0: none
  mounts,     \* mounts under way: [k, dir, child, src]
  elev,       \* the sudo lookup under way: [src, dir, own], or None; own: its
              \*   LoadingGeneration is still the panel's
  asked,      \* questions about a lost connection on display
  trying,     \* reconnects under way
  acts

queue == <<running, pending, left>>
shown == <<isLoading, failed, rows>>
question == <<asked, trying>>
vars  == <<sync, vfs, parent, insts, load, live, shown, last, cache, queue, tasks,
           open, mounts, elev, question, acts>>

Alive(l) == live /\ l.n = load
Places   == [inst : Nat, dir : Dirs]
Loads    == [n : Nat, dir : Dirs, whole : BOOLEAN]
Reads    == [load : Loads, st : {"reading", "done"}, got : Nat]
Read(l)  == [load |-> l, st |-> "reading", got |-> 0]
Bare(d)  == [dir |-> d, by |-> 0, got |-> 0]
Results  == {"ok", "error", "lost", "cancelled"}
Lookups  == [src : Places, dir : Dirs, own : BOOLEAN]

\* Nothing is none of these.
ASSUME NoneAssumption == None \notin Places \cup Loads \cup Reads \cup Lookups

TypeOK ==
  /\ {sync, live, isLoading, failed} \subseteq BOOLEAN
  /\ vfs \in Places /\ parent \in Places \cup {None}
  /\ insts \in Seq({"opening", "handed", "installed", "closed"})
  /\ rows \in [dir : Dirs, by : Nat, got : Nat] /\ last \in Dirs
  /\ cache \in [Dirs -> Nat \cup {None}]
  /\ running \in Reads \cup {None}
  /\ pending \in Loads \cup {None} /\ left \subseteq Dirs
  /\ load \in Nat /\ open \in 0..Len(insts) /\ acts \in 0..MaxActs
  /\ asked \in Nat /\ trying \in Nat /\ elev \in Lookups \cup {None}

\* The panel starts reading its first directory; if it is a clone, over what
\* the DirCache of the other panel keeps.
Init ==
  /\ sync \in BOOLEAN
  /\ vfs = [inst |-> 1, dir |-> Home] /\ parent = None /\ insts = <<"installed">>
  /\ load = 1 /\ live = TRUE
  /\ isLoading = TRUE /\ failed = FALSE /\ rows = Bare(Home) /\ last = Home
  /\ cache \in [Dirs -> {None, MaxChunks}]
  /\ running = Read([n |-> 1, dir |-> Home, whole |-> sync])
  /\ pending = None /\ left = {} /\ tasks = <<>>
  /\ open = 0 /\ mounts = {} /\ elev = None /\ asked = 0 /\ trying = 0 /\ acts = 0
Costs(act) == IF act THEN acts < MaxActs /\ acts' = acts + 1 ELSE acts' = acts
-----------------------------------------------------------------------------
(* Starting a load, on the UI goroutine                                      *)

\* As before f4#1411: every read is waited for.
EnqueueWaits(l) ==
  \/ running = None
     /\ running' = Read(l) /\ UNCHANGED <<pending, left>>
  \/ running # None
     /\ pending' = l /\ UNCHANGED <<running, left>>

\* No read is waited for.
EnqueueAnyway(l) ==
  /\ left' = IF running = None THEN left ELSE left \cup {running.load.dir}
  /\ running' = Read(l) /\ pending' = None

\* At most one read waits for its turn, the newest one; a read of the local
\* disk, which may hang on a sudo prompt, is not waited for.
Enqueue(l) ==
  \/ running = None
     /\ running' = Read(l) /\ UNCHANGED <<pending, left>>
  \/ running # None /\ running.load.dir \notin Local
     /\ pending' = l /\ UNCHANGED <<running, left>>
  \/ running # None /\ running.load.dir \in Local
     /\ left' = left \cup {running.load.dir} /\ running' = Read(l) /\ pending' = None

\* The spinner passes to a newer claim; the sudo lookup e no longer owns it.
Claimed(e) == IF e = None THEN None ELSE [e EXCEPT !.own = FALSE]

\* readDirectoryEx of d over the rows now on screen: the cached rows of d, the
\* bare ".." of a directory just entered, or what there is.
ReadDirectory(d, now, e) ==
  LET kept == ~ sync /\ cache[d] # None
      l    == [n |-> load + 1, dir |-> d, whole |-> sync \/ kept] IN
  /\ load' = load + 1 /\ live' = TRUE
  /\ isLoading' = TRUE /\ failed' = FALSE
  /\ rows' = IF ~ sync /\ (kept \/ last # d) THEN Bare(d) ELSE now
  /\ last' = d
  /\ elev' = Claimed(e)
  /\ Enqueue(l)

\* The panel stops showing the rows of a file system it has left.
ReadInstalled(place) ==
  /\ vfs' = place
  /\ ReadDirectory(place.dir, Bare(place.dir), elev)
-----------------------------------------------------------------------------
(* The load worker                                                           *)

\* One chunk of the listing.  It is shown at once unless the rows are to be
\* replaced as a whole, by a load over cached rows or under SyncPanelLoad.
ReadChunk ==
  /\ running # None /\ running.st = "reading" /\ running.got < MaxChunks
  /\ Alive(running.load)
  /\ running' = [running EXCEPT !.got = @ + 1]
  /\ tasks' = IF running.load.whole THEN tasks
              ELSE Append(tasks, [kind |-> "chunk", load |-> running.load])
  /\ UNCHANGED <<sync, vfs, parent, insts, load, live, shown, last, cache, pending, left,
                 open, mounts, elev, question, acts>>

\* ReadDir returns, "cancelled" when the file system gave up by itself; a load
\* the panel cancelled by now posts nothing.
ReadReturns(res) ==
  /\ running # None /\ running.st = "reading"
  /\ res = "lost" => running.load.dir \notin Local
  /\ Costs(res # "ok")
  /\ running' = [running EXCEPT !.st = "done"]
  /\ tasks' = IF Alive(running.load)
                THEN Append(tasks, [kind |-> "done", load |-> running.load,
                                    got |-> running.got, res |-> res])
                ELSE tasks
  /\ UNCHANGED <<sync, vfs, parent, insts, load, live, shown, last, cache, pending, left,
                 open, mounts, elev, question>>

\* The worker takes the waiting load, or ends; a load cancelled before its
\* turn reads nothing.
WorkerNext ==
  /\ running # None /\ running.st = "done"
  /\ running' = IF pending = None THEN None
              ELSE [Read(pending) EXCEPT !.st = IF Alive(pending) THEN "reading" ELSE "done"]
  /\ pending' = None
  /\ UNCHANGED <<sync, vfs, parent, insts, load, live, shown, last, cache, left, tasks,
                 open, mounts, elev, question, acts>>

\* A worker left behind finds the queue is not its own any more.
LeftReturns ==
  /\ \E d \in left : left' = left \ {d}
  /\ UNCHANGED <<sync, vfs, parent, insts, load, live, shown, last, cache, running, pending,
                 tasks, open, mounts, elev, question, acts>>
-----------------------------------------------------------------------------
(* Posted tasks, on the UI goroutine                                         *)

\* The first chunk replaces the rows, the next ones add to them.
ShowChunk(t) ==
  /\ t.kind = "chunk"
  /\ rows' = IF ~ Alive(t.load) THEN rows
             ELSE IF rows.by = t.load.n THEN [rows EXCEPT !.got = @ + 1]
             ELSE [dir |-> t.load.dir, by |-> t.load.n, got |-> 1]
  /\ UNCHANGED <<vfs, parent, insts, load, live, isLoading, failed, last, cache, queue,
                 open, elev, question>>

LoadSuperseded(t) ==
  /\ t.kind = "done" /\ ~ Alive(t.load)
  /\ UNCHANGED <<vfs, parent, insts, load, live, shown, last, cache, queue, open, elev, question>>

LoadDoneAnyway(t) ==
  /\ t.kind = "done" /\ t.res = "ok"
  /\ cache' = [cache EXCEPT ![t.load.dir] = t.got]
  /\ rows' = IF t.load.whole \/ rows.by # t.load.n
               THEN [dir |-> t.load.dir, by |-> t.load.n,
                     got |-> IF t.load.whole THEN t.got ELSE 0]
               ELSE rows
  /\ isLoading' = FALSE /\ failed' = FALSE
  /\ elev' = Claimed(elev)
  /\ UNCHANGED <<vfs, parent, insts, load, live, last, queue, open, question>>

\* The listing is kept in DirCache and shown: at once, or what the chunks have
\* brought; none came from an empty directory.
LoadDone(t) ==
  /\ t.kind = "done" /\ Alive(t.load) /\ t.res = "ok"
  /\ cache' = [cache EXCEPT ![t.load.dir] = t.got]
  /\ rows' = IF t.load.whole \/ rows.by # t.load.n
               THEN [dir |-> t.load.dir, by |-> t.load.n,
                     got |-> IF t.load.whole THEN t.got ELSE 0]
               ELSE rows
  /\ isLoading' = FALSE /\ failed' = FALSE
  /\ elev' = Claimed(elev)
  /\ UNCHANGED <<vfs, parent, insts, load, live, last, queue, open, question>>

\* The session died: the user is asked.
LoadLost(t) ==
  /\ t.kind = "done" /\ Alive(t.load) /\ t.res = "lost"
  /\ isLoading' = FALSE /\ failed' = TRUE /\ asked' = asked + 1 /\ trying' = trying
  /\ elev' = Claimed(elev)
  /\ UNCHANGED <<vfs, parent, insts, load, live, rows, last, cache, queue, open>>

\* context.Canceled while the panel waits: nothing is said, what the chunks have
\* brought stays, and rows that were to be replaced as a whole become the bare "..".
LoadCancelled(t) ==
  /\ t.kind = "done" /\ Alive(t.load) /\ t.res = "cancelled"
  /\ rows' = IF rows.by = t.load.n THEN rows ELSE Bare(t.load.dir)
  /\ isLoading' = FALSE /\ failed' = TRUE /\ elev' = Claimed(elev)
  /\ UNCHANGED <<vfs, parent, insts, load, live, last, cache, queue, open, question>>

\* Any other error: the panel goes to the parent directory, which a local disk
\* may refuse, and at a root stays.
LoadFailed(t) ==
  /\ t.kind = "done" /\ Alive(t.load) /\ t.res = "error"
  /\ \/ Up[t.load.dir] # None
        /\ vfs' = [vfs EXCEPT !.dir = Up[t.load.dir]]
        /\ ReadDirectory(vfs'.dir, rows, elev)
     \/ (Up[t.load.dir] = None \/ t.load.dir \in Local)
        /\ isLoading' = FALSE /\ failed' = TRUE /\ elev' = Claimed(elev)
        /\ UNCHANGED <<vfs, load, live, rows, last, queue>>
  /\ UNCHANGED <<parent, insts, cache, open, question>>

MountStaleForgotten(t) ==
  /\ t.kind = "mount" /\ (open # t.mount.k \/ vfs # t.mount.src)
  /\ open' = IF open = t.mount.k THEN 0 ELSE open
  /\ UNCHANGED <<vfs, parent, insts, load, live, shown, last, cache, queue, elev, question>>

\* A mount nobody waits for any more, or whose panel has moved, is closed.
MountStale(t) ==
  /\ t.kind = "mount" /\ (open # t.mount.k \/ vfs # t.mount.src)
  /\ open' = IF open = t.mount.k THEN 0 ELSE open
  /\ insts' = [insts EXCEPT ![t.mount.k] = "closed"]
  /\ UNCHANGED <<vfs, parent, load, live, shown, last, cache, queue, elev, question>>

\* The source is listed again.
MountFailed(t) ==
  /\ t.kind = "mount" /\ open = t.mount.k /\ vfs = t.mount.src /\ ~ t.ok
  /\ open' = 0
  /\ ReadDirectory(vfs.dir, rows, elev)
  /\ UNCHANGED <<vfs, parent, insts, cache, question>>

\* Entered from a row, the source becomes ParentVFS; opened by its path, the
\* new file system replaces it (SwitchToVFS) and it is closed.
Mounted(t) ==
  /\ t.kind = "mount" /\ open = t.mount.k /\ vfs = t.mount.src /\ t.ok
  /\ open' = 0
  /\ parent' = IF t.mount.child THEN vfs ELSE None
  /\ insts' = [k \in DOMAIN insts |->
                 CASE k = t.mount.k                   -> "installed"
                   [] k = vfs.inst /\ ~ t.mount.child -> "closed"
                   [] OTHER                           -> insts[k]]
  /\ ReadInstalled([inst |-> t.mount.k, dir |-> t.mount.dir])
  /\ UNCHANGED <<cache, question>>

\* The sudo lookup clears the spinner if it is still its own, then moves the
\* panel if it has not moved meanwhile.
Elevated(t) ==
  /\ t.kind = "elevated"
  /\ \/ t.ok /\ vfs = elev.src
        /\ vfs' = [vfs EXCEPT !.dir = elev.dir]
        /\ ReadDirectory(elev.dir, rows, None)
        /\ UNCHANGED <<parent, insts, cache, open, question>>
     \/ ~ (t.ok /\ vfs = elev.src)
        /\ isLoading' = (isLoading /\ ~ elev.own)
        /\ elev' = None
        /\ UNCHANGED <<vfs, parent, insts, load, live, failed, rows, last, cache, queue, open, question>>

\* The reconnect came back: read again, wherever the panel is now.
Reconnected(t) ==
  /\ t.kind = "reconnect"
  /\ \/ t.ok /\ ReadDirectory(vfs.dir, rows, elev)
     \/ ~ t.ok /\ UNCHANGED <<load, live, shown, last, queue, elev>>
  /\ UNCHANGED <<vfs, parent, insts, cache, open, question>>

RunTask ==
  /\ tasks # <<>>
  /\ tasks' = Tail(tasks)
  /\ LET t == Head(tasks) IN
       \/ ShowChunk(t)  \/ LoadSuperseded(t) \/ LoadDone(t) \/ LoadLost(t)
       \/ LoadFailed(t) \/ LoadCancelled(t)
       \/ MountStale(t) \/ MountFailed(t)    \/ Mounted(t)
       \/ Elevated(t)   \/ Reconnected(t)
  /\ UNCHANGED <<sync, mounts, acts>>
-----------------------------------------------------------------------------
(* What the user asks for, on the UI goroutine; the question about a lost    *)
(* connection is modal                                                       *)

Asks == Costs(TRUE)
Free == asked = 0
SameFs(d) == d # vfs.dir /\ (d \in Local <=> vfs.dir \in Local)

\* Ctrl+R; an operation that ends, a changed time of the directory and the
\* directory watch reload the panel at any moment.
Reload ==
  /\ Asks
  /\ ReadDirectory(vfs.dir, rows, elev)
  /\ UNCHANGED <<sync, vfs, parent, insts, cache, tasks, open, mounts, question>>

\* Enter, Ctrl+PgUp, a path that is opened: a directory of the same file
\* system.  A mount under way is given up.
Navigate(d) ==
  /\ Asks /\ Free /\ SameFs(d)
  /\ vfs' = [vfs EXCEPT !.dir = d]
  /\ open' = 0
  /\ ReadDirectory(d, rows, elev)
  /\ UNCHANGED <<sync, parent, insts, cache, tasks, mounts, question>>

\* A walk through the folder history gives up the mount, and finds no
\* directory that can be entered: nothing is read.
NavigateRefused ==
  /\ Asks /\ Free /\ open # 0
  /\ open' = 0
  /\ isLoading' = FALSE /\ elev' = Claimed(elev)
  /\ UNCHANGED <<sync, vfs, parent, insts, load, live, failed, rows, last, cache, queue,
                 tasks, mounts, question>>

Close(k) == insts' = [insts EXCEPT ![k] = "closed"]

\* ".." at the root of a file system that was entered, or Close panel.
Leave ==
  /\ parent # None /\ parent' = None
  /\ Close(vfs.inst)
  /\ ReadInstalled(parent)
  /\ open' = 0
LeaveRoot ==
  /\ Asks /\ Free /\ Up[vfs.dir] = None
  /\ Leave
  /\ UNCHANGED <<sync, cache, tasks, mounts, question>>

\* A path of the local disk, from another file system.
SwitchToLocal(d) ==
  /\ Asks /\ Free /\ vfs.dir \notin Local /\ d \in Local
  /\ insts' = Append([insts EXCEPT ![vfs.inst] = "closed"], "installed")
  /\ parent' = None /\ open' = 0
  /\ ReadInstalled([inst |-> Len(insts) + 1, dir |-> d])
  /\ UNCHANGED <<sync, cache, tasks, mounts, question>>

\* openVFSAsync: the load is cancelled; what DirCache keeps of a path opened
\* before is shown until its file system is there.
OpenVFS(d, child) ==
  /\ open' = Len(insts) + 1
  /\ insts' = Append(insts, "opening")
  /\ mounts' = mounts \cup {[k |-> Len(insts) + 1, dir |-> d, child |-> child, src |-> vfs]}
  /\ live' = FALSE
  /\ isLoading' = TRUE /\ elev' = Claimed(elev)
  /\ rows' = IF ~ child /\ ~ sync /\ cache[d] # None THEN Bare(d) ELSE rows
  /\ UNCHANGED <<sync, vfs, parent, load, failed, last, cache, queue, tasks, question>>

\* Enter on a row does nothing while a mount is under way; a path gives it up.
EnterProvider(d) == Asks /\ Free /\ open = 0 /\ parent = None /\ d \notin Local /\ OpenVFS(d, TRUE)
OpenPath(d)      == Asks /\ Free /\ d \notin Local /\ OpenVFS(d, FALSE)

\* Escape gives the mount up.
EscapeMount ==
  /\ Asks /\ Free /\ open # 0
  /\ open' = 0
  /\ ReadDirectory(vfs.dir, rows, elev)
  /\ UNCHANGED <<sync, vfs, parent, insts, cache, tasks, mounts, question>>

\* navigateElevatedDirectoryAsync: Enter on a directory only root may read.
Elevate(d) ==
  /\ Asks /\ Free /\ open = 0 /\ elev = None
  /\ vfs.dir \in Local /\ SameFs(d)
  /\ isLoading' = TRUE
  /\ elev' = [src |-> vfs, dir |-> d, own |-> TRUE]
  /\ mounts' = mounts \cup {[k |-> 0]}
  /\ UNCHANGED <<sync, vfs, parent, insts, load, live, failed, rows, last, cache, queue,
                 tasks, open, question>>

\* Reconnect, work offline, or close the panel, which leaves the file system.
Answer ==
  /\ Asks /\ ~ Free /\ asked' = asked - 1
  /\ \/ trying' \in {trying, trying + 1}
        /\ UNCHANGED <<vfs, parent, insts, load, live, shown, last, queue, open, elev>>
     \/ Leave /\ trying' = trying
     \/ parent = None /\ trying' = trying
        /\ UNCHANGED <<vfs, parent, insts, load, live, shown, last, queue, open, elev>>
  /\ UNCHANGED <<sync, cache, tasks, mounts>>
-----------------------------------------------------------------------------
(* What runs beside the UI goroutine                                         *)

\* A provider answers, also one that was cancelled; so does the sudo helper.
Comes(m) ==
  /\ m \in mounts /\ mounts' = mounts \ {m}
  /\ \E ok \in BOOLEAN :
       /\ Costs(~ ok)
       /\ IF m.k = 0
         THEN /\ tasks' = Append(tasks, [kind |-> "elevated", ok |-> ok])
              /\ UNCHANGED insts
         ELSE /\ tasks' = Append(tasks, [kind |-> "mount", mount |-> m, ok |-> ok])
              /\ insts' = [insts EXCEPT ![m.k] = IF ok THEN "handed" ELSE "closed"]
  /\ UNCHANGED <<sync, vfs, parent, load, live, shown, last, cache, queue, open, elev,
                 question>>

ReconnectComes ==
  /\ trying > 0 /\ trying' = trying - 1 /\ asked' = asked
  /\ \E ok \in BOOLEAN : Costs(~ ok) /\ tasks' = Append(tasks, [kind |-> "reconnect", ok |-> ok])
  /\ UNCHANGED <<sync, vfs, parent, insts, load, live, shown, last, cache, queue, open,
                 mounts, elev>>

\* Everything asked for was done and nothing runs, or only what nobody waits for.
Rest ==
  /\ acts = MaxActs /\ running = None /\ tasks = <<>> /\ mounts = {} /\ trying = 0
  /\ UNCHANGED vars

Next ==
  \/ ReadChunk \/ WorkerNext \/ LeftReturns
  \/ \E res \in Results : ReadReturns(res)
  \/ RunTask
  \/ Reload \/ NavigateRefused \/ LeaveRoot \/ EscapeMount \/ Answer
  \/ \E d \in Dirs : Navigate(d) \/ SwitchToLocal(d) \/ EnterProvider(d) \/ OpenPath(d) \/ Elevate(d)
  \/ \E m \in mounts : Comes(m)
  \/ ReconnectComes
  \/ Rest

\* The UI goroutine and the worker go on, and a reconnect has a deadline.  A read,
\* a mount and a sudo lookup have none, and need never come back.
Fairness == WF_vars(RunTask) /\ WF_vars(WorkerNext) /\ WF_vars(ReconnectComes)

Spec == Init /\ [][Next]_vars /\ Fairness
-----------------------------------------------------------------------------
\* A panel that has stopped loading, without an error, shows all of the
\* listing the newest load read, of the directory it is on: nothing of a load
\* that was superseded, whose chunks and end may still be queued, and nothing
\* DirCache kept.  (Not said of a read the file system cancelled by itself: the code
\* takes it for one the panel gave up and shows no error, list.go:3176.)
Listed == rows = [dir |-> vfs.dir, by |-> load, got |-> cache[vfs.dir]]
SettledIsNewest == ~ isLoading /\ ~ failed => Listed

\* What SettledIsNewest is about: the user enters a directory only root may read
\* while nothing else is read, and a walk through the history is refused
\* everywhere only on a panel that shows its own listing.
Calm == /\ elev = None /\ elev' # None => ~ isLoading
        /\ NavigateRefused => Listed
CalmNext == Next /\ Calm

\* A remote connection carries one request at a time: of the reads of one
\* panel, those left behind too, one at most is remote.
OneRemoteRead ==
  Cardinality(left \ Local)
    + (IF running # None /\ running.load.dir \notin Local THEN 1 ELSE 0) <= 1

\* A file system a mount made is in its posted task, installed, or closed, and
\* one that is closed is not what the panel is on or goes back to.
MadeIsOwned ==
  /\ \A k \in DOMAIN insts : insts[k] = "handed" =>
       \E i \in DOMAIN tasks : tasks[i].kind = "mount" /\ tasks[i].mount.k = k
  /\ insts[vfs.inst] = "installed"
  /\ parent # None => insts[parent.inst] = "installed"

\* The spinner ends, or stands for a call that never comes back: the read of the
\* newest load or the remote read before it, the mount the panel waits for, or the
\* sudo lookup that owns the spinner.  A call the panel has given up is no reason:
\* neither a local read that was superseded, on a password nobody gives (f4#1411),
\* nor a mount or a lookup from which it has moved on.
ReadHangs   == /\ running # None /\ running.st = "reading"
               /\ Alive(running.load) \/ running.load.dir \notin Local
MountHangs  == \E m \in mounts : open # 0 /\ m.k = open
LookupHangs == elev # None /\ elev.own /\ \E m \in mounts : m.k = 0
LoadingEnds == []<>(~ isLoading) \/ <>[]ReadHangs \/ <>[]MountHangs \/ <>[]LookupHangs

\* Not of this code: the rows of another directory stay on a panel that a
\* refused walk through the history took back from a mount (NavigateRefused).
RowsAreOwn == open = 0 /\ ~ sync => rows.dir = vfs.dir
=============================================================================
