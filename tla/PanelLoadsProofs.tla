-------------------------- MODULE PanelLoadsProofs --------------------------
(* What a panel shows, reads and owns, for any directories, chunks and        *)
(* number of acts: one remote read at a time, no file system lost by a mount, *)
(* and on a panel that came to rest the newest listing.                       *)
EXTENDS PanelLoads, FiniteSetTheorems, SequenceTheorems, FunctionTheorems, TLAPS

(***************************************************************************)
(* Types, of what is posted and under way too                              *)
(***************************************************************************)
Mounting == [k : Nat \ {0}, dir : Dirs, child : BOOLEAN, src : Places]
Looking  == [k |-> 0]

LoadTask  == [kind : {"chunk"}, load : Loads]
             \cup [kind : {"done"}, load : Loads, got : 0..MaxChunks, res : Results]
MountTask == [kind : {"mount"}, mount : Mounting, ok : BOOLEAN]
OtherTask == [kind : {"elevated", "reconnect"}, ok : BOOLEAN]

Typed ==
  /\ TypeOK
  /\ tasks \in Seq(LoadTask \cup MountTask \cup OtherTask)
  /\ mounts \subseteq Mounting \cup {Looking}
  /\ cache \in [Dirs -> 0..MaxChunks \cup {None}]
  /\ running # None => running.got <= MaxChunks

\* A sudo lookup is under way, or has come, exactly while elev says so.
Found == {i \in DOMAIN tasks : tasks[i].kind = "elevated"}
LookupIsOne ==
  /\ elev = None => Looking \notin mounts /\ Found = {}
  /\ Looking \in mounts => Found = {}
  /\ \A i, j \in Found : i = j

(***************************************************************************)
(* Reads                                                                   *)
(***************************************************************************)
LeftAreLocal == left \subseteq Local

(***************************************************************************)
(* File systems                                                            *)
(***************************************************************************)
\* The posted mounts.
Posted == {i \in DOMAIN tasks : tasks[i].kind = "mount"}

\* A mount under way has its file system for itself ...
MountsOwn ==
  /\ \A m \in mounts : m.k # 0 => m.k \in DOMAIN insts /\ insts[m.k] = "opening"
  /\ \A m, n \in mounts : m.k = n.k => m = n

\* ... and so has the posted task, until it is run ...
TasksOwn ==
  /\ \A i \in Posted : tasks[i].mount.k \in DOMAIN insts
                       /\ insts[tasks[i].mount.k] = IF tasks[i].ok THEN "handed" ELSE "closed"
  /\ \A i, j \in Posted : tasks[i].mount.k = tasks[j].mount.k => i = j
  /\ \A k \in DOMAIN insts : insts[k] = "handed" => \E i \in Posted : tasks[i].mount.k = k

\* ... and none of these is one the panel is on or goes back to.
PanelOwns ==
  /\ vfs.inst \in DOMAIN insts /\ insts[vfs.inst] = "installed"
  /\ parent # None => /\ parent.inst \in DOMAIN insts /\ insts[parent.inst] = "installed"
                      /\ parent.inst # vfs.inst

Owned == MountsOwn /\ TasksOwn /\ PanelOwns

(***************************************************************************)
(* Loads                                                                   *)
(***************************************************************************)
\* The newest load waits for its turn, is read, has chunks and its end posted.
IsWaiting == pending # None /\ pending.n = load
IsRead    == running # None /\ running.load.n = load /\ running.st = "reading"
Chunks    == {i \in DOMAIN tasks : tasks[i].kind = "chunk" /\ tasks[i].load.n = load}
Ends      == {i \in DOMAIN tasks : tasks[i].kind = "done" /\ tasks[i].load.n = load}
IsComing  == IsWaiting \/ IsRead \/ Chunks # {} \/ Ends # {}

\* What of it is on display.
OnDisplay == IF rows.by = load THEN rows.got ELSE 0

\* No load is newer than the newest, and w says whether that one's rows are to be
\* replaced as a whole.
IsNewest(l, w) == l.n <= load /\ (l.n = load => l.dir = vfs.dir /\ l.whole = w)
Known(w) ==
  /\ pending # None => IsNewest(pending, w)
  /\ running # None => IsNewest(running.load, w)
  /\ \A i \in DOMAIN tasks : tasks[i].kind \in {"chunk", "done"} => IsNewest(tasks[i].load, w)
  /\ rows.by <= load /\ (rows.by = load => rows.dir = vfs.dir)
  /\ load > 0

\* Until its end is shown, the newest load is in one place, and what was read of
\* it is on display or posted, in order.
Followed(w) ==
  /\ IsWaiting => ~ IsRead /\ Chunks = {} /\ Ends = {} /\ rows.by # load
  /\ IsRead => Ends = {} /\ (~ w => OnDisplay + Cardinality(Chunks) = running.got)
  /\ \A i \in Ends : /\ ~ IsRead /\ (\A j \in Ends : i = j) /\ (\A j \in Chunks : j < i)
                     /\ ~ w => OnDisplay + Cardinality(Chunks) = tasks[i].got
  /\ Chunks # {} => ~ w /\ (IsRead \/ Ends # {})
  /\ IsComing => IF w THEN rows.by # load ELSE cache[vfs.dir] \in {None, MaxChunks}

\* The spinner is off, or will be when the sudo lookup that owns it ends.
IsSettled == ~ isLoading \/ (elev # None /\ elev.own)
Settled   == /\ IsSettled => failed \/ Listed
             /\ failed /\ live => ~ IsComing

Newest == \E w \in BOOLEAN : Known(w) /\ (live => Followed(w))
LoadInv == Newest /\ Settled

-----------------------------------------------------------------------------
(***************************************************************************)
(* Queues                                                                  *)
(***************************************************************************)
LEMMA QueueDomain ==
  ASSUME NEW T, NEW q \in Seq(T)
  PROVE  DOMAIN q = 1..Len(q) /\ Len(q) \in Nat /\ \A i \in DOMAIN q : q[i] \in T
BY LenProperties, ElementOfSeq

LEMMA PutLast ==
  ASSUME NEW T, NEW q \in Seq(T), NEW x \in T
  PROVE  /\ Append(q, x) \in Seq(T) /\ DOMAIN Append(q, x) = 1..(Len(q) + 1)
         /\ DOMAIN q = 1..Len(q) /\ Len(q) \in Nat
         /\ DOMAIN Append(q, x) = DOMAIN q \cup {Len(q) + 1} /\ Len(q) + 1 \notin DOMAIN q
         /\ \A i \in DOMAIN q : Append(q, x)[i] = q[i]
         /\ Append(q, x)[Len(q) + 1] = x
         /\ Len(Append(q, x)) = Len(q) + 1
<1>1. DOMAIN q = 1..Len(q) /\ Len(q) \in Nat
  BY QueueDomain
<1>2. /\ Append(q, x) \in Seq(T) /\ Len(Append(q, x)) = Len(q) + 1
      /\ \A i \in 1..Len(q) : Append(q, x)[i] = q[i]
      /\ Append(q, x)[Len(q) + 1] = x
  BY AppendProperties
<1>3. DOMAIN Append(q, x) = 1..(Len(q) + 1)
  BY <1>2, QueueDomain
<1>4. 1..(Len(q) + 1) = 1..Len(q) \cup {Len(q) + 1} /\ Len(q) + 1 \notin 1..Len(q)
  BY <1>1
<1> QED BY <1>1, <1>2, <1>3, <1>4

LEMMA TakeFirst ==
  ASSUME NEW T, NEW q \in Seq(T), q # <<>>
  PROVE  /\ Tail(q) \in Seq(T) /\ DOMAIN Tail(q) = 1..(Len(q) - 1)
         /\ DOMAIN q = 1..Len(q) /\ Len(q) \in Nat /\ Len(q) > 0 /\ 1 \in DOMAIN q
         /\ Head(q) = q[1] /\ Head(q) \in T
         /\ \A i \in DOMAIN Tail(q) : i + 1 \in DOMAIN q /\ i \in Nat /\ Tail(q)[i] = q[i + 1]
         /\ \A i \in DOMAIN q : i \in Nat /\ (i # 1 => i - 1 \in DOMAIN Tail(q) /\ Tail(q)[i - 1] = q[i])
<1>1. DOMAIN q = 1..Len(q) /\ Len(q) \in Nat /\ \A i \in DOMAIN q : q[i] \in T
  BY QueueDomain
<1>2. /\ Tail(q) \in Seq(T) /\ Len(Tail(q)) = Len(q) - 1 /\ Head(q) = q[1] /\ Len(q) > 0
      /\ \A i \in 1..(Len(q) - 1) : Tail(q)[i] = q[i + 1]
  BY <1>1, HeadTailProperties, EmptySeq
<1>3. DOMAIN Tail(q) = 1..(Len(q) - 1)
  BY <1>2, QueueDomain
<1> QED BY <1>1, <1>2, <1>3

LEMMA SameLength ==
  ASSUME NEW m \in Nat, NEW n \in Nat, 1..m = 1..n
  PROVE  m = n
<1>1. CASE m < n
  <2>1. n \in 1..n /\ n \notin 1..m
    BY <1>1
  <2> QED BY <2>1
<1>2. CASE n < m
  <2>1. m \in 1..m /\ m \notin 1..n
    BY <1>2
  <2> QED BY <2>1
<1> QED BY <1>1, <1>2

LEMMA Updated ==
  ASSUME NEW T, NEW q \in Seq(T), NEW x \in T, NEW k
  PROVE  /\ [q EXCEPT ![k] = x] \in Seq(T) /\ Len([q EXCEPT ![k] = x]) = Len(q)
         /\ DOMAIN [q EXCEPT ![k] = x] = DOMAIN q
<1>1. DOMAIN q = 1..Len(q) /\ Len(q) \in Nat /\ \A i \in DOMAIN q : q[i] \in T
  BY QueueDomain
<1>2. CASE k \in DOMAIN q
  BY <1>1, <1>2, ExceptSeq
<1>3. CASE k \notin DOMAIN q
  <2>1. PICK n \in Nat : q \in [1..n -> T]
    BY SeqDef
  <2>2. [q EXCEPT ![k] = x] = q
    BY <1>3, <2>1
  <2> QED BY <2>2
<1> QED BY <1>2, <1>3

(***************************************************************************)
(* How many elements of a queue are in a set                               *)
(***************************************************************************)
Among(q, S) == {i \in DOMAIN q : q[i] \in S}

LEMMA AmongIsFinite ==
  ASSUME NEW T, NEW q \in Seq(T), NEW S
  PROVE  IsFiniteSet(Among(q, S)) /\ Cardinality(Among(q, S)) \in Nat
<1>1. DOMAIN q = 1..Len(q) /\ Len(q) \in Nat
  BY QueueDomain
<1>2. IsFiniteSet(1..Len(q))
  BY <1>1, FS_Interval
<1>3. Among(q, S) \in SUBSET (1..Len(q))
  BY <1>1 DEF Among
<1> QED BY <1>2, <1>3, FS_Subset, FS_CardinalityType

\* One more when one of them is put at the end ...
LEMMA AmongPut ==
  ASSUME NEW T, NEW q \in Seq(T), NEW x \in T, NEW S
  PROVE  /\ x \in S => Cardinality(Among(Append(q, x), S)) = Cardinality(Among(q, S)) + 1
         /\ x \notin S => Among(Append(q, x), S) = Among(q, S)
<1>1. CASE x \in S
  <2>1. Among(Append(q, x), S) = Among(q, S) \cup {Len(q) + 1} /\ Len(q) + 1 \notin Among(q, S)
    BY <1>1, PutLast DEF Among
  <2> QED BY <1>1, <2>1, AmongIsFinite, FS_AddElement
<1>2. CASE x \notin S
  BY <1>2, PutLast DEF Among
<1> QED BY <1>1, <1>2

\* ... and one less when one is taken from the front.
LEMMA AmongTaken ==
  ASSUME NEW T, NEW q \in Seq(T), q # <<>>, NEW S
  PROVE  /\ Head(q) \in S => Cardinality(Among(Tail(q), S)) = Cardinality(Among(q, S)) - 1
         /\ Head(q) \notin S => Cardinality(Among(Tail(q), S)) = Cardinality(Among(q, S))
         /\ Among(q, S) = {} => Among(Tail(q), S) = {}
<1>1. PICK B : B = Among(q, S) \ {1} OBVIOUS
<1>2. PICK R : R = Among(Tail(q), S) OBVIOUS
<1>3. Tail(q) \in Seq(T) /\ IsFiniteSet(R)
  BY <1>2, TakeFirst, AmongIsFinite
<1>4. PICK f : f = [i \in R |-> i + 1] OBVIOUS
<1>5. f \in Bijection(R, B)
  <2>1. f \in [R -> B]
    <3>1. \A i \in R : i + 1 \in B
      BY <1>1, <1>2, TakeFirst DEF Among
    <3> QED BY <1>4, <3>1
  <2>2. \A a, b \in R : f[a] = f[b] => a = b
    <3>1. \A i \in R : i \in Nat
      BY <1>2, TakeFirst DEF Among
    <3> QED BY <1>4, <3>1
  <2>3. \A s \in B : \E r \in R : f[r] = s
    <3> TAKE s \in B
    <3>1. s \in Nat /\ s - 1 \in R
      BY <1>1, <1>2, TakeFirst DEF Among
    <3>2. f[s - 1] = s
      BY <1>4, <3>1
    <3> QED BY <3>1, <3>2
  <2> QED BY <2>1, <2>2, <2>3, Fun_IsBij
<1>6. Cardinality(B) = Cardinality(R)
  BY <1>3, <1>5, FS_Bijection DEF ExistsBijection
<1>7. 1 \in Among(q, S) <=> Head(q) \in S
  BY TakeFirst DEF Among
<1>8. IsFiniteSet(Among(q, S)) /\ Cardinality(Among(q, S)) \in Nat
  BY AmongIsFinite
<1>9. 1 \in Among(q, S) => Cardinality(B) = Cardinality(Among(q, S)) - 1
  BY <1>1, <1>8, FS_RemoveElement
<1>10. 1 \notin Among(q, S) => B = Among(q, S)
  BY <1>1
<1>11. Among(q, S) = {} => R = {}
  BY <1>1, <1>5, <1>2, TakeFirst DEF Among
<1> QED BY <1>2, <1>6, <1>7, <1>9, <1>10, <1>11

-----------------------------------------------------------------------------
(***************************************************************************)
(* Types                                                                   *)
(***************************************************************************)
Tasks   == LoadTask \cup MountTask \cup OtherTask
RowSets == [dir : Dirs, by : Nat, got : Nat]
States  == {"opening", "handed", "installed", "closed"}
Runs    == Reads \cup {None}

LEMMA Apart == None \notin Dirs /\ None \notin Nat /\ MaxChunks \in Nat /\ Local \subseteq Dirs /\ Home \in Dirs
BY PanelAssumption

LEMMA NothingIs == None \notin Lookups /\ None \notin Loads /\ None \notin Reads
BY NoneAssumption

\* The types of what one load changes, and of the rest.
LoadTyped ==
  /\ load \in Nat /\ live \in BOOLEAN /\ isLoading \in BOOLEAN /\ failed \in BOOLEAN
  /\ rows \in RowSets /\ last \in Dirs /\ elev \in Lookups \cup {None}
QueueTyped ==
  /\ running \in Runs /\ pending \in Loads \cup {None} /\ left \subseteq Dirs
  /\ running # None => running.got <= MaxChunks
PlaceTyped ==
  /\ vfs \in Places /\ parent \in Places \cup {None} /\ insts \in Seq(States)
  /\ open \in 0..Len(insts)
RestTyped ==
  /\ sync \in BOOLEAN /\ acts \in 0..MaxActs /\ asked \in Nat /\ trying \in Nat
  /\ cache \in [Dirs -> 0..MaxChunks \cup {None}]
  /\ tasks \in Seq(Tasks) /\ mounts \subseteq Mounting \cup {Looking}

LEMMA TypedIs == Typed <=> LoadTyped /\ QueueTyped /\ PlaceTyped /\ RestTyped
<1>1. Typed => LoadTyped /\ QueueTyped /\ PlaceTyped /\ RestTyped
  BY DEF Typed, TypeOK, LoadTyped, QueueTyped, PlaceTyped, RestTyped, RowSets, Runs, Reads, States, Tasks
<1>2. LoadTyped /\ QueueTyped /\ PlaceTyped /\ RestTyped => Typed
  <2> SUFFICES ASSUME LoadTyped, QueueTyped, PlaceTyped, RestTyped PROVE Typed
    OBVIOUS
  <2>1. {sync, live, isLoading, failed} \subseteq BOOLEAN
    BY DEF LoadTyped, RestTyped
  <2>2. cache \in [Dirs -> Nat \cup {None}]
    BY Apart DEF RestTyped
  <2>3. TypeOK
    BY <2>1, <2>2 DEF TypeOK, LoadTyped, QueueTyped, PlaceTyped, RestTyped, RowSets, Runs, Reads, States
  <2> QED BY <2>3 DEF Typed, LoadTyped, QueueTyped, PlaceTyped, RestTyped, Tasks
<1> QED BY <1>1, <1>2

LEMMA TypedNext == LoadTyped' /\ QueueTyped' /\ PlaceTyped' /\ RestTyped' => Typed'
BY TypedIs, PTL

LEMMA ReadsTyped ==
  ASSUME NEW l \in Loads
  PROVE  Read(l) \in Runs /\ Read(l).load = l /\ Read(l).st = "reading" /\ Read(l).got = 0
BY DEF Read, Runs, Reads

LEMMA EnqueueTypes ==
  ASSUME QueueTyped, NEW l \in Loads, Enqueue(l)
  PROVE  QueueTyped'
<1>1. Read(l) \in Runs /\ Read(l).got = 0 /\ 0 <= MaxChunks
  BY ReadsTyped, Apart
<1>2. CASE running = None
  <2>1. running' = Read(l) /\ pending' = pending /\ left' = left
    BY <1>2 DEF Enqueue
  <2> QED BY <1>1, <2>1 DEF QueueTyped
<1>3. CASE running # None /\ running.load.dir \notin Local
  <2>1. pending' = l /\ running' = running /\ left' = left
    BY <1>3 DEF Enqueue
  <2> QED BY <2>1 DEF QueueTyped
<1>4. CASE running # None /\ running.load.dir \in Local
  <2>1. left' = left \cup {running.load.dir} /\ running' = Read(l) /\ pending' = None
    BY <1>4 DEF Enqueue
  <2>2. running.load.dir \in Dirs
    BY <1>4, Apart
  <2> QED BY <1>1, <2>1, <2>2 DEF QueueTyped
<1> QED BY <1>2, <1>3, <1>4

LEMMA ClaimTypes ==
  ASSUME NEW e \in Lookups \cup {None}
  PROVE  /\ Claimed(e) \in Lookups \cup {None} /\ (Claimed(e) = None <=> e = None)
         /\ Claimed(e) # None => Claimed(e).own = FALSE
<1>1. CASE e = None
  BY <1>1 DEF Claimed
<1>2. CASE e # None
  <2>1. e \in Lookups
    BY <1>2
  <2>2. Claimed(e) = [e EXCEPT !.own = FALSE]
    BY <1>2 DEF Claimed
  <2>3. [e EXCEPT !.own = FALSE] \in Lookups /\ [e EXCEPT !.own = FALSE].own = FALSE
    BY <2>1 DEF Lookups
  <2> QED BY <1>2, <2>2, <2>3, NothingIs
<1> QED BY <1>1, <1>2

LEMMA ReadTypes ==
  ASSUME LoadTyped, QueueTyped, RestTyped, NEW d \in Dirs, NEW now \in RowSets,
         NEW e \in Lookups \cup {None}, ReadDirectory(d, now, e)
  PROVE  LoadTyped' /\ QueueTyped' /\ elev' = Claimed(e)
<1>1. PICK w \in BOOLEAN : Enqueue([n |-> load + 1, dir |-> d, whole |-> w])
  BY DEF ReadDirectory, RestTyped
<1>2. [n |-> load + 1, dir |-> d, whole |-> w] \in Loads
  BY DEF Loads, LoadTyped
<1>3. QueueTyped'
  BY <1>1, <1>2, EnqueueTypes
<1>4. rows' \in RowSets
  <2>1. Bare(d) \in RowSets
    BY DEF Bare, RowSets
  <2>2. rows' = Bare(d) \/ rows' = now
    BY DEF ReadDirectory
  <2> QED BY <2>1, <2>2
<1>5. elev' = Claimed(e) /\ elev' \in Lookups \cup {None}
  BY ClaimTypes DEF ReadDirectory
<1>6. load' = load + 1 /\ live' = TRUE /\ isLoading' = TRUE /\ failed' = FALSE /\ last' = d
  BY DEF ReadDirectory
<1>7. load' \in Nat
  BY <1>6 DEF LoadTyped
<1>8. live' \in BOOLEAN /\ isLoading' \in BOOLEAN /\ failed' \in BOOLEAN /\ last' \in Dirs
  BY <1>6, Zenon
<1>9. LoadTyped'
  BY <1>4, <1>5, <1>7, <1>8 DEF LoadTyped
<1> QED BY <1>3, <1>5, <1>9

LEMMA KindsOf ==
  ASSUME NEW t \in Tasks
  PROVE  /\ t.kind \in {"chunk", "done", "mount", "elevated", "reconnect"}
         /\ t.kind \in {"chunk", "done"} => t.load \in Loads
         /\ t.kind = "done" => t.got \in 0..MaxChunks
         /\ t.kind = "mount" => t.mount \in Mounting
         /\ t.kind \in {"mount", "elevated", "reconnect"} => t.ok \in BOOLEAN
BY DEF Tasks, LoadTask, MountTask, OtherTask

LEMMA MountingIs ==
  ASSUME NEW m \in Mounting
  PROVE  m.k \in Nat /\ m.k # 0 /\ m.dir \in Dirs /\ m.child \in BOOLEAN /\ m.src \in Places
BY DEF Mounting

LEMMA UnderWayIs ==
  ASSUME NEW m \in Mounting \cup {Looking}
  PROVE  (m.k = 0 => m = Looking) /\ (m.k # 0 => m \in Mounting)
BY MountingIs DEF Looking

\* A task put last or taken first keeps what is said of lookups.
LEMMA LookupKept ==
  ASSUME tasks \in Seq(Tasks), LookupIsOne, elev' = None => elev = None,
         Looking \in mounts' => Looking \in mounts,
         \/ tasks' = tasks
         \/ \E t \in Tasks : t.kind # "elevated" /\ tasks' = Append(tasks, t)
         \/ tasks # <<>> /\ tasks' = Tail(tasks)
  PROVE  LookupIsOne'
<1>1. Found = {} => Found' = {}
  <2>1. CASE tasks' = tasks
    BY <2>1 DEF Found
  <2>2. CASE \E t \in Tasks : t.kind # "elevated" /\ tasks' = Append(tasks, t)
    BY <2>2, PutLast DEF Found
  <2>3. CASE tasks # <<>> /\ tasks' = Tail(tasks)
    BY <2>3, TakeFirst DEF Found
  <2> QED BY <2>1, <2>2, <2>3
<1>2. \A i, j \in Found' : i = j
  <2>1. CASE tasks' = tasks
    BY <2>1 DEF Found, LookupIsOne
  <2>2. CASE \E t \in Tasks : t.kind # "elevated" /\ tasks' = Append(tasks, t)
    <3>1. Found' = Found
      BY <2>2, PutLast DEF Found
    <3> QED BY <3>1 DEF LookupIsOne
  <2>3. CASE tasks # <<>> /\ tasks' = Tail(tasks)
    <3>1. \A i \in Found' : i + 1 \in Found /\ i \in Nat
      BY <2>3, TakeFirst DEF Found
    <3>2. \A i, j \in Found' : i + 1 = j + 1
      BY <3>1 DEF LookupIsOne
    <3> QED BY <3>1, <3>2
  <2> QED BY <2>1, <2>2, <2>3
<1> QED BY <1>1, <1>2 DEF LookupIsOne

\* The same, when the only one comes or is shown.
LEMMA LookupComes ==
  ASSUME tasks \in Seq(Tasks), LookupIsOne, Looking \in mounts, Looking \notin mounts', elev' = elev,
         NEW t \in Tasks, tasks' = Append(tasks, t)
  PROVE  LookupIsOne'
<1>1. Found = {} /\ elev # None
  BY DEF LookupIsOne
<1>2. Found' \subseteq {Len(tasks) + 1}
  BY <1>1, PutLast DEF Found
<1> QED BY <1>1, <1>2 DEF LookupIsOne

LEMMA LookupShown ==
  ASSUME tasks \in Seq(Tasks), LookupIsOne, tasks # <<>>, Head(tasks).kind = "elevated", mounts' = mounts,
         tasks' = Tail(tasks)
  PROVE  LookupIsOne' /\ elev # None
<1>1. 1 \in Found
  BY TakeFirst DEF Found
<1>2. Looking \notin mounts /\ elev # None
  BY <1>1 DEF LookupIsOne
<1>3. Found' = {}
  <2>1. \A i \in Found' : i + 1 \in Found /\ i \in Nat /\ i + 1 # 1
    BY TakeFirst DEF Found
  <2> QED BY <1>1, <2>1 DEF LookupIsOne
<1> QED BY <1>2, <1>3 DEF LookupIsOne

(***************************************************************************)
(* One step keeps the types                                                *)
(***************************************************************************)
LEMMA PlaceTypes ==
  ASSUME PlaceTyped, vfs' \in Places, parent' \in Places \cup {None},
         insts' \in Seq(States), Len(insts') >= Len(insts), open' \in {open, 0}
  PROVE  PlaceTyped'
<1>1. Len(insts) \in Nat /\ Len(insts') \in Nat
  BY QueueDomain DEF PlaceTyped
<1> QED BY <1>1 DEF PlaceTyped

LEMMA PlacesAre ==
  ASSUME NEW p \in Places, NEW d \in Dirs
  PROVE  /\ p.inst \in Nat /\ p.dir \in Dirs
         /\ [p EXCEPT !.dir = d] \in Places /\ [p EXCEPT !.dir = d].dir = d
         /\ [p EXCEPT !.dir = d].inst = p.inst
BY DEF Places

\* A file system is closed, or comes to be known.
LEMMA InstsTypes ==
  ASSUME PlaceTyped
  PROVE  /\ Len(insts) \in Nat
         /\ \A k, s : s \in States => /\ [insts EXCEPT ![k] = s] \in Seq(States)
                                      /\ Len([insts EXCEPT ![k] = s]) = Len(insts)
         /\ \A q, s : q \in Seq(States) /\ s \in States =>
                        Append(q, s) \in Seq(States) /\ Len(Append(q, s)) = Len(q) + 1
<1>1. insts \in Seq(States) /\ Len(insts) \in Nat
  BY QueueDomain DEF PlaceTyped
<1>2. \A k, s : s \in States => /\ [insts EXCEPT ![k] = s] \in Seq(States)
                                /\ Len([insts EXCEPT ![k] = s]) = Len(insts)
  BY <1>1, Updated
<1>3. \A q, s : q \in Seq(States) /\ s \in States =>
                  Append(q, s) \in Seq(States) /\ Len(Append(q, s)) = Len(q) + 1
  BY PutLast
<1> QED BY <1>1, <1>2, <1>3

LEMMA PutTypes ==
  ASSUME RestTyped
  PROVE  /\ \A t \in Tasks : Append(tasks, t) \in Seq(Tasks)
         /\ tasks # <<>> => /\ Tail(tasks) \in Seq(Tasks) /\ Head(tasks) \in Tasks
                            /\ Head(tasks) = tasks[1] /\ 1 \in DOMAIN tasks
<1>1. tasks \in Seq(Tasks)
  BY DEF RestTyped
<1>2. \A t \in Tasks : Append(tasks, t) \in Seq(Tasks)
  BY <1>1, PutLast
<1>3. tasks # <<>> => /\ Tail(tasks) \in Seq(Tasks) /\ Head(tasks) \in Tasks
                      /\ Head(tasks) = tasks[1] /\ 1 \in DOMAIN tasks
  BY <1>1, TakeFirst
<1> QED BY <1>2, <1>3

\* What one posted task does to places, but for the mounts.
LEMMA TaskTypes ==
  ASSUME LoadTyped, QueueTyped, PlaceTyped, RestTyped, LookupIsOne, tasks # <<>>, RunTask
  PROVE  LoadTyped' /\ QueueTyped' /\ PlaceTyped' /\ RestTyped'
<1>1. PICK t : t = Head(tasks) OBVIOUS
<1>2. t \in Tasks /\ tasks' = Tail(tasks) /\ tasks' \in Seq(Tasks) /\ UNCHANGED <<sync, mounts, acts>>
  BY <1>1, PutTypes DEF RunTask
<1>3. /\ t.kind \in {"chunk", "done"} => t.load \in Loads
      /\ t.kind = "done" => t.got \in 0..MaxChunks
      /\ t.kind = "mount" => t.mount \in Mounting
      /\ t.kind \in {"mount", "elevated", "reconnect"} => t.ok \in BOOLEAN
  BY <1>2, KindsOf
<1>4. Claimed(elev) \in Lookups \cup {None}
  BY ClaimTypes DEF LoadTyped
<1>5. vfs \in Places /\ vfs.dir \in Dirs /\ vfs.inst \in Nat /\ rows \in RowSets /\ parent \in Places \cup {None}
  BY PlacesAre, Apart DEF PlaceTyped, LoadTyped
<1>6. \A l \in Loads : l.dir \in Dirs /\ l.n \in Nat
  BY DEF Loads
<1>7. CASE ShowChunk(t)
  <2>1. rows' \in RowSets
    <3>1. t.load \in Loads
      BY <1>3, <1>7 DEF ShowChunk
    <3>2. t.load.dir \in Dirs /\ t.load.n \in Nat
      BY <1>6, <3>1
    <3>3. [rows EXCEPT !.got = @ + 1] \in RowSets
      BY <1>5 DEF RowSets
    <3>4. [dir |-> t.load.dir, by |-> t.load.n, got |-> 1] \in RowSets
      BY <3>2 DEF RowSets
    <3> QED BY <1>5, <1>7, <3>3, <3>4 DEF ShowChunk
  <2>2. UNCHANGED <<vfs, parent, insts, load, live, isLoading, failed, last, cache, queue, open, elev, question>>
    BY <1>7 DEF ShowChunk
  <2> QED BY <1>2, <2>1, <2>2 DEF LoadTyped, QueueTyped, PlaceTyped, RestTyped, queue, question
<1>8. CASE LoadSuperseded(t)
  <2>1. UNCHANGED <<vfs, parent, insts, load, live, shown, last, cache, queue, open, elev, question>>
    BY <1>8 DEF LoadSuperseded
  <2> QED BY <1>2, <2>1 DEF LoadTyped, QueueTyped, PlaceTyped, RestTyped, queue, question, shown
<1>9. CASE LoadDone(t)
  <2>1. t.load \in Loads /\ t.got \in 0..MaxChunks /\ t.got \in Nat
    BY <1>3, <1>9, Apart DEF LoadDone
  <2>2. rows' \in RowSets
    <3>1. [dir |-> t.load.dir, by |-> t.load.n, got |-> IF t.load.whole THEN t.got ELSE 0] \in RowSets
      BY <1>6, <2>1 DEF RowSets
    <3> QED BY <1>5, <1>9, <3>1 DEF LoadDone
  <2>3. cache' \in [Dirs -> 0..MaxChunks \cup {None}]
    BY <1>9, <2>1 DEF LoadDone, RestTyped
  <2>4. isLoading' = FALSE /\ failed' = FALSE /\ elev' = Claimed(elev)
        /\ UNCHANGED <<vfs, parent, insts, load, live, last, queue, open, question>>
    BY <1>9 DEF LoadDone
  <2> QED BY <1>2, <1>4, <2>2, <2>3, <2>4 DEF LoadTyped, QueueTyped, PlaceTyped, RestTyped, queue, question
<1>10. CASE LoadLost(t)
  <2>1. isLoading' = FALSE /\ failed' = TRUE /\ elev' = Claimed(elev) /\ asked' = asked + 1 /\ trying' = trying
        /\ UNCHANGED <<vfs, parent, insts, load, live, rows, last, cache, queue, open>>
    BY <1>10 DEF LoadLost
  <2>2. asked' \in Nat /\ trying' \in Nat
    BY <2>1 DEF RestTyped
  <2>3. LoadTyped' /\ QueueTyped' /\ PlaceTyped'
    BY <1>4, <2>1 DEF LoadTyped, QueueTyped, PlaceTyped, queue
  <2> QED BY <1>2, <2>1, <2>2, <2>3 DEF RestTyped
<1>11. CASE LoadFailed(t)
  <2>1. UNCHANGED <<parent, insts, cache, open, question>> /\ t.load \in Loads
    BY <1>3, <1>11 DEF LoadFailed
  <2>2. CASE Up[t.load.dir] # None /\ vfs' = [vfs EXCEPT !.dir = Up[t.load.dir]] /\ ReadDirectory(vfs'.dir, rows, elev)
    <3>1. Up[t.load.dir] \in Dirs
      BY <1>6, <2>1, <2>2, PanelAssumption
    <3>2. vfs' \in Places /\ vfs'.dir = Up[t.load.dir]
      BY <1>5, <2>2, <3>1, PlacesAre
    <3>3. ReadDirectory(Up[t.load.dir], rows, elev)
      BY <2>2, <3>2
    <3>4. LoadTyped' /\ QueueTyped'
      BY <1>5, <3>1, <3>3, ReadTypes DEF LoadTyped
    <3> QED BY <1>2, <2>1, <3>2, <3>4 DEF PlaceTyped, RestTyped, question
  <2>3. CASE isLoading' = FALSE /\ failed' = TRUE /\ elev' = Claimed(elev) /\ UNCHANGED <<vfs, load, live, rows, last, queue>>
    BY <1>2, <1>4, <2>1, <2>3 DEF LoadTyped, QueueTyped, PlaceTyped, RestTyped, queue, question
  <2> QED BY <1>11, <2>2, <2>3 DEF LoadFailed
<1>c. CASE LoadCancelled(t)
  <2>1. t.load \in Loads
    BY <1>3, <1>c DEF LoadCancelled
  <2>2. rows' \in RowSets
    <3>1. Bare(t.load.dir) \in RowSets
      BY <1>6, <2>1 DEF Bare, RowSets
    <3> QED BY <1>5, <1>c, <3>1 DEF LoadCancelled
  <2>3. isLoading' = FALSE /\ failed' = TRUE /\ elev' = Claimed(elev)
        /\ UNCHANGED <<vfs, parent, insts, load, live, last, cache, queue, open, question>>
    BY <1>c DEF LoadCancelled
  <2> QED BY <1>2, <1>4, <2>2, <2>3 DEF LoadTyped, QueueTyped, PlaceTyped, RestTyped, queue, question
<1>12. CASE MountStale(t)
  <2>1. /\ open' \in {open, 0} /\ insts' = [insts EXCEPT ![t.mount.k] = "closed"]
        /\ UNCHANGED <<vfs, parent, load, live, shown, last, cache, queue, elev, question>>
    BY <1>12 DEF MountStale
  <2>2. insts' \in Seq(States) /\ Len(insts') = Len(insts) /\ Len(insts) \in Nat
    BY <2>1, InstsTypes DEF States
  <2>3. PlaceTyped'
    BY <1>5, <2>1, <2>2, PlaceTypes
  <2> QED BY <1>2, <2>1, <2>3 DEF LoadTyped, QueueTyped, RestTyped, queue, question, shown
<1>13. CASE MountFailed(t)
  <2>1. open' = 0 /\ ReadDirectory(vfs.dir, rows, elev) /\ UNCHANGED <<vfs, parent, insts, cache, question>>
    BY <1>13 DEF MountFailed
  <2>2. LoadTyped' /\ QueueTyped'
    BY <1>5, <2>1, ReadTypes DEF LoadTyped
  <2>3. PlaceTyped'
    BY <1>5, <2>1, InstsTypes, PlaceTypes DEF PlaceTyped
  <2> QED BY <1>2, <2>1, <2>2, <2>3 DEF RestTyped, question
<1>14. CASE Mounted(t)
  <2>1. t.mount \in Mounting
    BY <1>3, <1>14 DEF Mounted
  <2>2. PICK p : p = [inst |-> t.mount.k, dir |-> t.mount.dir] OBVIOUS
  <2>3. p \in Places /\ p.dir = t.mount.dir /\ p.dir \in Dirs
    BY <2>1, <2>2, MountingIs DEF Places
  <2>4. vfs' = p /\ ReadDirectory(p.dir, Bare(p.dir), elev)
    BY <1>14, <2>2 DEF Mounted, ReadInstalled
  <2>5. LoadTyped' /\ QueueTyped'
    <3>1. Bare(p.dir) \in RowSets
      BY <2>3 DEF Bare, RowSets
    <3> QED BY <2>3, <2>4, <3>1, ReadTypes DEF LoadTyped
  <2>6. insts' \in Seq(States) /\ Len(insts') = Len(insts) /\ Len(insts) \in Nat
    <3>1. DOMAIN insts = 1..Len(insts) /\ Len(insts) \in Nat /\ \A k \in DOMAIN insts : insts[k] \in States
      BY QueueDomain DEF PlaceTyped
    <3>2. insts' = [k \in 1..Len(insts) |->
                 CASE k = t.mount.k                   -> "installed"
                   [] k = vfs.inst /\ ~ t.mount.child -> "closed"
                   [] OTHER                           -> insts[k]]
      BY <1>14, <3>1 DEF Mounted
    <3>3. insts' \in [1..Len(insts) -> States]
      BY <3>1, <3>2 DEF States
    <3>4. insts' \in Seq(States)
      BY <3>1, <3>3, SeqDef
    <3>5. Len(insts') \in Nat /\ 1..Len(insts') = 1..Len(insts)
      BY <3>3, <3>4, QueueDomain
    <3> QED BY <3>1, <3>4, <3>5, SameLength
  <2>7. open' = 0 /\ parent' \in Places \cup {None} /\ UNCHANGED <<cache, question>>
    BY <1>5, <1>14 DEF Mounted
  <2>8. PlaceTyped'
    BY <2>3, <2>4, <2>6, <2>7, PlaceTypes
  <2> QED BY <1>2, <2>5, <2>7, <2>8 DEF RestTyped, question
<1>15. CASE Elevated(t)
  <2>1. elev \in Lookups
    <3>1. elev # None
      BY <1>1, <1>2, <1>15, LookupShown DEF Elevated, RestTyped
    <3> QED BY <3>1 DEF LoadTyped
  <2>2. elev.dir \in Dirs /\ elev.own \in BOOLEAN
    BY <2>1 DEF Lookups
  <2>3. CASE vfs' = [vfs EXCEPT !.dir = elev.dir] /\ ReadDirectory(elev.dir, rows, None)
             /\ UNCHANGED <<parent, insts, cache, open, question>>
    <3>1. vfs' \in Places
      BY <1>5, <2>2, <2>3, PlacesAre
    <3>2. LoadTyped' /\ QueueTyped'
      BY <1>5, <2>2, <2>3, ReadTypes
    <3> QED BY <1>2, <2>3, <3>1, <3>2 DEF PlaceTyped, RestTyped, question
  <2>4. CASE isLoading' = (isLoading /\ ~ elev.own) /\ elev' = None
          /\ UNCHANGED <<vfs, parent, insts, load, live, failed, rows, last, cache, queue, open, question>>
    <3>1. isLoading' \in BOOLEAN
      BY <2>4
    <3> QED BY <1>2, <2>4, <3>1 DEF LoadTyped, QueueTyped, PlaceTyped, RestTyped, queue, question
  <2> QED BY <1>15, <2>3, <2>4 DEF Elevated
<1>16. CASE Reconnected(t)
  <2>1. UNCHANGED <<vfs, parent, insts, cache, open, question>>
    BY <1>16 DEF Reconnected
  <2>2. CASE ReadDirectory(vfs.dir, rows, elev)
    <3>1. LoadTyped' /\ QueueTyped'
      BY <1>5, <2>2, ReadTypes DEF LoadTyped
    <3> QED BY <1>2, <2>1, <3>1 DEF PlaceTyped, RestTyped, question
  <2>3. CASE UNCHANGED <<load, live, shown, last, queue, elev>>
    BY <1>2, <2>1, <2>3 DEF LoadTyped, QueueTyped, PlaceTyped, RestTyped, queue, question, shown
  <2> QED BY <1>16, <2>2, <2>3 DEF Reconnected
<1> QED
  BY <1>1, <1>7, <1>8, <1>9, <1>10, <1>11, <1>c, <1>12, <1>13, <1>14, <1>15, <1>16 DEF RunTask

LEMMA LeaveTypes ==
  ASSUME LoadTyped, QueueTyped, PlaceTyped, RestTyped, Leave
  PROVE  LoadTyped' /\ QueueTyped' /\ PlaceTyped' /\ elev' = Claimed(elev)
<1>1. parent \in Places /\ parent.dir \in Dirs
  BY PlacesAre, Apart DEF Leave, PlaceTyped
<1>2. /\ insts' = [insts EXCEPT ![vfs.inst] = "closed"] /\ vfs' = parent /\ parent' = None /\ open' = 0
      /\ ReadDirectory(parent.dir, Bare(parent.dir), elev)
  BY DEF Leave, Close, ReadInstalled
<1>3. LoadTyped' /\ QueueTyped' /\ elev' = Claimed(elev)
  <2>1. Bare(parent.dir) \in RowSets
    BY <1>1 DEF Bare, RowSets
  <2> QED BY <1>1, <1>2, <2>1, ReadTypes DEF LoadTyped
<1>4. insts' \in Seq(States) /\ Len(insts') = Len(insts) /\ Len(insts) \in Nat
  BY <1>2, InstsTypes DEF States
<1>5. PlaceTyped'
  BY <1>1, <1>2, <1>4, PlaceTypes
<1> QED BY <1>3, <1>5

\* What a mount under way is, and what it posts.
LEMMA ComesTypes ==
  ASSUME LoadTyped, QueueTyped, PlaceTyped, RestTyped, LookupIsOne, NEW m \in mounts, Comes(m)
  PROVE  LoadTyped' /\ QueueTyped' /\ PlaceTyped' /\ RestTyped' /\ LookupIsOne'
<1>1. m \in Mounting \cup {Looking}
  BY DEF RestTyped
<1>2. PICK ok \in BOOLEAN :
        /\ Costs(~ ok)
        /\ IF m.k = 0
          THEN /\ tasks' = Append(tasks, [kind |-> "elevated", ok |-> ok])
               /\ UNCHANGED insts
          ELSE /\ tasks' = Append(tasks, [kind |-> "mount", mount |-> m, ok |-> ok])
               /\ insts' = [insts EXCEPT ![m.k] = IF ok THEN "handed" ELSE "closed"]
  BY DEF Comes
<1>3. /\ mounts' = mounts \ {m}
      /\ UNCHANGED <<sync, vfs, parent, load, live, shown, last, cache, queue, open, elev, question>>
  BY DEF Comes
<1>4. LoadTyped' /\ QueueTyped'
  BY <1>3 DEF LoadTyped, QueueTyped, shown, queue
<1>5. acts' \in 0..MaxActs
  BY <1>2, PanelAssumption DEF Costs, RestTyped
<1>6. [kind |-> "elevated", ok |-> ok] \in Tasks
  BY DEF Tasks, OtherTask
<1>7. CASE m.k = 0
  <2>1. tasks' = Append(tasks, [kind |-> "elevated", ok |-> ok]) /\ insts' = insts /\ m = Looking
    BY <1>1, <1>2, <1>7, UnderWayIs
  <2>2. tasks' \in Seq(Tasks)
    BY <1>6, <2>1, PutTypes
  <2>3. LookupIsOne'
    BY <1>3, <1>6, <2>1, LookupComes DEF RestTyped
  <2> QED BY <1>3, <1>4, <1>5, <2>1, <2>2, <2>3 DEF PlaceTyped, RestTyped, question
<1>8. CASE m.k # 0
  <2>1. m \in Mounting
    BY <1>1, <1>8, UnderWayIs
  <2>2. PICK t : t = [kind |-> "mount", mount |-> m, ok |-> ok] OBVIOUS
  <2>3. t \in Tasks /\ t.kind # "elevated" /\ tasks' = Append(tasks, t)
    BY <1>2, <1>8, <2>1, <2>2 DEF Tasks, MountTask
  <2>4. tasks' \in Seq(Tasks)
    BY <2>3, PutTypes
  <2>5. PlaceTyped'
    <3>1. PICK s \in States : insts' = [insts EXCEPT ![m.k] = s]
      BY <1>2, <1>8 DEF States
    <3>2. insts' \in Seq(States) /\ Len(insts') = Len(insts) /\ Len(insts) \in Nat
      BY <3>1, InstsTypes
    <3>3. vfs' \in Places /\ parent' \in Places \cup {None} /\ open' = open
      BY <1>3 DEF PlaceTyped
    <3> QED BY <3>2, <3>3, PlaceTypes
  <2>6. LookupIsOne'
    BY <1>3, <2>3, LookupKept DEF RestTyped
  <2> QED BY <1>3, <1>4, <1>5, <2>4, <2>5, <2>6 DEF RestTyped, question
<1> QED BY <1>7, <1>8

\* A mount begins.
LEMMA OpenTypes ==
  ASSUME LoadTyped, QueueTyped, PlaceTyped, RestTyped, LookupIsOne, NEW d \in Dirs, NEW child \in BOOLEAN,
         Asks, OpenVFS(d, child)
  PROVE  LoadTyped' /\ QueueTyped' /\ PlaceTyped' /\ RestTyped' /\ LookupIsOne'
<1>1. Len(insts) \in Nat /\ vfs \in Places /\ insts \in Seq(States)
  BY InstsTypes DEF PlaceTyped
<1>2. PICK m : m = [k |-> Len(insts) + 1, dir |-> d, child |-> child, src |-> vfs] OBVIOUS
<1>3. m \in Mounting /\ m # Looking
  <2>1. m \in Mounting
    BY <1>1, <1>2 DEF Mounting
  <2>2. m.k # Looking.k
    BY <1>1, <1>2 DEF Looking
  <2> QED BY <2>1, <2>2
<1>4. mounts' = mounts \cup {m} /\ insts' = Append(insts, "opening") /\ open' = Len(insts) + 1
  BY <1>2 DEF OpenVFS
<1>5. insts' \in Seq(States) /\ Len(insts') = Len(insts) + 1
  BY <1>1, <1>4, InstsTypes DEF States
<1>6. /\ live' = FALSE /\ isLoading' = TRUE /\ elev' = Claimed(elev) /\ rows' \in {Bare(d), rows}
      /\ UNCHANGED <<sync, vfs, parent, load, failed, last, cache, queue, tasks, question>>
  BY DEF OpenVFS
<1>7. LoadTyped'
  <2>1. Bare(d) \in RowSets
    BY DEF Bare, RowSets
  <2>2. Claimed(elev) \in Lookups \cup {None}
    BY ClaimTypes DEF LoadTyped
  <2> QED BY <1>6, <2>1, <2>2 DEF LoadTyped
<1>8. PlaceTyped'
  BY <1>1, <1>4, <1>5, <1>6 DEF PlaceTyped
<1>9. acts' \in 0..MaxActs
  BY PanelAssumption DEF Asks, Costs, RestTyped
<1>10. RestTyped'
  BY <1>3, <1>4, <1>6, <1>9 DEF RestTyped, question
<1>11. LookupIsOne'
  <2>1. elev' = None => elev = None
    BY <1>6, ClaimTypes DEF LoadTyped
  <2> QED BY <1>3, <1>4, <1>6, <2>1, LookupKept DEF RestTyped
<1> QED BY <1>6, <1>7, <1>8, <1>10, <1>11 DEF QueueTyped, queue

LEMMA TypesHold ==
  ASSUME Typed, LookupIsOne, [Next]_vars
  PROVE  Typed' /\ LookupIsOne'
<1>0. LoadTyped /\ QueueTyped /\ PlaceTyped /\ RestTyped
  BY TypedIs
<1> SUFFICES LoadTyped' /\ QueueTyped' /\ PlaceTyped' /\ RestTyped' /\ LookupIsOne'
  BY TypedNext
<1>a. /\ vfs \in Places /\ vfs.dir \in Dirs /\ vfs.inst \in Nat /\ rows \in RowSets /\ parent \in Places \cup {None}
      /\ Claimed(elev) \in Lookups \cup {None} /\ elev \in Lookups \cup {None} /\ (Claimed(elev) = None <=> elev = None)
  BY <1>0, PlacesAre, ClaimTypes DEF PlaceTyped, LoadTyped
<1>b. ASSUME NEW act, Costs(act) PROVE acts' \in 0..MaxActs
  BY <1>0, <1>b, PanelAssumption DEF Costs, RestTyped
<1>c. Asks => acts' \in 0..MaxActs
  BY <1>b DEF Asks
<1>1. CASE ReadChunk
  <2>1. /\ running \in [load : Loads, st : {"reading", "done"}, got : Nat] /\ running.got < MaxChunks
        /\ running' = [running EXCEPT !.got = @ + 1]
        /\ UNCHANGED <<sync, vfs, parent, insts, load, live, shown, last, cache, pending, left,
                       open, mounts, elev, question, acts>>
    BY <1>0, <1>1 DEF ReadChunk, QueueTyped, Runs, Reads
  <2>2. QueueTyped'
    <3>1. running'.got = running.got + 1 /\ running' \in Runs /\ running'.got <= MaxChunks
      BY <2>1, Apart DEF Runs, Reads
    <3> QED BY <1>0, <2>1, <3>1 DEF QueueTyped
  <2>3. [kind |-> "chunk", load |-> running.load] \in Tasks
    BY <2>1 DEF Tasks, LoadTask
  <2>4. tasks' = tasks \/ tasks' = Append(tasks, [kind |-> "chunk", load |-> running.load])
    BY <1>1 DEF ReadChunk
  <2>5. tasks' \in Seq(Tasks)
    BY <1>0, <2>3, <2>4, PutTypes DEF RestTyped
  <2>6. LookupIsOne'
    BY <1>0, <2>1, <2>3, <2>4, LookupKept DEF RestTyped
  <2> QED BY <1>0, <2>1, <2>2, <2>5, <2>6 DEF LoadTyped, PlaceTyped, RestTyped, shown, question
<1>2. CASE WorkerNext
  <2>1. /\ running' = IF pending = None THEN None
              ELSE [Read(pending) EXCEPT !.st = IF Alive(pending) THEN "reading" ELSE "done"]
        /\ pending' = None
        /\ UNCHANGED <<sync, vfs, parent, insts, load, live, shown, last, cache, left, tasks,
                 open, mounts, elev, question, acts>>
    BY <1>2 DEF WorkerNext
  <2>2. QueueTyped'
    <3>1. CASE pending = None
      BY <1>0, <2>1, <3>1 DEF QueueTyped, Runs, Reads
    <3>2. CASE pending # None
      <4>1. pending \in Loads
        BY <1>0, <3>2 DEF QueueTyped
      <4>2. PICK st \in {"reading", "done"} : running' = [Read(pending) EXCEPT !.st = st]
        BY <2>1, <3>2
      <4>3. running' = [load |-> pending, st |-> st, got |-> 0]
        BY <4>2 DEF Read
      <4>4. running' \in Runs /\ running'.got <= MaxChunks
        BY <4>1, <4>3, Apart DEF Runs, Reads
      <4> QED BY <1>0, <2>1, <4>4 DEF QueueTyped
    <3> QED BY <3>1, <3>2
  <2>3. LookupIsOne'
    BY <1>0, <2>1, LookupKept DEF RestTyped
  <2> QED BY <1>0, <2>1, <2>2, <2>3 DEF LoadTyped, PlaceTyped, RestTyped, shown, question
<1>3. CASE LeftReturns
  <2>1. /\ left' \subseteq left
        /\ UNCHANGED <<sync, vfs, parent, insts, load, live, shown, last, cache, running, pending,
                 tasks, open, mounts, elev, question, acts>>
    BY <1>3 DEF LeftReturns
  <2>2. LookupIsOne'
    BY <1>0, <2>1, LookupKept DEF RestTyped
  <2> QED BY <1>0, <2>1, <2>2 DEF LoadTyped, QueueTyped, PlaceTyped, RestTyped, shown, question
<1>4. ASSUME NEW res \in Results, ReadReturns(res)
      PROVE  LoadTyped' /\ QueueTyped' /\ PlaceTyped' /\ RestTyped' /\ LookupIsOne'
  <2>1. /\ running \in [load : Loads, st : {"reading", "done"}, got : Nat] /\ running.got <= MaxChunks
        /\ running' = [running EXCEPT !.st = "done"] /\ acts' \in 0..MaxActs
        /\ UNCHANGED <<sync, vfs, parent, insts, load, live, shown, last, cache, pending, left,
                       open, mounts, elev, question>>
    BY <1>0, <1>4, <1>b DEF ReadReturns, QueueTyped, Runs, Reads
  <2>2. QueueTyped'
    <3>1. running'.got = running.got /\ running' \in Runs
      BY <2>1 DEF Runs, Reads
    <3> QED BY <1>0, <2>1, <3>1 DEF QueueTyped
  <2>3. PICK t : t = [kind |-> "done", load |-> running.load, got |-> running.got, res |-> res] OBVIOUS
  <2>4. t \in Tasks /\ t.kind # "elevated"
    <3>1. running.got \in 0..MaxChunks
      BY <2>1, Apart
    <3> QED BY <2>1, <2>3, <3>1 DEF Tasks, LoadTask
  <2>5. tasks' = tasks \/ tasks' = Append(tasks, t)
    BY <1>4, <2>3 DEF ReadReturns
  <2>6. tasks' \in Seq(Tasks)
    BY <1>0, <2>4, <2>5, PutTypes DEF RestTyped
  <2>7. LookupIsOne'
    BY <1>0, <2>1, <2>4, <2>5, LookupKept DEF RestTyped
  <2> QED BY <1>0, <2>1, <2>2, <2>6, <2>7 DEF LoadTyped, PlaceTyped, RestTyped, shown, question
<1>5. CASE RunTask
  <2>1. tasks # <<>> /\ tasks' = Tail(tasks) /\ mounts' = mounts
    BY <1>5 DEF RunTask
  <2>2. LoadTyped' /\ QueueTyped' /\ PlaceTyped' /\ RestTyped'
    BY <1>0, <1>5, <2>1, TaskTypes
  <2>3. Head(tasks).kind = "elevated" => LookupIsOne'
    BY <1>0, <2>1, LookupShown DEF RestTyped
  <2>4. ASSUME Head(tasks).kind # "elevated" PROVE LookupIsOne'
    <3>1. elev' = elev \/ elev' = Claimed(elev)
      BY <1>5, <2>4 DEF RunTask, ShowChunk, LoadSuperseded, LoadDone, LoadLost, LoadFailed, LoadCancelled, MountStale, MountFailed,
         Mounted, Elevated, Reconnected, ReadInstalled, ReadDirectory
    <3> QED BY <1>0, <1>a, <2>1, <3>1, LookupKept DEF RestTyped
  <2> QED BY <2>2, <2>3, <2>4
<1>6. ASSUME NEW d \in Dirs, ReadDirectory(d, rows, elev), vfs' \in Places, open' \in {open, 0}, Asks,
             UNCHANGED <<sync, parent, insts, cache, tasks, mounts, question>>
      PROVE  LoadTyped' /\ QueueTyped' /\ PlaceTyped' /\ RestTyped' /\ LookupIsOne'
  <2>1. LoadTyped' /\ QueueTyped' /\ elev' = Claimed(elev)
    BY <1>0, <1>6, <1>a, ReadTypes
  <2>2. LookupIsOne'
    BY <1>0, <1>6, <1>a, <2>1, LookupKept DEF RestTyped
  <2>3. PlaceTyped'
    BY <1>0, <1>6, <1>a, InstsTypes, PlaceTypes DEF PlaceTyped
  <2>4. RestTyped'
    BY <1>0, <1>6, <1>c DEF RestTyped, question
  <2> QED BY <2>1, <2>2, <2>3, <2>4
<1>7. CASE Reload
  <2>1. ReadDirectory(vfs.dir, rows, elev) /\ Asks /\ UNCHANGED <<sync, vfs, parent, insts, cache, tasks, open, mounts, question>>
    BY <1>7 DEF Reload
  <2> QED BY <1>6, <1>a, <2>1
<1>8. CASE EscapeMount
  <2>1. ReadDirectory(vfs.dir, rows, elev) /\ Asks /\ open' = 0 /\ UNCHANGED <<sync, vfs, parent, insts, cache, tasks, mounts, question>>
    BY <1>8 DEF EscapeMount
  <2> QED BY <1>6, <1>a, <2>1
<1>9. ASSUME NEW d \in Dirs, Navigate(d)
      PROVE  LoadTyped' /\ QueueTyped' /\ PlaceTyped' /\ RestTyped' /\ LookupIsOne'
  <2>1. ReadDirectory(d, rows, elev) /\ Asks /\ open' = 0 /\ vfs' = [vfs EXCEPT !.dir = d]
        /\ UNCHANGED <<sync, parent, insts, cache, tasks, mounts, question>>
    BY <1>9 DEF Navigate
  <2>2. vfs' \in Places
    BY <1>a, <2>1, PlacesAre
  <2> QED BY <1>6, <2>1, <2>2
<1>10. CASE NavigateRefused
  <2>1. /\ Asks /\ open' = 0 /\ isLoading' = FALSE /\ elev' = Claimed(elev)
        /\ UNCHANGED <<sync, vfs, parent, insts, load, live, failed, rows, last, cache, queue, tasks, mounts, question>>
    BY <1>10 DEF NavigateRefused
  <2>2. LookupIsOne'
    BY <1>0, <1>a, <2>1, LookupKept DEF RestTyped
  <2>3. PlaceTyped'
    BY <1>0, <1>a, <2>1, InstsTypes, PlaceTypes DEF PlaceTyped
  <2>4. LoadTyped' /\ QueueTyped'
    BY <1>0, <1>a, <2>1 DEF LoadTyped, QueueTyped, queue
  <2> QED BY <1>0, <1>c, <2>1, <2>2, <2>3, <2>4 DEF RestTyped, question
<1>11. CASE LeaveRoot
  <2>1. Asks /\ Leave /\ UNCHANGED <<sync, cache, tasks, mounts, question>>
    BY <1>11 DEF LeaveRoot
  <2>2. LoadTyped' /\ QueueTyped' /\ PlaceTyped' /\ elev' = Claimed(elev)
    BY <1>0, <2>1, LeaveTypes
  <2>3. LookupIsOne'
    BY <1>0, <1>a, <2>1, <2>2, LookupKept DEF RestTyped
  <2> QED BY <1>0, <1>c, <2>1, <2>2, <2>3 DEF RestTyped, question
<1>12. CASE Answer
  <2>1. Asks /\ ~ Free /\ asked' = asked - 1 /\ trying' \in {trying, trying + 1} /\ UNCHANGED <<sync, cache, tasks, mounts>>
    BY <1>12 DEF Answer
  <2>2. RestTyped'
    BY <1>0, <1>c, <2>1 DEF RestTyped, Free
  <2>3. CASE Leave
    <3>1. LoadTyped' /\ QueueTyped' /\ PlaceTyped' /\ elev' = Claimed(elev)
      BY <1>0, <2>3, LeaveTypes
    <3> QED BY <1>0, <1>a, <2>1, <2>2, <3>1, LookupKept DEF RestTyped
  <2>4. CASE UNCHANGED <<vfs, parent, insts, load, live, shown, last, queue, open, elev>>
    <3>1. LookupIsOne'
      BY <1>0, <2>1, <2>4, LookupKept DEF RestTyped
    <3> QED BY <1>0, <2>2, <2>4, <3>1 DEF LoadTyped, QueueTyped, PlaceTyped, queue, shown
  <2> QED BY <1>12, <2>3, <2>4 DEF Answer
<1>13. ASSUME NEW d \in Dirs, SwitchToLocal(d)
       PROVE  LoadTyped' /\ QueueTyped' /\ PlaceTyped' /\ RestTyped' /\ LookupIsOne'
  <2>1. PICK p : p = [inst |-> Len(insts) + 1, dir |-> d] OBVIOUS
  <2>2. /\ Asks /\ insts' = Append([insts EXCEPT ![vfs.inst] = "closed"], "installed")
        /\ parent' = None /\ open' = 0 /\ vfs' = p /\ ReadDirectory(p.dir, Bare(p.dir), elev)
        /\ UNCHANGED <<sync, cache, tasks, mounts, question>>
    BY <1>13, <2>1 DEF SwitchToLocal, ReadInstalled
  <2>3. p \in Places /\ p.dir = d
    BY <1>0, <2>1, InstsTypes DEF Places
  <2>4. LoadTyped' /\ QueueTyped' /\ elev' = Claimed(elev)
    <3>1. Bare(p.dir) \in RowSets
      BY <2>3 DEF Bare, RowSets
    <3> QED BY <1>0, <1>a, <2>2, <2>3, <3>1, ReadTypes
  <2>5. insts' \in Seq(States) /\ Len(insts') >= Len(insts)
    <3>1. PICK q : q = [insts EXCEPT ![vfs.inst] = "closed"] OBVIOUS
    <3>2. q \in Seq(States) /\ Len(q) = Len(insts) /\ Len(insts) \in Nat
      BY <1>0, <3>1, InstsTypes DEF States
    <3>3. Append(q, "installed") \in Seq(States) /\ Len(Append(q, "installed")) = Len(q) + 1
      BY <3>2, PutLast DEF States
    <3> QED BY <2>2, <3>1, <3>2, <3>3
  <2>6. PlaceTyped'
    BY <1>0, <2>2, <2>3, <2>5, PlaceTypes
  <2>7. LookupIsOne'
    BY <1>0, <1>a, <2>2, <2>4, LookupKept DEF RestTyped
  <2> QED BY <1>0, <1>c, <2>2, <2>4, <2>6, <2>7 DEF RestTyped, question
<1>14. ASSUME NEW d \in Dirs, EnterProvider(d)
       PROVE  LoadTyped' /\ QueueTyped' /\ PlaceTyped' /\ RestTyped' /\ LookupIsOne'
  BY <1>0, <1>14, OpenTypes DEF EnterProvider
<1>15. ASSUME NEW d \in Dirs, OpenPath(d)
       PROVE  LoadTyped' /\ QueueTyped' /\ PlaceTyped' /\ RestTyped' /\ LookupIsOne'
  BY <1>0, <1>15, OpenTypes DEF OpenPath
<1>16. ASSUME NEW d \in Dirs, Elevate(d)
       PROVE  LoadTyped' /\ QueueTyped' /\ PlaceTyped' /\ RestTyped' /\ LookupIsOne'
  <2>1. /\ Asks /\ elev = None /\ isLoading' = TRUE /\ elev' = [src |-> vfs, dir |-> d, own |-> TRUE]
        /\ mounts' = mounts \cup {Looking}
        /\ UNCHANGED <<sync, vfs, parent, insts, load, live, failed, rows, last, cache, queue, tasks, open, question>>
    BY <1>16 DEF Elevate, Looking
  <2>2. elev' \in Lookups /\ elev' # None
    <3>1. [src |-> vfs, dir |-> d, own |-> TRUE] \in Lookups
      BY <1>a DEF Lookups
    <3> QED BY <2>1, <3>1, NothingIs
  <2>3. Found' = {} /\ LookupIsOne'
    BY <2>1, <2>2 DEF LookupIsOne, Found
  <2>4. LoadTyped' /\ QueueTyped' /\ PlaceTyped'
    BY <1>0, <2>1, <2>2 DEF LoadTyped, QueueTyped, PlaceTyped, queue
  <2> QED BY <1>0, <1>c, <2>1, <2>3, <2>4 DEF RestTyped, question
<1>17. ASSUME NEW m \in mounts, Comes(m)
       PROVE  LoadTyped' /\ QueueTyped' /\ PlaceTyped' /\ RestTyped' /\ LookupIsOne'
  BY <1>0, <1>17, ComesTypes
<1>18. CASE ReconnectComes
  <2>1. /\ trying > 0 /\ trying' = trying - 1 /\ asked' = asked
        /\ UNCHANGED <<sync, vfs, parent, insts, load, live, shown, last, cache, queue, open, mounts, elev>>
    BY <1>18 DEF ReconnectComes
  <2>2. PICK ok \in BOOLEAN : Costs(~ ok) /\ tasks' = Append(tasks, [kind |-> "reconnect", ok |-> ok])
    BY <1>18 DEF ReconnectComes
  <2>3. PICK t \in Tasks : t.kind # "elevated" /\ tasks' = Append(tasks, t)
    BY <2>2 DEF Tasks, OtherTask
  <2>4. tasks' \in Seq(Tasks) /\ acts' \in 0..MaxActs
    BY <1>0, <1>b, <2>2, <2>3, PutTypes
  <2>5. trying' \in Nat /\ asked' \in Nat
    BY <1>0, <2>1 DEF RestTyped
  <2>6. LookupIsOne'
    BY <1>0, <2>1, <2>3, LookupKept DEF RestTyped
  <2> QED BY <1>0, <2>1, <2>4, <2>5, <2>6 DEF LoadTyped, QueueTyped, PlaceTyped, RestTyped, shown, queue
<1>19. CASE UNCHANGED vars
  <2>1. LookupIsOne'
    BY <1>0, <1>19, LookupKept DEF RestTyped, vars
  <2> QED BY <1>0, <1>19, <2>1 DEF vars, LoadTyped, QueueTyped, PlaceTyped, RestTyped, shown, queue, question
<1> QED
  BY <1>1, <1>2, <1>3, <1>4, <1>5, <1>7, <1>8, <1>9, <1>10, <1>11, <1>12, <1>13, <1>14, <1>15, <1>16, <1>17, <1>18, <1>19
  DEF Next, Rest

-----------------------------------------------------------------------------
(***************************************************************************)
(* One remote read                                                         *)
(***************************************************************************)
LEMMA LeftHolds ==
  ASSUME LeftAreLocal, [Next]_vars
  PROVE  LeftAreLocal'
<1>1. ASSUME NEW d, NEW now, NEW e, ReadDirectory(d, now, e) PROVE LeftAreLocal'
  BY <1>1 DEF ReadDirectory, Enqueue, LeftAreLocal
<1>2. CASE LeftReturns
  BY <1>2 DEF LeftReturns, LeftAreLocal
<1>3. CASE left' = left
  BY <1>3 DEF LeftAreLocal
<1>4. CASE RunTask
  <2>1. PICK t : \/ ShowChunk(t)  \/ LoadSuperseded(t) \/ LoadDone(t) \/ LoadLost(t)
                 \/ LoadFailed(t) \/ LoadCancelled(t)
                 \/ MountStale(t) \/ MountFailed(t)    \/ Mounted(t)
                 \/ Elevated(t)   \/ Reconnected(t)
    BY <1>4 DEF RunTask
  <2>2. CASE ShowChunk(t) \/ LoadSuperseded(t) \/ LoadDone(t) \/ LoadLost(t) \/ LoadCancelled(t) \/ MountStale(t)
    BY <1>3, <2>2 DEF ShowChunk, LoadSuperseded, LoadDone, LoadLost, LoadCancelled, MountStale, queue
  <2>3. CASE LoadFailed(t)
    BY <1>1, <1>3, <2>3 DEF LoadFailed, queue
  <2>4. CASE MountFailed(t) \/ Mounted(t)
    BY <1>1, <2>4 DEF MountFailed, Mounted, ReadInstalled
  <2>5. CASE Elevated(t)
    BY <1>1, <1>3, <2>5 DEF Elevated, queue
  <2>6. CASE Reconnected(t)
    BY <1>1, <1>3, <2>6 DEF Reconnected, queue
  <2> QED BY <2>1, <2>2, <2>3, <2>4, <2>5, <2>6
<1>5. CASE Reload \/ LeaveRoot \/ EscapeMount \/ \E d \in Dirs : Navigate(d) \/ SwitchToLocal(d)
  BY <1>1, <1>5 DEF Reload, LeaveRoot, Leave, EscapeMount, Navigate, SwitchToLocal, ReadInstalled
<1>6. CASE Answer
  BY <1>1, <1>3, <1>6 DEF Answer, Leave, ReadInstalled, queue
<1>7. CASE NavigateRefused \/ \E d \in Dirs : EnterProvider(d) \/ OpenPath(d) \/ Elevate(d)
  BY <1>3, <1>7 DEF NavigateRefused, EnterProvider, OpenPath, OpenVFS, Elevate, queue
<1>8. CASE ReadChunk \/ WorkerNext \/ (\E res \in Results : ReadReturns(res)) \/ ReconnectComes
           \/ \E m \in mounts : Comes(m)
  BY <1>3, <1>8 DEF ReadChunk, WorkerNext, ReadReturns, ReconnectComes, Comes, queue
<1>9. CASE UNCHANGED vars
  BY <1>3, <1>9 DEF vars, queue
<1> QED BY <1>2, <1>4, <1>5, <1>6, <1>7, <1>8, <1>9 DEF Next, Rest

-----------------------------------------------------------------------------
(***************************************************************************)
(* Whose a file system is                                                  *)
(***************************************************************************)
LEMMA PostedTaken ==
  ASSUME tasks \in Seq(Tasks), tasks # <<>>, tasks' = Tail(tasks)
  PROVE  /\ \A i \in Posted' : i \in Nat /\ i + 1 # 1 /\ i + 1 \in Posted /\ tasks'[i] = tasks[i + 1]
         /\ \A i \in Posted : i \in Nat /\ (i # 1 => i - 1 \in Posted' /\ tasks'[i - 1] = tasks[i])
         /\ Head(tasks) = tasks[1]
         /\ Head(tasks).kind = "mount" => 1 \in Posted
BY TakeFirst DEF Posted

LEMMA PostedPut ==
  ASSUME tasks \in Seq(Tasks), NEW t \in Tasks, tasks' = Append(tasks, t)
  PROVE  /\ \A i \in Posted : i \in Posted' /\ tasks'[i] = tasks[i]
         /\ t.kind # "mount" => Posted' = Posted
         /\ t.kind = "mount" => /\ Posted' = Posted \cup {Len(tasks) + 1} /\ Len(tasks) + 1 \notin Posted
                                /\ tasks'[Len(tasks) + 1] = t
BY PutLast DEF Posted

\* A task is taken; what the others own stays, and it owns nothing any more.
LEMMA TakenOwns ==
  ASSUME tasks \in Seq(Tasks), TasksOwn, tasks # <<>>, tasks' = Tail(tasks),
         \A i \in Posted : i # 1 => /\ tasks[i].mount.k \in DOMAIN insts'
                                    /\ insts'[tasks[i].mount.k] = insts[tasks[i].mount.k],
         \A k \in DOMAIN insts' : insts'[k] = "handed" =>
           /\ k \in DOMAIN insts /\ insts[k] = "handed"
           /\ 1 \in Posted => tasks[1].mount.k # k
  PROVE  TasksOwn'
<1>1. /\ \A i \in Posted' : i \in Nat /\ i + 1 # 1 /\ i + 1 \in Posted /\ tasks'[i] = tasks[i + 1]
      /\ \A i \in Posted : i \in Nat /\ (i # 1 => i - 1 \in Posted' /\ tasks'[i - 1] = tasks[i])
  BY PostedTaken
<1>2. \A i \in Posted' : tasks'[i].mount.k \in DOMAIN insts'
                         /\ insts'[tasks'[i].mount.k] = IF tasks'[i].ok THEN "handed" ELSE "closed"
  <2> TAKE i \in Posted'
  <2>1. PICK j : j = i + 1 OBVIOUS
  <2>2. j \in Posted /\ j # 1 /\ tasks'[i] = tasks[j]
    BY <1>1, <2>1
  <2>3. PICK t : t = tasks[j] OBVIOUS
  <2>4. t.mount.k \in DOMAIN insts' /\ insts'[t.mount.k] = insts[t.mount.k]
    BY <2>2, <2>3
  <2>5. insts[t.mount.k] = IF t.ok THEN "handed" ELSE "closed"
    BY <2>2, <2>3 DEF TasksOwn
  <2>6. tasks'[i] = t
    BY <2>2, <2>3
  <2> QED BY <2>4, <2>5, <2>6
<1>3. \A i, j \in Posted' : tasks'[i].mount.k = tasks'[j].mount.k => i = j
  <2> TAKE i, j \in Posted'
  <2>1. PICK a, b : a = i + 1 /\ b = j + 1 OBVIOUS
  <2>2. a \in Posted /\ b \in Posted /\ tasks'[i] = tasks[a] /\ tasks'[j] = tasks[b] /\ i \in Nat /\ j \in Nat
    BY <1>1, <2>1
  <2>3. tasks[a].mount.k = tasks[b].mount.k => a = b
    BY <2>2 DEF TasksOwn
  <2> QED BY <2>1, <2>2, <2>3
<1>4. \A k \in DOMAIN insts' : insts'[k] = "handed" => \E i \in Posted' : tasks'[i].mount.k = k
  <2> TAKE k \in DOMAIN insts'
  <2> HAVE insts'[k] = "handed"
  <2>1. PICK i \in Posted : tasks[i].mount.k = k
    BY DEF TasksOwn
  <2>2. i # 1
    BY <2>1
  <2> QED BY <1>1, <2>1, <2>2
<1> QED BY <1>2, <1>3, <1>4 DEF TasksOwn

\* No task of a mount comes or goes.
LEMMA StayOwns ==
  ASSUME TasksOwn, \A i : i \in Posted' <=> i \in Posted, \A i \in Posted : tasks'[i] = tasks[i],
         \A i \in Posted : /\ tasks[i].mount.k \in DOMAIN insts'
                           /\ insts'[tasks[i].mount.k] = insts[tasks[i].mount.k],
         \A k \in DOMAIN insts' : insts'[k] = "handed" => k \in DOMAIN insts /\ insts[k] = "handed"
  PROVE  TasksOwn'
BY DEF TasksOwn

LEMMA MountsStay ==
  ASSUME MountsOwn, mounts \subseteq Mounting \cup {Looking},
         \A m \in mounts' : m \in mounts \/ m = Looking,
         \A m \in mounts : m.k # 0 => m.k \in DOMAIN insts' /\ insts'[m.k] = insts[m.k]
  PROVE  MountsOwn'
<1>1. Looking.k = 0
  BY DEF Looking
<1>2. \A m \in mounts' : m.k = 0 => m = Looking
  BY UnderWayIs
<1>3. \A m \in mounts' : m.k # 0 => m \in mounts
  BY <1>1
<1> QED BY <1>2, <1>3 DEF MountsOwn

\* Nothing of it moves.
LEMMA SameOwners ==
  ASSUME Owned, RestTyped, PlaceTyped, UNCHANGED <<insts, parent>>, vfs'.inst = vfs.inst,
         \A m \in mounts' : m \in mounts \/ m = Looking,
         \/ tasks' = tasks
         \/ \E t \in Tasks : t.kind # "mount" /\ tasks' = Append(tasks, t)
         \/ tasks # <<>> /\ tasks' = Tail(tasks) /\ (Head(tasks).kind = "mount" => ~ Head(tasks).ok)
  PROVE  Owned'
<1>1. tasks \in Seq(Tasks) /\ mounts \subseteq Mounting \cup {Looking}
  BY DEF RestTyped
<1>2. MountsOwn'
  BY <1>1, MountsStay DEF Owned, MountsOwn
<1>3. PanelOwns'
  BY DEF Owned, PanelOwns
<1>4. /\ \A i \in Posted : /\ tasks[i].mount.k \in DOMAIN insts'
                           /\ insts'[tasks[i].mount.k] = insts[tasks[i].mount.k]
      /\ \A k \in DOMAIN insts' : insts'[k] = "handed" => k \in DOMAIN insts /\ insts[k] = "handed"
      /\ TasksOwn
  BY DEF Owned, TasksOwn
<1>5. ASSUME tasks' = tasks PROVE TasksOwn'
  <2>1. (\A i : i \in Posted' <=> i \in Posted) /\ \A i \in Posted : tasks'[i] = tasks[i]
    BY <1>5 DEF Posted
  <2> QED BY <1>4, <2>1, StayOwns
<1>6. ASSUME \E t \in Tasks : t.kind # "mount" /\ tasks' = Append(tasks, t) PROVE TasksOwn'
  <2>1. (\A i : i \in Posted' <=> i \in Posted) /\ \A i \in Posted : tasks'[i] = tasks[i]
    BY <1>1, <1>6, PostedPut
  <2> QED BY <1>4, <2>1, StayOwns
<1>7. ASSUME tasks # <<>>, tasks' = Tail(tasks), Head(tasks).kind = "mount" => ~ Head(tasks).ok PROVE TasksOwn'
  <2>1. 1 \in Posted => insts[tasks[1].mount.k] = "closed"
    <3>1. 1 \in Posted => ~ tasks[1].ok
      BY <1>1, <1>7, TakeFirst DEF Posted
    <3> QED BY <1>4, <3>1 DEF TasksOwn
  <2>2. \A k \in DOMAIN insts' : insts'[k] = "handed" =>
          /\ k \in DOMAIN insts /\ insts[k] = "handed"
          /\ 1 \in Posted => tasks[1].mount.k # k
    BY <1>4, <2>1
  <2> QED BY <1>1, <1>4, <1>7, <2>2, TakenOwns
<1>8. TasksOwn'
  BY <1>5, <1>6, <1>7
<1> QED BY <1>2, <1>3, <1>8 DEF Owned

\* Only file systems the panel is done with, or has just made, change.
LEMMA OthersStay ==
  ASSUME MountsOwn, TasksOwn, mounts \subseteq Mounting \cup {Looking}, tasks' = tasks, mounts' = mounts,
         \A k \in DOMAIN insts : k \in DOMAIN insts' /\ (insts[k] # "installed" => insts'[k] = insts[k]),
         \A k \in DOMAIN insts' : insts'[k] = "handed" => k \in DOMAIN insts /\ insts[k] = "handed"
  PROVE  MountsOwn' /\ TasksOwn'
<1>1. \A m \in mounts : m.k # 0 => m.k \in DOMAIN insts' /\ insts'[m.k] = insts[m.k]
  BY DEF MountsOwn
<1>2. \A i \in Posted : /\ tasks[i].mount.k \in DOMAIN insts'
                        /\ insts'[tasks[i].mount.k] = insts[tasks[i].mount.k]
  BY DEF TasksOwn
<1>3. (\A i : i \in Posted' <=> i \in Posted) /\ \A i \in Posted : tasks'[i] = tasks[i]
  BY DEF Posted
<1> QED BY <1>1, <1>2, <1>3, MountsStay, StayOwns

LEMMA InstsAre ==
  ASSUME PlaceTyped
  PROVE  /\ \A k \in DOMAIN insts : insts[k] \in States
         /\ DOMAIN insts = 1..Len(insts) /\ Len(insts) \in Nat
BY QueueDomain DEF PlaceTyped

\* The first task was one of a mount, which owned its file system.
LEMMA HeadOwns ==
  ASSUME Owned, RestTyped, tasks # <<>>, Head(tasks).kind = "mount"
  PROVE  /\ Head(tasks).mount.k \in DOMAIN insts
         /\ insts[Head(tasks).mount.k] = IF Head(tasks).ok THEN "handed" ELSE "closed"
         /\ Head(tasks).mount.k # vfs.inst
         /\ parent # None => Head(tasks).mount.k # parent.inst
         /\ \A m \in mounts : m.k # 0 => m.k # Head(tasks).mount.k
         /\ \A i \in Posted : i # 1 => tasks[i].mount.k # Head(tasks).mount.k
         /\ 1 \in Posted /\ tasks[1] = Head(tasks)
<1>1. PICK t : t = Head(tasks) OBVIOUS
<1>2. 1 \in Posted /\ tasks[1] = t
  BY <1>1, TakeFirst DEF Posted, RestTyped
<1>3. /\ t.mount.k \in DOMAIN insts /\ insts[t.mount.k] = IF t.ok THEN "handed" ELSE "closed"
      /\ \A i \in Posted : i # 1 => tasks[i].mount.k # t.mount.k
  BY <1>2 DEF Owned, TasksOwn
<1>4. insts[t.mount.k] # "installed" /\ insts[t.mount.k] # "opening"
  BY <1>3
<1> QED BY <1>1, <1>2, <1>3, <1>4 DEF Owned, MountsOwn, PanelOwns

LEMMA StaleOwns ==
  ASSUME Owned, RestTyped, PlaceTyped, tasks # <<>>, tasks' = Tail(tasks), mounts' = mounts,
         MountStale(Head(tasks))
  PROVE  Owned'
<1>1. PICK k : k = Head(tasks).mount.k OBVIOUS
<1>2. insts' = [insts EXCEPT ![k] = "closed"] /\ vfs' = vfs /\ parent' = parent /\ Head(tasks).kind = "mount"
  BY <1>1 DEF MountStale
<1>3. /\ k \in DOMAIN insts /\ k # vfs.inst /\ (parent # None => k # parent.inst)
      /\ \A m \in mounts : m.k # 0 => m.k # k
      /\ \A i \in Posted : i # 1 => tasks[i].mount.k # k
      /\ 1 \in Posted /\ tasks[1].mount.k = k
  BY <1>1, <1>2, HeadOwns
<1>4. DOMAIN insts' = DOMAIN insts /\ insts'[k] = "closed" /\ \A j \in DOMAIN insts : j # k => insts'[j] = insts[j]
  BY <1>2, <1>3
<1>5. MountsOwn'
  <2>1. \A m \in mounts : m.k # 0 => m.k \in DOMAIN insts' /\ insts'[m.k] = insts[m.k]
    BY <1>3, <1>4 DEF Owned, MountsOwn
  <2> QED BY <2>1, MountsStay DEF Owned, RestTyped
<1>6. TasksOwn'
  <2>1. \A i \in Posted : i # 1 => /\ tasks[i].mount.k \in DOMAIN insts'
                                   /\ insts'[tasks[i].mount.k] = insts[tasks[i].mount.k]
    BY <1>3, <1>4 DEF Owned, TasksOwn
  <2>2. \A j \in DOMAIN insts' : insts'[j] = "handed" =>
           /\ j \in DOMAIN insts /\ insts[j] = "handed"
           /\ 1 \in Posted => tasks[1].mount.k # j
    BY <1>3, <1>4
  <2> QED BY <2>1, <2>2, TakenOwns DEF Owned, RestTyped
<1>7. PanelOwns'
  BY <1>2, <1>3, <1>4 DEF Owned, PanelOwns
<1> QED BY <1>5, <1>6, <1>7 DEF Owned

LEMMA MountedOwns ==
  ASSUME Owned, RestTyped, PlaceTyped, tasks # <<>>, tasks' = Tail(tasks), mounts' = mounts,
         Mounted(Head(tasks))
  PROVE  Owned'
<1>1. PICK k, c : k = Head(tasks).mount.k /\ c = Head(tasks).mount.child OBVIOUS
<1>2. /\ Head(tasks).kind = "mount" /\ Head(tasks).ok
      /\ parent' = IF c THEN vfs ELSE None
      /\ vfs' = [inst |-> k, dir |-> Head(tasks).mount.dir]
      /\ insts' = [j \in DOMAIN insts |->
                 CASE j = k                 -> "installed"
                   [] j = vfs.inst /\ ~ c   -> "closed"
                   [] OTHER                 -> insts[j]]
  BY <1>1 DEF Mounted, ReadInstalled
<1>3. /\ k \in DOMAIN insts /\ k # vfs.inst
      /\ \A m \in mounts : m.k # 0 => m.k # k
      /\ \A i \in Posted : i # 1 => tasks[i].mount.k # k
      /\ 1 \in Posted /\ tasks[1].mount.k = k
  BY <1>1, <1>2, HeadOwns
<1>4. /\ DOMAIN insts' = DOMAIN insts /\ insts'[k] = "installed"
      /\ \A j \in DOMAIN insts : j # k /\ j # vfs.inst => insts'[j] = insts[j]
      /\ insts'[vfs.inst] = IF c THEN "installed" ELSE "closed"
      /\ vfs.inst \in DOMAIN insts /\ insts[vfs.inst] = "installed"
  BY <1>2, <1>3 DEF Owned, PanelOwns
<1>5. MountsOwn'
  <2>1. \A m \in mounts : m.k # 0 => m.k \in DOMAIN insts' /\ insts'[m.k] = insts[m.k]
    BY <1>3, <1>4 DEF Owned, MountsOwn
  <2> QED BY <2>1, MountsStay DEF Owned, RestTyped
<1>6. TasksOwn'
  <2>0. \A i \in Posted : tasks[i].mount.k \in DOMAIN insts /\ insts[tasks[i].mount.k] # "installed"
    BY DEF Owned, TasksOwn
  <2>1. \A i \in Posted : i # 1 => /\ tasks[i].mount.k \in DOMAIN insts'
                                   /\ insts'[tasks[i].mount.k] = insts[tasks[i].mount.k]
    BY <1>3, <1>4, <2>0
  <2>2. \A j \in DOMAIN insts' : insts'[j] = "handed" =>
           /\ j \in DOMAIN insts /\ insts[j] = "handed"
           /\ 1 \in Posted => tasks[1].mount.k # j
    BY <1>3, <1>4
  <2> QED BY <2>1, <2>2, TakenOwns DEF Owned, RestTyped
<1>7. PanelOwns'
  <2>1. vfs'.inst = k
    BY <1>2
  <2>2. parent' # None => c /\ parent' = vfs
    BY <1>2
  <2> QED BY <1>3, <1>4, <2>1, <2>2 DEF PanelOwns
<1> QED BY <1>5, <1>6, <1>7 DEF Owned

LEMMA LeaveOwns ==
  ASSUME Owned, RestTyped, PlaceTyped, tasks' = tasks, mounts' = mounts, Leave
  PROVE  Owned'
<1>1. parent # None /\ parent' = None /\ vfs' = parent /\ insts' = [insts EXCEPT ![vfs.inst] = "closed"]
  BY DEF Leave, Close, ReadInstalled
<1>2. /\ vfs.inst \in DOMAIN insts /\ insts[vfs.inst] = "installed"
      /\ parent.inst \in DOMAIN insts /\ insts[parent.inst] = "installed" /\ parent.inst # vfs.inst
  BY <1>1 DEF Owned, PanelOwns
<1>3. /\ DOMAIN insts' = DOMAIN insts /\ insts'[vfs.inst] = "closed"
      /\ \A k \in DOMAIN insts : k # vfs.inst => insts'[k] = insts[k]
  BY <1>1, <1>2
<1>4. \A k \in DOMAIN insts : k \in DOMAIN insts' /\ (insts[k] # "installed" => insts'[k] = insts[k])
  BY <1>2, <1>3
<1>5. \A k \in DOMAIN insts' : insts'[k] = "handed" => k \in DOMAIN insts /\ insts[k] = "handed"
  BY <1>2, <1>3
<1>6. MountsOwn' /\ TasksOwn'
  BY <1>4, <1>5, OthersStay DEF Owned, RestTyped
<1>7. PanelOwns'
  BY <1>1, <1>2, <1>3 DEF PanelOwns
<1> QED BY <1>6, <1>7 DEF Owned

LEMMA SwitchOwns ==
  ASSUME Owned, RestTyped, PlaceTyped, NEW d \in Dirs, SwitchToLocal(d)
  PROVE  Owned'
<1>1. /\ parent' = None /\ vfs' = [inst |-> Len(insts) + 1, dir |-> d] /\ tasks' = tasks /\ mounts' = mounts
      /\ insts' = Append([insts EXCEPT ![vfs.inst] = "closed"], "installed")
  BY DEF SwitchToLocal, ReadInstalled
<1>2. vfs.inst \in DOMAIN insts /\ insts[vfs.inst] = "installed"
  BY DEF Owned, PanelOwns
<1>3. PICK s : s = [insts EXCEPT ![vfs.inst] = "closed"] OBVIOUS
<1>4. s \in Seq(States) /\ DOMAIN s = DOMAIN insts /\ Len(s) = Len(insts)
  BY <1>3, Updated DEF PlaceTyped, States
<1>5. s[vfs.inst] = "closed" /\ \A k \in DOMAIN insts : k # vfs.inst => s[k] = insts[k]
  BY <1>2, <1>3
<1>6. insts' = Append(s, "installed") /\ "installed" \in States
  BY <1>1, <1>3 DEF States
<1>7. /\ DOMAIN insts' = DOMAIN insts \cup {Len(insts) + 1} /\ Len(insts) + 1 \notin DOMAIN insts
      /\ insts'[Len(insts) + 1] = "installed"
      /\ \A k \in DOMAIN insts : insts'[k] = s[k]
  BY <1>4, <1>6, PutLast
<1>8. \A k \in DOMAIN insts : k \in DOMAIN insts' /\ (insts[k] # "installed" => insts'[k] = insts[k])
  BY <1>2, <1>5, <1>7
<1>9. \A k \in DOMAIN insts' : insts'[k] = "handed" => k \in DOMAIN insts /\ insts[k] = "handed"
  BY <1>2, <1>5, <1>7
<1>10. MountsOwn' /\ TasksOwn'
  BY <1>1, <1>8, <1>9, OthersStay DEF Owned, RestTyped
<1>11. PanelOwns'
  BY <1>1, <1>7 DEF PanelOwns
<1> QED BY <1>10, <1>11 DEF Owned

LEMMA OpenOwns ==
  ASSUME Owned, RestTyped, PlaceTyped, NEW d \in Dirs, NEW c \in BOOLEAN, OpenVFS(d, c)
  PROVE  Owned'
<1>1. PICK n, s : n = Len(insts) + 1 /\ s = vfs OBVIOUS
<1>2. PICK w : w = [k |-> n, dir |-> d, child |-> c, src |-> s] OBVIOUS
<1>3. /\ parent' = parent /\ vfs' = vfs /\ tasks' = tasks /\ mounts' = mounts \cup {w}
      /\ insts' = Append(insts, "opening") /\ w.k = n
  BY <1>1, <1>2 DEF OpenVFS
<1>4. /\ DOMAIN insts' = DOMAIN insts \cup {n} /\ n \notin DOMAIN insts
      /\ insts'[n] = "opening"
      /\ \A k \in DOMAIN insts : insts'[k] = insts[k]
  BY <1>1, <1>3, PutLast DEF PlaceTyped, States
<1>5. n # 0
  BY <1>1, InstsAre
<1>6. MountsOwn'
  <2>1. \A m \in mounts' : m.k # 0 => m.k \in DOMAIN insts' /\ insts'[m.k] = "opening"
    BY <1>3, <1>4 DEF Owned, MountsOwn
  <2>2. \A m \in mounts : m.k # n
    BY <1>4, <1>5 DEF Owned, MountsOwn
  <2>3. \A m, o \in mounts' : m.k = o.k => m = o
    BY <1>3, <2>2 DEF Owned, MountsOwn
  <2> QED BY <2>1, <2>3 DEF MountsOwn
<1>7. TasksOwn'
  <2>1. (\A i : i \in Posted' <=> i \in Posted) /\ \A i \in Posted : tasks'[i] = tasks[i]
    BY <1>3 DEF Posted
  <2>2. \A i \in Posted : /\ tasks[i].mount.k \in DOMAIN insts'
                          /\ insts'[tasks[i].mount.k] = insts[tasks[i].mount.k]
    BY <1>4 DEF Owned, TasksOwn
  <2>3. \A k \in DOMAIN insts' : insts'[k] = "handed" => k \in DOMAIN insts /\ insts[k] = "handed"
    BY <1>4
  <2> QED BY <2>1, <2>2, <2>3, StayOwns DEF Owned
<1>8. PanelOwns'
  BY <1>3, <1>4 DEF Owned, PanelOwns
<1> QED BY <1>6, <1>7, <1>8 DEF Owned

\* What was made is handed to the task that is posted, or closed.
LEMMA ComesOwns ==
  ASSUME Owned, RestTyped, PlaceTyped, NEW m \in mounts, Comes(m), m.k # 0
  PROVE  Owned'
<1>1. PICK ok \in BOOLEAN : /\ tasks' = Append(tasks, [kind |-> "mount", mount |-> m, ok |-> ok])
                            /\ insts' = [insts EXCEPT ![m.k] = IF ok THEN "handed" ELSE "closed"]
  BY DEF Comes
<1>2. mounts' = mounts \ {m} /\ vfs' = vfs /\ parent' = parent
  BY DEF Comes
<1>3. PICK t, v, k : t = [kind |-> "mount", mount |-> m, ok |-> ok] /\ v = (IF ok THEN "handed" ELSE "closed")
                     /\ k = m.k
  OBVIOUS
<1>4. t.kind = "mount" /\ t.mount.k = k /\ t.ok = ok /\ tasks' = Append(tasks, t)
  BY <1>1, <1>3
<1>5. t \in Tasks
  <2>1. m \in Mounting
    BY UnderWayIs DEF RestTyped
  <2> QED BY <1>3, <2>1 DEF Tasks, MountTask
<1>6. k \in DOMAIN insts /\ insts[k] = "opening"
  BY <1>3 DEF Owned, MountsOwn
<1>7. DOMAIN insts' = DOMAIN insts /\ insts'[k] = v /\ \A j \in DOMAIN insts : j # k => insts'[j] = insts[j]
  BY <1>1, <1>3, <1>6
<1>8. /\ \A i \in Posted : i \in Posted' /\ tasks'[i] = tasks[i]
      /\ Posted' = Posted \cup {Len(tasks) + 1} /\ Len(tasks) + 1 \notin Posted
      /\ tasks'[Len(tasks) + 1] = t
  BY <1>4, <1>5, PostedPut DEF RestTyped
<1>9. /\ \A i \in Posted : /\ tasks[i].mount.k \in DOMAIN insts
                           /\ insts[tasks[i].mount.k] = IF tasks[i].ok THEN "handed" ELSE "closed"
                           /\ tasks[i].mount.k # k
      /\ \A i, j \in Posted : tasks[i].mount.k = tasks[j].mount.k => i = j
      /\ \A j \in DOMAIN insts : insts[j] = "handed" => \E i \in Posted : tasks[i].mount.k = j
  BY <1>6 DEF Owned, TasksOwn
<1>10. MountsOwn'
  <2>1. \A n \in mounts' : n \in mounts /\ n.k # k
    BY <1>2, <1>3 DEF Owned, MountsOwn
  <2> QED BY <1>7, <2>1 DEF Owned, MountsOwn
<1>11. TasksOwn'
  <2>1. \A i \in Posted' : tasks'[i].mount.k \in DOMAIN insts'
                           /\ insts'[tasks'[i].mount.k] = IF tasks'[i].ok THEN "handed" ELSE "closed"
    <3> TAKE i \in Posted'
    <3>1. CASE i \in Posted
      BY <1>7, <1>8, <1>9, <3>1
    <3>2. CASE i = Len(tasks) + 1
      BY <1>3, <1>4, <1>6, <1>7, <1>8, <3>2
    <3> QED BY <1>8, <3>1, <3>2
  <2>2. \A i, j \in Posted' : tasks'[i].mount.k = tasks'[j].mount.k => i = j
    <3> TAKE i, j \in Posted'
    <3>0. PICK a, b : a = tasks'[i].mount.k /\ b = tasks'[j].mount.k OBVIOUS
    <3>1. i \in Posted => a = tasks[i].mount.k /\ a # k
      BY <1>8, <1>9, <3>0
    <3>2. j \in Posted => b = tasks[j].mount.k /\ b # k
      BY <1>8, <1>9, <3>0
    <3>3. (i \notin Posted => i = Len(tasks) + 1 /\ a = k) /\ (j \notin Posted => j = Len(tasks) + 1 /\ b = k)
      BY <1>4, <1>8, <3>0
    <3>4. i \in Posted /\ j \in Posted /\ a = b => i = j
      BY <1>9, <3>1, <3>2
    <3> QED BY <3>0, <3>1, <3>2, <3>3, <3>4
  <2>3. \A j \in DOMAIN insts' : insts'[j] = "handed" => \E i \in Posted' : tasks'[i].mount.k = j
    <3> TAKE j \in DOMAIN insts'
    <3>1. CASE j = k
      <4>1. Len(tasks) + 1 \in Posted' /\ tasks'[Len(tasks) + 1].mount.k = j
        BY <1>4, <1>8, <3>1
      <4> QED BY <4>1
    <3>2. CASE j # k
      <4> HAVE insts'[j] = "handed"
      <4>1. PICK i \in Posted : tasks[i].mount.k = j
        BY <1>7, <1>9, <3>2
      <4>2. i \in Posted' /\ tasks'[i] = tasks[i]
        BY <1>8
      <4> QED BY <4>1, <4>2
    <3> QED BY <3>1, <3>2
  <2> QED BY <2>1, <2>2, <2>3 DEF TasksOwn
<1>12. PanelOwns'
  BY <1>2, <1>6, <1>7 DEF Owned, PanelOwns
<1> QED BY <1>10, <1>11, <1>12 DEF Owned

LEMMA TaskOwns ==
  ASSUME Owned, LoadTyped, RestTyped, PlaceTyped, RunTask
  PROVE  Owned'
<1>1. PICK t : t = Head(tasks) OBVIOUS
<1>2. /\ tasks # <<>> /\ tasks' = Tail(tasks) /\ mounts' = mounts
      /\ \/ ShowChunk(t)  \/ LoadSuperseded(t) \/ LoadDone(t) \/ LoadLost(t)
         \/ LoadFailed(t) \/ LoadCancelled(t)
         \/ MountStale(t) \/ MountFailed(t)    \/ Mounted(t)
         \/ Elevated(t)   \/ Reconnected(t)
  BY <1>1 DEF RunTask
<1>3. ASSUME UNCHANGED <<insts, parent>>, vfs'.inst = vfs.inst, t.kind = "mount" => ~ t.ok PROVE Owned'
  BY <1>1, <1>2, <1>3, SameOwners
<1>4. \A d : vfs' = [vfs EXCEPT !.dir = d] => vfs'.inst = vfs.inst
  BY DEF PlaceTyped, Places
<1>5. CASE ShowChunk(t) \/ LoadSuperseded(t) \/ LoadDone(t) \/ LoadLost(t) \/ LoadCancelled(t)
  BY <1>3, <1>5 DEF ShowChunk, LoadSuperseded, LoadDone, LoadLost, LoadCancelled
<1>6. CASE LoadFailed(t)
  BY <1>3, <1>4, <1>6 DEF LoadFailed
<1>7. CASE MountStale(t)
  BY <1>1, <1>2, <1>7, StaleOwns
<1>8. CASE MountFailed(t)
  BY <1>3, <1>8 DEF MountFailed
<1>9. CASE Mounted(t)
  BY <1>1, <1>2, <1>9, MountedOwns
<1>10. CASE Elevated(t)
  BY <1>3, <1>4, <1>10 DEF Elevated
<1>11. CASE Reconnected(t)
  BY <1>3, <1>11 DEF Reconnected
<1> QED BY <1>2, <1>5, <1>6, <1>7, <1>8, <1>9, <1>10, <1>11

LEMMA OwnedHolds ==
  ASSUME Typed, Owned, [Next]_vars
  PROVE  Owned'
<1>1. LoadTyped /\ QueueTyped /\ PlaceTyped /\ RestTyped
  BY TypedIs
<1>2. ASSUME UNCHANGED <<insts, parent>>, vfs'.inst = vfs.inst, mounts' = mounts, tasks' = tasks PROVE Owned'
  BY <1>1, <1>2, SameOwners
<1>3. ASSUME UNCHANGED <<insts, parent, vfs, mounts>>, NEW t \in Tasks, t.kind # "mount", tasks' = Append(tasks, t)
      PROVE  Owned'
  BY <1>1, <1>3, SameOwners
<1>4. \A d : vfs' = [vfs EXCEPT !.dir = d] => vfs'.inst = vfs.inst
  BY <1>1 DEF PlaceTyped, Places
<1>5. CASE ReadChunk
  <2>1. tasks' = tasks \/ tasks' = Append(tasks, [kind |-> "chunk", load |-> running.load])
    BY <1>5 DEF ReadChunk
  <2>2. [kind |-> "chunk", load |-> running.load] \in Tasks
    BY <1>1, <1>5 DEF ReadChunk, Tasks, LoadTask, QueueTyped, Runs, Reads
  <2>3. [kind |-> "chunk", load |-> running.load].kind = "chunk"
    OBVIOUS
  <2>4. UNCHANGED <<insts, parent, vfs, mounts>>
    BY <1>5 DEF ReadChunk
  <2> QED BY <1>2, <1>3, <2>1, <2>2, <2>3, <2>4
<1>6. ASSUME NEW res \in Results, ReadReturns(res) PROVE Owned'
  <2>1. tasks' = tasks \/ tasks' = Append(tasks, [kind |-> "done", load |-> running.load,
                                                  got |-> running.got, res |-> res])
    BY <1>6 DEF ReadReturns
  <2>2. [kind |-> "done", load |-> running.load, got |-> running.got, res |-> res] \in Tasks
    <3>1. running.load \in Loads /\ running.got \in 0..MaxChunks
      BY <1>1, <1>6, Apart DEF ReadReturns, QueueTyped, Runs, Reads
    <3> QED BY <3>1 DEF Tasks, LoadTask
  <2>3. [kind |-> "done", load |-> running.load, got |-> running.got, res |-> res].kind = "done"
    OBVIOUS
  <2>4. UNCHANGED <<insts, parent, vfs, mounts>>
    BY <1>6 DEF ReadReturns
  <2> QED BY <1>2, <1>3, <2>1, <2>2, <2>3, <2>4
<1>7. CASE WorkerNext \/ LeftReturns \/ Reload \/ NavigateRefused \/ EscapeMount
  BY <1>2, <1>7 DEF WorkerNext, LeftReturns, Reload, NavigateRefused, EscapeMount
<1>8. CASE RunTask
  BY <1>1, <1>8, TaskOwns
<1>9. CASE LeaveRoot
  BY <1>1, <1>9, LeaveOwns DEF LeaveRoot
<1>10. CASE Answer
  BY <1>1, <1>2, <1>10, LeaveOwns DEF Answer
<1>11. ASSUME NEW d \in Dirs, Navigate(d) PROVE Owned'
  BY <1>2, <1>4, <1>11 DEF Navigate
<1>12. ASSUME NEW d \in Dirs, SwitchToLocal(d) PROVE Owned'
  BY <1>1, <1>12, SwitchOwns
<1>13. ASSUME NEW d \in Dirs, EnterProvider(d) \/ OpenPath(d) PROVE Owned'
  BY <1>1, <1>13, OpenOwns DEF EnterProvider, OpenPath
<1>14. ASSUME NEW d \in Dirs, Elevate(d) PROVE Owned'
  <2>1. UNCHANGED <<insts, parent, vfs, tasks>> /\ mounts' = mounts \cup {Looking}
    BY <1>14 DEF Elevate, Looking
  <2> QED BY <1>1, <2>1, SameOwners
<1>15. ASSUME NEW m \in mounts, Comes(m) PROVE Owned'
  <2>1. CASE m.k = 0
    <3>1. PICK ok \in BOOLEAN : tasks' = Append(tasks, [kind |-> "elevated", ok |-> ok]) /\ insts' = insts
      BY <1>15, <2>1 DEF Comes
    <3>2. PICK t : t = [kind |-> "elevated", ok |-> ok] OBVIOUS
    <3>3. t \in Tasks /\ t.kind = "elevated" /\ tasks' = Append(tasks, t)
      BY <3>1, <3>2 DEF Tasks, OtherTask
    <3>4. parent' = parent /\ vfs' = vfs /\ mounts' = mounts \ {m}
      BY <1>15 DEF Comes
    <3> QED BY <1>1, <3>1, <3>3, <3>4, SameOwners
  <2>2. CASE m.k # 0
    BY <1>1, <1>15, <2>2, ComesOwns
  <2> QED BY <2>1, <2>2
<1>16. CASE ReconnectComes
  <2>1. PICK ok \in BOOLEAN : tasks' = Append(tasks, [kind |-> "reconnect", ok |-> ok])
    BY <1>16 DEF ReconnectComes
  <2>2. PICK t : t = [kind |-> "reconnect", ok |-> ok] OBVIOUS
  <2>3. t \in Tasks /\ t.kind = "reconnect" /\ tasks' = Append(tasks, t)
    BY <2>1, <2>2 DEF Tasks, OtherTask
  <2> QED BY <1>3, <1>16, <2>3 DEF ReconnectComes
<1>17. CASE UNCHANGED vars
  BY <1>2, <1>17 DEF vars
<1> QED BY <1>5, <1>6, <1>7, <1>8, <1>9, <1>10, <1>11, <1>12, <1>13, <1>14, <1>15, <1>16, <1>17 DEF Next, Rest

-----------------------------------------------------------------------------
(***************************************************************************)
(* What holds of every run                                                 *)
(***************************************************************************)
\* The types, one lookup at a time, local reads left behind, and owners.
AlwaysInv == Typed /\ LookupIsOne /\ LeftAreLocal /\ Owned

LEMMA InitHolds == Init => AlwaysInv
<1> SUFFICES ASSUME Init PROVE AlwaysInv
  OBVIOUS
<1>1. tasks = <<>> /\ mounts = {} /\ elev = None /\ parent = None /\ left = {}
  BY DEF Init
<1>2. <<>> \in Seq(Tasks) /\ DOMAIN <<>> = {} /\ Len(<<>>) = 0
  BY EmptySeq
<1>3. DOMAIN tasks = {}
  BY <1>1, <1>2
<1>4. insts = <<"installed">> /\ vfs = [inst |-> 1, dir |-> Home] /\ open = 0
  BY DEF Init
<1>5. insts \in Seq(States) /\ Len(insts) = 1 /\ DOMAIN insts = 1..1 /\ insts[1] = "installed"
  BY <1>4 DEF States
<1>6. PICK l : l = [n |-> 1, dir |-> Home, whole |-> sync] OBVIOUS
<1>7. running = Read(l) /\ sync \in BOOLEAN /\ pending = None
  BY <1>6 DEF Init
<1>8. l \in Loads
  BY <1>6, <1>7, Apart DEF Loads
<1>9. LoadTyped
  <2>1. rows = Bare(Home) /\ load = 1 /\ live = TRUE /\ isLoading = TRUE /\ failed = FALSE /\ last = Home
    BY DEF Init
  <2>2. Bare(Home) \in RowSets
    BY Apart DEF Bare, RowSets
  <2>3. live \in BOOLEAN /\ isLoading \in BOOLEAN /\ failed \in BOOLEAN
    BY <2>1, Zenon
  <2> QED BY <1>1, <2>1, <2>2, <2>3, Apart DEF LoadTyped
<1>10. QueueTyped
  BY <1>1, <1>7, <1>8, ReadsTyped, Apart DEF QueueTyped
<1>11. PlaceTyped
  BY <1>1, <1>4, <1>5, Apart DEF PlaceTyped, Places
<1>12. RestTyped
  <2>1. cache \in [Dirs -> {None, MaxChunks}] /\ asked = 0 /\ trying = 0 /\ acts = 0
    BY DEF Init
  <2>2. cache \in [Dirs -> 0..MaxChunks \cup {None}]
    BY <2>1, Apart
  <2>3. 0 \in 0..MaxActs
    BY PanelAssumption
  <2> QED BY <1>1, <1>2, <1>7, <2>1, <2>2, <2>3 DEF RestTyped
<1>13. Typed
  BY <1>9, <1>10, <1>11, <1>12, TypedIs
<1>14. LookupIsOne /\ LeftAreLocal
  BY <1>1, <1>3 DEF LookupIsOne, Found, LeftAreLocal
<1>15. Owned
  <2>1. MountsOwn
    BY <1>1 DEF MountsOwn
  <2>2. TasksOwn
    BY <1>3, <1>5 DEF TasksOwn, Posted
  <2>3. PanelOwns
    BY <1>1, <1>4, <1>5 DEF PanelOwns
  <2> QED BY <2>1, <2>2, <2>3 DEF Owned
<1> QED BY <1>13, <1>14, <1>15 DEF AlwaysInv

LEMMA StepHolds == AlwaysInv /\ [Next]_vars => AlwaysInv'
BY TypesHold, LeftHolds, OwnedHolds DEF AlwaysInv

\* Whatever the user, the disks and the servers do, the panel's state has its
\* types, one sudo lookup is under way at most, only local reads are left behind,
\* and every file system has one owner (openVFSAsync, finishMount).
THEOREM Invariant == Spec => []AlwaysInv
<1>1. Init => AlwaysInv
  BY InitHolds
<1>2. AlwaysInv /\ [Next]_vars => AlwaysInv'
  BY StepHolds
<1> QED BY <1>1, <1>2, PTL DEF Spec

\* The panel's state keeps its types.
THEOREM TypesAreKept == Spec => []TypeOK
<1>1. AlwaysInv => TypeOK
  BY DEF AlwaysInv, Typed
<1> QED BY <1>1, Invariant, PTL

\* A remote connection carries one read of the panel at a time: the load queue
\* waits for a remote read and leaves behind only a local one.
THEOREM OneRemoteReadAlways == Spec => []OneRemoteRead
<1>1. AlwaysInv => OneRemoteRead
  <2>1. AlwaysInv => left \ Local = {}
    BY DEF AlwaysInv, LeftAreLocal
  <2>2. Cardinality({}) = 0
    BY FS_EmptySet
  <2> QED BY <2>1, <2>2 DEF OneRemoteRead
<1> QED BY <1>1, Invariant, PTL

\* A file system that a mount made is held by its posted task, is the panel's, or
\* is closed, and the panel is never on a closed one nor goes back to one.
THEOREM MadeIsOwnedAlways == Spec => []MadeIsOwned
<1>1. AlwaysInv => MadeIsOwned
  BY DEF AlwaysInv, Owned, TasksOwn, PanelOwns, Posted, MadeIsOwned
<1> QED BY <1>1, Invariant, PTL

-----------------------------------------------------------------------------
(***************************************************************************)
(* The newest load                                                         *)
(***************************************************************************)
ChunkTasks == {t \in Tasks : t.kind = "chunk" /\ t.load.n = load}

LEMMA NewestIs ==
  ASSUME tasks \in Seq(Tasks)
  PROVE  /\ Chunks = Among(tasks, ChunkTasks) /\ IsFiniteSet(Chunks) /\ Cardinality(Chunks) \in Nat
         /\ Cardinality(Chunks) = 0 <=> Chunks = {}
         /\ DOMAIN tasks = 1..Len(tasks) /\ Len(tasks) \in Nat
         /\ \A i \in Chunks : i \in Nat /\ i \in DOMAIN tasks
         /\ \A i \in Ends : i \in Nat /\ i \in DOMAIN tasks
<1>1. DOMAIN tasks = 1..Len(tasks) /\ Len(tasks) \in Nat /\ \A i \in DOMAIN tasks : tasks[i] \in Tasks
  BY QueueDomain
<1>2. Chunks = Among(tasks, ChunkTasks)
  BY <1>1 DEF Chunks, Among, ChunkTasks
<1>3. IsFiniteSet(Chunks) /\ Cardinality(Chunks) \in Nat
  BY <1>2, AmongIsFinite
<1>4. Cardinality(Chunks) = 0 <=> Chunks = {}
  BY <1>3, FS_EmptySet
<1> QED BY <1>1, <1>2, <1>3, <1>4 DEF Chunks, Ends

\* What taking the first task does to the chunks and the end of the newest load ...
LEMMA NewestTaken ==
  ASSUME tasks \in Seq(Tasks), tasks # <<>>, tasks' = Tail(tasks), load' = load
  PROVE  /\ \A i \in Ends' : i \in Nat /\ i + 1 \in Ends /\ tasks'[i] = tasks[i + 1]
         /\ \A i \in Ends : i \in Nat /\ (i # 1 => i - 1 \in Ends')
         /\ \A i \in Chunks' : i \in Nat /\ i + 1 \in Chunks
         /\ 1 \in Chunks <=> Head(tasks).kind = "chunk" /\ Head(tasks).load.n = load
         /\ 1 \in Ends <=> Head(tasks).kind = "done" /\ Head(tasks).load.n = load
         /\ 1 \in Chunks => Cardinality(Chunks') = Cardinality(Chunks) - 1
         /\ 1 \notin Chunks => Cardinality(Chunks') = Cardinality(Chunks)
         /\ Head(tasks) = tasks[1]
<1>1. /\ \A i \in Ends' : i \in Nat /\ i + 1 \in Ends /\ tasks'[i] = tasks[i + 1]
      /\ \A i \in Ends : i \in Nat /\ (i # 1 => i - 1 \in Ends')
  BY TakeFirst DEF Ends
<1>2. /\ \A i \in Chunks' : i \in Nat /\ i + 1 \in Chunks
      /\ 1 \in Chunks <=> Head(tasks).kind = "chunk" /\ Head(tasks).load.n = load
  BY TakeFirst DEF Chunks
<1>3. 1 \in Ends <=> Head(tasks).kind = "done" /\ Head(tasks).load.n = load
  BY TakeFirst DEF Ends
<1>4. Head(tasks) \in Tasks /\ Head(tasks) = tasks[1] /\ Tail(tasks) \in Seq(Tasks)
  BY TakeFirst
<1>5. Chunks = Among(tasks, ChunkTasks)
  BY NewestIs
<1>6. Chunks' = Among(Tail(tasks), ChunkTasks)
  <2>1. DOMAIN Tail(tasks) = 1..Len(Tail(tasks)) /\ \A i \in DOMAIN Tail(tasks) : Tail(tasks)[i] \in Tasks
    BY <1>4, QueueDomain
  <2> QED BY <2>1 DEF Chunks, Among, ChunkTasks
<1>7. Head(tasks) \in ChunkTasks <=> 1 \in Chunks
  BY <1>2, <1>4 DEF ChunkTasks
<1> QED BY <1>1, <1>2, <1>3, <1>4, <1>5, <1>6, <1>7, AmongTaken

\* ... and what putting one last does.
LEMMA NewestPut ==
  ASSUME tasks \in Seq(Tasks), NEW t \in Tasks, tasks' = Append(tasks, t), load' = load
  PROVE  /\ \A i \in Ends : tasks'[i] = tasks[i] /\ i < Len(tasks) + 1
         /\ \A i \in Chunks : i < Len(tasks) + 1
         /\ tasks'[Len(tasks) + 1] = t /\ Len(tasks) + 1 \in Nat
         /\ t.kind # "done" => Ends' = Ends
         /\ t.kind = "done" /\ t.load.n = load => Ends' = Ends \cup {Len(tasks) + 1}
         /\ t.kind # "chunk" => Chunks' = Chunks
         /\ t.kind = "chunk" /\ t.load.n = load => /\ Cardinality(Chunks') = Cardinality(Chunks) + 1
                                                   /\ Chunks' = Chunks \cup {Len(tasks) + 1}
<1>1. \A i \in DOMAIN tasks : i < Len(tasks) + 1
  BY QueueDomain
<1>2. /\ DOMAIN tasks' = DOMAIN tasks \cup {Len(tasks) + 1} /\ Len(tasks) + 1 \notin DOMAIN tasks
      /\ \A i \in DOMAIN tasks : tasks'[i] = tasks[i]
      /\ tasks'[Len(tasks) + 1] = t /\ Len(tasks) + 1 \in Nat
  BY PutLast
<1>3. /\ t.kind # "done" => Ends' = Ends
      /\ t.kind = "done" /\ t.load.n = load => Ends' = Ends \cup {Len(tasks) + 1}
  BY <1>2 DEF Ends
<1>4. /\ t.kind # "chunk" => Chunks' = Chunks
      /\ t.kind = "chunk" /\ t.load.n = load => /\ Chunks' = Chunks \cup {Len(tasks) + 1}
                                                /\ Len(tasks) + 1 \notin Chunks
  BY <1>2 DEF Chunks
<1>5. IsFiniteSet(Chunks)
  BY NewestIs
<1>6. t.kind = "chunk" /\ t.load.n = load => Cardinality(Chunks') = Cardinality(Chunks) + 1
  BY <1>4, <1>5, FS_AddElement
<1> QED BY <1>1, <1>2, <1>3, <1>4, <1>6 DEF Ends, Chunks

\* The panel starts a load, newer than any other.
LEMMA NewestStarts ==
  ASSUME LoadTyped, QueueTyped, RestTyped, Newest, NEW d \in Dirs, NEW now \in RowSets, NEW e \in Lookups \cup {None},
         now.by <= load, ReadDirectory(d, now, e), vfs'.dir = d, cache' = cache,
         tasks' = tasks \/ (tasks # <<>> /\ tasks' = Tail(tasks))
  PROVE  LoadInv'
<1>0. PICK l : l = [n |-> load + 1, dir |-> d, whole |-> sync \/ (~ sync /\ cache[d] # None)] OBVIOUS
<1>1. l \in Loads /\ l.n = load + 1 /\ l.dir = d /\ l.whole = (sync \/ (~ sync /\ cache[d] # None)) /\ l.whole \in BOOLEAN
  BY <1>0 DEF LoadTyped, RestTyped, Loads
<1>2. load' = load + 1 /\ live' = TRUE /\ isLoading' = TRUE /\ failed' = FALSE /\ elev' = Claimed(e) /\ Enqueue(l)
  BY <1>0 DEF ReadDirectory
<1>3. PICK v : Known(v)
  BY DEF Newest
<1>4. load \in Nat
  BY DEF LoadTyped
<1>5. rows'.by <= load /\ rows'.by \in Nat
  <2>1. rows' = Bare(d) \/ rows' = now
    BY DEF ReadDirectory
  <2>2. Bare(d).by = 0 /\ now.by \in Nat
    BY DEF Bare, RowSets
  <2> QED BY <1>4, <2>1, <2>2
<1>6. Read(l) \in Reads /\ Read(l) # None /\ Read(l).load = l /\ Read(l).got = 0 /\ Read(l).st = "reading" /\ l # None
  <2>1. Read(l) \in Reads
    BY <1>1 DEF Read, Reads
  <2> QED BY <1>1, <2>1, ReadsTyped, NothingIs
<1>7. /\ pending # None => pending.n <= load /\ pending.n \in Nat
      /\ running # None => running.load.n <= load /\ running.load.n \in Nat
      /\ \A i \in DOMAIN tasks : tasks[i].kind \in {"chunk", "done"} => tasks[i].load.n <= load /\ tasks[i].load.n \in Nat
  <2>1. \A i \in DOMAIN tasks : tasks[i].kind \in {"chunk", "done"} => tasks[i].load \in Loads
    BY QueueDomain, KindsOf DEF RestTyped
  <2>2. (pending # None => pending \in Loads) /\ (running # None => running.load \in Loads)
    BY DEF QueueTyped, Runs, Reads
  <2> QED BY <1>3, <2>1, <2>2 DEF Known, IsNewest, Loads
<1>8. \A i \in DOMAIN tasks' : tasks'[i].kind \in {"chunk", "done"} => tasks'[i].load.n <= load /\ tasks'[i].load.n \in Nat
  <2>1. CASE tasks' = tasks
    BY <1>7, <2>1
  <2>2. CASE tasks # <<>> /\ tasks' = Tail(tasks)
    <3>1. \A i \in DOMAIN tasks' : i + 1 \in DOMAIN tasks /\ tasks'[i] = tasks[i + 1]
      BY <2>2, TakeFirst DEF RestTyped
    <3> QED BY <1>7, <3>1
  <2> QED BY <2>1, <2>2
<1>9. Chunks' = {} /\ Ends' = {}
  BY <1>2, <1>4, <1>8 DEF Chunks, Ends
<1>10. \/ running' = Read(l) /\ (pending' # None => pending # None /\ pending' = pending)
       \/ running' = running /\ running # None /\ pending' = l
  BY <1>2 DEF Enqueue
<1>11. /\ pending' # None => pending' = l \/ (pending'.n <= load /\ pending'.n \in Nat)
       /\ running' # None => running'.load = l \/ (running'.load.n <= load /\ running'.load.n \in Nat)
  BY <1>6, <1>7, <1>10
<1>12. Known(l.whole)'
  <2>1. pending' # None => IsNewest(pending, l.whole)'
    BY <1>1, <1>2, <1>4, <1>11 DEF IsNewest
  <2>2. running' # None => IsNewest(running.load, l.whole)'
    BY <1>1, <1>2, <1>4, <1>11 DEF IsNewest
  <2>3. \A i \in DOMAIN tasks' : tasks'[i].kind \in {"chunk", "done"} => IsNewest(tasks[i].load, l.whole)'
    BY <1>2, <1>4, <1>8 DEF IsNewest
  <2>4. rows'.by <= load' /\ rows'.by # load' /\ load' > 0
    BY <1>2, <1>4, <1>5
  <2> QED BY <2>1, <2>2, <2>3, <2>4 DEF Known
<1>13. Followed(l.whole)'
  <2>1. OnDisplay' = 0 /\ rows'.by # load' /\ Cardinality(Chunks') = 0
    BY <1>2, <1>4, <1>5, <1>9, FS_EmptySet DEF OnDisplay
  <2>2. IsWaiting' => ~ IsRead'
    <3>1. CASE running' = Read(l) /\ (pending' # None => pending # None /\ pending' = pending)
      BY <1>2, <1>4, <1>7, <3>1 DEF IsWaiting
    <3>2. CASE running' = running /\ running # None /\ pending' = l
      BY <1>2, <1>4, <1>7, <3>2 DEF IsRead
    <3> QED BY <1>10, <3>1, <3>2
  <2>3. IsRead' => OnDisplay' + Cardinality(Chunks') = running'.got
    <3>1. IsRead' => running' = Read(l)
      BY <1>2, <1>4, <1>7, <1>10 DEF IsRead
    <3> QED BY <1>6, <2>1, <3>1
  <2>4. ~ l.whole => cache'[vfs'.dir] = None
    BY <1>1 DEF RestTyped
  <2> QED BY <1>1, <1>9, <2>1, <2>2, <2>3, <2>4 DEF Followed
<1>14. Settled'
  <2>1. ~ IsSettled'
    <3>1. elev' # None => elev'.own = FALSE
      BY <1>2, ClaimTypes
    <3> QED BY <1>2, <3>1 DEF IsSettled
  <2> QED BY <1>2, <2>1 DEF Settled
<1> QED BY <1>1, <1>12, <1>13, <1>14 DEF LoadInv, Newest

\* What is known stays so while no load starts.
LEMMA KnownKept ==
  ASSUME NEW w, Known(w), load' = load, vfs'.dir = vfs.dir,
         pending' # None => pending' = pending,
         running' # None => \/ running # None /\ running'.load = running.load
                            \/ pending # None /\ running'.load = pending,
         \A i \in DOMAIN tasks' : tasks'[i].kind \in {"chunk", "done"} =>
           \/ \E j \in DOMAIN tasks : tasks'[i] = tasks[j]
           \/ running # None /\ tasks'[i].load = running.load,
         rows'.by <= load, rows'.by = load => rows'.dir = vfs.dir
  PROVE  Known(w)'
<1>1. \A l : IsNewest(l, w) <=> l.n <= load /\ (l.n = load => l.dir = vfs.dir /\ l.whole = w)
  BY DEF IsNewest
<1>2. pending' # None => IsNewest(pending', w)
  BY DEF Known
<1>3. running' # None => IsNewest(running'.load, w)
  BY DEF Known
<1>4. \A i \in DOMAIN tasks' : tasks'[i].kind \in {"chunk", "done"} => IsNewest(tasks'[i].load, w)
  <2> TAKE i \in DOMAIN tasks'
  <2> HAVE tasks'[i].kind \in {"chunk", "done"}
  <2>1. CASE \E j \in DOMAIN tasks : tasks'[i] = tasks[j]
    BY <2>1 DEF Known
  <2>2. CASE running # None /\ tasks'[i].load = running.load
    BY <2>2 DEF Known
  <2> QED BY <2>1, <2>2
<1>5. load' > 0
  BY DEF Known
<1> QED BY <1>1, <1>2, <1>3, <1>4, <1>5 DEF Known, IsNewest

\* The tasks that were posted are still those, or the first was taken.
LEMMA TasksComeFrom ==
  ASSUME tasks \in Seq(Tasks),
         \/ tasks' = tasks
         \/ \E t \in Tasks : t.kind \notin {"chunk", "done"} /\ tasks' = Append(tasks, t)
         \/ tasks # <<>> /\ tasks' = Tail(tasks)
  PROVE  \A i \in DOMAIN tasks' : tasks'[i].kind \in {"chunk", "done"} => \E j \in DOMAIN tasks : tasks'[i] = tasks[j]
<1>1. CASE tasks' = tasks
  BY <1>1
<1>2. CASE \E t \in Tasks : t.kind \notin {"chunk", "done"} /\ tasks' = Append(tasks, t)
  <2>1. PICK t \in Tasks : t.kind \notin {"chunk", "done"} /\ tasks' = Append(tasks, t)
    BY <1>2
  <2>2. /\ DOMAIN tasks' = DOMAIN tasks \cup {Len(tasks) + 1}
        /\ \A i \in DOMAIN tasks : tasks'[i] = tasks[i]
        /\ tasks'[Len(tasks) + 1] = t
    BY <2>1, PutLast
  <2> QED BY <2>1, <2>2
<1>3. CASE tasks # <<>> /\ tasks' = Tail(tasks)
  <2>1. \A i \in DOMAIN tasks' : i + 1 \in DOMAIN tasks /\ tasks'[i] = tasks[i + 1]
    BY <1>3, TakeFirst
  <2> QED BY <2>1
<1> QED BY <1>1, <1>2, <1>3

\* What is followed stays so when the first task, of nothing or of an older
\* load, is taken, or one of something else put.
LEMMA FollowedKept ==
  ASSUME tasks \in Seq(Tasks), NEW w, Followed(w), UNCHANGED <<load, rows, cache, running, pending>>,
         vfs'.dir = vfs.dir,
         \/ tasks' = tasks
         \/ \E t \in Tasks : t.kind \notin {"chunk", "done"} /\ tasks' = Append(tasks, t)
         \/ /\ tasks # <<>> /\ tasks' = Tail(tasks)
            /\ ~ (Head(tasks).kind \in {"chunk", "done"} /\ Head(tasks).load.n = load)
  PROVE  Followed(w)' /\ (IsComing' => IsComing)
<1>1. (IsWaiting' <=> IsWaiting) /\ (IsRead' <=> IsRead) /\ OnDisplay' = OnDisplay
  BY DEF IsWaiting, IsRead, OnDisplay
<1>2. ASSUME Chunks' = Chunks, Ends' = Ends, \A i \in Ends : tasks'[i] = tasks[i]
      PROVE  Followed(w)' /\ (IsComing' => IsComing)
  <2>1. IsComing' <=> IsComing
    BY <1>1, <1>2 DEF IsComing
  <2> QED BY <1>1, <1>2, <2>1 DEF Followed
<1>3. CASE tasks' = tasks
  BY <1>2, <1>3 DEF Chunks, Ends
<1>4. CASE \E t \in Tasks : t.kind \notin {"chunk", "done"} /\ tasks' = Append(tasks, t)
  <2>1. PICK t \in Tasks : t.kind \notin {"chunk", "done"} /\ tasks' = Append(tasks, t)
    BY <1>4
  <2>2. Chunks' = Chunks /\ Ends' = Ends /\ \A i \in Ends : tasks'[i] = tasks[i]
    BY <2>1, NewestPut
  <2> QED BY <1>2, <2>2
<1>5. CASE /\ tasks # <<>> /\ tasks' = Tail(tasks)
           /\ ~ (Head(tasks).kind \in {"chunk", "done"} /\ Head(tasks).load.n = load)
  <2>1. 1 \notin Chunks /\ 1 \notin Ends
    BY <1>5, NewestTaken
  <2>2. /\ \A i \in Ends' : i \in Nat /\ i + 1 \in Ends /\ tasks'[i] = tasks[i + 1]
        /\ \A i \in Ends : i \in Nat /\ i - 1 \in Ends'
        /\ \A i \in Chunks' : i \in Nat /\ i + 1 \in Chunks
        /\ Cardinality(Chunks') = Cardinality(Chunks)
    BY <1>5, <2>1, NewestTaken
  <2>3. (Chunks' # {} => Chunks # {}) /\ (Ends' # {} <=> Ends # {})
    BY <2>2
  <2>4. IsComing' => IsComing
    BY <1>1, <2>3 DEF IsComing
  <2>5. \A i \in Ends' : \A j \in Ends' : i = j
    <3>1. \A i, j \in Ends' : i + 1 = j + 1
      BY <2>2 DEF Followed
    <3> QED BY <2>2, <3>1
  <2>6. \A i \in Ends' : \A j \in Chunks' : j < i
    <3>1. \A i \in Ends' : \A j \in Chunks' : j + 1 < i + 1
      BY <2>2 DEF Followed
    <3> QED BY <2>2, <3>1
  <2>7. \A i \in Ends' : ~ IsRead' /\ (~ w => OnDisplay' + Cardinality(Chunks') = tasks'[i].got)
    BY <1>1, <2>2 DEF Followed
  <2>8. IsRead' => Ends' = {} /\ (~ w => OnDisplay' + Cardinality(Chunks') = running'.got)
    BY <1>1, <2>2, <2>3 DEF Followed
  <2>9. IsWaiting' => ~ IsRead' /\ Chunks' = {} /\ Ends' = {} /\ rows'.by # load'
    BY <1>1, <2>3 DEF Followed
  <2>10. Chunks' # {} => ~ w /\ (IsRead' \/ Ends' # {})
    BY <1>1, <2>3 DEF Followed
  <2>11. IsComing' => IF w THEN rows'.by # load' ELSE cache'[vfs'.dir] \in {None, MaxChunks}
    BY <2>4 DEF Followed
  <2> QED BY <2>4, <2>5, <2>6, <2>7, <2>8, <2>9, <2>10, <2>11 DEF Followed
<1> QED BY <1>3, <1>4, <1>5

LEMMA NewestKept ==
  ASSUME RestTyped, LoadInv, UNCHANGED <<load, live, failed, rows, cache, running, pending>>,
         vfs'.dir = vfs.dir, IsSettled' => IsSettled \/ failed \/ Listed,
         \/ tasks' = tasks
         \/ \E t \in Tasks : t.kind \notin {"chunk", "done"} /\ tasks' = Append(tasks, t)
         \/ /\ tasks # <<>> /\ tasks' = Tail(tasks)
            /\ ~ (Head(tasks).kind \in {"chunk", "done"} /\ Alive(Head(tasks).load))
  PROVE  LoadInv'
<1>1. PICK w \in BOOLEAN : Known(w) /\ (live => Followed(w))
  BY DEF LoadInv, Newest
<1>2. tasks \in Seq(Tasks)
  BY DEF RestTyped
<1>3. Known(w)'
  <2>1. \A i \in DOMAIN tasks' : tasks'[i].kind \in {"chunk", "done"} => \E j \in DOMAIN tasks : tasks'[i] = tasks[j]
    BY <1>2, TasksComeFrom
  <2>2. rows'.by <= load /\ (rows'.by = load => rows'.dir = vfs.dir)
    BY <1>1 DEF Known
  <2> QED BY <1>1, <2>1, <2>2, KnownKept
<1>4. live => Followed(w)' /\ (IsComing' => IsComing)
  BY <1>1, <1>2, FollowedKept DEF Alive
<1>5. Listed' <=> Listed
  BY DEF Listed
<1>6. Settled'
  BY <1>4, <1>5 DEF Settled, LoadInv
<1> QED BY <1>3, <1>4, <1>6 DEF LoadInv, Newest

\* A chunk of the newest load is read.
LEMMA ChunkRead ==
  ASSUME LoadTyped, QueueTyped, RestTyped, LoadInv, ReadChunk
  PROVE  LoadInv'
<1>1. PICK r, c : r = running.load /\ c = [kind |-> "chunk", load |-> running.load] OBVIOUS
<1>2. /\ running # None /\ running \in Reads /\ running.st = "reading" /\ Alive(r) /\ r \in Loads
      /\ running' = [running EXCEPT !.got = @ + 1]
      /\ tasks' = IF r.whole THEN tasks ELSE Append(tasks, c)
      /\ c.kind = "chunk" /\ c.load = r
      /\ UNCHANGED <<load, live, rows, cache, vfs, pending, isLoading, elev, failed>>
  BY <1>1 DEF ReadChunk, QueueTyped, Runs, Reads, shown
<1>3. /\ running' \in Reads /\ running' # None /\ running'.st = "reading" /\ running'.load = r
      /\ running'.got = running.got + 1 /\ running.got \in Nat
  BY <1>1, <1>2, NothingIs DEF Reads
<1>4. live /\ r.n = load /\ IsRead /\ IsRead'
  BY <1>1, <1>2, <1>3 DEF Alive, IsRead
<1>5. PICK w \in BOOLEAN : Known(w) /\ Followed(w)
  BY <1>4 DEF LoadInv, Newest
<1>6. r.whole = w
  BY <1>1, <1>2, <1>4, <1>5 DEF Known, IsNewest
<1>7. c \in Tasks /\ tasks \in Seq(Tasks)
  BY <1>1, <1>2 DEF Tasks, LoadTask, RestTyped
<1>8. Ends = {} /\ ~ IsWaiting /\ (~ w => OnDisplay + Cardinality(Chunks) = running.got) /\ (Chunks # {} => ~ w)
      /\ (IF w THEN rows.by # load ELSE cache[vfs.dir] \in {None, MaxChunks})
  BY <1>4, <1>5 DEF Followed, IsComing
<1>9. OnDisplay' = OnDisplay /\ ~ IsWaiting' /\ OnDisplay \in Nat /\ Cardinality(Chunks) \in Nat
  BY <1>2, <1>7, <1>8, NewestIs DEF OnDisplay, IsWaiting, LoadTyped, RowSets
<1>10. Known(w)'
  <2>1. \A i \in DOMAIN tasks' : \/ \E j \in DOMAIN tasks : tasks'[i] = tasks[j]
                                 \/ running # None /\ tasks'[i].load = running.load
    <3>1. CASE tasks' = tasks
      BY <3>1
    <3>2. CASE tasks' = Append(tasks, c)
      BY <1>1, <1>2, <1>7, <3>2, PutLast
    <3> QED BY <1>2, <3>1, <3>2
  <2>2. rows'.by <= load /\ (rows'.by = load => rows'.dir = vfs.dir)
    BY <1>2, <1>5 DEF Known
  <2> QED BY <1>1, <1>2, <1>3, <1>5, <2>1, <2>2, KnownKept
<1>11. Ends' = {} /\ (~ w => Cardinality(Chunks') = Cardinality(Chunks) + 1) /\ (w => Chunks' = {})
  <2>1. CASE w
    BY <1>2, <1>6, <1>8, <2>1 DEF Chunks, Ends
  <2>2. CASE ~ w
    BY <1>2, <1>4, <1>6, <1>7, <1>8, <2>2, NewestPut
  <2> QED BY <1>5, <2>1, <2>2
<1>12. Followed(w)'
  <2>1. ~ w => OnDisplay' + Cardinality(Chunks') = running'.got
    BY <1>3, <1>8, <1>9, <1>11
  <2> QED BY <1>2, <1>4, <1>8, <1>9, <1>11, <2>1 DEF Followed
<1>13. Settled'
  <2>1. ~ failed
    BY <1>4 DEF LoadInv, Settled, IsComing
  <2> QED BY <1>2, <2>1 DEF LoadInv, Settled, IsSettled, Listed
<1> QED BY <1>10, <1>12, <1>13 DEF LoadInv, Newest

\* A read ends; that of the newest load, with its end posted.
LEMMA EndRead ==
  ASSUME LoadTyped, QueueTyped, RestTyped, LoadInv, NEW res \in Results, ReadReturns(res)
  PROVE  LoadInv'
<1>1. PICK r, c : r = running.load
                  /\ c = [kind |-> "done", load |-> running.load, got |-> running.got, res |-> res]
  OBVIOUS
<1>2. /\ running # None /\ running \in Reads /\ running.st = "reading" /\ r \in Loads
      /\ running' = [running EXCEPT !.st = "done"]
      /\ tasks' = IF Alive(r) THEN Append(tasks, c) ELSE tasks
      /\ c.kind = "done" /\ c.load = r /\ c.got = running.got
      /\ UNCHANGED <<load, live, rows, cache, vfs, pending, isLoading, elev, failed>>
  BY <1>1 DEF ReadReturns, QueueTyped, Runs, Reads, shown
<1>3. /\ running' \in Reads /\ running' # None /\ running'.st = "done" /\ running'.load = r
      /\ running.got \in 0..MaxChunks
  BY <1>1, <1>2, NothingIs, Apart DEF Reads, QueueTyped
<1>4. PICK w \in BOOLEAN : Known(w) /\ (live => Followed(w))
  BY DEF LoadInv, Newest
<1>5. c \in Tasks /\ tasks \in Seq(Tasks)
  BY <1>1, <1>2, <1>3 DEF Tasks, LoadTask, RestTyped
<1>6. Known(w)'
  <2>1. \A i \in DOMAIN tasks' : \/ \E j \in DOMAIN tasks : tasks'[i] = tasks[j]
                                 \/ running # None /\ tasks'[i].load = running.load
    <3>1. CASE tasks' = tasks
      BY <3>1
    <3>2. CASE tasks' = Append(tasks, c)
      BY <1>1, <1>2, <1>5, <3>2, PutLast
    <3> QED BY <1>2, <3>1, <3>2
  <2>2. rows'.by <= load /\ (rows'.by = load => rows'.dir = vfs.dir)
    BY <1>2, <1>4 DEF Known
  <2> QED BY <1>1, <1>2, <1>3, <1>4, <2>1, <2>2, KnownKept
<1>7. ~ IsRead' /\ OnDisplay' = OnDisplay /\ (IsWaiting' <=> IsWaiting)
  BY <1>2, <1>3 DEF IsRead, OnDisplay, IsWaiting
<1>8. CASE Alive(r)
  <2>1. live /\ r.n = load /\ IsRead /\ Followed(w)
    BY <1>1, <1>2, <1>4, <1>8 DEF Alive, IsRead
  <2>2. Ends = {} /\ ~ IsWaiting /\ (~ w => OnDisplay + Cardinality(Chunks) = running.got) /\ (Chunks # {} => ~ w)
        /\ (IF w THEN rows.by # load ELSE cache[vfs.dir] \in {None, MaxChunks})
    BY <2>1 DEF Followed, IsComing
  <2>3. PICK n : n = Len(tasks) + 1 OBVIOUS
  <2>4. Chunks' = Chunks /\ Ends' = {n} /\ tasks'[n] = c /\ \A j \in Chunks : j < n
    BY <1>2, <1>5, <1>8, <2>1, <2>2, <2>3, NewestPut
  <2>5. Followed(w)'
    BY <1>2, <1>7, <2>2, <2>4 DEF Followed
  <2>6. Settled'
    <3>1. ~ failed
      BY <2>1 DEF LoadInv, Settled, IsComing
    <3> QED BY <1>2, <3>1 DEF LoadInv, Settled, IsSettled, Listed
  <2> QED BY <1>6, <2>5, <2>6 DEF LoadInv, Newest
<1>9. CASE ~ Alive(r)
  <2>1. tasks' = tasks /\ Chunks' = Chunks /\ Ends' = Ends
    BY <1>2, <1>9 DEF Chunks, Ends
  <2>2. live => ~ IsRead
    BY <1>1, <1>9 DEF Alive, IsRead
  <2>3. live => (IsComing' <=> IsComing)
    BY <1>7, <2>1, <2>2 DEF IsComing
  <2>4. live => Followed(w)'
    BY <1>2, <1>4, <1>7, <2>1, <2>2, <2>3 DEF Followed
  <2>5. Settled'
    BY <1>2, <2>3 DEF LoadInv, Settled, IsSettled, Listed
  <2> QED BY <1>2, <1>6, <2>4, <2>5 DEF LoadInv, Newest
<1> QED BY <1>8, <1>9

\* The worker takes the load that waits; it reads nothing of one that was cancelled.
LEMMA NextTaken ==
  ASSUME LoadTyped, QueueTyped, RestTyped, LoadInv, WorkerNext
  PROVE  LoadInv'
<1>1. /\ running # None /\ running.st = "done" /\ pending' = None
      /\ running' = IF pending = None THEN None
                    ELSE [Read(pending) EXCEPT !.st = IF Alive(pending) THEN "reading" ELSE "done"]
      /\ UNCHANGED <<load, live, rows, cache, vfs, isLoading, elev, failed, tasks>>
  BY DEF WorkerNext, shown
<1>2. /\ pending = None => running' = None
      /\ pending # None => /\ running' # None /\ running'.load = pending /\ running'.got = 0
                           /\ running'.st = (IF Alive(pending) THEN "reading" ELSE "done")
  <2>1. CASE pending # None
    <3>1. Read(pending) \in Reads /\ Read(pending).load = pending /\ Read(pending).got = 0
      BY <2>1 DEF QueueTyped, Read, Reads
    <3>2. PICK s : s = IF Alive(pending) THEN "reading" ELSE "done" OBVIOUS
    <3>3. running' = [Read(pending) EXCEPT !.st = s] /\ s \in {"reading", "done"}
      BY <1>1, <2>1, <3>2
    <3>4. running' \in Reads /\ running'.load = pending /\ running'.got = 0 /\ running'.st = s
      BY <3>1, <3>3 DEF Reads
    <3> QED BY <2>1, <3>2, <3>4, NothingIs
  <2> QED BY <1>1, <2>1
<1>3. PICK w \in BOOLEAN : Known(w) /\ (live => Followed(w))
  BY DEF LoadInv, Newest
<1>4. Known(w)'
  <2>1. rows'.by <= load /\ (rows'.by = load => rows'.dir = vfs.dir)
    BY <1>1, <1>3 DEF Known
  <2> QED BY <1>1, <1>2, <1>3, <2>1, KnownKept
<1>5. /\ ~ IsRead /\ ~ IsWaiting' /\ OnDisplay' = OnDisplay
      /\ Chunks' = Chunks /\ Ends' = Ends
      /\ live => (IsRead' <=> IsWaiting)
  BY <1>1, <1>2 DEF IsRead, IsWaiting, OnDisplay, Chunks, Ends, Alive
<1>6. live => (IsComing' <=> IsComing)
  BY <1>5 DEF IsComing
<1>7. live => Followed(w)'
  <2> SUFFICES ASSUME live PROVE Followed(w)'
    OBVIOUS
  <2>1. IsRead' => Ends' = {} /\ Chunks' = {} /\ OnDisplay' + Cardinality(Chunks') = running'.got
    <3> SUFFICES ASSUME IsRead' PROVE Ends' = {} /\ Chunks' = {} /\ OnDisplay' + Cardinality(Chunks') = running'.got
      OBVIOUS
    <3>1. IsWaiting /\ pending # None
      BY <1>5 DEF IsWaiting
    <3>2. Chunks' = {} /\ Ends' = {} /\ rows.by # load
      BY <1>3, <1>5, <3>1 DEF Followed
    <3>3. OnDisplay' = 0 /\ Cardinality(Chunks') = 0
      BY <1>5, <3>2, FS_EmptySet DEF OnDisplay
    <3> QED BY <1>2, <3>1, <3>2, <3>3
  <2>2. \A i \in Ends' : ~ IsRead'
    BY <2>1
  <2> QED BY <1>1, <1>3, <1>5, <1>6, <2>1, <2>2 DEF Followed
<1>8. Settled'
  BY <1>1, <1>6 DEF LoadInv, Settled, IsSettled, Listed
<1> QED BY <1>1, <1>4, <1>7, <1>8 DEF LoadInv, Newest

\* A chunk of the newest load is shown.
LEMMA ChunkShown ==
  ASSUME LoadTyped, QueueTyped, RestTyped, LoadInv, tasks # <<>>, tasks' = Tail(tasks), ShowChunk(Head(tasks)),
         Alive(Head(tasks).load)
  PROVE  LoadInv'
<1>1. PICK t, l : t = Head(tasks) /\ l = Head(tasks).load OBVIOUS
<1>2. /\ t.kind = "chunk" /\ Alive(l) /\ live /\ l.n = load /\ t.load = l
      /\ UNCHANGED <<load, live, cache, vfs, isLoading, elev, failed, running, pending>>
      /\ rows' = IF rows.by = load THEN [rows EXCEPT !.got = @ + 1]
                 ELSE [dir |-> l.dir, by |-> load, got |-> 1]
  BY <1>1 DEF ShowChunk, Alive, queue
<1>3. PICK w \in BOOLEAN : Known(w) /\ Followed(w)
  BY <1>2 DEF LoadInv, Newest
<1>4. tasks \in Seq(Tasks) /\ load \in Nat /\ rows \in RowSets
  BY DEF RestTyped, LoadTyped
<1>5. /\ 1 \in Chunks /\ 1 \notin Ends /\ Cardinality(Chunks') = Cardinality(Chunks) - 1
      /\ \A i \in Ends' : i \in Nat /\ i + 1 \in Ends /\ tasks'[i] = tasks[i + 1]
      /\ \A i \in Ends : i \in Nat /\ i - 1 \in Ends'
      /\ \A i \in Chunks' : i \in Nat /\ i + 1 \in Chunks
  BY <1>1, <1>2, <1>4, NewestTaken
<1>6. l.dir = vfs.dir
  <2>1. 1 \in DOMAIN tasks /\ tasks[1] = t
    BY <1>1, <1>4, TakeFirst
  <2> QED BY <1>2, <1>3, <2>1 DEF Known, IsNewest
<1>7. /\ ~ w /\ ~ IsWaiting /\ (IsRead \/ Ends # {}) /\ cache[vfs.dir] \in {None, MaxChunks}
      /\ IsRead => OnDisplay + Cardinality(Chunks) = running.got
      /\ \A i \in Ends : OnDisplay + Cardinality(Chunks) = tasks[i].got
  BY <1>3, <1>5 DEF Followed, IsComing
<1>8. /\ rows'.by = load /\ rows'.dir = vfs.dir /\ OnDisplay' = OnDisplay + 1 /\ OnDisplay \in Nat
      /\ rows'.by = load'
  <2>1. CASE rows.by = load
    <3>1. rows' = [rows EXCEPT !.got = @ + 1] /\ rows.dir = vfs.dir
      BY <1>2, <1>3, <2>1 DEF Known
    <3>2. rows'.by = load /\ rows'.dir = vfs.dir /\ rows'.got = rows.got + 1 /\ rows.got \in Nat
      BY <1>4, <2>1, <3>1 DEF RowSets
    <3> QED BY <1>2, <2>1, <3>2 DEF OnDisplay
  <2>2. CASE rows.by # load
    BY <1>2, <1>6, <2>2 DEF OnDisplay
  <2> QED BY <2>1, <2>2
<1>9. Cardinality(Chunks) \in Nat /\ Cardinality(Chunks) > 0
  <2>1. Cardinality(Chunks) \in Nat /\ Cardinality(Chunks) # 0
    BY <1>4, <1>5, NewestIs
  <2> QED BY <2>1
<1>10. OnDisplay' + Cardinality(Chunks') = OnDisplay + Cardinality(Chunks)
  BY <1>5, <1>8, <1>9
<1>11. Known(w)'
  <2>1. \A i \in DOMAIN tasks' : tasks'[i].kind \in {"chunk", "done"} => \E j \in DOMAIN tasks : tasks'[i] = tasks[j]
    BY <1>4, TasksComeFrom
  <2>2. rows'.by <= load /\ (rows'.by = load => rows'.dir = vfs.dir)
    BY <1>4, <1>8
  <2> QED BY <1>2, <1>3, <2>1, <2>2, KnownKept
<1>12. (IsWaiting' <=> IsWaiting) /\ (IsRead' <=> IsRead)
  BY <1>2 DEF IsWaiting, IsRead
<1>13. Followed(w)'
  <2>1. \A i, j \in Ends' : i = j
    <3>1. \A i, j \in Ends' : i + 1 = j + 1
      BY <1>3, <1>5 DEF Followed
    <3> QED BY <1>5, <3>1
  <2>2. \A i \in Ends' : \A j \in Chunks' : j < i
    <3>1. \A i \in Ends' : \A j \in Chunks' : j + 1 < i + 1
      BY <1>3, <1>5 DEF Followed
    <3> QED BY <1>5, <3>1
  <2>3. \A i \in Ends' : ~ IsRead' /\ OnDisplay' + Cardinality(Chunks') = tasks'[i].got
    BY <1>3, <1>5, <1>7, <1>10, <1>12 DEF Followed
  <2>4. IsRead' => Ends' = {} /\ OnDisplay' + Cardinality(Chunks') = running'.got
    BY <1>2, <1>3, <1>5, <1>7, <1>10, <1>12 DEF Followed
  <2>5. IsRead' \/ Ends' # {}
    BY <1>5, <1>7, <1>12
  <2> QED BY <1>2, <1>7, <1>12, <2>1, <2>2, <2>3, <2>4, <2>5 DEF Followed
<1>14. Settled'
  <2>1. ~ failed
    BY <1>2, <1>5 DEF LoadInv, Settled, IsComing
  <2>2. ~ Listed
    <3> SUFFICES ASSUME Listed PROVE FALSE
      OBVIOUS
    <3>1. rows.by = load /\ rows.got = cache[vfs.dir] /\ rows.got \in Nat
      BY <1>4 DEF Listed, RowSets
    <3>2. OnDisplay = MaxChunks
      BY <1>7, <3>1, Apart DEF OnDisplay
    <3>3. MaxChunks \in Nat
      BY Apart
    <3>4. CASE IsRead
      <4>1. running.got <= MaxChunks
        BY <3>4 DEF IsRead, QueueTyped
      <4> QED BY <1>7, <1>9, <3>2, <3>3, <3>4, <4>1
    <3>5. CASE Ends # {}
      <4>1. PICK i \in Ends : TRUE
        BY <3>5
      <4>2. tasks[i].got \in 0..MaxChunks
        BY <1>4, QueueDomain, KindsOf DEF Ends
      <4>3. OnDisplay + Cardinality(Chunks) = tasks[i].got
        BY <1>7, <4>1
      <4> QED BY <1>9, <3>2, <3>3, <4>2, <4>3
    <3> QED BY <1>7, <3>4, <3>5
  <2>3. ~ IsSettled
    BY <2>1, <2>2 DEF LoadInv, Settled
  <2>4. ~ IsSettled' /\ ~ failed'
    BY <1>2, <2>1, <2>3 DEF IsSettled
  <2> QED BY <2>4 DEF Settled
<1> QED BY <1>11, <1>13, <1>14 DEF LoadInv, Newest

\* The end of the newest load is shown: nothing of it is still to come.
LEMMA NoMoreComes ==
  ASSUME RestTyped, tasks # <<>>, tasks' = Tail(tasks), Head(tasks).kind = "done",
         Head(tasks).load.n = load, NEW w, Followed(w), load' = load, running' = running, pending' = pending
  PROVE  /\ ~ IsWaiting' /\ ~ IsRead' /\ Chunks' = {} /\ Ends' = {} /\ ~ IsComing'
         /\ Chunks = {} /\ 1 \in Ends /\ IsComing
<1>1. tasks \in Seq(Tasks)
  BY DEF RestTyped
<1>2. /\ 1 \in Ends
      /\ \A i \in Ends' : i \in Nat /\ i + 1 \in Ends
      /\ \A i \in Chunks' : i \in Nat /\ i + 1 \in Chunks
  BY <1>1, NewestTaken
<1>3. Ends' = {}
  <2>1. \A i \in Ends' : i + 1 = 1
    BY <1>2 DEF Followed
  <2>2. \A i \in Ends' : i > 0 /\ i \in Nat
    BY <1>1, TakeFirst DEF Ends
  <2> QED BY <2>1, <2>2
<1>4. Chunks = {} /\ Chunks' = {}
  <2>1. \A j \in Chunks : j < 1 /\ j \in 1..Len(tasks) /\ Len(tasks) \in Nat
    BY <1>1, <1>2, NewestIs DEF Followed
  <2>2. Chunks = {}
    BY <2>1
  <2> QED BY <1>2, <2>2
<1>5. ~ IsWaiting' /\ ~ IsRead'
  BY <1>2 DEF Followed, IsWaiting, IsRead
<1> QED BY <1>2, <1>3, <1>4, <1>5 DEF IsComing

LEMMA NewestEnds ==
  ASSUME LoadTyped, QueueTyped, RestTyped, LoadInv, tasks # <<>>, tasks' = Tail(tasks),
         Head(tasks).kind = "done", Alive(Head(tasks).load),
         UNCHANGED <<load, live, running, pending>>, vfs' = vfs,
         rows'.by <= load, rows'.by = load => rows'.dir = vfs.dir,
         failed' \/ Listed'
  PROVE  LoadInv'
<1>1. PICK w \in BOOLEAN : Known(w) /\ Followed(w)
  BY DEF LoadInv, Newest, Alive
<1>2. ~ IsWaiting' /\ ~ IsRead' /\ Chunks' = {} /\ Ends' = {} /\ ~ IsComing'
  BY <1>1, NoMoreComes DEF Alive
<1>3. Followed(w)'
  BY <1>2 DEF Followed
<1>4. Known(w)'
  <2>1. \A i \in DOMAIN tasks' : tasks'[i].kind \in {"chunk", "done"} => \E j \in DOMAIN tasks : tasks'[i] = tasks[j]
    BY TasksComeFrom DEF RestTyped
  <2> QED BY <1>1, <2>1, KnownKept
<1>5. Settled'
  BY <1>2 DEF Settled
<1> QED BY <1>3, <1>4, <1>5 DEF LoadInv, Newest

LEMMA DoneShown ==
  ASSUME LoadTyped, QueueTyped, RestTyped, PlaceTyped, LoadInv, tasks # <<>>, tasks' = Tail(tasks),
         LoadDone(Head(tasks))
  PROVE  LoadInv'
<1>1. PICK t, l : t = Head(tasks) /\ l = Head(tasks).load OBVIOUS
<1>2. /\ t.kind = "done" /\ Alive(l) /\ live /\ l.n = load /\ t.load = l
      /\ UNCHANGED <<load, live, vfs, running, pending>>
      /\ cache' = [cache EXCEPT ![l.dir] = t.got]
      /\ rows' = IF l.whole \/ rows.by # load
                   THEN [dir |-> l.dir, by |-> load, got |-> IF l.whole THEN t.got ELSE 0]
                   ELSE rows
  BY <1>1 DEF LoadDone, Alive, queue
<1>3. PICK w \in BOOLEAN : Known(w) /\ Followed(w)
  BY <1>2 DEF LoadInv, Newest
<1>4. tasks \in Seq(Tasks) /\ load \in Nat /\ rows \in RowSets /\ vfs.dir \in Dirs /\ cache \in [Dirs -> 0..MaxChunks \cup {None}]
  BY DEF RestTyped, LoadTyped, PlaceTyped, Places
<1>5. l.dir = vfs.dir /\ l.whole = w /\ tasks[1] = t /\ t.got \in Nat
  <2>1. 1 \in DOMAIN tasks /\ tasks[1] = t /\ t \in Tasks
    BY <1>1, <1>4, TakeFirst
  <2> QED BY <1>2, <1>3, <2>1, KindsOf DEF Known, IsNewest
<1>6. Chunks = {} /\ 1 \in Ends
  BY <1>1, <1>2, <1>3, NoMoreComes
<1>7. ~ w => OnDisplay = t.got
  <2>1. ~ w => OnDisplay + Cardinality(Chunks) = t.got
    BY <1>3, <1>5, <1>6 DEF Followed
  <2>2. Cardinality(Chunks) = 0 /\ OnDisplay \in Nat
    BY <1>4, <1>6, FS_EmptySet DEF OnDisplay, RowSets
  <2> QED BY <2>1, <2>2
<1>8. rows' = [dir |-> vfs.dir, by |-> load, got |-> t.got]
  <2>1. CASE w
    BY <1>2, <1>5, <2>1
  <2>2. CASE ~ w /\ rows.by # load
    <3>1. t.got = 0
      BY <1>7, <2>2 DEF OnDisplay
    <3> QED BY <1>2, <1>5, <2>2, <3>1
  <2>3. CASE ~ w /\ rows.by = load
    <3>1. rows.got = t.got /\ rows.dir = vfs.dir
      BY <1>3, <1>7, <2>3 DEF OnDisplay, Known
    <3>2. rows = [dir |-> rows.dir, by |-> rows.by, got |-> rows.got]
      BY <1>4 DEF RowSets
    <3> QED BY <1>2, <1>5, <2>3, <3>1, <3>2
  <2> QED BY <2>1, <2>2, <2>3
<1>9. cache'[vfs.dir] = t.got
  BY <1>2, <1>4, <1>5
<1>10. Listed'
  BY <1>2, <1>8, <1>9 DEF Listed
<1>11. rows'.by <= load /\ rows'.dir = vfs.dir
  BY <1>4, <1>8
<1> QED BY <1>1, <1>2, <1>10, <1>11, NewestEnds

\* A posted task keeps the loads in order.
LEMMA TaskLoads ==
  ASSUME LoadTyped, QueueTyped, PlaceTyped, RestTyped, LookupIsOne, LoadInv, RunTask
  PROVE  LoadInv'
<1>1. PICK t : t = Head(tasks) OBVIOUS
<1>2. /\ tasks # <<>> /\ tasks' = Tail(tasks) /\ mounts' = mounts /\ t \in Tasks
      /\ \/ ShowChunk(t)  \/ LoadSuperseded(t) \/ LoadDone(t) \/ LoadLost(t)
         \/ LoadFailed(t) \/ LoadCancelled(t)
         \/ MountStale(t) \/ MountFailed(t)    \/ Mounted(t)
         \/ Elevated(t)   \/ Reconnected(t)
  BY <1>1, TakeFirst DEF RunTask, RestTyped
<1>3. PICK w \in BOOLEAN : Known(w) /\ (live => Followed(w))
  BY DEF LoadInv, Newest
<1>4. /\ rows \in RowSets /\ rows.by <= load /\ (rows.by = load => rows.dir = vfs.dir) /\ load \in Nat
      /\ elev \in Lookups \cup {None} /\ vfs \in Places /\ vfs.dir \in Dirs
  BY <1>3, PlacesAre DEF LoadTyped, Known, PlaceTyped, Places
<1>5. ASSUME NEW d \in Dirs, NEW now \in RowSets, NEW e \in Lookups \cup {None}, now.by <= load,
             ReadDirectory(d, now, e), vfs'.dir = d, cache' = cache
      PROVE  LoadInv'
  BY <1>2, <1>5, NewestStarts DEF LoadInv
<1>6. ASSUME UNCHANGED <<load, live, failed, rows, cache, running, pending>>, vfs' = vfs,
             IsSettled' => IsSettled, ~ (t.kind \in {"chunk", "done"} /\ Alive(t.load))
      PROVE  LoadInv'
  BY <1>1, <1>2, <1>6, NewestKept
<1>7. ASSUME t.kind = "done", Alive(t.load), UNCHANGED <<load, live, running, pending, rows>>, vfs' = vfs, failed'
      PROVE  LoadInv'
  BY <1>1, <1>2, <1>4, <1>7, NewestEnds
<1>8. CASE ShowChunk(t)
  <2>1. CASE Alive(t.load)
    BY <1>1, <1>2, <1>8, <2>1, ChunkShown
  <2>2. CASE ~ Alive(t.load)
    <3>1. rows' = rows
      BY <1>8, <2>2 DEF ShowChunk
    <3>2. UNCHANGED <<load, live, failed, cache, running, pending, vfs, isLoading, elev>>
      BY <1>8 DEF ShowChunk, queue
    <3> QED BY <1>6, <2>2, <3>1, <3>2 DEF IsSettled
  <2> QED BY <2>1, <2>2
<1>9. CASE LoadSuperseded(t)
  BY <1>6, <1>9 DEF LoadSuperseded, queue, shown, IsSettled
<1>10. CASE LoadDone(t)
  BY <1>1, <1>2, <1>10, DoneShown
<1>11. CASE LoadLost(t)
  BY <1>7, <1>11 DEF LoadLost, queue
<1>12. CASE LoadFailed(t)
  <2>1. t.load \in Loads
    BY <1>2, <1>12, KindsOf DEF LoadFailed
  <2>2. ASSUME Up[t.load.dir] # None, vfs' = [vfs EXCEPT !.dir = Up[t.load.dir]],
               ReadDirectory(vfs'.dir, rows, elev), cache' = cache
        PROVE  LoadInv'
    <3>1. PICK d : d = Up[t.load.dir] OBVIOUS
    <3>2. d \in Dirs /\ vfs'.dir = d
      BY <1>4, <2>1, <2>2, <3>1, PlacesAre, PanelAssumption DEF Loads
    <3>3. ReadDirectory(d, rows, elev)
      BY <2>2, <3>2
    <3> QED BY <1>4, <1>5, <2>2, <3>2, <3>3
  <2> QED BY <1>7, <1>12, <2>2 DEF LoadFailed, queue
<1>c. CASE LoadCancelled(t)
  <2>1. /\ t.kind = "done" /\ Alive(t.load) /\ failed'
        /\ rows' = rows \/ rows' = Bare(t.load.dir)
        /\ UNCHANGED <<load, live, running, pending>> /\ vfs' = vfs
    BY <1>c DEF LoadCancelled, queue
  <2>2. rows'.by <= load /\ (rows'.by = load => rows'.dir = vfs.dir)
    <3>1. CASE rows' = rows
      BY <1>4, <3>1
    <3>2. CASE rows' = Bare(t.load.dir)
      <4>1. rows'.by = 0 /\ load > 0
        BY <1>3, <3>2 DEF Bare, Known
      <4> QED BY <1>4, <4>1
    <3> QED BY <2>1, <3>1, <3>2
  <2> QED BY <1>1, <1>2, <2>1, <2>2, NewestEnds
<1>13. CASE MountStale(t)
  BY <1>6, <1>13 DEF MountStale, queue, shown, IsSettled
<1>14. CASE MountFailed(t)
  BY <1>4, <1>5, <1>14 DEF MountFailed
<1>15. CASE Mounted(t)
  <2>1. PICK d : d = t.mount.dir OBVIOUS
  <2>2. d \in Dirs
    BY <1>2, <1>15, <2>1, KindsOf, MountingIs DEF Mounted
  <2>3. Bare(d) \in RowSets /\ Bare(d).by <= load
    BY <1>4, <2>2 DEF Bare, RowSets
  <2>4. ReadDirectory(d, Bare(d), elev) /\ vfs'.dir = d /\ cache' = cache
    BY <1>15, <2>1 DEF Mounted, ReadInstalled
  <2> QED BY <1>4, <1>5, <2>2, <2>3, <2>4
<1>16. CASE Elevated(t)
  <2>1. elev # None /\ elev \in Lookups /\ elev.own \in BOOLEAN /\ elev.dir \in Dirs
    BY <1>1, <1>2, <1>4, <1>16, LookupShown DEF Elevated, RestTyped, Lookups
  <2>2. ASSUME vfs' = [vfs EXCEPT !.dir = elev.dir], ReadDirectory(elev.dir, rows, None), cache' = cache
        PROVE  LoadInv'
    BY <1>4, <1>5, <2>1, <2>2, PlacesAre
  <2>3. ASSUME isLoading' = (isLoading /\ ~ elev.own), elev' = None, UNCHANGED <<vfs, load, live, failed, rows, cache, queue>>
        PROVE  LoadInv'
    <3>1. IsSettled' => IsSettled
      BY <2>1, <2>3 DEF IsSettled
    <3> QED BY <1>6, <1>16, <2>3, <3>1 DEF Elevated, queue
  <2> QED BY <1>16, <2>2, <2>3 DEF Elevated
<1>17. CASE Reconnected(t)
  <2>1. ASSUME ReadDirectory(vfs.dir, rows, elev), vfs' = vfs, cache' = cache PROVE LoadInv'
    BY <1>4, <1>5, <2>1
  <2> QED BY <1>6, <1>17, <2>1 DEF Reconnected, queue, shown, IsSettled
<1> QED BY <1>2, <1>8, <1>9, <1>10, <1>11, <1>12, <1>c, <1>13, <1>14, <1>15, <1>16, <1>17

LEMMA LoadsHold ==
  ASSUME Typed, LookupIsOne, LoadInv, [CalmNext]_vars
  PROVE  LoadInv'
<1>1. LoadTyped /\ QueueTyped /\ PlaceTyped /\ RestTyped
  BY TypedIs
<1>2. PICK w \in BOOLEAN : Known(w) /\ (live => Followed(w))
  BY DEF LoadInv, Newest
<1>3. /\ rows \in RowSets /\ rows.by <= load /\ (rows.by = load => rows.dir = vfs.dir) /\ load \in Nat
      /\ elev \in Lookups \cup {None} /\ vfs \in Places /\ vfs.dir \in Dirs
  BY <1>1, <1>2, PlacesAre DEF LoadTyped, Known, PlaceTyped, Places
<1>4. ASSUME NEW d \in Dirs, NEW now \in RowSets, now.by <= load, ReadDirectory(d, now, elev),
             vfs'.dir = d, cache' = cache, tasks' = tasks
      PROVE  LoadInv'
  BY <1>1, <1>3, <1>4, NewestStarts DEF LoadInv
<1>5. ASSUME NEW d \in Dirs, ReadDirectory(d, Bare(d), elev), vfs'.dir = d, cache' = cache, tasks' = tasks
      PROVE  LoadInv'
  <2>1. Bare(d) \in RowSets /\ Bare(d).by <= load
    BY <1>3 DEF Bare, RowSets
  <2> QED BY <1>4, <1>5, <2>1
<1>6. ASSUME UNCHANGED <<load, live, failed, rows, cache, running, pending>>, vfs' = vfs,
             IsSettled' => IsSettled \/ failed \/ Listed,
             tasks' = tasks \/ \E t \in Tasks : t.kind \notin {"chunk", "done"} /\ tasks' = Append(tasks, t)
      PROVE  LoadInv'
  BY <1>1, <1>6, NewestKept
<1>7. ASSUME UNCHANGED <<vfs, load, live, shown, cache, running, pending, elev>>,
             tasks' = tasks \/ \E t \in Tasks : t.kind \notin {"chunk", "done"} /\ tasks' = Append(tasks, t)
      PROVE  LoadInv'
  BY <1>6, <1>7 DEF shown, IsSettled
<1>8. CASE ReadChunk
  BY <1>1, <1>8, ChunkRead
<1>9. CASE WorkerNext
  BY <1>1, <1>9, NextTaken
<1>10. CASE LeftReturns
  BY <1>7, <1>10 DEF LeftReturns
<1>11. ASSUME NEW res \in Results, ReadReturns(res) PROVE LoadInv'
  BY <1>1, <1>11, EndRead
<1>12. CASE RunTask
  BY <1>1, <1>12, TaskLoads
<1>13. CASE Reload \/ EscapeMount
  BY <1>3, <1>4, <1>13 DEF Reload, EscapeMount
<1>14. ASSUME NavigateRefused, Calm PROVE LoadInv'
  <2>1. Listed
    BY <1>14 DEF Calm
  <2> QED BY <1>6, <1>14, <2>1 DEF NavigateRefused, queue
<1>15. ASSUME Leave, cache' = cache, tasks' = tasks PROVE LoadInv'
  <2>1. parent.dir \in Dirs
    BY <1>1, <1>15, PlacesAre, Apart DEF Leave, PlaceTyped
  <2> QED BY <1>5, <1>15, <2>1 DEF Leave, ReadInstalled
<1>16. CASE LeaveRoot
  BY <1>15, <1>16 DEF LeaveRoot
<1>17. CASE Answer
  BY <1>7, <1>15, <1>17 DEF Answer, queue
<1>18. ASSUME NEW d \in Dirs, Navigate(d) PROVE LoadInv'
  <2>1. vfs'.dir = d
    BY <1>3, <1>18, PlacesAre DEF Navigate
  <2> QED BY <1>3, <1>4, <1>18, <2>1 DEF Navigate
<1>19. ASSUME NEW d \in Dirs, SwitchToLocal(d) PROVE LoadInv'
  BY <1>5, <1>19 DEF SwitchToLocal, ReadInstalled
<1>20. ASSUME NEW d \in Dirs, NEW c \in BOOLEAN, OpenVFS(d, c) PROVE LoadInv'
  <2>1. /\ live' = FALSE /\ isLoading' = TRUE /\ elev' = Claimed(elev)
        /\ rows' = rows \/ rows' = Bare(d)
        /\ UNCHANGED <<vfs, load, failed, cache, tasks, running, pending>>
    BY <1>20 DEF OpenVFS, queue
  <2>2. rows'.by <= load /\ (rows'.by = load => rows'.dir = vfs.dir)
    <3>1. load > 0
      BY <1>2 DEF Known
    <3> QED BY <1>3, <2>1, <3>1 DEF Bare
  <2>3. Known(w)'
    BY <1>2, <2>1, <2>2, KnownKept
  <2>4. ~ IsSettled'
    BY <1>3, <2>1, ClaimTypes DEF IsSettled
  <2> QED BY <2>1, <2>3, <2>4 DEF LoadInv, Newest, Settled
<1>21. ASSUME NEW d \in Dirs, EnterProvider(d) \/ OpenPath(d) PROVE LoadInv'
  BY <1>20, <1>21 DEF EnterProvider, OpenPath
<1>22. ASSUME NEW d \in Dirs, Elevate(d), Calm PROVE LoadInv'
  <2>1. /\ elev = None /\ elev' = [src |-> vfs, dir |-> d, own |-> TRUE]
        /\ UNCHANGED <<vfs, load, live, failed, rows, cache, tasks, running, pending>>
    BY <1>22 DEF Elevate, queue
  <2>2. elev' # None
    <3>1. [src |-> vfs, dir |-> d, own |-> TRUE] \in Lookups
      BY <1>3 DEF Lookups
    <3> QED BY <2>1, <3>1, NothingIs
  <2>3. IsSettled
    BY <1>22, <2>1, <2>2 DEF Calm, IsSettled
  <2> QED BY <1>6, <2>1, <2>3
<1>23. ASSUME NEW m \in mounts, Comes(m) PROVE LoadInv'
  <2>1. PICK ok \in BOOLEAN :
          \/ m.k = 0 /\ tasks' = Append(tasks, [kind |-> "elevated", ok |-> ok])
          \/ m.k # 0 /\ tasks' = Append(tasks, [kind |-> "mount", mount |-> m, ok |-> ok])
    BY <1>23 DEF Comes
  <2>2. \E t \in Tasks : t.kind \notin {"chunk", "done"} /\ tasks' = Append(tasks, t)
    <3>1. [kind |-> "elevated", ok |-> ok] \in Tasks /\ [kind |-> "elevated", ok |-> ok].kind = "elevated"
      BY DEF Tasks, OtherTask
    <3>2. m.k # 0 => /\ [kind |-> "mount", mount |-> m, ok |-> ok] \in Tasks
                     /\ [kind |-> "mount", mount |-> m, ok |-> ok].kind = "mount"
      BY <1>1, UnderWayIs DEF Tasks, MountTask, RestTyped
    <3> QED BY <2>1, <3>1, <3>2
  <2> QED BY <1>7, <1>23, <2>2 DEF Comes, queue
<1>24. CASE ReconnectComes
  <2>1. PICK ok \in BOOLEAN : tasks' = Append(tasks, [kind |-> "reconnect", ok |-> ok])
    BY <1>24 DEF ReconnectComes
  <2>2. [kind |-> "reconnect", ok |-> ok] \in Tasks /\ [kind |-> "reconnect", ok |-> ok].kind = "reconnect"
    BY DEF Tasks, OtherTask
  <2>3. \E t \in Tasks : t.kind \notin {"chunk", "done"} /\ tasks' = Append(tasks, t)
    BY <2>1, <2>2
  <2> QED BY <1>7, <1>24, <2>3 DEF ReconnectComes, queue
<1>25. CASE UNCHANGED vars
  BY <1>7, <1>25 DEF vars, queue
<1> QED
  BY <1>8, <1>9, <1>10, <1>11, <1>12, <1>13, <1>14, <1>16, <1>17, <1>18, <1>19, <1>21, <1>22, <1>23, <1>24, <1>25
  DEF CalmNext, Next, Rest

LEMMA InitLoads == Init => LoadInv
<1> SUFFICES ASSUME Init PROVE LoadInv
  OBVIOUS
<1>1. PICK l : l = [n |-> 1, dir |-> Home, whole |-> sync] OBVIOUS
<1>2. /\ running = Read(l) /\ pending = None /\ tasks = <<>> /\ load = 1 /\ live = TRUE /\ isLoading = TRUE
      /\ failed = FALSE /\ elev = None /\ rows = Bare(Home) /\ sync \in BOOLEAN
      /\ vfs.dir = Home /\ cache \in [Dirs -> {None, MaxChunks}]
  BY <1>1 DEF Init
<1>3. l.n = 1 /\ l.dir = Home /\ l.whole = sync /\ l \in Loads
  BY <1>1, <1>2, Apart DEF Loads
<1>4. running.load = l /\ running.st = "reading" /\ running.got = 0 /\ running # None
  <2>1. Read(l) \in Reads
    BY <1>3 DEF Read, Reads
  <2> QED BY <1>2, <1>3, <2>1, ReadsTyped, NothingIs
<1>5. DOMAIN tasks = {}
  <2>1. Len(<<>>) = 0 /\ <<>> \in Seq(Tasks)
    BY EmptySeq
  <2>2. DOMAIN <<>> = 1..0
    BY <2>1, QueueDomain
  <2> QED BY <1>2, <2>2
<1>6. Chunks = {} /\ Ends = {} /\ Cardinality(Chunks) = 0
  BY <1>5, FS_EmptySet DEF Chunks, Ends
<1>7. rows.by = 0 /\ rows.by # load
  BY <1>2 DEF Bare
<1>8. Known(sync)
  BY <1>2, <1>3, <1>4, <1>5, <1>7 DEF Known, IsNewest
<1>9. Followed(sync)
  <2>1. ~ IsWaiting /\ OnDisplay = 0
    BY <1>2, <1>7 DEF IsWaiting, OnDisplay
  <2>2. cache[vfs.dir] \in {None, MaxChunks}
    BY <1>2, Apart
  <2> QED BY <1>2, <1>4, <1>6, <1>7, <2>1, <2>2 DEF Followed
<1>10. ~ IsSettled
  BY <1>2 DEF IsSettled
<1> QED BY <1>2, <1>8, <1>9, <1>10 DEF LoadInv, Newest, Settled

\* A panel that stopped loading without an error shows all of the newest listing of
\* the directory it is on, whatever was superseded, cancelled or is still queued
\* (readDirectoryEx and the tasks it posts), while no sudo lookup is started during
\* a load and no refused walk through the history takes the panel back from a mount.
THEOREM SettledIsNewestAlways == Init /\ [][CalmNext]_vars => []SettledIsNewest
<1>1. Init => AlwaysInv /\ LoadInv
  BY InitHolds, InitLoads
<1>2. AlwaysInv /\ LoadInv /\ [CalmNext]_vars => (AlwaysInv /\ LoadInv)'
  <2>1. [CalmNext]_vars => [Next]_vars
    BY DEF CalmNext
  <2> QED BY <2>1, StepHolds, LoadsHold DEF AlwaysInv
<1>3. LoadInv => SettledIsNewest
  BY DEF LoadInv, Settled, IsSettled, SettledIsNewest
<1> QED BY <1>1, <1>2, <1>3, PTL
=============================================================================
