-------------------------- MODULE ProgressViewsProofs --------------------------
(* For every number of reporters, updates, tasks and news.  The progress     *)
(* dialog: one run of the scheduler exists exactly while scheduled says so,  *)
(* and no update is forgotten.  The queue window: its UI tasks are bounded.  *)
(* Both implement the safety of LatestWins, alone and on one UI goroutine.   *)
EXTENDS ProgressViews, SequenceTheorems, FunctionTheorems, FiniteSetTheorems, TLAPS

-----------------------------------------------------------------------------
(***************************************************************************)
(* The progress dialog                                                     *)
(***************************************************************************)
\* The strengthening: a stopped reporter has closed its dialog; a run was
\* scheduled by an update; and the update being applied is not older than the
\* one on display.
Ordered ==
  /\ stopped => closed
  /\ scheduled => latest > 0
  /\ picked > 0 => applied <= picked

IInv == TypeOK /\ OneRun /\ NothingForgotten /\ Ordered

LEMMA PostingIsFinite ==
  ASSUME TypeOK
  PROVE  /\ IsFiniteSet(posting) /\ Cardinality(posting) \in Nat
         /\ Cardinality(posting) = 0 <=> posting = {}
<1>1. IsFiniteSet(posting)
  BY ReportersAssumption, FS_Subset DEF TypeOK
<1> QED BY <1>1, FS_CardinalityType, FS_EmptySet

\* A run that is somewhere is the only one, and an update scheduled it.
LEMMA TheRun ==
  ASSUME IInv, posting # {} \/ queued > 0 \/ picked > 0 \/ timers > 0 \/ fired > 0
  PROVE  scheduled /\ latest > 0 /\ Runs = 1
<1>1. Cardinality(posting) \in Nat /\ (Cardinality(posting) = 0 <=> posting = {})
  BY PostingIsFinite DEF IInv
<1>2. queued \in Nat /\ picked \in Nat /\ timers \in Nat /\ fired \in Nat
  BY MaxUpdatesAssumption DEF IInv, TypeOK
<1>3. Runs > 0
  BY <1>1, <1>2 DEF Runs
<1> QED BY <1>3 DEF IInv, OneRun, Ordered, TypeOK

LEMMA InitEstablishes == Init => IInv
<1> SUFFICES ASSUME Init PROVE IInv
  OBVIOUS
<1>1. TypeOK
  <2>1. latest \in 0..MaxUpdates /\ picked \in 0..latest /\ applied \in 0..latest
    BY MaxUpdatesAssumption DEF Init
  <2>2. /\ dirty \in BOOLEAN /\ scheduled \in BOOLEAN /\ stopped \in BOOLEAN
        /\ closed \in BOOLEAN /\ posting \subseteq Reporters
    BY DEF Init
  <2>3. queued \in Nat /\ timers \in Nat /\ fired \in Nat
    BY DEF Init
  <2> QED BY <2>1, <2>2, <2>3 DEF TypeOK
<1>2. Cardinality(posting) = 0
  BY FS_EmptySet DEF Init
<1>3. OneRun
  BY <1>2 DEF Init, OneRun, Runs
<1>4. NothingForgotten /\ Ordered
  BY DEF Init, NothingForgotten, Ordered
<1> QED BY <1>1, <1>3, <1>4 DEF IInv

LEMMA RequestKeeps ==
  ASSUME IInv, NEW r \in Reporters, Request(r)
  PROVE  IInv'
<1> USE DEF IInv
<1>1. /\ IsFiniteSet(posting) /\ Cardinality(posting) \in Nat
      /\ Cardinality(posting) = 0 <=> posting = {}
  BY PostingIsFinite
<1>2. TypeOK'
  BY MaxUpdatesAssumption DEF Request, TypeOK
<1>3. OneRun'
  <2>1. CASE scheduled
    BY <2>1 DEF Request, OneRun, Runs
  <2>2. CASE ~ scheduled
    <3>1. Cardinality(posting') = Cardinality(posting) + 1
      BY <2>2, <1>1, FS_AddElement DEF Request
    <3> QED BY <2>2, <3>1, <1>1, MaxUpdatesAssumption DEF Request, OneRun, Runs, TypeOK
  <2> QED BY <2>1, <2>2 DEF TypeOK
<1>4. NothingForgotten'
  BY DEF Request, NothingForgotten, TypeOK
<1>5. Ordered'
  BY MaxUpdatesAssumption DEF Request, Ordered, TypeOK
<1> QED BY <1>2, <1>3, <1>4, <1>5

LEMMA PostKeeps ==
  ASSUME IInv, NEW r \in Reporters, Post(r)
  PROVE  IInv'
<1> USE DEF IInv
<1>1. /\ IsFiniteSet(posting) /\ Cardinality(posting) \in Nat
      /\ Cardinality(posting \ {r}) = Cardinality(posting) - 1
  BY PostingIsFinite, FS_RemoveElement DEF Post
<1>2. TypeOK'
  BY DEF Post, TypeOK
<1>3. OneRun'
  BY <1>1, MaxUpdatesAssumption DEF Post, OneRun, Runs, TypeOK
<1>4. NothingForgotten'
  BY DEF Post, NothingForgotten, TypeOK
<1>5. Ordered'
  BY DEF Post, Ordered
<1> QED BY <1>2, <1>3, <1>4, <1>5

LEMMA RunReadKeeps ==
  ASSUME IInv, RunRead
  PROVE  IInv'
<1> USE DEF IInv
<1>1. latest > 0 /\ Cardinality(posting) \in Nat
  BY TheRun, PostingIsFinite DEF RunRead
<1>2. TypeOK'
  BY MaxUpdatesAssumption DEF RunRead, TypeOK
<1>3. OneRun'
  BY <1>1, MaxUpdatesAssumption DEF RunRead, OneRun, Runs, TypeOK
<1>4. NothingForgotten'
  BY DEF RunRead, NothingForgotten
<1>5. Ordered'
  BY MaxUpdatesAssumption DEF RunRead, Ordered, TypeOK
<1> QED BY <1>2, <1>3, <1>4, <1>5

LEMMA RunApplyKeeps ==
  ASSUME IInv, RunApply
  PROVE  IInv'
<1> USE DEF IInv
<1>1. Cardinality(posting) \in Nat
  BY PostingIsFinite
<1>2. TypeOK'
  BY MaxUpdatesAssumption DEF RunApply, TypeOK
<1>3. OneRun'
  BY <1>1, MaxUpdatesAssumption DEF RunApply, OneRun, Runs, TypeOK
<1>4. NothingForgotten'
  <2>1. CASE closed
    BY <2>1 DEF RunApply, NothingForgotten
  <2>2. CASE ~ closed
    \* Only the picked update, the one there is no other run to read, counts.
    <3>1. posting = {} /\ queued = 0 /\ fired = 0
      <4>1. Runs = 1
        BY TheRun DEF RunApply
      <4>2. /\ Cardinality(posting) = 0 <=> posting = {}
            /\ queued \in Nat /\ timers \in Nat /\ fired \in Nat
        BY PostingIsFinite DEF TypeOK
      <4> QED BY <4>1, <4>2, <1>1 DEF RunApply, Runs
    <3>2. applied = latest => applied' = latest'
      BY <2>2, MaxUpdatesAssumption DEF RunApply, Ordered, TypeOK
    <3> QED BY <2>2, <3>1, <3>2 DEF RunApply, NothingForgotten
  <2> QED BY <2>1, <2>2
<1>5. Ordered'
  BY DEF RunApply, Ordered
<1> QED BY <1>2, <1>3, <1>4, <1>5

LEMMA TickKeeps ==
  ASSUME IInv, Tick
  PROVE  IInv'
<1> USE DEF IInv
<1>1. Cardinality(posting) \in Nat /\ scheduled
  BY PostingIsFinite, TheRun DEF Tick
<1>2. TypeOK'
  <2>1. dirty' \in BOOLEAN /\ scheduled' \in BOOLEAN
    BY Zenon DEF Tick, TypeOK
  <2>2. timers' \in Nat /\ fired' \in Nat
    BY DEF Tick, TypeOK
  <2> QED BY <2>1, <2>2 DEF Tick, TypeOK
<1>3. OneRun'
  <2>1. /\ Runs = 1 /\ picked \in Nat /\ queued \in Nat
        /\ timers \in Nat /\ fired \in Nat
    BY <1>1, MaxUpdatesAssumption DEF OneRun, TypeOK
  <2>2. timers' = timers - 1 /\ posting' = posting /\ queued' = queued /\ picked' = picked
    BY DEF Tick
  <2>3. CASE stopped \/ ~ dirty
    <3>1. fired' = fired /\ scheduled' = FALSE
      BY <2>3 DEF Tick
    <3>2. Runs' = 0
      BY <1>1, <2>1, <2>2, <3>1 DEF Runs
    <3> QED BY <3>1, <3>2 DEF OneRun
  <2>4. CASE ~ (stopped \/ ~ dirty)
    <3>1. fired' = fired + 1 /\ scheduled' = scheduled
      BY <2>4 DEF Tick
    <3>2. Runs' = 1
      BY <1>1, <2>1, <2>2, <3>1 DEF Runs
    <3> QED BY <1>1, <3>1, <3>2 DEF OneRun
  <2> QED BY <2>3, <2>4
<1>4. NothingForgotten'
  BY DEF Tick, NothingForgotten, Ordered, TypeOK
<1>5. Ordered'
  BY DEF Tick, Ordered
<1> QED BY <1>2, <1>3, <1>4, <1>5

LEMMA TickPostKeeps ==
  ASSUME IInv, TickPost
  PROVE  IInv'
<1> USE DEF IInv
<1>1. Cardinality(posting) \in Nat
  BY PostingIsFinite
<1>2. TypeOK'
  BY DEF TickPost, TypeOK
<1>3. OneRun'
  BY <1>1, MaxUpdatesAssumption DEF TickPost, OneRun, Runs, TypeOK
<1>4. NothingForgotten'
  BY DEF TickPost, NothingForgotten, TypeOK
<1>5. Ordered'
  BY DEF TickPost, Ordered
<1> QED BY <1>2, <1>3, <1>4, <1>5

LEMMA EndKeeps ==
  ASSUME IInv, CloseDialog \/ StopReporter
  PROVE  IInv'
<1> USE DEF IInv
<1>1. TypeOK'
  BY DEF CloseDialog, StopReporter, TypeOK
<1>2. OneRun'
  BY DEF CloseDialog, StopReporter, OneRun, Runs
<1>3. NothingForgotten' /\ Ordered'
  BY DEF CloseDialog, StopReporter, NothingForgotten, Ordered
<1> QED BY <1>1, <1>2, <1>3

LEMMA NextKeeps == IInv /\ [Next]_vars => IInv'
<1> SUFFICES ASSUME IInv, [Next]_vars PROVE IInv'
  OBVIOUS
<1>1. CASE UNCHANGED vars
  BY <1>1 DEF vars, IInv, TypeOK, OneRun, Runs, NothingForgotten, Ordered
<1> QED BY <1>1, RequestKeeps, PostKeeps, RunReadKeeps, RunApplyKeeps, TickKeeps,
           TickPostKeeps, EndKeeps DEF Next

\* The progress dialog's invariant holds in every state it reaches.
THEOREM Inductive == Spec => []IInv
BY InitEstablishes, NextKeeps, PTL DEF Spec

\* Every variable keeps its type, whatever the number of reporters and updates.
THEOREM TypeCorrect == Spec => []TypeOK
<1>1. IInv => TypeOK
  BY DEF IInv
<1> QED BY <1>1, Inductive, PTL

\* At most one run exists, and exactly while scheduled is set: the UI queue
\* never fills with progress (dialogProgressScheduler's own comment).
THEOREM OneRunAlways == Spec => []OneRun
<1>1. IInv => OneRun
  BY DEF IInv
<1> QED BY <1>1, Inductive, PTL

\* An update that is not on display is marked, being applied, or has a run on
\* its way, unless the dialog is done.
THEOREM NothingForgottenAlways == Spec => []NothingForgotten
<1>1. IInv => NothingForgotten
  BY DEF IInv
<1> QED BY <1>1, Inductive, PTL

-----------------------------------------------------------------------------
LEMMA InitRefines == Init => View!Init
BY DEF Init, View!Init

LEMMA NextRefines == IInv /\ [Next]_vars => [View!Next]_(View!vars)
<1> SUFFICES ASSUME IInv, [Next]_vars PROVE [View!Next]_(View!vars)
  OBVIOUS
<1> USE DEF View!vars, View!Next
<1>1. ASSUME NEW r \in Reporters, Request(r) PROVE View!Come
  BY <1>1 DEF Request, View!Come
<1>2. CASE RunApply
  <2>1. CASE applied' = applied
    BY <1>2, <2>1 DEF RunApply
  <2>2. CASE applied' # applied
    BY <1>2, <2>2, MaxUpdatesAssumption
       DEF RunApply, View!Show, IInv, Ordered, TypeOK
  <2> QED BY <2>1, <2>2
<1>3. CASE CloseDialog
  BY <1>3 DEF CloseDialog, View!End
<1>4. CASE StopReporter
  BY <1>4 DEF StopReporter, View!End, IInv, TypeOK
<1>5. ASSUME NEW r \in Reporters, Post(r) PROVE UNCHANGED View!vars
  BY <1>5 DEF Post
<1>6. CASE RunRead \/ Tick \/ TickPost
  BY <1>6 DEF RunRead, Tick, TickPost
<1>7. CASE UNCHANGED vars
  BY <1>7 DEF vars
<1> QED BY <1>1, <1>2, <1>3, <1>4, <1>5, <1>6, <1>7 DEF Next

\* The dialog implements LatestWins but for its liveness: the display only
\* moves forward, and shows only updates that were requested.
THEOREM Refines == Spec => View!Safety
<1>1. IInv /\ [Next]_vars => [View!Next]_(View!vars)
  BY NextRefines
<1> QED BY <1>1, InitRefines, Inductive, PTL DEF Spec, View!Safety

-----------------------------------------------------------------------------
(***************************************************************************)
(* The places of a value in a queue                                        *)
(***************************************************************************)
Positions(q, what) == {i \in DOMAIN q : q[i] = what}

LEMMA PositionsAreFinite ==
  ASSUME NEW T, NEW q \in Seq(T), NEW what
  PROVE  /\ IsFiniteSet(Positions(q, what)) /\ Cardinality(Positions(q, what)) \in Nat
         /\ DOMAIN q = 1..Len(q) /\ Len(q) \in Nat
<1>1. DOMAIN q = 1..Len(q) /\ Len(q) \in Nat
  BY LenProperties
<1>2. IsFiniteSet(1..Len(q))
  BY <1>1, FS_Interval
<1>3. Positions(q, what) \in SUBSET (1..Len(q))
  BY <1>1 DEF Positions
<1> QED BY <1>1, <1>2, <1>3, FS_Subset, FS_CardinalityType

\* One more place when the value is put at the end ...
LEMMA PositionsOfAppend ==
  ASSUME NEW T, NEW q \in Seq(T), NEW x \in T, NEW what
  PROVE  Cardinality(Positions(Append(q, x), what)) =
           Cardinality(Positions(q, what)) + (IF x = what THEN 1 ELSE 0)
<1>1. /\ IsFiniteSet(Positions(q, what)) /\ Cardinality(Positions(q, what)) \in Nat
      /\ DOMAIN q = 1..Len(q) /\ Len(q) \in Nat
  BY PositionsAreFinite
<1>2. /\ Append(q, x) \in Seq(T) /\ Len(Append(q, x)) = Len(q) + 1
      /\ \A i \in 1..Len(q) : Append(q, x)[i] = q[i]
      /\ Append(q, x)[Len(q) + 1] = x
  BY AppendProperties
<1>3. DOMAIN Append(q, x) = 1..(Len(q) + 1)
  BY <1>2, LenProperties
<1>4. CASE x = what
  <2>1. Positions(Append(q, x), what) = Positions(q, what) \cup {Len(q) + 1}
    BY <1>1, <1>2, <1>3, <1>4 DEF Positions
  <2>2. Len(q) + 1 \notin Positions(q, what)
    BY <1>1 DEF Positions
  <2> QED BY <1>1, <1>4, <2>1, <2>2, FS_AddElement
<1>5. CASE x # what
  <2>1. Positions(Append(q, x), what) = Positions(q, what)
    BY <1>1, <1>2, <1>3, <1>5 DEF Positions
  <2> QED BY <1>1, <1>5, <2>1
<1> QED BY <1>4, <1>5

\* ... and one less when it is taken from the front.
LEMMA PositionsOfTail ==
  ASSUME NEW T, NEW q \in Seq(T), q # <<>>, NEW what
  PROVE  Cardinality(Positions(Tail(q), what)) =
           Cardinality(Positions(q, what)) - (IF Head(q) = what THEN 1 ELSE 0)
<1>1. /\ IsFiniteSet(Positions(q, what)) /\ Cardinality(Positions(q, what)) \in Nat
      /\ DOMAIN q = 1..Len(q) /\ Len(q) \in Nat
  BY PositionsAreFinite
<1>2. /\ Tail(q) \in Seq(T) /\ Len(Tail(q)) = Len(q) - 1 /\ Head(q) = q[1] /\ Len(q) # 0
      /\ \A i \in 1..(Len(q) - 1) : Tail(q)[i] = q[i + 1]
  BY <1>1, HeadTailProperties, EmptySeq
<1>3. DOMAIN Tail(q) = 1..(Len(q) - 1) /\ IsFiniteSet(Positions(Tail(q), what))
  BY <1>2, LenProperties, PositionsAreFinite
<1>4. PICK S : S = Positions(q, what) \ {1} OBVIOUS
<1>5. PICK R : R = Positions(Tail(q), what) OBVIOUS
<1>6. S = {i \in 2..Len(q) : q[i] = what} /\ R = {i \in 1..(Len(q) - 1) : q[i + 1] = what}
  BY <1>1, <1>2, <1>3, <1>4, <1>5 DEF Positions
<1>7. PICK f : f = [i \in R |-> i + 1] OBVIOUS
<1>8. f \in Bijection(R, S)
  <2>1. f \in [R -> S]
    BY <1>1, <1>6, <1>7
  <2>2. \A a, b \in R : f[a] = f[b] => a = b
    BY <1>6, <1>7
  <2>3. \A s \in S : \E r \in R : f[r] = s
    <3> TAKE s \in S
    <3>1. s - 1 \in R /\ (s - 1) + 1 = s
      BY <1>1, <1>6
    <3>2. f[s - 1] = s
      BY <1>7, <3>1
    <3> QED BY <3>1, <3>2
  <2> QED BY <2>1, <2>2, <2>3, Fun_IsBij
<1>9. Cardinality(S) = Cardinality(R)
  BY <1>3, <1>5, <1>8, FS_Bijection DEF ExistsBijection
<1>10. 1 \in Positions(q, what) <=> Head(q) = what
  BY <1>1, <1>2 DEF Positions
<1>11. Cardinality(S) = IF 1 \in Positions(q, what) THEN Cardinality(Positions(q, what)) - 1
                        ELSE Cardinality(Positions(q, what))
  BY <1>1, <1>4, FS_RemoveElement
<1> QED BY <1>1, <1>5, <1>9, <1>10, <1>11

-----------------------------------------------------------------------------
(***************************************************************************)
(* The queue window                                                        *)
(***************************************************************************)
\* The goroutines about to post a refresh; the tasks enqueued, and ended.
Posters  == {a \in Tasks \cup {UI} : at[a] = "post"}
Enqueued == {t \in Tasks : at[t] # "new"}
Ended    == {t \in Tasks : at[t] = "ended"}

Waiting(what) == Cardinality(Positions(queue, what))

\* A task never stands where only the UI goroutine does, nor that one at a
\* task's beginning and end.
Stands ==
  /\ at[UI] \in {"run", "enqueue", "show", "request", "post"}
  /\ \A t \in Tasks : at[t] \in {"new", "run", "request", "post", "complete", "ended"}

\* refreshPending is one refresh, posted or about to be; a task has opened the
\* window once at most and has ended once at most.
Posted ==
  /\ Waiting("refresh") + Cardinality(Posters) = IF refreshPending THEN 1 ELSE 0
  /\ Waiting("ensure") + (IF at[UI] = "enqueue" THEN 1 ELSE 0) <= Cardinality(Enqueued)
  /\ Waiting("plain") <= Cardinality(Ended)

WindowInv == Window!TypeOK /\ Stands /\ Posted

LEMMA WindowSets ==
  /\ IsFiniteSet(Posters) /\ Cardinality(Posters) \in Nat
  /\ IsFiniteSet(Enqueued) /\ Cardinality(Enqueued) \in Nat
  /\ IsFiniteSet(Ended) /\ Cardinality(Ended) \in Nat
<1>1. IsFiniteSet(Tasks) /\ IsFiniteSet(Tasks \cup {UI})
  BY WindowAssumption, FS_AddElement
<1>2. Posters \in SUBSET (Tasks \cup {UI}) /\ Enqueued \in SUBSET Tasks /\ Ended \in SUBSET Tasks
  BY DEF Posters, Enqueued, Ended
<1> QED BY <1>1, <1>2, FS_Subset, FS_CardinalityType

LEMMA WindowQueue ==
  ASSUME Window!TypeOK
  PROVE  /\ queue \in Seq({"ensure", "refresh", "plain"})
         /\ Waiting("ensure") \in Nat /\ Waiting("refresh") \in Nat /\ Waiting("plain") \in Nat
BY PositionsAreFinite DEF Window!TypeOK, Waiting

\* What a post adds to the counts.
LEMMA WindowPosts ==
  ASSUME Window!TypeOK, NEW what \in {"ensure", "refresh", "plain"}, Window!PostTask(what)
  PROVE  /\ queue' \in Seq({"ensure", "refresh", "plain"})
         /\ \A w \in {"ensure", "refresh", "plain"} :
              Waiting(w)' = Waiting(w) + (IF what = w THEN 1 ELSE 0)
<1>1. queue \in Seq({"ensure", "refresh", "plain"}) /\ queue' = Append(queue, what)
  BY DEF Window!TypeOK, Window!PostTask
<1> QED BY <1>1, AppendProperties, PositionsOfAppend DEF Waiting

\* What a step of one goroutine does to the three sets.
LEMMA WindowMoves ==
  ASSUME Window!TypeOK, NEW a \in Tasks \cup {UI}, NEW p, at' = [at EXCEPT ![a] = p]
  PROVE  /\ at'[a] = p /\ \A b \in (Tasks \cup {UI}) \ {a} : at'[b] = at[b]
         /\ p = "post" /\ at[a] # "post" => Cardinality(Posters') = Cardinality(Posters) + 1
         /\ p # "post" /\ at[a] = "post" => Cardinality(Posters') = Cardinality(Posters) - 1
         /\ p # "post" /\ at[a] # "post" => Posters' = Posters
         /\ a = UI \/ (at[a] # "new" /\ p # "new") => Enqueued' = Enqueued
         /\ a = UI \/ (at[a] # "ended" /\ p # "ended") => Ended' = Ended
         /\ a \in Tasks /\ at[a] # "ended" /\ p = "ended" => Cardinality(Ended') = Cardinality(Ended) + 1
<1>1. at'[a] = p /\ \A b \in (Tasks \cup {UI}) \ {a} : at'[b] = at[b]
  BY DEF Window!TypeOK, Window!Actors
<1>2. p = "post" /\ at[a] # "post" => Cardinality(Posters') = Cardinality(Posters) + 1
  <2> SUFFICES ASSUME p = "post", at[a] # "post"
               PROVE  Cardinality(Posters') = Cardinality(Posters) + 1
    OBVIOUS
  <2>1. Posters' = Posters \cup {a} /\ a \notin Posters
    BY <1>1 DEF Posters
  <2>2. Cardinality(Posters \cup {a}) = Cardinality(Posters) + 1
    BY <2>1, WindowSets, FS_AddElement
  <2> QED BY <2>1, <2>2
<1>6. p # "post" /\ at[a] = "post" => Cardinality(Posters') = Cardinality(Posters) - 1
  <2> SUFFICES ASSUME p # "post", at[a] = "post"
               PROVE  Cardinality(Posters') = Cardinality(Posters) - 1
    OBVIOUS
  <2>1. Posters' = Posters \ {a} /\ a \in Posters
    BY <1>1 DEF Posters
  <2>2. Cardinality(Posters \ {a}) = Cardinality(Posters) - 1
    BY <2>1, WindowSets, FS_RemoveElement
  <2> QED BY <2>1, <2>2
<1>7. p # "post" /\ at[a] # "post" => Posters' = Posters
  BY <1>1 DEF Posters
<1>3. a = UI \/ (at[a] # "new" /\ p # "new") => Enqueued' = Enqueued
  BY <1>1, WindowAssumption DEF Enqueued
<1>4. a = UI \/ (at[a] # "ended" /\ p # "ended") => Ended' = Ended
  BY <1>1, WindowAssumption DEF Ended
<1>5. a \in Tasks /\ at[a] # "ended" /\ p = "ended" => Cardinality(Ended') = Cardinality(Ended) + 1
  <2> SUFFICES ASSUME a \in Tasks, at[a] # "ended", p = "ended"
               PROVE  Cardinality(Ended') = Cardinality(Ended) + 1
    OBVIOUS
  <2>1. Ended' = Ended \cup {a} /\ a \notin Ended
    BY <1>1 DEF Ended
  <2> QED BY <2>1, WindowSets, FS_AddElement
<1> QED BY <1>1, <1>2, <1>3, <1>4, <1>5, <1>6, <1>7

LEMMA WindowInitially ==
  ASSUME Window!Init
  PROVE  WindowInv
<1>1. Window!TypeOK
  <2>1. news \in 0..MaxNews /\ shown \in 0..news /\ refreshPending \in BOOLEAN /\ frame \in BOOLEAN
    <3>1. news = 0 /\ shown = 0 /\ refreshPending = FALSE /\ frame = FALSE
      BY DEF Window!Init
    <3>2. 0 \in 0..MaxNews /\ 0 \in 0..0
      BY WindowAssumption
    <3> QED BY <3>1, <3>2
  <2>2. at \in [Window!Actors -> {"new", "run", "enqueue", "show", "request", "post", "complete", "ended"}]
    BY DEF Window!Init
  <2>3. queue \in Seq({"ensure", "refresh", "plain"})
    BY EmptySeq DEF Window!Init
  <2> QED BY <2>1, <2>2, <2>3 DEF Window!TypeOK
<1>2. Stands
  BY WindowAssumption DEF Window!Init, Window!Actors, Stands
<1>3. \A w : Waiting(w) = 0
  <2> TAKE w
  <2>1. Positions(queue, w) = {}
    BY DEF Window!Init, Positions
  <2> QED BY <2>1, FS_EmptySet DEF Waiting
<1>4. Posters = {} /\ at[UI] = "run" /\ refreshPending = FALSE
  BY DEF Window!Init, Window!Actors, Posters
<1>5. Cardinality(Posters) = 0
  BY <1>4, FS_EmptySet
<1> QED BY <1>1, <1>2, <1>3, <1>4, <1>5, WindowSets DEF WindowInv, Posted

\* An action that moves one goroutine, and neither posts nor takes a refresh.
LEMMA WindowStep ==
  ASSUME WindowInv, Window!TypeOK', NEW a \in Tasks \cup {UI}, NEW p, at' = [at EXCEPT ![a] = p],
         queue' = queue, refreshPending' = refreshPending,
         p # "post", at[a] # "post", at[a] # "new", p # "new", p # "ended", at[a] # "ended",
         a = UI => p # "enqueue" /\ p \in {"run", "enqueue", "show", "request", "post"},
         a # UI => p \in {"new", "run", "request", "post", "complete", "ended"}
  PROVE  WindowInv'
<1>1. /\ at'[a] = p /\ \A b \in (Tasks \cup {UI}) \ {a} : at'[b] = at[b]
      /\ Posters' = Posters /\ Enqueued' = Enqueued /\ Ended' = Ended
  BY WindowMoves, WindowSets DEF WindowInv
<1>2. Stands'
  BY <1>1, WindowAssumption DEF WindowInv, Stands
<1>3. \A w : Waiting(w)' = Waiting(w)
  BY DEF Waiting, Positions
<1>4. at'[UI] = "enqueue" => at[UI] = "enqueue"
  BY <1>1
<1>5. Waiting("ensure") \in Nat /\ Cardinality(Enqueued) \in Nat
  BY WindowQueue, WindowSets DEF WindowInv
<1>6. Posted'
  BY <1>1, <1>3, <1>4, <1>5 DEF WindowInv, Posted
<1> QED BY <1>2, <1>6 DEF WindowInv

LEMMA WindowTypes ==
  ASSUME WindowInv, [Window!Next]_(Window!vars)
  PROVE  Window!TypeOK'
<1>1. news' \in 0..MaxNews /\ shown' \in 0..news'
  BY WindowAssumption DEF WindowInv, Window!TypeOK, Window!Next, Window!vars, Window!Enqueue, Window!EnqueuePost,
     Window!Reports, Window!Change, Window!RequestRefresh, Window!PostRefresh, Window!End, Window!PostCompletion,
     Window!RunTask, Window!ClearFinished, Window!RefreshUI, Window!MakeNews
<1>2. refreshPending' \in BOOLEAN /\ frame' \in BOOLEAN
  BY DEF WindowInv, Window!TypeOK, Window!Next, Window!vars, Window!Enqueue, Window!EnqueuePost,
     Window!Reports, Window!Change, Window!RequestRefresh, Window!PostRefresh, Window!End, Window!PostCompletion,
     Window!RunTask, Window!ClearFinished, Window!RefreshUI
<1>3. at' \in [Tasks \cup {UI} -> {"new", "run", "enqueue", "show", "request", "post", "complete", "ended"}]
  BY DEF WindowInv, Window!TypeOK, Window!Next, Window!vars, Window!Enqueue, Window!EnqueuePost, Window!Actors,
     Window!Reports, Window!Change, Window!RequestRefresh, Window!PostRefresh, Window!End, Window!PostCompletion,
     Window!RunTask, Window!ClearFinished, Window!RefreshUI, Window!Goto
<1>4. queue' \in Seq({"ensure", "refresh", "plain"})
  <2>1. queue \in Seq({"ensure", "refresh", "plain"})
    BY DEF WindowInv, Window!TypeOK
  <2>2. \/ queue' = queue
        \/ \E what \in {"ensure", "refresh", "plain"} : queue' = Append(queue, what)
        \/ queue # <<>> /\ queue' = Tail(queue)
    BY DEF Window!Next, Window!vars, Window!Enqueue, Window!EnqueuePost, Window!PostTask,
       Window!Reports, Window!Change, Window!RequestRefresh, Window!PostRefresh, Window!End, Window!PostCompletion,
       Window!RunTask, Window!ClearFinished, Window!RefreshUI
  <2> QED BY <2>1, <2>2, AppendProperties, HeadTailProperties
<1> QED BY <1>1, <1>2, <1>3, <1>4 DEF Window!TypeOK, Window!Actors

LEMMA WindowSteps ==
  ASSUME WindowInv, [Window!Next]_(Window!vars)
  PROVE  WindowInv'
<1> USE WindowAssumption
<1>0. Window!TypeOK' /\ Window!TypeOK /\ Stands /\ Posted
  BY WindowTypes DEF WindowInv
<1>1. ASSUME NEW t \in Tasks, Window!Enqueue(t) PROVE WindowInv'
  <2>1. /\ at[UI] = "run" /\ at[t] = "new" /\ at' = [at EXCEPT ![UI] = "enqueue", ![t] = "run"]
        /\ UNCHANGED <<queue, refreshPending>>
    BY <1>1 DEF Window!Enqueue
  <2>2. at'[UI] = "enqueue" /\ at'[t] = "run" /\ \A b \in Tasks \ {t} : at'[b] = at[b]
    BY <1>0, <2>1 DEF Window!TypeOK, Window!Actors
  <2>3. Posters' = Posters /\ Ended' = Ended
    BY <2>1, <2>2 DEF Posters, Ended
  <2>4. Enqueued' = Enqueued \cup {t} /\ t \notin Enqueued
    BY <2>1, <2>2 DEF Enqueued
  <2>5. Cardinality(Enqueued') = Cardinality(Enqueued) + 1
    BY <2>4, WindowSets, FS_AddElement
  <2>6. \A w : Waiting(w)' = Waiting(w)
    BY <2>1 DEF Waiting, Positions
  <2>7. Posted'
    BY <1>0, <2>1, <2>2, <2>3, <2>5, <2>6, WindowQueue, WindowSets DEF Posted
  <2>8. Stands'
    BY <1>0, <2>2 DEF Stands
  <2> QED BY <1>0, <2>7, <2>8 DEF WindowInv
<1>2. CASE Window!EnqueuePost
  <2>1. at[UI] = "enqueue" /\ at' = [at EXCEPT ![UI] = "run"] /\ Window!PostTask("ensure") /\ refreshPending' = refreshPending
    BY <1>2 DEF Window!EnqueuePost, Window!Goto
  <2>2. /\ at'[UI] = "run" /\ \A b \in (Tasks \cup {UI}) \ {UI} : at'[b] = at[b]
        /\ Posters' = Posters /\ Enqueued' = Enqueued /\ Ended' = Ended
    BY <1>0, <2>1, WindowMoves, WindowSets
  <2>3. /\ Waiting("ensure")' = Waiting("ensure") + 1
        /\ Waiting("refresh")' = Waiting("refresh") /\ Waiting("plain")' = Waiting("plain")
    BY <1>0, <2>1, WindowPosts, WindowQueue
  <2>4. Posted'
    BY <1>0, <2>1, <2>2, <2>3, WindowQueue, WindowSets DEF Posted
  <2>5. Stands'
    BY <1>0, <2>2 DEF Stands
  <2> QED BY <1>0, <2>4, <2>5 DEF WindowInv
<1>3. ASSUME NEW a \in Tasks \cup {UI}, Window!Change(a) PROVE WindowInv'
  BY <1>0, <1>3, WindowStep DEF Window!Change, Window!Goto
<1>4. ASSUME NEW a \in Tasks \cup {UI}, Window!RequestRefresh(a) PROVE WindowInv'
  <2>1. CASE refreshPending
    BY <1>0, <1>4, <2>1, WindowStep DEF Window!RequestRefresh, Window!Goto
  <2>2. CASE ~ refreshPending
    <3>1. at[a] = "request" /\ at' = [at EXCEPT ![a] = "post"] /\ queue' = queue /\ refreshPending' = TRUE
      BY <1>4, <2>2 DEF Window!RequestRefresh, Window!Goto
    <3>2. /\ at'[a] = "post" /\ \A b \in (Tasks \cup {UI}) \ {a} : at'[b] = at[b]
          /\ Cardinality(Posters') = Cardinality(Posters) + 1 /\ Enqueued' = Enqueued /\ Ended' = Ended
      BY <1>0, <3>1, WindowMoves, WindowSets
    <3>3. \A w : Waiting(w)' = Waiting(w)
      BY <3>1 DEF Waiting, Positions
    <3>4. at'[UI] = "enqueue" => at[UI] = "enqueue"
      BY <3>2
    <3>5. Posted'
      BY <1>0, <2>2, <3>1, <3>2, <3>3, <3>4, WindowQueue, WindowSets DEF Posted
    <3>6. Stands'
      BY <1>0, <3>2 DEF Stands
    <3> QED BY <1>0, <3>5, <3>6 DEF WindowInv
  <2> QED BY <2>1, <2>2
<1>5. ASSUME NEW a \in Tasks \cup {UI}, Window!PostRefresh(a) PROVE WindowInv'
  <2>1. at[a] = "post" /\ at' = [at EXCEPT ![a] = "run"] /\ Window!PostTask("refresh") /\ refreshPending' = refreshPending
    BY <1>5 DEF Window!PostRefresh, Window!Goto
  <2>2. /\ at'[a] = "run" /\ \A b \in (Tasks \cup {UI}) \ {a} : at'[b] = at[b]
        /\ Cardinality(Posters') = Cardinality(Posters) - 1 /\ Enqueued' = Enqueued /\ Ended' = Ended
    BY <1>0, <2>1, WindowMoves, WindowSets
  <2>3. /\ Waiting("refresh")' = Waiting("refresh") + 1
        /\ Waiting("ensure")' = Waiting("ensure") /\ Waiting("plain")' = Waiting("plain")
    BY <1>0, <2>1, WindowPosts, WindowQueue
  <2>4. at'[UI] = "enqueue" => at[UI] = "enqueue"
    BY <2>2
  <2>5. Posted'
    BY <1>0, <2>1, <2>2, <2>3, <2>4, WindowQueue, WindowSets DEF Posted
  <2>6. Stands'
    BY <1>0, <2>2 DEF Stands
  <2> QED BY <1>0, <2>5, <2>6 DEF WindowInv
<1>6. ASSUME NEW t \in Tasks, Window!End(t) PROVE WindowInv'
  BY <1>0, <1>6, WindowStep DEF Window!End, Window!Goto
<1>7. ASSUME NEW t \in Tasks, Window!PostCompletion(t) PROVE WindowInv'
  <2>1. at[t] = "complete" /\ at' = [at EXCEPT ![t] = "ended"] /\ Window!PostTask("plain") /\ refreshPending' = refreshPending
    BY <1>7 DEF Window!PostCompletion, Window!Goto
  <2>2. /\ at'[t] = "ended" /\ \A b \in (Tasks \cup {UI}) \ {t} : at'[b] = at[b]
        /\ Posters' = Posters /\ Enqueued' = Enqueued
        /\ Cardinality(Ended') = Cardinality(Ended) + 1
    BY <1>0, <2>1, WindowMoves, WindowSets
  <2>3. /\ Waiting("plain")' = Waiting("plain") + 1
        /\ Waiting("ensure")' = Waiting("ensure") /\ Waiting("refresh")' = Waiting("refresh")
    BY <1>0, <2>1, WindowPosts, WindowQueue
  <2>4. at'[UI] = at[UI]
    BY <2>2
  <2>5. Posted'
    BY <1>0, <2>1, <2>2, <2>3, <2>4, WindowQueue, WindowSets DEF Posted
  <2>6. Stands'
    BY <1>0, <2>2 DEF Stands
  <2> QED BY <1>0, <2>5, <2>6 DEF WindowInv
<1>8. CASE Window!RunTask
  <2>1. /\ at[UI] = "run" /\ at' = [at EXCEPT ![UI] = "show"] /\ queue # <<>> /\ queue' = Tail(queue)
        /\ refreshPending' = (refreshPending /\ Head(queue) # "refresh")
    BY <1>8 DEF Window!RunTask, Window!Goto
  <2>2. /\ at'[UI] = "show" /\ \A b \in (Tasks \cup {UI}) \ {UI} : at'[b] = at[b]
        /\ Posters' = Posters /\ Enqueued' = Enqueued /\ Ended' = Ended
    BY <1>0, <2>1, WindowMoves, WindowSets
  <2>3. \A w \in {"ensure", "refresh", "plain"} :
          Waiting(w)' = Waiting(w) - (IF Head(queue) = w THEN 1 ELSE 0)
    BY <1>0, <2>1, WindowQueue, PositionsOfTail DEF Waiting
  <2>4. Waiting("ensure")' <= Waiting("ensure") /\ Waiting("plain")' <= Waiting("plain")
        /\ Waiting("ensure")' \in Int /\ Waiting("plain")' \in Int
    BY <1>0, <2>3, WindowQueue
  <2>5. Waiting("refresh")' + Cardinality(Posters') = IF refreshPending' THEN 1 ELSE 0
    <3>1. CASE Head(queue) = "refresh"
      <4>1. Waiting("refresh")' = Waiting("refresh") - 1 /\ refreshPending' = FALSE
        BY <2>1, <2>3, <3>1
      <4>2. Window!TypeOK'
        BY <1>0
      <4>3. Waiting("refresh")' \in Nat
        BY <4>2, PositionsAreFinite DEF Window!TypeOK, Waiting
      <4> QED BY <1>0, <2>2, <4>1, <4>3, WindowQueue, WindowSets DEF Posted
    <3>2. CASE Head(queue) # "refresh"
      <4>1. Waiting("refresh")' = Waiting("refresh") - 0 /\ refreshPending' = refreshPending
        BY <1>0, <2>1, <2>3, <3>2 DEF Window!TypeOK
      <4> QED BY <1>0, <2>2, <4>1, WindowQueue, WindowSets DEF Posted
    <3> QED BY <3>1, <3>2
  <2>6. Posted'
    BY <1>0, <2>1, <2>2, <2>4, <2>5, WindowQueue, WindowSets DEF Posted
  <2>7. Stands'
    BY <1>0, <2>2 DEF Stands
  <2> QED BY <1>0, <2>6, <2>7 DEF WindowInv
<1>9. CASE Window!ClearFinished
  BY <1>0, <1>9, WindowStep DEF Window!ClearFinished, Window!Goto
<1>10. CASE Window!RefreshUI
  BY <1>0, <1>10, WindowStep DEF Window!RefreshUI, Window!Goto
<1>11. CASE UNCHANGED Window!vars
  <2>1. UNCHANGED <<news, refreshPending, at, queue, frame, shown>>
    BY <1>11 DEF Window!vars
  <2> QED BY <1>0, <2>1 DEF WindowInv, Stands, Posted, Waiting, Positions, Posters, Enqueued, Ended
<1> QED
  BY <1>1, <1>2, <1>3, <1>4, <1>5, <1>6, <1>7, <1>8, <1>9, <1>10, <1>11
  DEF Window!Next, Window!Reports, Window!Actors

\* The instance of QueueView has its own copy of the operator.
LEMMA SameCardinality ==
  ASSUME NEW S
  PROVE  Window!Cardinality(S) = Cardinality(S)
BY DEF Window!Cardinality, Cardinality

LEMMA BoundHolds ==
  ASSUME WindowInv
  PROVE  WindowIsBounded
<1>1. /\ queue \in Seq({"ensure", "refresh", "plain"}) /\ DOMAIN queue = 1..Len(queue) /\ Len(queue) \in Nat
      /\ Waiting("ensure") \in Nat /\ Waiting("refresh") \in Nat /\ Waiting("plain") \in Nat
  BY WindowQueue, PositionsAreFinite DEF WindowInv
<1>2. Waiting("refresh") <= 1 /\ Waiting("ensure") <= Cardinality(Enqueued) /\ Waiting("plain") <= Cardinality(Ended)
  BY <1>1, WindowSets DEF WindowInv, Posted
<1>3. Cardinality(Ended) <= Cardinality(Enqueued)
  <2>1. Ended \in SUBSET Enqueued
    BY DEF Ended, Enqueued
  <2> QED BY <2>1, WindowSets, FS_Subset
<1>4. Len(queue) <= Waiting("ensure") + Waiting("refresh") + Waiting("plain")
  <2>1. PICK E : E = Positions(queue, "ensure") OBVIOUS
  <2>2. PICK R : R = Positions(queue, "refresh") OBVIOUS
  <2>3. PICK P : P = Positions(queue, "plain") OBVIOUS
  <2>4. /\ IsFiniteSet(E) /\ IsFiniteSet(R) /\ IsFiniteSet(P)
        /\ Cardinality(E) \in Nat /\ Cardinality(R) \in Nat /\ Cardinality(P) \in Nat
    BY <1>1, <2>1, <2>2, <2>3, PositionsAreFinite
  <2>5. \A i \in 1..Len(queue) : queue[i] \in {"ensure", "refresh", "plain"}
    BY <1>1, ElementOfSeq
  <2>6. 1..Len(queue) = (E \cup R) \cup P
    BY <1>1, <2>1, <2>2, <2>3, <2>5 DEF Positions
  <2>7. /\ IsFiniteSet(E \cup R) /\ Cardinality(E \cup R) = Cardinality(E) + Cardinality(R) - Cardinality(E \cap R)
        /\ IsFiniteSet((E \cup R) \cup P)
        /\ Cardinality((E \cup R) \cup P) = Cardinality(E \cup R) + Cardinality(P) - Cardinality((E \cup R) \cap P)
    BY <2>4, FS_Union
  <2>8. Cardinality(E \cap R) \in Nat /\ Cardinality((E \cup R) \cap P) \in Nat /\ Cardinality(E \cup R) \in Nat
    BY <2>4, <2>7, FS_Intersection, FS_CardinalityType
  <2>9. Cardinality(1..Len(queue)) = Len(queue)
    <3>1. PICK n \in Nat : n = Len(queue)
      BY <1>1
    <3>2. Cardinality(1..n) = IF 1 > n THEN 0 ELSE n - 1 + 1
      BY FS_Interval
    <3>3. Cardinality(1..n) = n
      BY <3>2
    <3> QED BY <3>1, <3>3, SMTT(40)
  <2>10. Len(queue) <= Cardinality(E) + Cardinality(R) + Cardinality(P)
    <3>1. Cardinality((E \cup R) \cup P) = Len(queue)
      BY <2>6, <2>9
    <3>2. Cardinality(E \cup R) <= Cardinality(E) + Cardinality(R)
      BY <2>4, <2>7, <2>8
    <3>3. Cardinality((E \cup R) \cup P) <= Cardinality(E \cup R) + Cardinality(P)
      BY <2>4, <2>7, <2>8
    <3> QED BY <1>1, <2>4, <2>8, <3>1, <3>2, <3>3
  <2> QED BY <2>1, <2>2, <2>3, <2>10 DEF Waiting
<1>5. Len(queue) <= 1 + 2 * Cardinality(Enqueued)
  BY <1>1, <1>2, <1>3, <1>4, WindowSets
<1>6. Window!Cardinality({i \in DOMAIN queue : queue[i] = "refresh"}) <= 1
  BY <1>2, SameCardinality DEF Waiting, Positions
<1>7. Len(queue) <= 1 + 2 * Window!Cardinality({t \in Tasks : at[t] # "new"})
  BY <1>5, SameCardinality DEF Enqueued
<1> QED BY <1>6, <1>7 DEF WindowIsBounded, Window!QueueIsBounded

\* The counts hold in every state of the queue window.
THEOREM WindowInvariant == Window!Spec => []WindowInv
<1>1. Window!Init => WindowInv
  BY WindowInitially
<1>2. WindowInv /\ [Window!Next]_(Window!vars) => WindowInv'
  BY WindowSteps
<1> QED BY <1>1, <1>2, PTL DEF Window!Spec

LEMMA WindowNextRefines ==
  ASSUME WindowInv, [Window!Next]_(Window!vars)
  PROVE  [Window!View!Next]_(Window!View!vars)
<1> USE DEF Window!View!vars, Window!View!Next
<1>0. Window!TypeOK
  BY DEF WindowInv
<1>1. ASSUME Window!MakeNews, shown' = shown PROVE Window!View!Come
  BY <1>1 DEF Window!MakeNews, Window!View!Come
<1>2. ASSUME NEW t \in Tasks, Window!Enqueue(t) \/ Window!End(t) PROVE Window!View!Come
  BY <1>1, <1>2 DEF Window!Enqueue, Window!End
<1>3. ASSUME NEW a, Window!Change(a) PROVE Window!View!Come
  BY <1>1, <1>3 DEF Window!Change
<1>4. CASE Window!ClearFinished
  BY <1>1, <1>4 DEF Window!ClearFinished
<1>5. CASE Window!RefreshUI
  BY <1>0, <1>5, WindowAssumption DEF Window!RefreshUI, Window!TypeOK, Window!View!Show
<1>6. ASSUME NEW a, Window!RequestRefresh(a) \/ Window!PostRefresh(a) PROVE UNCHANGED Window!View!vars
  BY <1>6 DEF Window!RequestRefresh, Window!PostRefresh
<1>7. ASSUME NEW t \in Tasks, Window!PostCompletion(t) PROVE UNCHANGED Window!View!vars
  BY <1>7 DEF Window!PostCompletion
<1>8. CASE Window!EnqueuePost \/ Window!RunTask
  BY <1>8 DEF Window!EnqueuePost, Window!RunTask
<1>9. CASE UNCHANGED Window!vars
  BY <1>9 DEF Window!vars
<1> QED
  BY <1>2, <1>3, <1>4, <1>5, <1>6, <1>7, <1>8, <1>9 DEF Window!Next, Window!Reports

-----------------------------------------------------------------------------
(***************************************************************************)
(* Both on one UI goroutine                                                *)
(***************************************************************************)
\* Beside each other the two views are what each is alone: neither takes a step
\* the other's specification does not have.
THEOREM EachIsItself == ViewsSpec => Spec /\ Window!Spec
<1>1. ViewsInit => Init /\ Window!Init
  BY DEF ViewsInit
<1>2. [ViewsNext]_<<vars, window>> => [Next]_vars
  BY DEF ViewsNext, DialogOnUI, DialogElsewhere, Next
<1>3. [ViewsNext]_<<vars, window>> => [Window!Next]_(Window!vars)
  BY DEF ViewsNext, window, Window!vars, WindowOnUI, WindowElsewhere, Window!Next, Window!Actors, Window!Reports
<1> QED BY <1>1, <1>2, <1>3, PTL DEF ViewsSpec, Spec, Window!Spec

\* One run of the progress scheduler, also when it shares the UI goroutine.
THEOREM OneRunOfBoth == ViewsSpec => []OneRun
BY EachIsItself, OneRunAlways, PTL

\* However often tasks report, the queue window puts at most one refresh for all
\* of them, and two UI tasks for each, on the UI goroutine.
THEOREM WindowIsBoundedAlways == ViewsSpec => []WindowIsBounded
<1>1. WindowInv => WindowIsBounded
  BY BoundHolds
<1> QED BY <1>1, EachIsItself, WindowInvariant, PTL

\* Both views implement LatestWins but for its liveness, while they take the UI
\* goroutine from each other.
THEOREM BothRefine == ViewsSpec => View!Safety /\ Window!View!Safety
<1>1. Window!Init => Window!View!Init
  BY DEF Window!Init, Window!View!Init
<1>2. WindowInv /\ [Window!Next]_(Window!vars) => [Window!View!Next]_(Window!View!vars)
  BY WindowNextRefines
<1>3. Window!Spec => Window!View!Safety
  BY <1>1, <1>2, WindowInvariant, PTL DEF Window!Spec, Window!View!Safety
<1> QED BY <1>3, EachIsItself, Refines, PTL
===============================================================================
