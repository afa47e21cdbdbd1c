---------------------------- MODULE CopyPoolProofs ----------------------------
(* Proofs about CopyPool, for any tree and any number of workers: a folder's  *)
(* attributes are set last and once, Wait tells the truth, and the workers'   *)
(* questions and views are apart.                                             *)
EXTENDS CopyPool, FiniteSetTheorems, SequenceTheorems, TLAPS

(***************************************************************************)
(* Who stands where                                                        *)
(***************************************************************************)
\* A goroutine has a file, holds a count of a folder it is about to give back
\* or whose file it has, or has taken the last count of a folder.
HasFile(a, f)   == at[a] \in JobPlaces \cup {"send"} /\ arg[a] = f
Holds(a, d)     == \/ at[a] = "done" /\ arg[a] = d
                   \/ at[a] \in JobPlaces \cup {"send"} /\ FileDir[arg[a]] = d
Finishing(a, d) == at[a] \in FinishPlaces /\ arg[a] = d

\* What a goroutine is busy with fits the place it is at.
Places ==
  /\ at[Walker] \in FinishPlaces \cup {"walk", "send", "done", "wait", "gone"}
  /\ \A w \in Workers : at[w] \in JobPlaces \cup FinishPlaces
                                  \cup {"idle", "done", "fail", "cancel", "gone"}
  /\ \A a \in Actors : at[a] \in JobPlaces \cup {"send"} => arg[a] \in Files
  /\ \A a \in Actors : at[a] \in FinishPlaces \cup {"done"} => arg[a] \in Dirs

(***************************************************************************)
(* The walk                                                                *)
(***************************************************************************)
\* A folder is open once, and walked; what is not open any more was handed out.
Walk ==
  /\ IsInjective(stack) /\ Range(stack) \subseteq walked
  /\ \A d \in walked \cap Dirs : d \notin Range(stack) =>
       {f \in Files : FileDir[f] = d} \cup Subdirs(d) \subseteq walked
  /\ ~ stopped /\ at[Walker] \in {"wait", "gone"} => stack = <<>> /\ Root \in walked

\* A file is handed out once: one goroutine has it, and it has not ended before
\* its job does.  What nobody has, has ended, or the pool has stopped.
OneJob ==
  /\ \A a \in Actors, f \in Files : HasFile(a, f) =>
       /\ f \in walked /\ (at[a] # "release" <=> ended[f] = None)
       /\ \A b \in Actors : HasFile(b, f) => b = a
  /\ \A f \in Files \ walked : ended[f] = None
  /\ ~ stopped => \A f \in walked \cap Files :
                    ended[f] # None \/ \E a \in Actors : HasFile(a, f)

(***************************************************************************)
(* The counts                                                              *)
(***************************************************************************)
\* What a folder waits for: the goroutines that hold a count of it, the
\* subfolders that are not over, and the walker while it has the folder open.
Alive(d)   == pending[d] > 0 \/ \E a \in Actors : Finishing(a, d)
Holding(d) == {a \in Actors : Holds(a, d)} \cup {s \in Subdirs(d) : Alive(s)}
              \cup (IF d \in Range(stack) THEN {d} ELSE {})

\* A count is never below what it counts, and exact until the pool stops: a job
\* taken off a stopped pool keeps its count.
Counted(d) ==
  /\ Cardinality(Holding(d)) <= pending[d]
  /\ ~ stopped => pending[d] = Cardinality(Holding(d))
Counts == \A d \in Dirs : Counted(d)

\* The last count of a folder is given back once, by one goroutine.
OneLast ==
  /\ \A a \in Actors, d \in Dirs : Finishing(a, d) =>
       /\ pending[d] = 0 /\ d \in walked
       /\ \A b \in Actors : Finishing(b, d) => b = a
       /\ at[a] # "up" => finishes[d] = 0
  /\ \A d \in Dirs : finishes[d] > 0 => finishes[d] = 1 /\ pending[d] = 0 /\ d \in walked
  /\ \A d \in Dirs \ walked : pending[d] = 0

\* Everything under a folder is done.
Complete(d) ==
  /\ \A f \in FilesUnder(d) : ended[f] # None
  /\ \A s \in Subdirs(d) : finishes[s] = 1

\* A folder is finished, and about to be, when all under it is done; and a folder
\* that is over was finished, or the pool has stopped.
Finished ==
  /\ \A d \in Dirs : finishes[d] > 0 => Complete(d)
  /\ \A a \in Actors : at[a] = "finish" => Complete(arg[a])
  /\ ~ stopped => \A d \in walked \cap Dirs :
       \/ pending[d] > 0 \/ finishes[d] = 1
       \/ \E a \in Actors : at[a] \in {"last", "finish"} /\ arg[a] = d

(***************************************************************************)
(* The errors                                                              *)
(***************************************************************************)
\* What a worker carries is what its file ended with, and what ended badly is
\* carried or recorded; the pool stops on a failure that is recorded, or when
\* its parent is cancelled.
Errors ==
  /\ \A w \in Workers :
       /\ at[w] \in (JobPlaces \ {"release"}) \cup {"idle", "gone"} => joberr[w] = None
       /\ at[w] = "fail" => joberr[w] # None
       /\ at[w] = "cancel" => err # None
       /\ joberr[w] \in Files => ended[joberr[w]] = "failed"
       /\ joberr[w] = "cancel" => cancelled \/ err # None
  /\ cancelled => stopped
  /\ stopped => cancelled \/ err # None \/ result # None
  /\ err \in Files => ended[err] = "failed"
  /\ err = "cancel" => cancelled
  /\ \A f \in Files :
       /\ ended[f] = "failed" => err # None \/ \E w \in Workers : joberr[w] = f
       /\ ended[f] = "cancel" => stopped

\* Wait returns to nobody before the workers are gone.
Returned ==
  /\ (result # None) = (at[Walker] = "gone")
  /\ \A w \in Workers : at[w] = "gone" => at[Walker] \in {"wait", "gone"}
  /\ result # None => stopped /\ \A w \in Workers : at[w] = "gone"

(***************************************************************************)
(* The questions and the views                                             *)
(***************************************************************************)
\* The gate is held by the worker that asks, and by no other.
Asking ==
  /\ \A w \in Workers : at[w] \in {"slot", "show"} <=> gate = w
  /\ \A w \in Workers : at[w] = "show" => answer = "each"

\* A worker has a view exactly while it runs a job, and every view made is
\* somewhere.
Viewing ==
  /\ \A w \in Workers : view[w] # 0 <=> at[w] \in JobPlaces \ {"got"}
  /\ IsInjective(idle) /\ Range(idle) \subseteq 1..made
  /\ \A w, x \in Workers : view[w] # 0 => view[w] \notin Range(idle) /\ (view[w] = view[x] => w = x)
  /\ \A v \in 1..made : v \in Range(idle) \/ \E w \in Workers : view[w] = v
  /\ made <= Cardinality(Workers)

IInv ==
  /\ TypeOK /\ Places /\ Walk /\ OneJob /\ Counts /\ OneLast /\ Finished
  /\ Errors /\ Returned /\ WaitIsTruthful /\ Asking /\ Viewing


-----------------------------------------------------------------------------
(***************************************************************************)
(* The tree and the sequences                                              *)
(***************************************************************************)
LEMMA NotOwnChild == \A d \in Dirs : d \notin Subdirs(d)
<1> SUFFICES ASSUME NEW d \in Dirs PROVE d \notin Subdirs(d)
  OBVIOUS
<1>1. {d} \in (SUBSET Dirs) \ {{}}
  OBVIOUS
<1>2. PICK e \in {d} : Subdirs(e) \cap {d} = {}
  BY <1>1, CopyAssumption
<1> QED BY <1>2

LEMMA FilesAreSplit ==
  ASSUME NEW d \in Dirs, NEW f \in FilesUnder(d)
  PROVE  FileDir[f] = d \/ \E s \in Subdirs(d) : f \in FilesUnder(s)
<1> DEFINE S == {d} \cup UNION {Under(s) : s \in Subdirs(d)}
<1>1. f \in Files /\ FileDir[f] \in Under(d)
  BY DEF FilesUnder
<1>2. S \in SUBSET Dirs
  BY DEF Under, Subdirs
<1>3. \A s \in Subdirs(d) : s \in Under(s) /\ s \in Dirs
  BY DEF Under, Subdirs
<1>4. \A s \in Dirs, e \in Dirs : e \in Under(s) => Subdirs(e) \subseteq Under(s)
  BY DEF Under, Subdirs
<1>5. \A e \in S : Subdirs(e) \subseteq S
  <2> SUFFICES ASSUME NEW e \in S PROVE Subdirs(e) \subseteq S
    OBVIOUS
  <2>1. CASE e = d
    BY <2>1, <1>3
  <2>2. ASSUME NEW s \in Subdirs(d), e \in Under(s) PROVE Subdirs(e) \subseteq S
    BY <2>2, <1>2, <1>3, <1>4
  <2> QED BY <2>1, <2>2
<1>6. FileDir[f] \in S
  <2> HIDE DEF S
  <2>1. d \in S
    BY DEF S
  <2> QED BY <1>1, <1>2, <1>5, <2>1 DEF Under
<1> QED BY <1>1, <1>6 DEF FilesUnder

\* A set of folders with the root and the subfolders of its own has them all.
LEMMA RootReaches ==
  ASSUME NEW S \in SUBSET Dirs, Root \in S, \A d \in S : Subdirs(d) \subseteq S
  PROVE  S = Dirs
<1>1. \A e \in Under(Root) : e \in S
  BY DEF Under
<1> QED BY <1>1, CopyAssumption

LEMMA PushedOn ==
  ASSUME NEW T, NEW s \in Seq(T), NEW x \in T, IsInjective(s), x \notin Range(s)
  PROVE  /\ Append(s, x) \in Seq(T) /\ IsInjective(Append(s, x))
         /\ Range(Append(s, x)) = Range(s) \cup {x}
<1>1. /\ Append(s, x) \in Seq(T) /\ Len(Append(s, x)) = Len(s) + 1 /\ Len(s) \in Nat
      /\ \A i \in 1..Len(s) : Append(s, x)[i] = s[i]
      /\ Append(s, x)[Len(s) + 1] = x
  BY AppendProperties, LenProperties
<1>2. DOMAIN s = 1..Len(s) /\ DOMAIN Append(s, x) = 1..(Len(s) + 1)
  BY <1>1, LenProperties
<1>3. Range(Append(s, x)) = Range(s) \cup {x}
  BY <1>1, <1>2 DEF Range
<1>4. \A i \in 1..Len(s) : s[i] # x
  BY <1>2 DEF Range
<1>5. IsInjective(Append(s, x))
  BY <1>1, <1>2, <1>4 DEF IsInjective
<1> QED BY <1>1, <1>3, <1>5

LEMMA TakenOff ==
  ASSUME NEW T, NEW s \in Seq(T), s # <<>>, IsInjective(s)
  PROVE  /\ Front(s) \in Seq(T) /\ IsInjective(Front(s))
         /\ Last(s) \in Range(s) /\ Last(s) \in T
         /\ Range(Front(s)) = Range(s) \ {Last(s)}
<1>1. Len(s) \in Nat \ {0} /\ DOMAIN s = 1..Len(s)
  BY EmptySeq, LenProperties
<1>2. \A i \in 1..Len(s) : s[i] \in T
  BY ElementOfSeq
<1>3. /\ Front(s) \in Seq(T) /\ Len(Front(s)) = Len(s) - 1
      /\ \A i \in 1..(Len(s) - 1) : Front(s)[i] = s[i]
  <2>1. 1 \in Int /\ Len(s) - 1 \in Int /\ \A i \in 1..(Len(s) - 1) : s[i] \in T
    BY <1>1, <1>2
  <2>2. /\ SubSeq(s, 1, Len(s) - 1) \in Seq(T)
        /\ Len(SubSeq(s, 1, Len(s) - 1)) = IF 1 <= Len(s) - 1 THEN Len(s) - 1 - 1 + 1 ELSE 0
        /\ \A i \in 1..(Len(s) - 1 - 1 + 1) : SubSeq(s, 1, Len(s) - 1)[i] = s[1 + i - 1]
    BY <2>1, SubSeqProperties
  <2> QED BY <1>1, <2>2 DEF Front
<1>4. DOMAIN Front(s) = 1..(Len(s) - 1)
  BY <1>3, LenProperties
<1>5. Last(s) \in Range(s) /\ Last(s) \in T
  BY <1>1, <1>2 DEF Last, Range
<1>6. IsInjective(Front(s))
  BY <1>1, <1>3, <1>4 DEF IsInjective
<1>7. Range(Front(s)) = Range(s) \ {Last(s)}
  BY <1>1, <1>3, <1>4 DEF Range, IsInjective, Last
<1> QED BY <1>3, <1>5, <1>6, <1>7

(***************************************************************************)
(* The steps.  What a job does between its view and its return, it does     *)
(* alone: for the counts one step of it is like another.                   *)
(***************************************************************************)
JobMoves(w) ==
  /\ at[w] \in {"ask", "gate", "slot", "show"}
  /\ \E p \in {"gate", "slot", "show", "copy"} : Goto(w, p)
  /\ gate' \in {gate, w, None} /\ answer' \in {answer, "all"}
  /\ UNCHANGED <<pool, walk, arg, joberr, pending, ended, finishes, views>>

JobEnds(w) ==
  /\ at[w] \in {"ask", "gate", "slot", "copy"} /\ Goto(w, "release")
  /\ \E how \in {"copied", "failed", "cancel"} :
       /\ how = "cancel" => stopped
       /\ ended' = [ended EXCEPT ![arg[w]] = how]
       /\ joberr' = [joberr EXCEPT ![w] =
            CASE how = "copied" -> None [] how = "failed" -> arg[w] [] OTHER -> how]
  /\ gate' \in {gate, None}
  /\ UNCHANGED <<pool, walk, arg, pending, finishes, answer, views>>

LEMMA StepKinds ==
  ASSUME [Next]_vars
  PROVE  \/ ParentCancel \/ SendRefused \/ CloseDir \/ WalkEnd \/ WaitReturns
         \/ \E d \in Dirs : OpenDir(d)
         \/ \E f \in Files : GoFile(f)
         \/ \E w \in Workers : \/ Send(w) \/ TakeJob(w) \/ JobMoves(w) \/ JobEnds(w) \/ Release(w)
                               \/ FailRecord(w) \/ FailCancel(w) \/ WorkerLeaves(w)
         \/ \E a \in Actors : DoneCount(a) \/ DoneLast(a) \/ DoneFinish(a) \/ DoneParent(a)
         \/ UNCHANGED vars
<1>1. ASSUME NEW w \in Workers, AskWaits(w) \/ TakeSlot(w) \/ Answered(w)
      PROVE  JobMoves(w)
  BY <1>1 DEF AskWaits, TakeSlot, Answered, JobMoves, Goto, asks
<1>2. ASSUME NEW w \in Workers, AskCancelled(w) \/ JobReturns(w)
      PROVE  JobEnds(w)
  <2>1. CASE AskCancelled(w)
    BY <2>1 DEF AskCancelled, JobEnds, Ends, Goto, asks
  <2>2. CASE JobReturns(w)
    <3>1. PICK how \in {"copied", "failed"} \cup IF stopped THEN {"cancel"} ELSE {} : Ends(w, how)
      BY <2>2 DEF JobReturns
    <3>2. how \in {"copied", "failed", "cancel"} /\ (how = "cancel" => stopped)
      OBVIOUS
    <3> QED BY <2>2, <3>1, <3>2 DEF JobReturns, JobEnds, Ends, Goto
  <2> QED BY <1>2, <2>1, <2>2
<1>3. ASSUME NEW w \in Workers, Slot(w) PROVE JobMoves(w) \/ JobEnds(w)
  <2>1. CASE stopped /\ Ends(w, "cancel") /\ gate' = None
    BY <1>3, <2>1 DEF Slot, JobEnds, Ends, Goto
  <2>2. CASE ~ stopped
    BY <1>3, <2>2 DEF Slot, JobMoves, Goto, asks
  <2> QED BY <1>3, <2>1, <2>2 DEF Slot
<1> QED
  BY <1>1, <1>2, <1>3 DEF Next, WalkerStep, WorkerStep, Done

LEMMA WhoIsWho ==
  /\ Walker \in Actors /\ Walker \notin Workers /\ Workers \subseteq Actors
  /\ \A a \in Actors : a # Walker => a \in Workers
  BY CopyAssumption DEF Actors

LEMMA LastOpen == ASSUME TypeOK, stack # <<>> PROVE Last(stack) \in Dirs /\ Last(stack) \in Range(stack)
<1>1. stack \in Seq(Dirs)
  BY DEF TypeOK
<1>2. Len(stack) \in Nat \ {0} /\ DOMAIN stack = 1..Len(stack)
  BY <1>1, EmptySeq, LenProperties
<1>3. \A i \in 1..Len(stack) : stack[i] \in Dirs
  BY <1>1, ElementOfSeq
<1> QED BY <1>2, <1>3 DEF Last, Range

LEMMA PlacesHold ==
  ASSUME TypeOK, Places, [Next]_vars
  PROVE  Places'
<1> USE CopyAssumption DEF TypeOK, Places, JobPlaces, FinishPlaces, Actors
<1>1. CASE ParentCancel
  BY <1>1 DEF ParentCancel, pool, walk, local
<1>2. ASSUME NEW d \in Dirs, OpenDir(d) PROVE Places'
  BY <1>2 DEF OpenDir, pool, walk, local
<1>3. ASSUME NEW f \in Files, GoFile(f) PROVE Places'
  <2>1. at[Walker] = "walk"
    BY <1>3 DEF GoFile
  <2>2. CASE at' = at /\ arg' = arg
    BY <2>1, <2>2
  <2>3. CASE at' = [at EXCEPT ![Walker] = "wait"] /\ arg' = arg
    BY <2>1, <2>3
  <2>4. CASE at' = [at EXCEPT ![Walker] = "send"] /\ arg' = [arg EXCEPT ![Walker] = f]
    BY <2>1, <2>4
  <2>5. \/ at' = at /\ arg' = arg
        \/ at' = [at EXCEPT ![Walker] = "wait"] /\ arg' = arg
        \/ at' = [at EXCEPT ![Walker] = "send"] /\ arg' = [arg EXCEPT ![Walker] = f]
    <3> HIDE DEF TypeOK, Places, JobPlaces, FinishPlaces, Actors
    <3> QED BY <1>3 DEF GoFile, Goto, With
  <2> QED BY <2>2, <2>3, <2>4, <2>5
<1>4. ASSUME NEW w \in Workers, Send(w) PROVE Places'
  <2>1. w # Walker /\ arg[Walker] \in Files
    BY <1>4 DEF Send
  <2>2. at'[Walker] = "walk" /\ at'[w] = "got" /\ arg'[w] = arg[Walker]
    BY <1>4, <2>1 DEF Send
  <2>3. \A a \in Actors \ {Walker, w} : at'[a] = at[a] /\ arg'[a] = arg[a]
    BY <1>4 DEF Send
  <2> HIDE DEF TypeOK
  <2> QED BY <2>1, <2>2, <2>3
<1>5. CASE SendRefused
  <2>1. CASE Goto(Walker, "wait")
    BY <1>5, <2>1 DEF SendRefused, Goto, With, pool, walk, local
  <2>2. CASE Goto(Walker, "walk")
    BY <1>5, <2>2 DEF SendRefused, Goto, With, pool, walk, local
  <2> QED BY <1>5, <2>1, <2>2 DEF SendRefused
<1>6. CASE CloseDir
  <2>1. Last(stack) \in Dirs
    BY <1>6, LastOpen DEF CloseDir
  <2> QED BY <1>6, <2>1 DEF CloseDir, Goto, With, pool, walk, local
<1>7. CASE WalkEnd
  BY <1>7 DEF WalkEnd, Goto, pool, walk, local
<1>8. CASE WaitReturns
  BY <1>8 DEF WaitReturns, Goto, pool, walk, local
<1>9. ASSUME NEW w \in Workers, TakeJob(w) PROVE Places'
  <2>1. at[w] = "got"
    BY <1>9 DEF TakeJob
  <2>2. CASE at' = [at EXCEPT ![w] = "idle"] /\ arg' = [arg EXCEPT ![w] = None]
    BY <2>1, <2>2
  <2>3. CASE at' = [at EXCEPT ![w] = "ask"] /\ arg' = arg
    BY <2>1, <2>3
  <2>4. CASE at' = [at EXCEPT ![w] = "copy"] /\ arg' = arg
    BY <2>1, <2>4
  <2> HIDE DEF TypeOK, Places
  <2> QED BY <1>9, <2>2, <2>3, <2>4 DEF TakeJob, Goto, With
<1>10. ASSUME NEW w \in Workers, JobMoves(w) PROVE Places'
  <2>1. at[w] \in {"ask", "gate", "slot", "show"} /\ arg' = arg
    BY <1>10 DEF JobMoves
  <2>2. PICK p \in {"gate", "slot", "show", "copy"} : at' = [at EXCEPT ![w] = p]
    BY <1>10 DEF JobMoves, Goto
  <2>3. p \in JobPlaces /\ p \notin FinishPlaces \cup {"send", "done"}
    BY <2>2
  <2>4. arg[w] \in Files /\ w # Walker
    BY <2>1
  <2>5. at'[w] = p /\ \A a \in Actors \ {w} : at'[a] = at[a]
    BY <2>2
  <2> HIDE DEF TypeOK, JobPlaces, FinishPlaces
  <2> QED BY <2>1, <2>3, <2>4, <2>5
<1>11. ASSUME NEW w \in Workers, JobEnds(w) PROVE Places'
  <2>1. at[w] \in {"ask", "gate", "slot", "copy"} /\ arg' = arg
    BY <1>11 DEF JobEnds
  <2>2. at' = [at EXCEPT ![w] = "release"]
    BY <1>11 DEF JobEnds, Goto
  <2>3. arg[w] \in Files /\ w # Walker
    BY <2>1
  <2>4. at'[w] = "release" /\ \A a \in Actors \ {w} : at'[a] = at[a]
    BY <2>2
  <2>5. "release" \in JobPlaces /\ "release" \notin FinishPlaces \cup {"send", "done"}
    OBVIOUS
  <2> HIDE DEF TypeOK, JobPlaces, FinishPlaces
  <2> QED BY <2>1, <2>3, <2>4, <2>5
<1>12. ASSUME NEW w \in Workers, Release(w) PROVE Places'
  <2>1. at[w] = "release" /\ w # Walker /\ arg[w] \in Files
    BY <1>12 DEF Release
  <2>2. at' = [at EXCEPT ![w] = "done"] /\ arg' = [arg EXCEPT ![w] = FileDir[arg[w]]]
    BY <1>12 DEF Release, Goto, With
  <2>3. at'[w] = "done" /\ arg'[w] \in Dirs
    BY <2>1, <2>2
  <2>4. \A a \in Actors \ {w} : at'[a] = at[a] /\ arg'[a] = arg[a]
    BY <2>2
  <2>5. "done" \notin JobPlaces \cup {"send"}
    OBVIOUS
  <2> HIDE DEF TypeOK, JobPlaces, FinishPlaces
  <2> QED BY <2>1, <2>3, <2>4, <2>5
<1>13. ASSUME NEW w \in Workers, FailRecord(w) PROVE Places'
  BY <1>13 DEF FailRecord, Goto, pool, walk, local
<1>14. ASSUME NEW w \in Workers, FailCancel(w) PROVE Places'
  BY <1>14 DEF FailCancel, Goto, pool, walk, local
<1>15. ASSUME NEW w \in Workers, WorkerLeaves(w) PROVE Places'
  BY <1>15 DEF WorkerLeaves, Goto, pool, walk, local
<1>16. ASSUME NEW a \in Actors, DoneCount(a) PROVE Places'
  <2>1. CASE Continue(a)
    <3>1. PICK p : p = IF a = Walker THEN "walk" ELSE IF joberr[a] = None THEN "idle" ELSE "fail"
      OBVIOUS
    <3>2. at' = [at EXCEPT ![a] = p] /\ arg' = [arg EXCEPT ![a] = None]
      BY <2>1, <3>1 DEF Continue, Goto, With
    <3>3. p \notin JobPlaces \cup FinishPlaces \cup {"send", "done"}
      BY <3>1
    <3>4. (a = Walker => p = "walk") /\ (a # Walker => p \in {"idle", "fail"})
      BY <3>1
    <3>5. at'[a] = p /\ \A b \in Actors \ {a} : at'[b] = at[b] /\ arg'[b] = arg[b]
      BY <3>2
    <3> HIDE DEF TypeOK, JobPlaces, FinishPlaces
    <3> QED BY <3>3, <3>4, <3>5
  <2>2. CASE Goto(a, "last") /\ UNCHANGED arg
    BY <1>16, <2>2 DEF DoneCount, Goto, pool, walk, local
  <2> QED BY <1>16, <2>1, <2>2 DEF DoneCount
<1>17. ASSUME NEW a \in Actors, DoneLast(a) PROVE Places'
  BY <1>17 DEF DoneLast, Goto, pool, walk, local
<1>18. ASSUME NEW a \in Actors, DoneFinish(a) PROVE Places'
  BY <1>18 DEF DoneFinish, Goto, pool, walk, local
<1>19. ASSUME NEW a \in Actors, DoneParent(a) PROVE Places'
  <2>1. CASE Continue(a)
    BY <1>19, <2>1 DEF DoneParent, Goto, With, Continue, pool, walk, local
  <2>2. CASE arg[a] # Root
    <3>1. Parent[arg[a]] \in Dirs
      BY <1>19, <2>2 DEF DoneParent
    <3>2. at' = [at EXCEPT ![a] = "done"] /\ arg' = [arg EXCEPT ![a] = Parent[arg[a]]]
      BY <1>19, <2>2 DEF DoneParent, Goto, With
    <3> QED BY <1>19, <3>1, <3>2 DEF DoneParent
  <2> QED BY <1>19, <2>1, <2>2 DEF DoneParent
<1>20. CASE UNCHANGED vars
  BY <1>20 DEF vars, pool, walk, local
<1> QED
  BY StepKinds, <1>1, <1>2, <1>3, <1>4, <1>5, <1>6, <1>7, <1>8, <1>9, <1>10,
     <1>11, <1>12, <1>13, <1>14, <1>15, <1>16, <1>17, <1>18, <1>19, <1>20

LEMMA FrontOfSeq ==
  ASSUME NEW T, NEW s \in Seq(T), s # <<>>
  PROVE  Front(s) \in Seq(T) /\ Last(s) \in T
<1>1. Len(s) \in Nat \ {0} /\ DOMAIN s = 1..Len(s)
  BY EmptySeq, LenProperties
<1>2. \A i \in 1..Len(s) : s[i] \in T
  BY ElementOfSeq
<1>3. SubSeq(s, 1, Len(s) - 1) \in Seq(T)
  BY <1>1, <1>2, SubSeqProperties
<1> QED BY <1>1, <1>2, <1>3 DEF Front, Last

LEMMA LastViewed == ASSUME TypeOK, Viewing, idle # <<>> PROVE Last(idle) \in 1..made
<1>1. idle \in Seq(Nat)
  BY DEF TypeOK
<1>2. Len(idle) \in Nat \ {0} /\ DOMAIN idle = 1..Len(idle)
  BY <1>1, EmptySeq, LenProperties
<1> QED BY <1>2 DEF Last, Range, Viewing

\* The holders of a folder are finitely many, and while it has one it is waited for.
LEMMA HeldCounts ==
  ASSUME TypeOK, Counts, NEW d \in Dirs
  PROVE  /\ IsFiniteSet(Holding(d)) /\ Cardinality(Holding(d)) \in Nat
         /\ Holding(d) # {} => pending[d] > 0
         /\ pending[d] = 0 => Holding(d) = {}
<1>1. IsFiniteSet(Actors \cup Dirs)
  BY CopyAssumption, FS_AddElement, FS_Union DEF Actors
<1>2. Holding(d) \subseteq Actors \cup Dirs
  BY DEF Holding, Subdirs
<1>3. IsFiniteSet(Holding(d)) /\ Cardinality(Holding(d)) \in Nat
  BY <1>1, <1>2, FS_Subset, FS_CardinalityType
<1>4. Holding(d) # {} => Cardinality(Holding(d)) # 0
  BY <1>3, FS_EmptySet
<1>5. Cardinality(Holding(d)) <= pending[d] /\ pending[d] \in Nat
  BY DEF Counts, Counted, TypeOK
<1> QED BY <1>3, <1>4, <1>5

LEMMA SenderIsCounted ==
  ASSUME TypeOK, Places, Counts, at[Walker] = "send"
  PROVE  arg[Walker] \in Files /\ FileDir[arg[Walker]] \in Dirs /\ pending[FileDir[arg[Walker]]] > 0
<1>1. arg[Walker] \in Files
  BY WhoIsWho DEF Places
<1>2. FileDir[arg[Walker]] \in Dirs
  BY <1>1, CopyAssumption
<1>3. Walker \in Holding(FileDir[arg[Walker]])
  BY <1>1, WhoIsWho DEF Holding, Holds
<1> QED BY <1>1, <1>2, <1>3, HeldCounts

LEMMA DoerIsCounted ==
  ASSUME TypeOK, Places, Counts, NEW a \in Actors, at[a] = "done"
  PROVE  arg[a] \in Dirs /\ pending[arg[a]] > 0
<1>1. arg[a] \in Dirs
  BY DEF Places
<1>2. a \in Holding(arg[a])
  BY DEF Holding, Holds
<1> QED BY <1>1, <1>2, HeldCounts

LEMMA TypesHold ==
  ASSUME TypeOK, Places, Counts, Viewing, [Next]_vars
  PROVE  TypeOK'
<1> USE WhoIsWho DEF TypeOK, Places, JobPlaces, FinishPlaces, Acquire
<1>1. CASE ParentCancel
  <2>1. UNCHANGED <<err, result, stack, walked, at, arg, joberr, pending, ended, finishes,
                    gate, answer, idle, view, made>>
    BY <1>1 DEF ParentCancel, walk, local, views, asks
  <2>2. cancelled' = TRUE /\ stopped' = TRUE
    BY <1>1 DEF ParentCancel
  <2> HIDE DEF Places, JobPlaces, FinishPlaces, Acquire
  <2> QED BY <2>1, <2>2
<1>2. ASSUME NEW d \in Dirs, OpenDir(d) PROVE TypeOK'
  <2>1. stack' \in Seq(Dirs) /\ walked' \subseteq Dirs \cup Files
    BY AppendProperties, <1>2 DEF OpenDir
  <2>2. pending' \in [Dirs -> Nat]
    BY <1>2 DEF OpenDir
  <2>3. UNCHANGED <<pool, local, ended, finishes, asks, views>>
    BY <1>2 DEF OpenDir
  <2> HIDE DEF Places, JobPlaces, FinishPlaces, Acquire
  <2> QED BY <2>1, <2>2, <2>3 DEF pool, local, asks, views
<1>3. ASSUME NEW f \in Files, GoFile(f) PROVE TypeOK'
  <2>1. FileDir[f] \in Dirs
    BY CopyAssumption
  <2>2. at' \in [Actors -> JobPlaces \cup FinishPlaces \cup
                       {"walk", "send", "wait", "idle", "done", "fail", "cancel", "gone"}]
    BY <1>3 DEF GoFile, Goto
  <2>3. arg' \in [Actors -> Dirs \cup Files \cup {None}]
    BY <1>3 DEF GoFile, With
  <2>4. pending' \in [Dirs -> Nat]
    <3>1. CASE pending' = [pending EXCEPT ![FileDir[f]] = @ + 1]
      BY <2>1, <3>1
    <3>2. CASE pending' = pending
      BY <3>2
    <3> QED BY <1>3, <3>1, <3>2 DEF GoFile
  <2>5. walked' \subseteq Dirs \cup Files
    BY <1>3 DEF GoFile
  <2> QED BY <1>3, <2>2, <2>3, <2>4, <2>5 DEF GoFile, pool, walk, local, views, asks
<1>4. ASSUME NEW w \in Workers, Send(w) PROVE TypeOK'
  BY <1>4 DEF Send, pool, walk, local, views, asks
<1>5. CASE SendRefused
  <2>1. at' \in [Actors -> JobPlaces \cup FinishPlaces \cup
                       {"walk", "send", "wait", "idle", "done", "fail", "cancel", "gone"}]
    BY <1>5 DEF SendRefused, Goto
  <2>2. arg' \in [Actors -> Dirs \cup Files \cup {None}]
    BY <1>5 DEF SendRefused, With
  <2>3. pending' \in [Dirs -> Nat]
    BY SenderIsCounted, <1>5, SMTT(40) DEF SendRefused
  <2> QED BY <1>5, <2>1, <2>2, <2>3 DEF SendRefused, pool, walk, local, views, asks
<1>6. CASE CloseDir
  BY LastOpen, FrontOfSeq, <1>6 DEF CloseDir, Goto, With, pool, walk, local, views, asks
<1>7. CASE WalkEnd
  BY <1>7 DEF WalkEnd, Goto, pool, walk, local, views, asks
<1>8. CASE WaitReturns
  BY <1>8 DEF WaitReturns, Goto, pool, walk, local, views, asks
<1>9. ASSUME NEW w \in Workers, TakeJob(w) PROVE TypeOK'
  <2>1. at' \in [Actors -> JobPlaces \cup FinishPlaces \cup
                       {"walk", "send", "wait", "idle", "done", "fail", "cancel", "gone"}]
    <3>1. CASE Goto(w, "idle")
      BY <3>1 DEF Goto
    <3>2. CASE Goto(w, IF arg[w] \in Taken THEN "ask" ELSE "copy")
      BY <3>2 DEF Goto
    <3> QED BY <1>9, <3>1, <3>2 DEF TakeJob
  <2>2. arg' \in [Actors -> Dirs \cup Files \cup {None}]
    BY <1>9 DEF TakeJob, With
  <2>3. idle' \in Seq(Nat) /\ made' \in Nat /\ view' \in [Workers -> 0..made']
    <3>1. CASE UNCHANGED views
      BY <3>1 DEF views
    <3>2. CASE idle # <<>> /\ Acquire(w)
      <4>1. Last(idle) \in 1..made
        BY <3>2, LastViewed
      <4>2. Front(idle) \in Seq(Nat)
        BY <3>2, FrontOfSeq
      <4>3. idle' = Front(idle) /\ made' = made /\ view' = [view EXCEPT ![w] = Last(idle)]
        BY <3>2
      <4> QED BY <4>1, <4>2, <4>3
    <3>3. CASE idle = <<>> /\ Acquire(w)
      BY <3>3
    <3> QED BY <1>9, <3>1, <3>2, <3>3 DEF TakeJob
  <2> QED BY <1>9, <2>1, <2>2, <2>3 DEF TakeJob, pool, walk, asks
<1>10. ASSUME NEW w \in Workers, JobMoves(w) PROVE TypeOK'
  <2>1. PICK p \in {"gate", "slot", "show", "copy"} : at' = [at EXCEPT ![w] = p]
    BY <1>10 DEF JobMoves, Goto
  <2>2. at' \in [Actors -> JobPlaces \cup FinishPlaces \cup
                       {"walk", "send", "wait", "idle", "done", "fail", "cancel", "gone"}]
    BY <2>1
  <2> QED BY <1>10, <2>2 DEF JobMoves, pool, walk, views
<1>11. ASSUME NEW w \in Workers, JobEnds(w) PROVE TypeOK'
  <2>1. arg[w] \in Files
    BY <1>11 DEF JobEnds
  <2>2. ended' \in [Files -> {None, "copied", "failed", "cancel"}]
    BY <1>11, <2>1 DEF JobEnds
  <2>3. joberr' \in [Workers -> Files \cup {None, "cancel"}]
    BY <1>11, <2>1 DEF JobEnds
  <2>4. at' \in [Actors -> JobPlaces \cup FinishPlaces \cup
                       {"walk", "send", "wait", "idle", "done", "fail", "cancel", "gone"}]
    BY <1>11 DEF JobEnds, Goto
  <2> QED BY <1>11, <2>2, <2>3, <2>4 DEF JobEnds, pool, walk, views
<1>12. ASSUME NEW w \in Workers, Release(w) PROVE TypeOK'
  <2>1. arg[w] \in Files /\ FileDir[arg[w]] \in Dirs
    BY <1>12, CopyAssumption DEF Release
  <2>2. Append(idle, view[w]) \in Seq(Nat)
    BY AppendProperties
  <2>3. at' \in [Actors -> JobPlaces \cup FinishPlaces \cup
                       {"walk", "send", "wait", "idle", "done", "fail", "cancel", "gone"}]
    BY <1>12 DEF Release, Goto
  <2>4. arg' \in [Actors -> Dirs \cup Files \cup {None}]
    BY <1>12, <2>1 DEF Release, With
  <2> QED BY <1>12, <2>2, <2>3, <2>4 DEF Release, pool, walk, asks
<1>13. ASSUME NEW w \in Workers, FailRecord(w) PROVE TypeOK'
  BY <1>13 DEF FailRecord, Goto, pool, walk, local, views, asks
<1>14. ASSUME NEW w \in Workers, FailCancel(w) PROVE TypeOK'
  BY <1>14 DEF FailCancel, Goto, pool, walk, local, views, asks
<1>15. ASSUME NEW w \in Workers, WorkerLeaves(w) PROVE TypeOK'
  BY <1>15 DEF WorkerLeaves, Goto, pool, walk, local, views, asks
<1>16. ASSUME NEW a \in Actors, DoneCount(a) PROVE TypeOK'
  <2>1. pending' \in [Dirs -> Nat]
    BY DoerIsCounted, <1>16 DEF DoneCount
  <2>2. at' \in [Actors -> JobPlaces \cup FinishPlaces \cup
                       {"walk", "send", "wait", "idle", "done", "fail", "cancel", "gone"}]
    BY <1>16 DEF DoneCount, Goto, Continue
  <2>3. arg' \in [Actors -> Dirs \cup Files \cup {None}]
    BY <1>16 DEF DoneCount, With, Continue
  <2> QED BY <1>16, <2>1, <2>2, <2>3 DEF DoneCount, pool, walk, views, asks
<1>17. ASSUME NEW a \in Actors, DoneLast(a) PROVE TypeOK'
  BY <1>17 DEF DoneLast, Goto, pool, walk, local, views, asks
<1>18. ASSUME NEW a \in Actors, DoneFinish(a) PROVE TypeOK'
  BY <1>18 DEF DoneFinish, Goto, pool, walk, local, views, asks
<1>19. ASSUME NEW a \in Actors, DoneParent(a) PROVE TypeOK'
  <2>1. at' \in [Actors -> JobPlaces \cup FinishPlaces \cup
                       {"walk", "send", "wait", "idle", "done", "fail", "cancel", "gone"}]
    <3>1. CASE Goto(a, "done")
      BY <3>1 DEF Goto
    <3>2. CASE Continue(a)
      BY <3>2 DEF Continue, Goto
    <3> QED BY <1>19, <3>1, <3>2 DEF DoneParent
  <2>2. arg' \in [Actors -> Dirs \cup Files \cup {None}]
    <3>1. CASE arg[a] # Root /\ With(a, Parent[arg[a]])
      <4>1. Parent[arg[a]] \in Dirs
        BY <1>19, <3>1, CopyAssumption DEF DoneParent
      <4> QED BY <3>1, <4>1 DEF With
    <3>2. CASE Continue(a)
      BY <3>2 DEF Continue, With
    <3> QED BY <1>19, <3>1, <3>2 DEF DoneParent
  <2> QED BY <1>19, <2>1, <2>2 DEF DoneParent, pool, walk, views, asks
<1>20. CASE UNCHANGED vars
  BY <1>20 DEF vars, pool, walk, local, views, asks
<1> QED
  BY StepKinds, <1>1, <1>2, <1>3, <1>4, <1>5, <1>6, <1>7, <1>8, <1>9, <1>10,
     <1>11, <1>12, <1>13, <1>14, <1>15, <1>16, <1>17, <1>18, <1>19, <1>20

LEMMA WalkHolds ==
  ASSUME TypeOK, Places, Walk, [Next]_vars
  PROVE  Walk'
<1> USE DEF Walk
<1>1. CASE ParentCancel
  BY <1>1 DEF ParentCancel, pool, walk, local
<1>2. ASSUME NEW d \in Dirs, OpenDir(d) PROVE Walk'
  <2>1. /\ stack' \in Seq(Dirs) /\ IsInjective(stack') /\ Range(stack') = Range(stack) \cup {d}
    <3>1. stack \in Seq(Dirs) /\ d \notin Range(stack) /\ stack' = Append(stack, d)
      BY <1>2 DEF OpenDir, TypeOK
    <3> QED BY <3>1, PushedOn
  <2>2. walked' = walked \cup {d}
    BY <1>2 DEF OpenDir
  <2>3. at'[Walker] = "walk"
    BY <1>2 DEF OpenDir, local
  <2> QED BY <2>1, <2>2, <2>3
<1>3. ASSUME NEW f \in Files, GoFile(f) PROVE Walk'
  <2>1. walked' = walked \cup {f} /\ stack' = stack /\ f \notin Dirs
    BY <1>3, CopyAssumption DEF GoFile
  <2>2. ~ stopped => at'[Walker] \in {"walk", "send"}
    BY <1>3, WhoIsWho DEF GoFile, Goto, TypeOK
  <2>3. stopped' = stopped
    BY <1>3 DEF GoFile, pool
  <2> QED BY <2>1, <2>2, <2>3
<1>4. ASSUME NEW w \in Workers, Send(w) PROVE Walk'
  <2>1. at'[Walker] = "walk" /\ UNCHANGED walk
    BY <1>4, WhoIsWho DEF Send, TypeOK
  <2> QED BY <2>1 DEF walk
<1>5. CASE SendRefused
  <2>1. UNCHANGED walk /\ stopped /\ stopped' = stopped
    BY <1>5 DEF SendRefused, pool
  <2> QED BY <2>1 DEF walk
<1>6. CASE CloseDir
  <2>1. /\ IsInjective(stack') /\ Last(stack) \in Dirs
        /\ Range(stack') = Range(stack) \ {Last(stack)}
    BY <1>6, TakenOff DEF CloseDir, TypeOK
  <2>2. {f \in Files : FileDir[f] = Last(stack)} \cup Subdirs(Last(stack)) \subseteq walked
    BY <1>6 DEF CloseDir
  <2>3. walked' = walked /\ at'[Walker] = "done"
    BY <1>6, WhoIsWho DEF CloseDir, Goto, TypeOK
  <2> HIDE DEF Walk
  <2>4. \A e \in walked \cap Dirs : e \notin Range(stack') =>
          {f \in Files : FileDir[f] = e} \cup Subdirs(e) \subseteq walked
    <3> SUFFICES ASSUME NEW e \in walked \cap Dirs, e \notin Range(stack')
                 PROVE {f \in Files : FileDir[f] = e} \cup Subdirs(e) \subseteq walked
      OBVIOUS
    <3>1. CASE e = Last(stack)
      BY <2>2, <3>1
    <3>2. CASE e \notin Range(stack)
      BY <3>2 DEF Walk
    <3> QED BY <2>1, <3>1, <3>2
  <2>5. Range(stack') \subseteq walked
    BY <2>1 DEF Walk
  <2> QED BY <2>1, <2>3, <2>4, <2>5 DEF Walk
<1>7. CASE WalkEnd
  <2>1. UNCHANGED walk /\ stack = <<>> /\ Root \in walked
    BY <1>7 DEF WalkEnd
  <2> QED BY <2>1 DEF walk
<1>8. CASE WaitReturns
  <2>1. UNCHANGED walk /\ stopped'
    BY <1>8 DEF WaitReturns
  <2> QED BY <2>1 DEF walk
<1>9. ASSUME NEW w \in Workers, TakeJob(w) PROVE Walk'
  <2>1. w # Walker /\ at'[Walker] = at[Walker] /\ UNCHANGED walk /\ (~ stopped' => ~ stopped)
    BY <1>9, WhoIsWho DEF TakeJob, TypeOK, Goto, pool, walk
  <2> QED BY <2>1 DEF walk
<1>10. ASSUME NEW w \in Workers, JobMoves(w) PROVE Walk'
  <2>1. w # Walker /\ at'[Walker] = at[Walker] /\ UNCHANGED walk /\ (~ stopped' => ~ stopped)
    BY <1>10, WhoIsWho DEF JobMoves, TypeOK, Goto, pool, walk
  <2> QED BY <2>1 DEF walk
<1>11. ASSUME NEW w \in Workers, JobEnds(w) PROVE Walk'
  <2>1. w # Walker /\ at'[Walker] = at[Walker] /\ UNCHANGED walk /\ (~ stopped' => ~ stopped)
    BY <1>11, WhoIsWho DEF JobEnds, TypeOK, Goto, pool, walk
  <2> QED BY <2>1 DEF walk
<1>12. ASSUME NEW w \in Workers, Release(w) PROVE Walk'
  <2>1. w # Walker /\ at'[Walker] = at[Walker] /\ UNCHANGED walk /\ (~ stopped' => ~ stopped)
    BY <1>12, WhoIsWho DEF Release, TypeOK, Goto, pool, walk
  <2> QED BY <2>1 DEF walk
<1>13. ASSUME NEW w \in Workers, FailRecord(w) PROVE Walk'
  <2>1. w # Walker /\ at'[Walker] = at[Walker] /\ UNCHANGED walk /\ (~ stopped' => ~ stopped)
    BY <1>13, WhoIsWho DEF FailRecord, TypeOK, Goto, pool, walk
  <2> QED BY <2>1 DEF walk
<1>14. ASSUME NEW w \in Workers, FailCancel(w) PROVE Walk'
  <2>1. w # Walker /\ at'[Walker] = at[Walker] /\ UNCHANGED walk /\ (~ stopped' => ~ stopped)
    BY <1>14, WhoIsWho DEF FailCancel, TypeOK, Goto, pool, walk
  <2> QED BY <2>1 DEF walk
<1>15. ASSUME NEW w \in Workers, WorkerLeaves(w) PROVE Walk'
  <2>1. w # Walker /\ at'[Walker] = at[Walker] /\ UNCHANGED walk /\ (~ stopped' => ~ stopped)
    BY <1>15, WhoIsWho DEF WorkerLeaves, TypeOK, Goto, pool, walk
  <2> QED BY <2>1 DEF walk
<1>16. ASSUME NEW a \in Actors, DoneCount(a) PROVE Walk'
  <2>1. UNCHANGED walk /\ stopped' = stopped
    BY <1>16 DEF DoneCount, pool
  <2>2. at'[Walker] \in {"wait", "gone"} => at[Walker] = at'[Walker]
    BY <1>16, WhoIsWho DEF DoneCount, TypeOK, Goto, Continue
  <2> QED BY <2>1, <2>2 DEF walk
<1>17. ASSUME NEW a \in Actors, DoneLast(a) PROVE Walk'
  <2>1. UNCHANGED walk /\ stopped' = stopped
    BY <1>17 DEF DoneLast, pool
  <2>2. at'[Walker] \in {"wait", "gone"} => at[Walker] = at'[Walker]
    BY <1>17, WhoIsWho DEF DoneLast, TypeOK, Goto, Continue
  <2> QED BY <2>1, <2>2 DEF walk
<1>18. ASSUME NEW a \in Actors, DoneFinish(a) PROVE Walk'
  <2>1. UNCHANGED walk /\ stopped' = stopped
    BY <1>18 DEF DoneFinish, pool
  <2>2. at'[Walker] \in {"wait", "gone"} => at[Walker] = at'[Walker]
    BY <1>18, WhoIsWho DEF DoneFinish, TypeOK, Goto, Continue
  <2> QED BY <2>1, <2>2 DEF walk
<1>19. ASSUME NEW a \in Actors, DoneParent(a) PROVE Walk'
  <2>1. UNCHANGED walk /\ stopped' = stopped
    BY <1>19 DEF DoneParent, pool
  <2>2. at'[Walker] \in {"wait", "gone"} => at[Walker] = at'[Walker]
    BY <1>19, WhoIsWho DEF DoneParent, TypeOK, Goto, Continue
  <2> QED BY <2>1, <2>2 DEF walk
<1>20. CASE UNCHANGED vars
  BY <1>20 DEF vars, pool, walk, local
<1> QED
  BY StepKinds, <1>1, <1>2, <1>3, <1>4, <1>5, <1>6, <1>7, <1>8, <1>9, <1>10,
     <1>11, <1>12, <1>13, <1>14, <1>15, <1>16, <1>17, <1>18, <1>19, <1>20

LEMMA JobsKept ==
  ASSUME OneJob, walked' \cap Files = walked \cap Files, ended' = ended,
         ~ stopped' => ~ stopped,
         \A a \in Actors, f \in Files : HasFile(a, f)' <=> HasFile(a, f),
         \A a \in Actors, f \in Files : HasFile(a, f) => (at'[a] = "release" <=> at[a] = "release")
  PROVE  OneJob'
<1>1. \A f \in Files \ walked' : ended'[f] = None
  BY DEF OneJob
<1>2. ASSUME NEW a \in Actors, NEW f \in Files, HasFile(a, f)'
      PROVE  /\ f \in walked' /\ (at'[a] # "release" <=> ended'[f] = None)
             /\ \A b \in Actors : HasFile(b, f)' => b = a
  BY <1>2 DEF OneJob
<1>3. ASSUME ~ stopped', NEW f \in walked' \cap Files
      PROVE  ended'[f] # None \/ \E a \in Actors : HasFile(a, f)'
  BY <1>3 DEF OneJob
<1> QED BY <1>1, <1>2, <1>3 DEF OneJob

LEMMA OneJobHolds ==
  ASSUME TypeOK, Places, OneJob, [Next]_vars
  PROVE  OneJob'
<1>1. CASE ParentCancel
  <2>1. ended' = ended /\ (~ stopped' => ~ stopped) /\ walked' \cap Files = walked \cap Files
    BY <1>1, CopyAssumption DEF ParentCancel, pool, walk
  <2>2. \A a1 \in Actors, f1 \in Files : HasFile(a1, f1)' <=> HasFile(a1, f1)
    BY <1>1, WhoIsWho DEF ParentCancel, TypeOK, Places, HasFile, JobPlaces, FinishPlaces, local
  <2>3. \A a1 \in Actors, f1 \in Files : HasFile(a1, f1) => (at'[a1] = "release" <=> at[a1] = "release")
    BY <1>1, WhoIsWho DEF ParentCancel, TypeOK, Places, HasFile, JobPlaces, FinishPlaces, local
  <2> QED BY <2>1, <2>2, <2>3, JobsKept
<1>2. ASSUME NEW d \in Dirs, OpenDir(d) PROVE OneJob'
  <2>1. ended' = ended /\ (~ stopped' => ~ stopped) /\ walked' \cap Files = walked \cap Files
    BY <1>2, CopyAssumption DEF OpenDir, pool, walk
  <2>2. \A a1 \in Actors, f1 \in Files : HasFile(a1, f1)' <=> HasFile(a1, f1)
    BY <1>2, WhoIsWho DEF OpenDir, TypeOK, Places, HasFile, JobPlaces, FinishPlaces, local
  <2>3. \A a1 \in Actors, f1 \in Files : HasFile(a1, f1) => (at'[a1] = "release" <=> at[a1] = "release")
    BY <1>2, WhoIsWho DEF OpenDir, TypeOK, Places, HasFile, JobPlaces, FinishPlaces, local
  <2> QED BY <2>1, <2>2, <2>3, JobsKept
<1>3. ASSUME NEW f \in Files, GoFile(f) PROVE OneJob'
  <2>1. CASE stopped
    <3>1. /\ stopped' /\ ended' = ended /\ walked' = walked \cup {f} /\ arg' = arg
          /\ \A a \in Actors : at'[a] = at[a] \/ (at[a] = "walk" /\ at'[a] = "wait")
      BY <1>3, <2>1, WhoIsWho DEF GoFile, Goto, TypeOK, pool
    <3>2. \A a \in Actors, g \in Files : HasFile(a, g)' <=> HasFile(a, g)
      BY <3>1 DEF HasFile, JobPlaces
    <3>3. \A a \in Actors, g \in Files : HasFile(a, g) => at'[a] = at[a]
      BY <3>1 DEF HasFile, JobPlaces
    <3>4. \A g \in Files \ walked' : ended'[g] = None
      BY <3>1 DEF OneJob
    <3>5. \A a \in Actors, g \in Files : HasFile(a, g)' =>
            /\ g \in walked' /\ (at'[a] # "release" <=> ended'[g] = None)
            /\ \A b \in Actors : HasFile(b, g)' => b = a
      BY <3>1, <3>2, <3>3 DEF OneJob
    <3> QED BY <3>1, <3>4, <3>5 DEF OneJob
  <2>2. CASE ~ stopped
    <3>1. /\ stopped' = stopped /\ ended' = ended /\ walked' = walked \cup {f} /\ f \notin walked
          /\ at'[Walker] = "send" /\ arg'[Walker] = f /\ at[Walker] = "walk"
          /\ \A a \in Actors \ {Walker} : at'[a] = at[a] /\ arg'[a] = arg[a]
      BY <1>3, <2>2, WhoIsWho DEF GoFile, Goto, With, TypeOK, pool
    <3>2. \A a \in Actors, g \in Files : HasFile(a, g)' <=> HasFile(a, g) \/ (a = Walker /\ g = f)
      BY <3>1 DEF HasFile, JobPlaces
    <3>3. ended[f] = None /\ \A a \in Actors : ~ HasFile(a, f)
      BY <3>1 DEF OneJob
    <3>4. \A g \in Files \ walked' : ended'[g] = None
      BY <3>1 DEF OneJob
    <3>5. ASSUME NEW a \in Actors, NEW g \in Files, HasFile(a, g)'
          PROVE  /\ g \in walked' /\ (at'[a] # "release" <=> ended'[g] = None)
                 /\ \A b \in Actors : HasFile(b, g)' => b = a
      <4>1. CASE g = f
        BY <3>1, <3>2, <3>3, <3>5, <4>1
      <4>2. CASE g # f
        <5>1. HasFile(a, g) /\ a # Walker
          BY <3>1, <3>2, <3>5, <4>2 DEF HasFile, JobPlaces
        <5> QED BY <3>1, <3>2, <4>2, <5>1 DEF OneJob
      <4> QED BY <4>1, <4>2
    <3>6. \A g \in walked' \cap Files : ended'[g] # None \/ \E a \in Actors : HasFile(a, g)'
      BY <2>2, <3>1, <3>2, WhoIsWho DEF OneJob
    <3> QED BY <3>4, <3>5, <3>6 DEF OneJob
  <2> QED BY <2>1, <2>2
<1>4. ASSUME NEW w \in Workers, Send(w) PROVE OneJob'
  <2>1. /\ UNCHANGED <<stopped, ended, walked>> /\ w # Walker
        /\ at[Walker] = "send" /\ at[w] = "idle" /\ at'[Walker] = "walk" /\ at'[w] = "got"
        /\ arg'[w] = arg[Walker] /\ \A a \in Actors \ {Walker, w} : at'[a] = at[a] /\ arg'[a] = arg[a]
    BY <1>4, WhoIsWho DEF Send, TypeOK, pool, walk
  <2>2. \A g \in Files : HasFile(w, g)' <=> HasFile(Walker, g)
    BY <2>1 DEF HasFile, JobPlaces
  <2>3. \A g \in Files : ~ HasFile(w, g) /\ ~ HasFile(Walker, g)'
    BY <2>1 DEF HasFile, JobPlaces
  <2>4. \A a \in Actors \ {Walker, w}, g \in Files : HasFile(a, g)' <=> HasFile(a, g)
    BY <2>1 DEF HasFile
  <2>5. ASSUME NEW a \in Actors, NEW g \in Files, HasFile(a, g)'
        PROVE  /\ g \in walked' /\ (at'[a] # "release" <=> ended'[g] = None)
               /\ \A b \in Actors : HasFile(b, g)' => b = a
    <3>1. CASE a = w
      <4>1. HasFile(Walker, g)
        BY <2>2, <2>5, <3>1
      <4>2. \A b \in Actors : HasFile(b, g)' => b = w
        BY <2>3, <2>4, <4>1, WhoIsWho DEF OneJob
      <4> QED BY <2>1, <3>1, <4>1, <4>2, WhoIsWho DEF OneJob
    <3>2. CASE a # w
      <4>1. a # Walker /\ HasFile(a, g)
        BY <2>3, <2>4, <2>5, <3>2
      <4>2. ~ HasFile(Walker, g)
        BY <4>1, WhoIsWho DEF OneJob
      <4> QED BY <2>1, <2>2, <2>3, <2>4, <3>2, <4>1, <4>2 DEF OneJob
    <3> QED BY <3>1, <3>2
  <2>6. \A g \in Files \ walked' : ended'[g] = None
    BY <2>1 DEF OneJob
  <2>7. ASSUME ~ stopped', NEW g \in walked' \cap Files
        PROVE  ended'[g] # None \/ \E a \in Actors : HasFile(a, g)'
    <3>1. ended[g] # None \/ \E a \in Actors : HasFile(a, g)
      BY <2>1, <2>7 DEF OneJob
    <3> QED BY <2>1, <2>2, <2>3, <2>4, <3>1, WhoIsWho
  <2> QED BY <2>5, <2>6, <2>7 DEF OneJob
<1>5. CASE SendRefused
  <2>1. /\ UNCHANGED <<ended, walked>> /\ stopped' /\ at'[Walker] \in {"wait", "walk"}
        /\ \A a \in Actors \ {Walker} : at'[a] = at[a] /\ arg'[a] = arg[a]
    BY <1>5, WhoIsWho DEF SendRefused, Goto, With, TypeOK, pool, walk
  <2>2. \A a \in Actors, g \in Files : HasFile(a, g)' => a # Walker /\ HasFile(a, g)
    BY <2>1 DEF HasFile, JobPlaces
  <2> QED BY <2>1, <2>2 DEF OneJob
<1>6. CASE CloseDir
  <2>1. ended' = ended /\ (~ stopped' => ~ stopped) /\ walked' \cap Files = walked \cap Files
    BY <1>6, CopyAssumption DEF CloseDir, pool, walk
  <2>2. \A a1 \in Actors, f1 \in Files : HasFile(a1, f1)' <=> HasFile(a1, f1)
    BY <1>6, WhoIsWho DEF CloseDir, TypeOK, Places, HasFile, JobPlaces, FinishPlaces, local, Goto, With
  <2>3. \A a1 \in Actors, f1 \in Files : HasFile(a1, f1) => (at'[a1] = "release" <=> at[a1] = "release")
    BY <1>6, WhoIsWho DEF CloseDir, TypeOK, Places, HasFile, JobPlaces, FinishPlaces, local, Goto, With
  <2> QED BY <2>1, <2>2, <2>3, JobsKept
<1>7. CASE WalkEnd
  <2>1. ended' = ended /\ (~ stopped' => ~ stopped) /\ walked' \cap Files = walked \cap Files
    BY <1>7, CopyAssumption DEF WalkEnd, pool, walk
  <2>2. \A a1 \in Actors, f1 \in Files : HasFile(a1, f1)' <=> HasFile(a1, f1)
    BY <1>7, WhoIsWho DEF WalkEnd, TypeOK, Places, HasFile, JobPlaces, FinishPlaces, local, Goto
  <2>3. \A a1 \in Actors, f1 \in Files : HasFile(a1, f1) => (at'[a1] = "release" <=> at[a1] = "release")
    BY <1>7, WhoIsWho DEF WalkEnd, TypeOK, Places, HasFile, JobPlaces, FinishPlaces, local, Goto
  <2> QED BY <2>1, <2>2, <2>3, JobsKept
<1>8. CASE WaitReturns
  <2>1. ended' = ended /\ (~ stopped' => ~ stopped) /\ walked' \cap Files = walked \cap Files
    BY <1>8, CopyAssumption DEF WaitReturns, pool, walk
  <2>2. \A a1 \in Actors, f1 \in Files : HasFile(a1, f1)' <=> HasFile(a1, f1)
    BY <1>8, WhoIsWho DEF WaitReturns, TypeOK, Places, HasFile, JobPlaces, FinishPlaces, local, Goto
  <2>3. \A a1 \in Actors, f1 \in Files : HasFile(a1, f1) => (at'[a1] = "release" <=> at[a1] = "release")
    BY <1>8, WhoIsWho DEF WaitReturns, TypeOK, Places, HasFile, JobPlaces, FinishPlaces, local, Goto
  <2> QED BY <2>1, <2>2, <2>3, JobsKept
<1>9. ASSUME NEW w \in Workers, TakeJob(w) PROVE OneJob'
  <2>1. CASE stopped
    <3>1. /\ UNCHANGED <<ended, walked>> /\ stopped' /\ at'[w] = "idle"
          /\ \A a \in Actors \ {w} : at'[a] = at[a] /\ arg'[a] = arg[a]
      BY <1>9, <2>1, WhoIsWho DEF TakeJob, Goto, With, TypeOK, pool, walk
    <3>2. \A a \in Actors, g \in Files : HasFile(a, g)' => a # w /\ HasFile(a, g)
      BY <3>1 DEF HasFile, JobPlaces
    <3> QED BY <3>1, <3>2 DEF OneJob
  <2>2. CASE ~ stopped
    <3>1. /\ UNCHANGED <<ended, walked, stopped, arg>> /\ at[w] = "got" /\ at'[w] \in {"ask", "copy"}
          /\ \A a \in Actors \ {w} : at'[a] = at[a]
      BY <1>9, <2>2, WhoIsWho DEF TakeJob, Goto, With, TypeOK, pool, walk
    <3>2. \A a \in Actors, g \in Files : HasFile(a, g)' <=> HasFile(a, g)
      BY <3>1 DEF HasFile, JobPlaces
    <3>3. \A a \in Actors : at'[a] = "release" <=> at[a] = "release"
      BY <3>1
    <3> QED BY <3>1, <3>2, <3>3, JobsKept
  <2> QED BY <2>1, <2>2
<1>10. ASSUME NEW w \in Workers, JobMoves(w) PROVE OneJob'
  <2>1. ended' = ended /\ (~ stopped' => ~ stopped) /\ walked' \cap Files = walked \cap Files
    BY <1>10, CopyAssumption DEF JobMoves, pool, walk
  <2>2. \A a1 \in Actors, f1 \in Files : HasFile(a1, f1)' <=> HasFile(a1, f1)
    BY <1>10, WhoIsWho DEF JobMoves, TypeOK, Places, HasFile, JobPlaces, FinishPlaces, local, Goto
  <2>3. \A a1 \in Actors, f1 \in Files : HasFile(a1, f1) => (at'[a1] = "release" <=> at[a1] = "release")
    BY <1>10, WhoIsWho DEF JobMoves, TypeOK, Places, HasFile, JobPlaces, FinishPlaces, local, Goto
  <2> QED BY <2>1, <2>2, <2>3, JobsKept
<1>11. ASSUME NEW w \in Workers, JobEnds(w) PROVE OneJob'
  <2> DEFINE f == arg[w]
  <2>0. f \in Files /\ f # None
    BY <1>11, WhoIsWho, CopyAssumption DEF JobEnds, Places, JobPlaces
  <2>1. /\ UNCHANGED <<walked, stopped, arg>> /\ at[w] \in JobPlaces /\ at'[w] = "release"
        /\ \A a \in Actors \ {w} : at'[a] = at[a]
    BY <1>11, WhoIsWho DEF JobEnds, Goto, TypeOK, pool, walk, JobPlaces
  <2>2. ended'[f] # None /\ \A g \in Files \ {f} : ended'[g] = ended[g]
    BY <1>11, <2>0 DEF JobEnds, TypeOK, None
  <2>3. \A a \in Actors, g \in Files : HasFile(a, g)' <=> HasFile(a, g)
    BY <2>1 DEF HasFile, JobPlaces
  <2>4. HasFile(w, f)
    BY <2>1 DEF HasFile
  <2> HIDE DEF f
  <2>5. ASSUME NEW a \in Actors, NEW g \in Files, HasFile(a, g)'
        PROVE  /\ g \in walked' /\ (at'[a] # "release" <=> ended'[g] = None)
               /\ \A b \in Actors : HasFile(b, g)' => b = a
    <3>1. HasFile(a, g) /\ g \in walked' /\ \A b \in Actors : HasFile(b, g)' => b = a
      BY <2>1, <2>3, <2>5 DEF OneJob
    <3>2. CASE a = w
      BY <2>1, <2>2, <2>4, <3>1, <3>2, WhoIsWho DEF HasFile
    <3>3. CASE a # w
      <4>1. g # f
        BY <2>4, <3>1, <3>3, WhoIsWho DEF OneJob
      <4> QED BY <2>1, <2>2, <3>1, <3>3, <4>1 DEF OneJob
    <3> QED BY <3>1, <3>2, <3>3
  <2>6. \A g \in Files \ walked' : ended'[g] = None
    BY <2>0, <2>1, <2>2, <2>4, WhoIsWho DEF OneJob
  <2>7. ASSUME ~ stopped', NEW g \in walked' \cap Files
        PROVE  ended'[g] # None \/ \E a \in Actors : HasFile(a, g)'
    BY <2>1, <2>2, <2>3, <2>7 DEF OneJob
  <2> QED BY <2>5, <2>6, <2>7 DEF OneJob
<1>12. ASSUME NEW w \in Workers, Release(w) PROVE OneJob'
  <2>1. /\ UNCHANGED <<ended, walked, stopped>> /\ at[w] = "release" /\ at'[w] = "done"
        /\ \A a \in Actors \ {w} : at'[a] = at[a] /\ arg'[a] = arg[a]
    BY <1>12, WhoIsWho DEF Release, Goto, With, TypeOK, pool, walk
  <2>2. \A a \in Actors, g \in Files : HasFile(a, g)' <=> a # w /\ HasFile(a, g)
    BY <2>1 DEF HasFile, JobPlaces
  <2>3. \A g \in Files : HasFile(w, g) => ended[g] # None
    BY <2>1, WhoIsWho DEF OneJob
  <2>4. \A a \in Actors, g \in Files : HasFile(a, g)' =>
          /\ g \in walked' /\ (at'[a] # "release" <=> ended'[g] = None)
          /\ \A b \in Actors : HasFile(b, g)' => b = a
    BY <2>1, <2>2 DEF OneJob
  <2>5. \A g \in Files \ walked' : ended'[g] = None
    BY <2>1 DEF OneJob
  <2>6. ASSUME ~ stopped', NEW g \in walked' \cap Files
        PROVE  ended'[g] # None \/ \E a \in Actors : HasFile(a, g)'
    BY <2>1, <2>2, <2>3, <2>6 DEF OneJob
  <2> QED BY <2>4, <2>5, <2>6 DEF OneJob
<1>13. ASSUME NEW w \in Workers, FailRecord(w) PROVE OneJob'
  <2>1. ended' = ended /\ (~ stopped' => ~ stopped) /\ walked' \cap Files = walked \cap Files
    BY <1>13, CopyAssumption DEF FailRecord, pool, walk
  <2>2. \A a1 \in Actors, f1 \in Files : HasFile(a1, f1)' <=> HasFile(a1, f1)
    BY <1>13, WhoIsWho DEF FailRecord, TypeOK, Places, HasFile, JobPlaces, FinishPlaces, local, Goto
  <2>3. \A a1 \in Actors, f1 \in Files : HasFile(a1, f1) => (at'[a1] = "release" <=> at[a1] = "release")
    BY <1>13, WhoIsWho DEF FailRecord, TypeOK, Places, HasFile, JobPlaces, FinishPlaces, local, Goto
  <2> QED BY <2>1, <2>2, <2>3, JobsKept
<1>14. ASSUME NEW w \in Workers, FailCancel(w) PROVE OneJob'
  <2>1. ended' = ended /\ (~ stopped' => ~ stopped) /\ walked' \cap Files = walked \cap Files
    BY <1>14, CopyAssumption DEF FailCancel, pool, walk
  <2>2. \A a1 \in Actors, f1 \in Files : HasFile(a1, f1)' <=> HasFile(a1, f1)
    BY <1>14, WhoIsWho DEF FailCancel, TypeOK, Places, HasFile, JobPlaces, FinishPlaces, local, Goto
  <2>3. \A a1 \in Actors, f1 \in Files : HasFile(a1, f1) => (at'[a1] = "release" <=> at[a1] = "release")
    BY <1>14, WhoIsWho DEF FailCancel, TypeOK, Places, HasFile, JobPlaces, FinishPlaces, local, Goto
  <2> QED BY <2>1, <2>2, <2>3, JobsKept
<1>15. ASSUME NEW w \in Workers, WorkerLeaves(w) PROVE OneJob'
  <2>1. ended' = ended /\ (~ stopped' => ~ stopped) /\ walked' \cap Files = walked \cap Files
    BY <1>15, CopyAssumption DEF WorkerLeaves, pool, walk
  <2>2. \A a1 \in Actors, f1 \in Files : HasFile(a1, f1)' <=> HasFile(a1, f1)
    BY <1>15, WhoIsWho DEF WorkerLeaves, TypeOK, Places, HasFile, JobPlaces, FinishPlaces, local, Goto
  <2>3. \A a1 \in Actors, f1 \in Files : HasFile(a1, f1) => (at'[a1] = "release" <=> at[a1] = "release")
    BY <1>15, WhoIsWho DEF WorkerLeaves, TypeOK, Places, HasFile, JobPlaces, FinishPlaces, local, Goto
  <2> QED BY <2>1, <2>2, <2>3, JobsKept
<1>16. ASSUME NEW a \in Actors, DoneCount(a) PROVE OneJob'
  <2>1. ended' = ended /\ (~ stopped' => ~ stopped) /\ walked' \cap Files = walked \cap Files
    BY <1>16, CopyAssumption DEF DoneCount, pool, walk
  <2>2. \A a1 \in Actors, f1 \in Files : HasFile(a1, f1)' <=> HasFile(a1, f1)
    BY <1>16, WhoIsWho DEF DoneCount, TypeOK, Places, HasFile, JobPlaces, FinishPlaces, local, Goto, With, Continue
  <2>3. \A a1 \in Actors, f1 \in Files : HasFile(a1, f1) => (at'[a1] = "release" <=> at[a1] = "release")
    BY <1>16, WhoIsWho DEF DoneCount, TypeOK, Places, HasFile, JobPlaces, FinishPlaces, local, Goto, With, Continue
  <2> QED BY <2>1, <2>2, <2>3, JobsKept
<1>17. ASSUME NEW a \in Actors, DoneLast(a) PROVE OneJob'
  <2>1. ended' = ended /\ (~ stopped' => ~ stopped) /\ walked' \cap Files = walked \cap Files
    BY <1>17, CopyAssumption DEF DoneLast, pool, walk
  <2>2. \A a1 \in Actors, f1 \in Files : HasFile(a1, f1)' <=> HasFile(a1, f1)
    BY <1>17, WhoIsWho DEF DoneLast, TypeOK, Places, HasFile, JobPlaces, FinishPlaces, local, Goto
  <2>3. \A a1 \in Actors, f1 \in Files : HasFile(a1, f1) => (at'[a1] = "release" <=> at[a1] = "release")
    BY <1>17, WhoIsWho DEF DoneLast, TypeOK, Places, HasFile, JobPlaces, FinishPlaces, local, Goto
  <2> QED BY <2>1, <2>2, <2>3, JobsKept
<1>18. ASSUME NEW a \in Actors, DoneFinish(a) PROVE OneJob'
  <2>1. ended' = ended /\ (~ stopped' => ~ stopped) /\ walked' \cap Files = walked \cap Files
    BY <1>18, CopyAssumption DEF DoneFinish, pool, walk
  <2>2. \A a1 \in Actors, f1 \in Files : HasFile(a1, f1)' <=> HasFile(a1, f1)
    BY <1>18, WhoIsWho DEF DoneFinish, TypeOK, Places, HasFile, JobPlaces, FinishPlaces, local, Goto
  <2>3. \A a1 \in Actors, f1 \in Files : HasFile(a1, f1) => (at'[a1] = "release" <=> at[a1] = "release")
    BY <1>18, WhoIsWho DEF DoneFinish, TypeOK, Places, HasFile, JobPlaces, FinishPlaces, local, Goto
  <2> QED BY <2>1, <2>2, <2>3, JobsKept
<1>19. ASSUME NEW a \in Actors, DoneParent(a) PROVE OneJob'
  <2>1. ended' = ended /\ (~ stopped' => ~ stopped) /\ walked' \cap Files = walked \cap Files
    BY <1>19, CopyAssumption DEF DoneParent, pool, walk
  <2>2. \A a1 \in Actors, f1 \in Files : HasFile(a1, f1)' <=> HasFile(a1, f1)
    BY <1>19, WhoIsWho DEF DoneParent, TypeOK, Places, HasFile, JobPlaces, FinishPlaces, local, Goto, With, Continue
  <2>3. \A a1 \in Actors, f1 \in Files : HasFile(a1, f1) => (at'[a1] = "release" <=> at[a1] = "release")
    BY <1>19, WhoIsWho DEF DoneParent, TypeOK, Places, HasFile, JobPlaces, FinishPlaces, local, Goto, With, Continue
  <2> QED BY <2>1, <2>2, <2>3, JobsKept
<1>20. CASE UNCHANGED vars
  <2>1. UNCHANGED <<ended, stopped, walked, at, arg>>
    BY <1>20 DEF vars, pool, walk, local
  <2>2. \A a1 \in Actors, f1 \in Files : HasFile(a1, f1)' <=> HasFile(a1, f1)
    BY <2>1 DEF HasFile
  <2> QED BY <2>1, <2>2, JobsKept
<1> QED
  BY StepKinds, <1>1, <1>2, <1>3, <1>4, <1>5, <1>6, <1>7, <1>8, <1>9, <1>10,
     <1>11, <1>12, <1>13, <1>14, <1>15, <1>16, <1>17, <1>18, <1>19, <1>20

\* How a count follows what it counts: kept, one more, one less, one for another,
\* or only fewer once the pool has stopped.
LEMMA CountKept ==
  ASSUME TypeOK, Counts, NEW d \in Dirs, ~ stopped' => ~ stopped,
         pending'[d] = pending[d], Holding(d)' = Holding(d)
  PROVE  Counted(d)'
  BY HeldCounts DEF Counted, Counts

LEMMA CountPlus ==
  ASSUME TypeOK, Counts, NEW d \in Dirs, ~ stopped' => ~ stopped, NEW x, x \notin Holding(d),
         pending'[d] = pending[d] + 1, Holding(d)' = Holding(d) \cup {x}
  PROVE  Counted(d)'
<1>1. Cardinality(Holding(d) \cup {x}) = Cardinality(Holding(d)) + 1
  BY HeldCounts, FS_AddElement
<1>2. Cardinality(Holding(d)) <= pending[d] /\ (~ stopped => pending[d] = Cardinality(Holding(d)))
  BY DEF Counts, Counted
<1>3. Cardinality(Holding(d)) \in Nat /\ pending[d] \in Nat
  BY HeldCounts DEF TypeOK
<1>4. Cardinality(Holding(d)') = Cardinality(Holding(d)) + 1
  BY <1>1
<1>5. Cardinality(Holding(d)') <= pending'[d]
  BY <1>2, <1>3, <1>4
<1>6. ~ stopped' => pending'[d] = Cardinality(Holding(d)')
  BY <1>2, <1>3, <1>4
<1> QED BY <1>5, <1>6 DEF Counted

LEMMA CountMinus ==
  ASSUME TypeOK, Counts, NEW d \in Dirs, ~ stopped' => ~ stopped, NEW x \in Holding(d),
         pending'[d] = pending[d] - 1, Holding(d)' = Holding(d) \ {x}
  PROVE  Counted(d)'
<1>1. Cardinality(Holding(d) \ {x}) = Cardinality(Holding(d)) - 1
  BY HeldCounts, FS_RemoveElement
<1>2. Cardinality(Holding(d)) <= pending[d] /\ (~ stopped => pending[d] = Cardinality(Holding(d)))
  BY DEF Counts, Counted
<1>3. Cardinality(Holding(d)) \in Nat /\ pending[d] \in Nat
  BY HeldCounts DEF TypeOK
<1>4. Cardinality(Holding(d)') = Cardinality(Holding(d)) - 1
  BY <1>1
<1>5. Cardinality(Holding(d)') <= pending'[d]
  BY <1>2, <1>3, <1>4
<1>6. ~ stopped' => pending'[d] = Cardinality(Holding(d)')
  BY <1>2, <1>3, <1>4
<1> QED BY <1>5, <1>6 DEF Counted

LEMMA CountSwapped ==
  ASSUME TypeOK, Counts, NEW d \in Dirs, ~ stopped' => ~ stopped,
         NEW x \in Holding(d), NEW y, y \notin Holding(d),
         pending'[d] = pending[d], Holding(d)' = (Holding(d) \ {x}) \cup {y}
  PROVE  Counted(d)'
<1>1. IsFiniteSet(Holding(d) \ {x}) /\ Cardinality(Holding(d) \ {x}) = Cardinality(Holding(d)) - 1
  BY HeldCounts, FS_RemoveElement
<1>2. Cardinality((Holding(d) \ {x}) \cup {y}) = Cardinality(Holding(d) \ {x}) + 1
  BY <1>1, FS_AddElement
<1>3. Cardinality(Holding(d)') = Cardinality(Holding(d))
  BY <1>1, <1>2, HeldCounts
<1> QED BY <1>3 DEF Counts, Counted

LEMMA CountLeft ==
  ASSUME TypeOK, Counts, NEW d \in Dirs, stopped',
         pending'[d] = pending[d], Holding(d)' \subseteq Holding(d)
  PROVE  Counted(d)'
<1>1. Cardinality(Holding(d)') <= Cardinality(Holding(d)) /\ Cardinality(Holding(d)') \in Nat
  BY HeldCounts, FS_Subset, FS_CardinalityType
<1>2. Cardinality(Holding(d)) <= pending[d] /\ pending[d] \in Nat /\ Cardinality(Holding(d)) \in Nat
  BY HeldCounts DEF Counts, Counted, TypeOK
<1>3. Cardinality(Holding(d)') <= pending'[d]
  BY <1>1, <1>2
<1> QED BY <1>3 DEF Counted

\* Most steps change no count and nothing that is counted.
LEMMA HoldingKept ==
  ASSUME \A a \in Actors, d \in Dirs : Holds(a, d)' <=> Holds(a, d),
         \A s \in Dirs : Alive(s)' <=> Alive(s), stack' = stack
  PROVE  \A d \in Dirs : Holding(d)' = Holding(d)
  BY DEF Holding, Subdirs

LEMMA AliveKept ==
  ASSUME \A a \in Actors, d \in Dirs : Finishing(a, d)' <=> Finishing(a, d), pending' = pending
  PROVE  \A s \in Dirs : Alive(s)' <=> Alive(s)
  BY DEF Alive

LEMMA CountsKept ==
  ASSUME TypeOK, Counts, ~ stopped' => ~ stopped, pending' = pending, stack' = stack,
         \A a \in Actors, d \in Dirs : Holds(a, d)' <=> Holds(a, d),
         \A a \in Actors, d \in Dirs : Finishing(a, d)' <=> Finishing(a, d)
  PROVE  Counts'
<1>1. \A d \in Dirs : Holding(d)' = Holding(d)
  BY AliveKept, HoldingKept
<1>2. ASSUME NEW d \in Dirs PROVE Counted(d)'
  BY <1>1, CountKept
<1> QED BY <1>2 DEF Counts

LEMMA CountsHold ==
  ASSUME TypeOK, Places, Walk, Counts, OneLast, [Next]_vars
  PROVE  Counts'
<1>1. CASE ParentCancel
  <2>1. pending' = pending /\ stack' = stack /\ (~ stopped' => ~ stopped)
    BY <1>1 DEF ParentCancel, pool, walk
  <2>2. \A b \in Actors, e \in Dirs : Holds(b, e)' <=> Holds(b, e)
    BY <1>1, WhoIsWho DEF ParentCancel, TypeOK, Places, Holds, JobPlaces, FinishPlaces, local
  <2>3. \A b \in Actors, e \in Dirs : Finishing(b, e)' <=> Finishing(b, e)
    BY <1>1, WhoIsWho DEF ParentCancel, TypeOK, Places, Finishing, JobPlaces, FinishPlaces, local
  <2> QED BY <2>1, <2>2, <2>3, CountsKept
<1>2. ASSUME NEW d \in Dirs, OpenDir(d) PROVE Counts'
  <2>1. /\ UNCHANGED <<stopped, at, arg>> /\ stack' = Append(stack, d)
        /\ d \notin walked /\ d \notin Range(stack)
    BY <1>2 DEF OpenDir, pool, local, Walk
  <2>2. Range(stack') = Range(stack) \cup {d}
    BY <2>1, PushedOn DEF TypeOK, Walk
  <2>3. pending[d] = 0 /\ ~ Alive(d) /\ Holding(d) = {}
    BY <2>1, HeldCounts DEF OneLast, Alive, TypeOK
  <2>4. d # Root => Parent[d] \in Dirs /\ Parent[d] # d /\ pending[Parent[d]] > 0
    <3> SUFFICES ASSUME d # Root PROVE Parent[d] \in Dirs /\ Parent[d] # d /\ pending[Parent[d]] > 0
      OBVIOUS
    <3>1. Parent[d] \in Dirs /\ Parent[d] \in Range(stack)
      BY <1>2, LastOpen DEF OpenDir
    <3>2. Parent[d] \in Holding(Parent[d])
      BY <3>1 DEF Holding
    <3> QED BY <2>1, <3>1, <3>2, HeldCounts
  <2>5. /\ pending'[d] = 1
        /\ d # Root => pending'[Parent[d]] = pending[Parent[d]] + 1
        /\ \A e \in Dirs : e # d /\ (d # Root => e # Parent[d]) => pending'[e] = pending[e]
    BY <1>2, <2>4 DEF OpenDir
  <2>6. Alive(d)' /\ \A s \in Dirs : s # d => (Alive(s)' <=> Alive(s))
    <3>1. Alive(d)'
      BY <2>5 DEF Alive
    <3>2. ASSUME NEW s \in Dirs, s # d PROVE pending'[s] > 0 <=> pending[s] > 0
      BY <2>4, <2>5, <3>2 DEF TypeOK
    <3>3. \A a \in Actors, s \in Dirs : Finishing(a, s)' <=> Finishing(a, s)
      BY <2>1 DEF Finishing
    <3> QED BY <3>1, <3>2, <3>3 DEF Alive
  <2>7. \A a \in Actors, e \in Dirs : Holds(a, e)' <=> Holds(a, e)
    BY <2>1 DEF Holds
  <2>8. ASSUME NEW e \in Dirs PROVE Counted(e)'
    <3>1. CASE e = d
      <4>1. d \notin Subdirs(d)
        BY NotOwnChild
      <4>2. Holding(d)' = Holding(d) \cup {d}
        BY <2>2, <2>6, <2>7, <4>1 DEF Holding, Subdirs
      <4>3. d \notin Holding(d) /\ pending'[d] = pending[d] + 1
        BY <2>3, <2>5
      <4> QED BY <2>1, <3>1, <4>2, <4>3, CountPlus
    <3>2. CASE d # Root /\ e = Parent[d]
      <4>1. d \in Subdirs(e) /\ e # d
        BY <2>4, <3>2 DEF Subdirs
      <4>2. Holding(e)' = Holding(e) \cup {d}
        BY <2>2, <2>6, <2>7, <4>1 DEF Holding, Subdirs
      <4>3. d \notin Holding(e)
        BY <2>3, <4>1, CopyAssumption DEF Holding
      <4> QED BY <2>1, <2>5, <3>2, <4>2, <4>3, CountPlus
    <3>3. CASE e # d /\ (d # Root => e # Parent[d])
      <4>1. d \notin Subdirs(e)
        BY <3>3 DEF Subdirs
      <4>2. Holding(e)' = Holding(e)
        BY <2>2, <2>6, <2>7, <3>3, <4>1 DEF Holding, Subdirs
      <4> QED BY <2>1, <2>5, <3>3, <4>2, CountKept
    <3> QED BY <3>1, <3>2, <3>3
  <2> QED BY <2>8 DEF Counts
<1>3. ASSUME NEW f \in Files, GoFile(f) PROVE Counts'
  <2> DEFINE p == FileDir[f]
  <2>1. p \in Dirs /\ p \in Range(stack) /\ at[Walker] = "walk"
    BY <1>3, LastOpen DEF GoFile
  <2>2. CASE stopped
    <3>1. UNCHANGED <<stopped, stack, arg, pending>> /\ \A a \in Actors : at'[a] = at[a] \/ (a = Walker /\ at'[a] = "wait")
      BY <1>3, <2>2, WhoIsWho DEF GoFile, Goto, TypeOK, pool
    <3>2. \A b \in Actors, e \in Dirs : Holds(b, e)' <=> Holds(b, e)
      BY <2>1, <3>1 DEF Holds, JobPlaces
    <3>3. \A b \in Actors, e \in Dirs : Finishing(b, e)' <=> Finishing(b, e)
      BY <2>1, <3>1 DEF Finishing, FinishPlaces
    <3> QED BY <3>1, <3>2, <3>3, CountsKept
  <2>3. CASE ~ stopped
    <3>1. /\ UNCHANGED <<stopped, stack>> /\ at'[Walker] = "send" /\ arg'[Walker] = f
          /\ \A a \in Actors \ {Walker} : at'[a] = at[a] /\ arg'[a] = arg[a]
      BY <1>3, <2>3, WhoIsWho DEF GoFile, Goto, With, TypeOK, pool
    <3>2. pending'[p] = pending[p] + 1 /\ \A e \in Dirs \ {p} : pending'[e] = pending[e]
      BY <1>3, <2>1, <2>3 DEF GoFile, TypeOK
    <3>3. ~ Holds(Walker, p) /\ \A b \in Actors, e \in Dirs : Holds(b, e)' <=> Holds(b, e) \/ (b = Walker /\ e = p)
      BY <2>1, <3>1 DEF Holds, JobPlaces
    <3>4. \A b \in Actors, e \in Dirs : Finishing(b, e)' <=> Finishing(b, e)
      BY <2>1, <3>1 DEF Finishing, FinishPlaces
    <3>5. pending[p] > 0 /\ pending[p] \in Nat
      <4>1. p \in Holding(p)
        BY <2>1 DEF Holding
      <4> QED BY <2>1, <4>1, HeldCounts DEF TypeOK
    <3>6. \A s \in Dirs : Alive(s)' <=> Alive(s)
      <4>1. pending'[p] > 0
        BY <3>2, <3>5
      <4> QED BY <3>2, <3>4, <3>5, <4>1 DEF Alive
    <3> HIDE DEF p
    <3>7. Walker \in Actors /\ Walker \notin Dirs
      BY WhoIsWho, CopyAssumption
    <3>8. Holding(p)' = Holding(p) \cup {Walker} /\ Walker \notin Holding(p)
      BY <2>1, <3>1, <3>3, <3>6, <3>7 DEF Holding, Subdirs
    <3>9. \A e \in Dirs \ {p} : Holding(e)' = Holding(e)
      BY <3>1, <3>3, <3>6 DEF Holding, Subdirs
    <3>10. Counted(p)'
      BY <2>1, <3>1, <3>2, <3>8, CountPlus
    <3>11. ASSUME NEW e \in Dirs \ {p} PROVE Counted(e)'
      BY <3>1, <3>2, <3>9, CountKept
    <3> QED BY <3>10, <3>11 DEF Counts
  <2> QED BY <2>2, <2>3
<1>4. ASSUME NEW w \in Workers, Send(w) PROVE Counts'
  <2>0. PICK p : p = FileDir[arg[Walker]]
    OBVIOUS
  <2>1. /\ UNCHANGED <<stopped, stack, pending>> /\ w # Walker
        /\ at[Walker] = "send" /\ at[w] = "idle" /\ at'[Walker] = "walk" /\ at'[w] = "got"
        /\ arg'[w] = arg[Walker] /\ \A a \in Actors \ {Walker, w} : at'[a] = at[a] /\ arg'[a] = arg[a]
    BY <2>0, <1>4, WhoIsWho DEF Send, TypeOK, pool, walk
  <2>2. p \in Dirs /\ Walker \in Actors \ Dirs /\ w \in Actors \ Dirs
    BY <2>0, <2>1, SenderIsCounted, WhoIsWho, CopyAssumption
  <2>3. /\ Holds(Walker, p) /\ \A e \in Dirs : ~ Holds(w, e) /\ ~ Holds(Walker, e)'
        /\ \A e \in Dirs : (Holds(w, e)' <=> e = p) /\ (Holds(Walker, e) <=> e = p)
    BY <2>0, <2>1 DEF Holds, JobPlaces
  <2>4. \A b \in Actors \ {w, Walker}, e \in Dirs : Holds(b, e)' <=> Holds(b, e)
    BY <2>0, <2>1 DEF Holds
  <2>5. \A b \in Actors, e \in Dirs : Finishing(b, e)' <=> Finishing(b, e)
    BY <2>0, <2>1 DEF Finishing, FinishPlaces
  <2>6. \A s \in Dirs : Alive(s)' <=> Alive(s)
    BY <2>0, <2>1, <2>5, AliveKept
  <2>7. Holding(p)' = (Holding(p) \ {Walker}) \cup {w} /\ Walker \in Holding(p) /\ w \notin Holding(p)
    BY <2>1, <2>2, <2>3, <2>4, <2>6 DEF Holding, Subdirs
  <2>8. \A e \in Dirs \ {p} : Holding(e)' = Holding(e)
    BY <2>1, <2>3, <2>4, <2>6 DEF Holding, Subdirs
  <2>9. Counted(p)'
    BY <2>1, <2>2, <2>7, CountSwapped
  <2>10. ASSUME NEW e \in Dirs \ {p} PROVE Counted(e)'
    BY <2>1, <2>8, CountKept
  <2> QED BY <2>9, <2>10 DEF Counts
<1>5. CASE SendRefused
  <2>0. PICK p : p = FileDir[arg[Walker]]
    OBVIOUS
  <2>1. /\ UNCHANGED <<stack>> /\ stopped /\ stopped' /\ at[Walker] = "send" /\ at'[Walker] \in {"wait", "walk"}
        /\ \A a \in Actors \ {Walker} : at'[a] = at[a] /\ arg'[a] = arg[a]
    BY <2>0, <1>5, WhoIsWho DEF SendRefused, Goto, With, TypeOK, pool, walk
  <2>2. p \in Dirs /\ Walker \in Actors \ Dirs
    BY <2>0, <2>1, SenderIsCounted, WhoIsWho, CopyAssumption
  <2>3. /\ Holds(Walker, p) /\ \A e \in Dirs : ~ Holds(Walker, e)' /\ (Holds(Walker, e) <=> e = p)
        /\ \A b \in Actors \ {Walker}, e \in Dirs : Holds(b, e)' <=> Holds(b, e)
    BY <2>0, <2>1 DEF Holds, JobPlaces
  <2>4. \A b \in Actors, e \in Dirs : Finishing(b, e)' <=> Finishing(b, e)
    BY <2>0, <2>1 DEF Finishing, FinishPlaces
  <2>5. pending'[p] = pending[p] - 1 /\ \A e \in Dirs \ {p} : pending'[e] = pending[e]
    BY <2>0, <1>5, <2>2 DEF SendRefused, TypeOK
  <2>6. \A s \in Dirs \ {p} : Alive(s)' <=> Alive(s)
    BY <2>0, <2>4, <2>5 DEF Alive
  <2>7. Alive(p)
    BY <2>0, <2>1, SenderIsCounted DEF Alive
  <2>8. p \notin Subdirs(p)
    BY <2>2, NotOwnChild
  <2>9. Holding(p)' = Holding(p) \ {Walker} /\ Walker \in Holding(p)
    BY <2>1, <2>2, <2>3, <2>6, <2>8 DEF Holding, Subdirs
  <2>10. \A e \in Dirs \ {p} : Holding(e)' \subseteq Holding(e)
    BY <2>1, <2>2, <2>3, <2>6, <2>7 DEF Holding, Subdirs
  <2>11. Counted(p)'
    BY <2>1, <2>2, <2>5, <2>9, CountMinus
  <2>12. ASSUME NEW e \in Dirs \ {p} PROVE Counted(e)'
    BY <2>1, <2>5, <2>10, CountLeft
  <2> QED BY <2>11, <2>12 DEF Counts
<1>6. CASE CloseDir
  <2>0. PICK p : p = Last(stack)
    OBVIOUS
  <2>1. /\ UNCHANGED <<stopped, pending>> /\ at[Walker] = "walk" /\ at'[Walker] = "done" /\ arg'[Walker] = p
        /\ \A a \in Actors \ {Walker} : at'[a] = at[a] /\ arg'[a] = arg[a]
    BY <2>0, <1>6, WhoIsWho DEF CloseDir, Goto, With, TypeOK, pool, walk
  <2>2. p \in Range(stack) /\ p \in Dirs /\ Range(stack') = Range(stack) \ {p} /\ Walker \in Actors \ Dirs
    <3>1. stack \in Seq(Dirs) /\ stack # <<>> /\ IsInjective(stack) /\ stack' = Front(stack)
      BY <2>0, <1>6 DEF CloseDir, TypeOK, Walk
    <3>2. Last(stack) \in Range(stack) /\ Last(stack) \in Dirs /\ Range(stack') = Range(stack) \ {Last(stack)}
      BY <2>0, <3>1, TakenOff
    <3> QED BY <2>0, <2>0, <3>2, WhoIsWho, CopyAssumption
  <2>3. /\ \A e \in Dirs : (Holds(Walker, e)' <=> e = p) /\ ~ Holds(Walker, e)
        /\ \A b \in Actors \ {Walker}, e \in Dirs : Holds(b, e)' <=> Holds(b, e)
    BY <2>0, <2>1 DEF Holds, JobPlaces
  <2>4. \A b \in Actors, e \in Dirs : Finishing(b, e)' <=> Finishing(b, e)
    BY <2>0, <2>1 DEF Finishing, FinishPlaces
  <2>5. \A s \in Dirs : Alive(s)' <=> Alive(s)
    BY <2>0, <2>1, <2>4, AliveKept
  <2>6. p \notin Subdirs(p) /\ p \notin Actors
    BY <2>2, NotOwnChild, CopyAssumption
  <2>7. Holding(p)' = (Holding(p) \ {p}) \cup {Walker} /\ p \in Holding(p) /\ Walker \notin Holding(p)
    BY <2>2, <2>3, <2>5, <2>6 DEF Holding, Subdirs
  <2>8. \A e \in Dirs \ {p} : Holding(e)' = Holding(e)
    BY <2>2, <2>3, <2>5 DEF Holding, Subdirs
  <2>9. Counted(p)'
    BY <2>1, <2>2, <2>7, CountSwapped
  <2>10. ASSUME NEW e \in Dirs \ {p} PROVE Counted(e)'
    BY <2>1, <2>8, CountKept
  <2> QED BY <2>9, <2>10 DEF Counts
<1>7. CASE WalkEnd
  <2>1. pending' = pending /\ stack' = stack /\ (~ stopped' => ~ stopped)
    BY <1>7 DEF WalkEnd, pool, walk
  <2>2. \A b \in Actors, e \in Dirs : Holds(b, e)' <=> Holds(b, e)
    BY <1>7, WhoIsWho DEF WalkEnd, TypeOK, Places, Holds, JobPlaces, FinishPlaces, local, Goto
  <2>3. \A b \in Actors, e \in Dirs : Finishing(b, e)' <=> Finishing(b, e)
    BY <1>7, WhoIsWho DEF WalkEnd, TypeOK, Places, Finishing, JobPlaces, FinishPlaces, local, Goto
  <2> QED BY <2>1, <2>2, <2>3, CountsKept
<1>8. CASE WaitReturns
  <2>1. pending' = pending /\ stack' = stack /\ (~ stopped' => ~ stopped)
    BY <1>8 DEF WaitReturns, pool, walk
  <2>2. \A b \in Actors, e \in Dirs : Holds(b, e)' <=> Holds(b, e)
    BY <1>8, WhoIsWho DEF WaitReturns, TypeOK, Places, Holds, JobPlaces, FinishPlaces, local, Goto
  <2>3. \A b \in Actors, e \in Dirs : Finishing(b, e)' <=> Finishing(b, e)
    BY <1>8, WhoIsWho DEF WaitReturns, TypeOK, Places, Finishing, JobPlaces, FinishPlaces, local, Goto
  <2> QED BY <2>1, <2>2, <2>3, CountsKept
<1>9. ASSUME NEW w \in Workers, TakeJob(w) PROVE Counts'
  <2>1. CASE stopped
    <3>1. /\ UNCHANGED <<pending, stack>> /\ stopped' /\ at[w] = "got" /\ at'[w] = "idle"
          /\ \A a \in Actors \ {w} : at'[a] = at[a] /\ arg'[a] = arg[a]
      BY <1>9, <2>1, WhoIsWho DEF TakeJob, Goto, With, TypeOK, pool, walk
    <3>2. \A b \in Actors, e \in Dirs : Holds(b, e)' => Holds(b, e)
      BY <3>1 DEF Holds, JobPlaces
    <3>3. \A b \in Actors, e \in Dirs : Finishing(b, e)' <=> Finishing(b, e)
      BY <3>1 DEF Finishing, FinishPlaces
    <3>4. \A s \in Dirs : Alive(s)' <=> Alive(s)
      BY <3>1, <3>3, AliveKept
    <3>5. ASSUME NEW e \in Dirs PROVE Counted(e)'
      <4>1. Holding(e)' \subseteq Holding(e)
        BY <3>1, <3>2, <3>4 DEF Holding, Subdirs
      <4> QED BY <3>1, <4>1, CountLeft
    <3> QED BY <3>5 DEF Counts
  <2>2. CASE ~ stopped
    <3>1. /\ UNCHANGED <<pending, stack, stopped, arg>> /\ at[w] = "got" /\ at'[w] \in {"ask", "copy"}
          /\ \A a \in Actors \ {w} : at'[a] = at[a]
      BY <1>9, <2>2, WhoIsWho DEF TakeJob, Goto, With, TypeOK, pool, walk
    <3>2. \A b \in Actors, e \in Dirs : Holds(b, e)' <=> Holds(b, e)
      BY <3>1 DEF Holds, JobPlaces
    <3>3. \A b \in Actors, e \in Dirs : Finishing(b, e)' <=> Finishing(b, e)
      BY <3>1 DEF Finishing, FinishPlaces
    <3> QED BY <3>1, <3>2, <3>3, CountsKept
  <2> QED BY <2>1, <2>2
<1>10. ASSUME NEW w \in Workers, JobMoves(w) PROVE Counts'
  <2>1. pending' = pending /\ stack' = stack /\ (~ stopped' => ~ stopped)
    BY <1>10 DEF JobMoves, pool, walk
  <2>2. \A b \in Actors, e \in Dirs : Holds(b, e)' <=> Holds(b, e)
    BY <1>10, WhoIsWho DEF JobMoves, TypeOK, Places, Holds, JobPlaces, FinishPlaces, local, Goto
  <2>3. \A b \in Actors, e \in Dirs : Finishing(b, e)' <=> Finishing(b, e)
    BY <1>10, WhoIsWho DEF JobMoves, TypeOK, Places, Finishing, JobPlaces, FinishPlaces, local, Goto
  <2> QED BY <2>1, <2>2, <2>3, CountsKept
<1>11. ASSUME NEW w \in Workers, JobEnds(w) PROVE Counts'
  <2>1. pending' = pending /\ stack' = stack /\ (~ stopped' => ~ stopped)
    BY <1>11 DEF JobEnds, pool, walk
  <2>2. \A b \in Actors, e \in Dirs : Holds(b, e)' <=> Holds(b, e)
    BY <1>11, WhoIsWho DEF JobEnds, TypeOK, Places, Holds, JobPlaces, FinishPlaces, local, Goto
  <2>3. \A b \in Actors, e \in Dirs : Finishing(b, e)' <=> Finishing(b, e)
    BY <1>11, WhoIsWho DEF JobEnds, TypeOK, Places, Finishing, JobPlaces, FinishPlaces, local, Goto
  <2> QED BY <2>1, <2>2, <2>3, CountsKept
<1>12. ASSUME NEW w \in Workers, Release(w) PROVE Counts'
  <2>1. pending' = pending /\ stack' = stack /\ (~ stopped' => ~ stopped)
    BY <1>12 DEF Release, pool, walk
  <2>2. \A b \in Actors, e \in Dirs : Holds(b, e)' <=> Holds(b, e)
    BY <1>12, WhoIsWho DEF Release, TypeOK, Places, Holds, JobPlaces, FinishPlaces, local, Goto, With
  <2>3. \A b \in Actors, e \in Dirs : Finishing(b, e)' <=> Finishing(b, e)
    BY <1>12, WhoIsWho DEF Release, TypeOK, Places, Finishing, JobPlaces, FinishPlaces, local, Goto, With
  <2> QED BY <2>1, <2>2, <2>3, CountsKept
<1>13. ASSUME NEW w \in Workers, FailRecord(w) PROVE Counts'
  <2>1. pending' = pending /\ stack' = stack /\ (~ stopped' => ~ stopped)
    BY <1>13 DEF FailRecord, pool, walk
  <2>2. \A b \in Actors, e \in Dirs : Holds(b, e)' <=> Holds(b, e)
    BY <1>13, WhoIsWho DEF FailRecord, TypeOK, Places, Holds, JobPlaces, FinishPlaces, local, Goto
  <2>3. \A b \in Actors, e \in Dirs : Finishing(b, e)' <=> Finishing(b, e)
    BY <1>13, WhoIsWho DEF FailRecord, TypeOK, Places, Finishing, JobPlaces, FinishPlaces, local, Goto
  <2> QED BY <2>1, <2>2, <2>3, CountsKept
<1>14. ASSUME NEW w \in Workers, FailCancel(w) PROVE Counts'
  <2>1. pending' = pending /\ stack' = stack /\ (~ stopped' => ~ stopped)
    BY <1>14 DEF FailCancel, pool, walk
  <2>2. \A b \in Actors, e \in Dirs : Holds(b, e)' <=> Holds(b, e)
    BY <1>14, WhoIsWho DEF FailCancel, TypeOK, Places, Holds, JobPlaces, FinishPlaces, local, Goto
  <2>3. \A b \in Actors, e \in Dirs : Finishing(b, e)' <=> Finishing(b, e)
    BY <1>14, WhoIsWho DEF FailCancel, TypeOK, Places, Finishing, JobPlaces, FinishPlaces, local, Goto
  <2> QED BY <2>1, <2>2, <2>3, CountsKept
<1>15. ASSUME NEW w \in Workers, WorkerLeaves(w) PROVE Counts'
  <2>1. pending' = pending /\ stack' = stack /\ (~ stopped' => ~ stopped)
    BY <1>15 DEF WorkerLeaves, pool, walk
  <2>2. \A b \in Actors, e \in Dirs : Holds(b, e)' <=> Holds(b, e)
    BY <1>15, WhoIsWho DEF WorkerLeaves, TypeOK, Places, Holds, JobPlaces, FinishPlaces, local, Goto
  <2>3. \A b \in Actors, e \in Dirs : Finishing(b, e)' <=> Finishing(b, e)
    BY <1>15, WhoIsWho DEF WorkerLeaves, TypeOK, Places, Finishing, JobPlaces, FinishPlaces, local, Goto
  <2> QED BY <2>1, <2>2, <2>3, CountsKept
<1>16. ASSUME NEW a \in Actors, DoneCount(a) PROVE Counts'
  <2>0. PICK p : p = arg[a]
    OBVIOUS
  <2>1. p \in Dirs /\ pending[p] > 0 /\ at[a] = "done" /\ a \notin Dirs /\ pending[p] \in Nat
    BY <2>0, <1>16, DoerIsCounted, CopyAssumption DEF DoneCount, TypeOK
  <2>2. /\ UNCHANGED <<stopped, stack>> /\ pending'[p] = pending[p] - 1
        /\ \A e \in Dirs \ {p} : pending'[e] = pending[e]
        /\ \A b \in Actors \ {a} : at'[b] = at[b] /\ arg'[b] = arg[b]
        /\ IF pending'[p] # 0 THEN at'[a] \in {"walk", "idle", "fail"} ELSE at'[a] = "last" /\ arg'[a] = p
    BY <2>0, <1>16, <2>1 DEF DoneCount, Goto, With, Continue, TypeOK, pool, walk
  <2>3. /\ \A e \in Dirs : (Holds(a, e) <=> e = p) /\ ~ Holds(a, e)'
        /\ \A b \in Actors \ {a}, e \in Dirs : Holds(b, e)' <=> Holds(b, e)
    BY <2>0, <2>1, <2>2 DEF Holds, JobPlaces
  <2>4. /\ \A e \in Dirs : Finishing(a, e)' <=> e = p /\ pending'[p] = 0
        /\ \A e \in Dirs : ~ Finishing(a, e)
        /\ \A b \in Actors \ {a}, e \in Dirs : Finishing(b, e)' <=> Finishing(b, e)
    BY <2>0, <2>1, <2>2 DEF Finishing, FinishPlaces
  <2>5. \A s \in Dirs : Alive(s)' <=> Alive(s)
    <3>1. Alive(p) /\ Alive(p)'
      BY <2>0, <2>1, <2>2, <2>4 DEF Alive
    <3>2. \A s \in Dirs \ {p} : Alive(s)' <=> Alive(s)
      BY <2>0, <2>2, <2>4 DEF Alive
    <3> QED BY <2>0, <3>1, <3>2
  <2>6. Holding(p)' = Holding(p) \ {a} /\ a \in Holding(p)
    BY <2>1, <2>2, <2>3, <2>5 DEF Holding, Subdirs
  <2>7. \A e \in Dirs \ {p} : Holding(e)' = Holding(e)
    BY <2>1, <2>2, <2>3, <2>5 DEF Holding, Subdirs
  <2>8. Counted(p)'
    BY <2>1, <2>2, <2>6, CountMinus
  <2>9. ASSUME NEW e \in Dirs \ {p} PROVE Counted(e)'
    BY <2>2, <2>7, CountKept
  <2> QED BY <2>8, <2>9 DEF Counts
<1>17. ASSUME NEW a \in Actors, DoneLast(a) PROVE Counts'
  <2>1. pending' = pending /\ stack' = stack /\ (~ stopped' => ~ stopped)
    BY <1>17 DEF DoneLast, pool, walk
  <2>2. \A b \in Actors, e \in Dirs : Holds(b, e)' <=> Holds(b, e)
    BY <1>17, WhoIsWho DEF DoneLast, TypeOK, Places, Holds, JobPlaces, FinishPlaces, local, Goto
  <2>3. \A b \in Actors, e \in Dirs : Finishing(b, e)' <=> Finishing(b, e)
    BY <1>17, WhoIsWho DEF DoneLast, TypeOK, Places, Finishing, JobPlaces, FinishPlaces, local, Goto
  <2> QED BY <2>1, <2>2, <2>3, CountsKept
<1>18. ASSUME NEW a \in Actors, DoneFinish(a) PROVE Counts'
  <2>1. pending' = pending /\ stack' = stack /\ (~ stopped' => ~ stopped)
    BY <1>18 DEF DoneFinish, pool, walk
  <2>2. \A b \in Actors, e \in Dirs : Holds(b, e)' <=> Holds(b, e)
    BY <1>18, WhoIsWho DEF DoneFinish, TypeOK, Places, Holds, JobPlaces, FinishPlaces, local, Goto
  <2>3. \A b \in Actors, e \in Dirs : Finishing(b, e)' <=> Finishing(b, e)
    BY <1>18, WhoIsWho DEF DoneFinish, TypeOK, Places, Finishing, JobPlaces, FinishPlaces, local, Goto
  <2> QED BY <2>1, <2>2, <2>3, CountsKept
<1>19. ASSUME NEW a \in Actors, DoneParent(a) PROVE Counts'
  <2>0. PICK p : p = arg[a]
    OBVIOUS
  <2>1. p \in Dirs /\ at[a] = "up" /\ a \notin Dirs /\ Finishing(a, p) /\ pending[p] = 0
    BY <2>0, <1>19, CopyAssumption DEF DoneParent, Places, FinishPlaces, Finishing, OneLast
  <2>2. UNCHANGED <<stopped, stack, pending>> /\ \A b \in Actors \ {a} : at'[b] = at[b] /\ arg'[b] = arg[b]
    BY <2>0, <1>19 DEF DoneParent, Goto, With, Continue, TypeOK, pool, walk
  <2>3. IF p = Root THEN at'[a] \in {"walk", "idle", "fail"} ELSE at'[a] = "done" /\ arg'[a] = Parent[p]
    BY <2>0, <1>19 DEF DoneParent, Goto, With, Continue, TypeOK
  <2>4. /\ \A e \in Dirs : ~ Holds(a, e) /\ (Holds(a, e)' <=> p # Root /\ e = Parent[p])
        /\ \A b \in Actors \ {a}, e \in Dirs : Holds(b, e)' <=> Holds(b, e)
    BY <2>0, <2>1, <2>2, <2>3 DEF Holds, JobPlaces
  <2>5. /\ \A e \in Dirs : ~ Finishing(a, e)' /\ (Finishing(a, e) => e = p)
        /\ \A b \in Actors \ {a}, e \in Dirs : Finishing(b, e)' <=> Finishing(b, e)
    BY <2>0, <2>1, <2>2, <2>3 DEF Finishing, FinishPlaces
  <2>6. Alive(p) /\ ~ Alive(p)' /\ \A s \in Dirs \ {p} : Alive(s)' <=> Alive(s)
    <3>1. Alive(p)
      BY <2>0, <2>1 DEF Alive
    <3>2. ~ Alive(p)'
      BY <2>0, <2>1, <2>2, <2>5 DEF Alive, OneLast
    <3>3. \A s \in Dirs \ {p} : Alive(s)' <=> Alive(s)
      BY <2>0, <2>2, <2>5 DEF Alive
    <3> QED BY <2>0, <3>1, <3>2, <3>3
  <2>7. ASSUME NEW e \in Dirs PROVE Counted(e)'
    <3>1. CASE p # Root /\ e = Parent[p]
      <4>1. p \in Subdirs(e) /\ p # e
        BY <2>1, <3>1, NotOwnChild DEF Subdirs
      <4>2. Holding(e)' = (Holding(e) \ {p}) \cup {a} /\ p \in Holding(e) /\ a \notin Holding(e)
        BY <2>1, <2>2, <2>4, <2>6, <3>1, <4>1, CopyAssumption DEF Holding, Subdirs
      <4> QED BY <2>2, <4>2, CountSwapped
    <3>2. CASE ~ (p # Root /\ e = Parent[p])
      <4>1. p \notin Subdirs(e)
        BY <3>2 DEF Subdirs
      <4>2. Holding(e)' = Holding(e)
        BY <2>2, <2>4, <2>6, <3>2, <4>1 DEF Holding, Subdirs
      <4> QED BY <2>2, <4>2, CountKept
    <3> QED BY <3>1, <3>2
  <2> QED BY <2>7 DEF Counts
<1>20. CASE UNCHANGED vars
  <2>1. UNCHANGED <<pending, stopped, stack, at, arg>>
    BY <1>20 DEF vars, pool, walk, local
  <2>2. \A b \in Actors, e \in Dirs : (Holds(b, e)' <=> Holds(b, e)) /\ (Finishing(b, e)' <=> Finishing(b, e))
    BY <2>1 DEF Holds, Finishing
  <2> QED BY <2>1, <2>2, CountsKept
<1> QED
  BY StepKinds, <1>1, <1>2, <1>3, <1>4, <1>5, <1>6, <1>7, <1>8, <1>9, <1>10,
     <1>11, <1>12, <1>13, <1>14, <1>15, <1>16, <1>17, <1>18, <1>19, <1>20

LEMMA LastKept ==
  ASSUME OneLast, pending' = pending, finishes' = finishes, walked' \cap Dirs = walked \cap Dirs,
         \A a \in Actors, d \in Dirs :
           Finishing(a, d)' => Finishing(a, d) /\ (at[a] = "up" => at'[a] = "up")
  PROVE  OneLast'
<1>1. ASSUME NEW a \in Actors, NEW d \in Dirs, Finishing(a, d)'
      PROVE  /\ pending'[d] = 0 /\ d \in walked'
             /\ \A b \in Actors : Finishing(b, d)' => b = a
             /\ at'[a] # "up" => finishes'[d] = 0
  BY <1>1 DEF OneLast
<1>2. \A d \in Dirs : finishes'[d] > 0 => finishes'[d] = 1 /\ pending'[d] = 0 /\ d \in walked'
  BY DEF OneLast
<1>3. \A d \in Dirs \ walked' : pending'[d] = 0
  BY DEF OneLast
<1> QED BY <1>1, <1>2, <1>3 DEF OneLast

\* A folder that is waited for is not over.
LEMMA WaitedIsNotOver ==
  ASSUME TypeOK, OneLast, NEW d \in Dirs, pending[d] > 0
  PROVE  d \in walked /\ finishes[d] = 0 /\ \A a \in Actors : ~ Finishing(a, d)
<1>1. pending[d] \in Nat /\ finishes[d] \in Nat /\ pending[d] # 0
  BY DEF TypeOK
<1> QED BY <1>1 DEF OneLast

\* A step that changes the count of one such folder, and puts nobody at its end.
LEMMA LastMoved ==
  ASSUME TypeOK, OneLast, NEW p \in Dirs, pending[p] > 0,
         \A e \in Dirs \ {p} : pending'[e] = pending[e], finishes' = finishes,
         walked \cap Dirs \subseteq walked',
         \A a \in Actors, d \in Dirs : Finishing(a, d)' <=> Finishing(a, d),
         \A a \in Actors, d \in Dirs : Finishing(a, d) => at'[a] = at[a]
  PROVE  OneLast'
<1>1. p \in walked /\ finishes[p] = 0 /\ \A a \in Actors : ~ Finishing(a, p)
  BY WaitedIsNotOver
<1>2. ASSUME NEW a \in Actors, NEW d \in Dirs, Finishing(a, d)'
      PROVE  /\ pending'[d] = 0 /\ d \in walked'
             /\ \A b \in Actors : Finishing(b, d)' => b = a
             /\ at'[a] # "up" => finishes'[d] = 0
  <2>1. d # p /\ Finishing(a, d)
    BY <1>1, <1>2
  <2> QED BY <2>1, <1>2 DEF OneLast
<1>3. \A d \in Dirs : finishes'[d] > 0 => finishes'[d] = 1 /\ pending'[d] = 0 /\ d \in walked'
  BY <1>1 DEF OneLast
<1>4. \A d \in Dirs \ walked' : pending'[d] = 0
  BY <1>1 DEF OneLast
<1> QED BY <1>2, <1>3, <1>4 DEF OneLast

LEMMA OneLastHolds ==
  ASSUME TypeOK, Places, Counts, OneLast, [Next]_vars
  PROVE  OneLast'
<1>1. CASE ParentCancel
  <2>1. pending' = pending /\ finishes' = finishes /\ walked' = walked
    BY <1>1 DEF ParentCancel, pool, walk
  <2>2. \A b \in Actors, e \in Dirs : Finishing(b, e)' => Finishing(b, e) /\ (at[b] = "up" => at'[b] = "up")
    BY <1>1, WhoIsWho DEF ParentCancel, TypeOK, Places, Finishing, FinishPlaces, JobPlaces, local
  <2> QED BY <2>1, <2>2, LastKept
<1>2. ASSUME NEW d \in Dirs, OpenDir(d) PROVE OneLast'
  <2>1. UNCHANGED <<at, arg, finishes>> /\ d \notin walked /\ walked' = walked \cup {d}
    BY <1>2 DEF OpenDir, local
  <2>2. d # Root => Parent[d] \in Dirs /\ pending[Parent[d]] > 0
    <3> SUFFICES ASSUME d # Root PROVE Parent[d] \in Dirs /\ pending[Parent[d]] > 0
      OBVIOUS
    <3>1. Parent[d] \in Dirs /\ Parent[d] \in Range(stack)
      BY <1>2, LastOpen DEF OpenDir
    <3>2. Parent[d] \in Holding(Parent[d])
      BY <3>1 DEF Holding
    <3> QED BY <3>1, <3>2, HeldCounts
  <2>3. d # Root => Parent[d] \in walked /\ finishes[Parent[d]] = 0 /\ \A a \in Actors : ~ Finishing(a, Parent[d])
    BY <2>2, WaitedIsNotOver
  <2>4. \A e \in Dirs : e # d /\ (d # Root => e # Parent[d]) => pending'[e] = pending[e]
    BY <1>2, <2>2 DEF OpenDir
  <2>5. ~ finishes[d] > 0 /\ \A a \in Actors : ~ Finishing(a, d)
    BY <2>1 DEF OneLast
  <2>6. ASSUME NEW a \in Actors, NEW e \in Dirs, Finishing(a, e)'
        PROVE  /\ pending'[e] = 0 /\ e \in walked'
               /\ \A b \in Actors : Finishing(b, e)' => b = a
               /\ at'[a] # "up" => finishes'[e] = 0
    <3>1. \A b \in Actors : Finishing(b, e)' <=> Finishing(b, e)
      BY <2>1 DEF Finishing
    <3>2. e # d /\ (d # Root => e # Parent[d])
      BY <2>3, <2>5, <2>6, <3>1
    <3> QED BY <2>1, <2>4, <2>6, <3>1, <3>2 DEF OneLast
  <2>7. \A e \in Dirs : finishes'[e] > 0 => finishes'[e] = 1 /\ pending'[e] = 0 /\ e \in walked'
    BY <2>1, <2>3, <2>4, <2>5 DEF OneLast
  <2>8. \A e \in Dirs \ walked' : pending'[e] = 0
    BY <2>1, <2>3, <2>4 DEF OneLast
  <2> QED BY <2>6, <2>7, <2>8 DEF OneLast
<1>3. ASSUME NEW f \in Files, GoFile(f) PROVE OneLast'
  <2>1. /\ finishes' = finishes /\ walked' \cap Dirs = walked \cap Dirs /\ at[Walker] = "walk"
        /\ FileDir[f] \in Dirs /\ FileDir[f] \in Range(stack)
    BY <1>3, LastOpen, CopyAssumption DEF GoFile
  <2>2. /\ at'[Walker] \in {"walk", "wait", "send"}
        /\ \A a \in Actors \ {Walker} : at'[a] = at[a] /\ arg'[a] = arg[a]
    BY <1>3, WhoIsWho DEF GoFile, Goto, With, TypeOK
  <2>3. \A a \in Actors, e \in Dirs : Finishing(a, e)' <=> Finishing(a, e)
    BY <2>1, <2>2 DEF Finishing, FinishPlaces
  <2>4. \A a \in Actors, e \in Dirs : Finishing(a, e) => at'[a] = at[a]
    BY <2>1, <2>2 DEF Finishing, FinishPlaces
  <2>5. pending[FileDir[f]] > 0
    <3>1. FileDir[f] \in Holding(FileDir[f])
      BY <2>1 DEF Holding
    <3> QED BY <2>1, <3>1, HeldCounts
  <2>6. \A e \in Dirs \ {FileDir[f]} : pending'[e] = pending[e]
    BY <1>3 DEF GoFile, TypeOK
  <2> QED BY <2>1, <2>3, <2>4, <2>5, <2>6, LastMoved
<1>4. ASSUME NEW w \in Workers, Send(w) PROVE OneLast'
  <2>1. pending' = pending /\ finishes' = finishes /\ walked' = walked
    BY <1>4 DEF Send, pool, walk
  <2>2. \A b \in Actors, e \in Dirs : Finishing(b, e)' => Finishing(b, e) /\ (at[b] = "up" => at'[b] = "up")
    BY <1>4, WhoIsWho DEF Send, TypeOK, Places, Finishing, FinishPlaces, JobPlaces, local
  <2> QED BY <2>1, <2>2, LastKept
<1>5. CASE SendRefused
  <2>1. /\ finishes' = finishes /\ walked' = walked /\ at[Walker] = "send"
    BY <1>5 DEF SendRefused, walk
  <2>2. /\ at'[Walker] \in {"walk", "wait"}
        /\ \A a \in Actors \ {Walker} : at'[a] = at[a] /\ arg'[a] = arg[a]
    BY <1>5, WhoIsWho DEF SendRefused, Goto, With, TypeOK
  <2>3. \A a \in Actors, e \in Dirs : Finishing(a, e)' <=> Finishing(a, e)
    BY <2>1, <2>2 DEF Finishing, FinishPlaces
  <2>4. \A a \in Actors, e \in Dirs : Finishing(a, e) => at'[a] = at[a]
    BY <2>1, <2>2 DEF Finishing, FinishPlaces
  <2>5. PICK p \in Dirs : p = FileDir[arg[Walker]] /\ pending[p] > 0
    BY <2>1, SenderIsCounted
  <2>6. \A e \in Dirs \ {p} : pending'[e] = pending[e]
    BY <1>5, <2>5 DEF SendRefused, TypeOK
  <2> QED BY <2>1, <2>3, <2>4, <2>5, <2>6, LastMoved
<1>6. CASE CloseDir
  <2>1. pending' = pending /\ finishes' = finishes /\ walked' = walked
    BY <1>6 DEF CloseDir, pool, walk
  <2>2. \A b \in Actors, e \in Dirs : Finishing(b, e)' => Finishing(b, e) /\ (at[b] = "up" => at'[b] = "up")
    BY <1>6, WhoIsWho DEF CloseDir, TypeOK, Places, Finishing, FinishPlaces, JobPlaces, local, Goto, With
  <2> QED BY <2>1, <2>2, LastKept
<1>7. CASE WalkEnd
  <2>1. pending' = pending /\ finishes' = finishes /\ walked' = walked
    BY <1>7 DEF WalkEnd, pool, walk
  <2>2. \A b \in Actors, e \in Dirs : Finishing(b, e)' => Finishing(b, e) /\ (at[b] = "up" => at'[b] = "up")
    BY <1>7, WhoIsWho DEF WalkEnd, TypeOK, Places, Finishing, FinishPlaces, JobPlaces, local, Goto
  <2> QED BY <2>1, <2>2, LastKept
<1>8. CASE WaitReturns
  <2>1. pending' = pending /\ finishes' = finishes /\ walked' = walked
    BY <1>8 DEF WaitReturns, pool, walk
  <2>2. \A b \in Actors, e \in Dirs : Finishing(b, e)' => Finishing(b, e) /\ (at[b] = "up" => at'[b] = "up")
    BY <1>8, WhoIsWho DEF WaitReturns, TypeOK, Places, Finishing, FinishPlaces, JobPlaces, local, Goto
  <2> QED BY <2>1, <2>2, LastKept
<1>9. ASSUME NEW w \in Workers, TakeJob(w) PROVE OneLast'
  <2>1. pending' = pending /\ finishes' = finishes /\ walked' = walked
    BY <1>9 DEF TakeJob, pool, walk
  <2>2. at'[w] \in {"idle", "ask", "copy"} /\ \A a \in Actors \ {w} : at'[a] = at[a] /\ arg'[a] = arg[a]
    BY <1>9, WhoIsWho DEF TakeJob, Goto, With, TypeOK
  <2>3. \A b \in Actors, e \in Dirs : Finishing(b, e)' => Finishing(b, e) /\ (at[b] = "up" => at'[b] = "up")
    BY <2>2 DEF Finishing, FinishPlaces
  <2> QED BY <2>1, <2>3, LastKept
<1>10. ASSUME NEW w \in Workers, JobMoves(w) PROVE OneLast'
  <2>1. pending' = pending /\ finishes' = finishes /\ walked' = walked
    BY <1>10 DEF JobMoves, pool, walk
  <2>2. \A b \in Actors, e \in Dirs : Finishing(b, e)' => Finishing(b, e) /\ (at[b] = "up" => at'[b] = "up")
    BY <1>10, WhoIsWho DEF JobMoves, TypeOK, Places, Finishing, FinishPlaces, JobPlaces, local, Goto
  <2> QED BY <2>1, <2>2, LastKept
<1>11. ASSUME NEW w \in Workers, JobEnds(w) PROVE OneLast'
  <2>1. pending' = pending /\ finishes' = finishes /\ walked' = walked
    BY <1>11 DEF JobEnds, pool, walk
  <2>2. \A b \in Actors, e \in Dirs : Finishing(b, e)' => Finishing(b, e) /\ (at[b] = "up" => at'[b] = "up")
    BY <1>11, WhoIsWho DEF JobEnds, TypeOK, Places, Finishing, FinishPlaces, JobPlaces, local, Goto
  <2> QED BY <2>1, <2>2, LastKept
<1>12. ASSUME NEW w \in Workers, Release(w) PROVE OneLast'
  <2>1. pending' = pending /\ finishes' = finishes /\ walked' = walked
    BY <1>12 DEF Release, pool, walk
  <2>2. \A b \in Actors, e \in Dirs : Finishing(b, e)' => Finishing(b, e) /\ (at[b] = "up" => at'[b] = "up")
    BY <1>12, WhoIsWho DEF Release, TypeOK, Places, Finishing, FinishPlaces, JobPlaces, local, Goto, With
  <2> QED BY <2>1, <2>2, LastKept
<1>13. ASSUME NEW w \in Workers, FailRecord(w) PROVE OneLast'
  <2>1. pending' = pending /\ finishes' = finishes /\ walked' = walked
    BY <1>13 DEF FailRecord, pool, walk
  <2>2. \A b \in Actors, e \in Dirs : Finishing(b, e)' => Finishing(b, e) /\ (at[b] = "up" => at'[b] = "up")
    BY <1>13, WhoIsWho DEF FailRecord, TypeOK, Places, Finishing, FinishPlaces, JobPlaces, local, Goto
  <2> QED BY <2>1, <2>2, LastKept
<1>14. ASSUME NEW w \in Workers, FailCancel(w) PROVE OneLast'
  <2>1. pending' = pending /\ finishes' = finishes /\ walked' = walked
    BY <1>14 DEF FailCancel, pool, walk
  <2>2. \A b \in Actors, e \in Dirs : Finishing(b, e)' => Finishing(b, e) /\ (at[b] = "up" => at'[b] = "up")
    BY <1>14, WhoIsWho DEF FailCancel, TypeOK, Places, Finishing, FinishPlaces, JobPlaces, local, Goto
  <2> QED BY <2>1, <2>2, LastKept
<1>15. ASSUME NEW w \in Workers, WorkerLeaves(w) PROVE OneLast'
  <2>1. pending' = pending /\ finishes' = finishes /\ walked' = walked
    BY <1>15 DEF WorkerLeaves, pool, walk
  <2>2. \A b \in Actors, e \in Dirs : Finishing(b, e)' => Finishing(b, e) /\ (at[b] = "up" => at'[b] = "up")
    BY <1>15, WhoIsWho DEF WorkerLeaves, TypeOK, Places, Finishing, FinishPlaces, JobPlaces, local, Goto
  <2> QED BY <2>1, <2>2, LastKept
<1>16. ASSUME NEW a \in Actors, DoneCount(a) PROVE OneLast'
  <2>1. PICK p \in Dirs : p = arg[a] /\ pending[p] > 0 /\ at[a] = "done"
    BY <1>16, DoerIsCounted DEF DoneCount
  <2>2. /\ UNCHANGED <<finishes, walked>> /\ \A e \in Dirs \ {p} : pending'[e] = pending[e]
        /\ \A b \in Actors \ {a} : at'[b] = at[b] /\ arg'[b] = arg[b]
        /\ IF pending'[p] # 0 THEN at'[a] \in {"walk", "idle", "fail"} ELSE at'[a] = "last" /\ arg'[a] = p
    BY <1>16, <2>1 DEF DoneCount, Goto, With, Continue, TypeOK, pool, walk
  <2>3. p \in walked /\ finishes[p] = 0 /\ \A b \in Actors : ~ Finishing(b, p)
    BY <2>1, WaitedIsNotOver
  <2>4. /\ \A e \in Dirs : Finishing(a, e)' => e = p /\ pending'[p] = 0
        /\ \A b \in Actors \ {a}, e \in Dirs : Finishing(b, e)' <=> Finishing(b, e)
    BY <2>1, <2>2 DEF Finishing, FinishPlaces
  <2>5. ASSUME NEW b \in Actors, NEW e \in Dirs, Finishing(b, e)'
        PROVE  /\ pending'[e] = 0 /\ e \in walked'
               /\ \A c \in Actors : Finishing(c, e)' => c = b
               /\ at'[b] # "up" => finishes'[e] = 0
    <3>1. CASE b = a
      BY <2>2, <2>3, <2>4, <2>5, <3>1
    <3>2. CASE b # a
      <4>1. Finishing(b, e) /\ e # p
        BY <2>3, <2>4, <2>5, <3>2
      <4> QED BY <2>2, <2>4, <3>2, <4>1 DEF OneLast
    <3> QED BY <3>1, <3>2
  <2>6. \A e \in Dirs : finishes'[e] > 0 => finishes'[e] = 1 /\ pending'[e] = 0 /\ e \in walked'
    BY <2>2, <2>3 DEF OneLast
  <2>7. \A e \in Dirs \ walked' : pending'[e] = 0
    BY <2>2, <2>3 DEF OneLast
  <2> QED BY <2>5, <2>6, <2>7 DEF OneLast
<1>17. ASSUME NEW a \in Actors, DoneLast(a) PROVE OneLast'
  <2>1. pending' = pending /\ finishes' = finishes /\ walked' = walked
    BY <1>17 DEF DoneLast, pool, walk
  <2>2. \A b \in Actors, e \in Dirs : Finishing(b, e)' => Finishing(b, e) /\ (at[b] = "up" => at'[b] = "up")
    BY <1>17, WhoIsWho DEF DoneLast, TypeOK, Places, Finishing, FinishPlaces, JobPlaces, local, Goto
  <2> QED BY <2>1, <2>2, LastKept
<1>18. ASSUME NEW a \in Actors, DoneFinish(a) PROVE OneLast'
  <2>1. PICK p \in Dirs : p = arg[a] /\ at[a] = "finish" /\ Finishing(a, p)
    BY <1>18 DEF DoneFinish, Places, FinishPlaces, Finishing
  <2>2. pending[p] = 0 /\ p \in walked /\ finishes[p] = 0 /\ \A b \in Actors : Finishing(b, p) => b = a
    BY <2>1 DEF OneLast
  <2>3. /\ UNCHANGED <<pending, walked, arg>> /\ at'[a] = "up" /\ \A b \in Actors \ {a} : at'[b] = at[b]
        /\ finishes'[p] = 1 /\ \A e \in Dirs \ {p} : finishes'[e] = finishes[e]
    BY <1>18, <2>1, <2>2 DEF DoneFinish, Goto, TypeOK, walk
  <2>4. \A b \in Actors, e \in Dirs : Finishing(b, e)' <=> Finishing(b, e)
    BY <2>1, <2>3 DEF Finishing, FinishPlaces
  <2>5. ASSUME NEW b \in Actors, NEW e \in Dirs, Finishing(b, e)'
        PROVE  /\ pending'[e] = 0 /\ e \in walked'
               /\ \A c \in Actors : Finishing(c, e)' => c = b
               /\ at'[b] # "up" => finishes'[e] = 0
    <3>1. Finishing(b, e) /\ pending[e] = 0 /\ e \in walked /\ \A c \in Actors : Finishing(c, e) => c = b
      BY <2>4, <2>5 DEF OneLast
    <3>2. CASE b = a
      BY <2>3, <2>4, <3>1, <3>2
    <3>3. CASE b # a
      <4>1. e # p
        BY <2>2, <3>1, <3>3
      <4> QED BY <2>3, <2>4, <3>1, <3>3, <4>1 DEF OneLast
    <3> QED BY <3>2, <3>3
  <2>6. \A e \in Dirs : finishes'[e] > 0 => finishes'[e] = 1 /\ pending'[e] = 0 /\ e \in walked'
    BY <2>2, <2>3 DEF OneLast
  <2>7. \A e \in Dirs \ walked' : pending'[e] = 0
    BY <2>3 DEF OneLast
  <2> QED BY <2>5, <2>6, <2>7 DEF OneLast
<1>19. ASSUME NEW a \in Actors, DoneParent(a) PROVE OneLast'
  <2>1. pending' = pending /\ finishes' = finishes /\ walked' = walked
    BY <1>19 DEF DoneParent, pool, walk
  <2>2. at'[a] \in {"walk", "idle", "fail", "done"} /\ \A b \in Actors \ {a} : at'[b] = at[b] /\ arg'[b] = arg[b]
    BY <1>19 DEF DoneParent, Goto, With, Continue, TypeOK
  <2>3. \A b \in Actors, e \in Dirs : Finishing(b, e)' => Finishing(b, e) /\ (at[b] = "up" => at'[b] = "up")
    BY <2>2 DEF Finishing, FinishPlaces
  <2> QED BY <2>1, <2>3, LastKept
<1>20. CASE UNCHANGED vars
  <2>1. UNCHANGED <<pending, finishes, walked, at, arg>>
    BY <1>20 DEF vars, walk, local
  <2>2. \A b \in Actors, e \in Dirs : Finishing(b, e)' => Finishing(b, e) /\ (at[b] = "up" => at'[b] = "up")
    BY <2>1 DEF Finishing
  <2> QED BY <2>1, <2>2, LastKept
<1> QED
  BY StepKinds, <1>1, <1>2, <1>3, <1>4, <1>5, <1>6, <1>7, <1>8, <1>9, <1>10,
     <1>11, <1>12, <1>13, <1>14, <1>15, <1>16, <1>17, <1>18, <1>19, <1>20

\* What is complete stays so: a file that has ended has, and finish runs once.
LEMMA CompleteStays ==
  ASSUME OneLast, NEW d \in Dirs, Complete(d),
         \A f \in Files : ended[f] # None => ended'[f] # None,
         \A s \in Dirs : finishes[s] > 0 => finishes'[s] = finishes[s]
  PROVE  Complete(d)'
<1>1. \A f \in FilesUnder(d) : ended'[f] # None
  BY DEF Complete, FilesUnder
<1>2. \A s \in Subdirs(d) : finishes'[s] = 1
  BY DEF Complete, Subdirs
<1> QED BY <1>1, <1>2 DEF Complete

\* The last count of a folder is given back when everything under it is done.
LEMMA LastIsComplete ==
  ASSUME TypeOK, Places, Walk, OneJob, Counts, OneLast, Finished,
         ~ stopped, NEW a \in Actors, at[a] = "last"
  PROVE  Complete(arg[a])
<1>0. PICK d \in Dirs : d = arg[a] /\ Finishing(a, d)
  BY DEF Places, FinishPlaces, Finishing
<1>1. pending[d] = 0 /\ d \in walked /\ Holding(d) = {}
  BY <1>0, HeldCounts DEF OneLast
<1>2. d \notin Range(stack) /\ (\A b \in Actors : ~ Holds(b, d)) /\ \A s \in Subdirs(d) : ~ Alive(s)
  BY <1>1 DEF Holding
<1>3. {f \in Files : FileDir[f] = d} \cup Subdirs(d) \subseteq walked
  BY <1>1, <1>2 DEF Walk
<1>4. ASSUME NEW f \in Files, FileDir[f] = d PROVE ended[f] # None
  <2>1. \A b \in Actors : ~ HasFile(b, f)
    BY <1>2, <1>4 DEF HasFile, Holds
  <2> QED BY <1>3, <1>4, <2>1 DEF OneJob
<1>5. ASSUME NEW s \in Subdirs(d) PROVE finishes[s] = 1 /\ Complete(s)
  <2>1. s \in Dirs /\ s \in walked /\ ~ pending[s] > 0 /\ \A b \in Actors : ~ Finishing(b, s)
    BY <1>2, <1>3 DEF Alive, Subdirs
  <2>2. finishes[s] = 1
    BY <2>1 DEF Finished, Finishing, FinishPlaces
  <2> QED BY <2>1, <2>2 DEF Finished
<1>6. ASSUME NEW f \in FilesUnder(d) PROVE ended[f] # None
  <2>1. f \in Files
    BY DEF FilesUnder
  <2>2. CASE FileDir[f] = d
    BY <1>4, <2>1, <2>2
  <2>3. ASSUME NEW s \in Subdirs(d), f \in FilesUnder(s) PROVE ended[f] # None
    BY <1>5, <2>3 DEF Complete
  <2> QED BY <2>2, <2>3, FilesAreSplit
<1> QED BY <1>0, <1>5, <1>6 DEF Complete

\* Steps that finish nothing and send nobody to finish.
LEMMA FinishedKept ==
  ASSUME Places, OneLast, Finished, ~ stopped' => ~ stopped,
         \A f \in Files : ended[f] # None => ended'[f] # None,
         finishes' = finishes,
         \A a \in Actors : at'[a] = "finish" => at[a] = "finish" /\ arg'[a] = arg[a],
         ~ stopped' => \A d \in walked' \cap Dirs :
            \/ pending'[d] > 0
            \/ \E a \in Actors : at'[a] \in {"last", "finish"} /\ arg'[a] = d
            \/ /\ d \in walked /\ ~ pending[d] > 0
               /\ \A a \in Actors : at[a] \in {"last", "finish"} /\ arg[a] = d =>
                     at'[a] \in {"last", "finish"} /\ arg'[a] = d
  PROVE  Finished'
<1>1. \A d \in Dirs : Complete(d) => Complete(d)'
  BY CompleteStays
<1>2. \A d \in Dirs : finishes'[d] > 0 => Complete(d)'
  BY <1>1 DEF Finished
<1>3. ASSUME NEW a \in Actors, at'[a] = "finish" PROVE Complete(arg[a])'
  <2>1. PICK d \in Dirs : d = arg[a] /\ d = arg'[a] /\ Complete(d)
    BY <1>3 DEF Places, FinishPlaces, Finished
  <2>2. Complete(d)'
    BY <1>1, <2>1
  <2> QED BY <2>1, <2>2 DEF Complete
<1>4. ASSUME ~ stopped', NEW d \in walked' \cap Dirs
      PROVE  \/ pending'[d] > 0 \/ finishes'[d] = 1
             \/ \E a \in Actors : at'[a] \in {"last", "finish"} /\ arg'[a] = d
  BY <1>4 DEF Finished
<1> QED BY <1>2, <1>3, <1>4 DEF Finished

LEMMA FinishedQuiet ==
  ASSUME Places, OneLast, Finished, ~ stopped' => ~ stopped,
         \A f \in Files : ended[f] # None => ended'[f] # None,
         finishes' = finishes, pending' = pending, walked' \cap Dirs \subseteq walked,
         \A a \in Actors : \/ at'[a] = at[a] /\ arg'[a] = arg[a]
                         \/ {at[a], at'[a]} \cap {"last", "finish"} = {}
  PROVE  Finished'
<1>1. \A a \in Actors : at'[a] = "finish" => at[a] = "finish" /\ arg'[a] = arg[a]
  OBVIOUS
<1>2. \A a \in Actors, d \in Dirs : at[a] \in {"last", "finish"} /\ arg[a] = d =>
                                   at'[a] \in {"last", "finish"} /\ arg'[a] = d
  OBVIOUS
<1> QED BY <1>1, <1>2, FinishedKept

LEMMA FinishedHolds ==
  ASSUME TypeOK, Places, Walk, OneJob, Counts, OneLast, Finished, [Next]_vars
  PROVE  Finished'
<1>1. CASE ParentCancel
  <2>1. UNCHANGED <<pending, finishes, walked, ended>> /\ (~ stopped' => ~ stopped)
    BY <1>1 DEF ParentCancel, pool, walk
  <2>2. \A b \in Actors : \/ at'[b] = at[b] /\ arg'[b] = arg[b]
                         \/ {at[b], at'[b]} \cap {"last", "finish"} = {}
    BY <1>1, WhoIsWho DEF ParentCancel, TypeOK, local
  <2> QED BY <2>1, <2>2, FinishedQuiet
<1>2. ASSUME NEW d \in Dirs, OpenDir(d) PROVE Finished'
  <2>1. /\ UNCHANGED <<at, arg, finishes, ended, stopped>> /\ d \notin walked /\ walked' = walked \cup {d}
    BY <1>2 DEF OpenDir, local, pool
  <2>2. ASSUME NEW e \in walked' \cap Dirs PROVE pending'[e] > 0 \/ (e \in walked /\ pending'[e] = pending[e])
    <3>1. CASE e = d
      <4>1. pending'[d] = CASE d = d -> 1 [] d # Root /\ d = Parent[d] -> pending[d] + 1 [] OTHER -> pending[d]
        BY <1>2 DEF OpenDir
      <4>2. pending'[d] = 1
        BY <4>1, NotOwnChild DEF Subdirs
      <4> QED BY <3>1, <4>2
    <3>2. CASE d # Root /\ e = Parent[d] /\ e # d
      <4>1. e \in Dirs /\ ~ (e = d) /\ d # Root /\ e = Parent[d]
        BY <3>2
      <4>2. pending'[e] = CASE e = d -> 1 [] d # Root /\ e = Parent[d] -> pending[e] + 1 [] OTHER -> pending[e]
        BY <1>2, <4>1 DEF OpenDir
      <4>3. pending'[e] = pending[e] + 1
        BY <4>1, <4>2
      <4> QED BY <4>1, <4>3 DEF TypeOK
    <3>3. CASE e # d /\ (d # Root => e # Parent[d])
      BY <1>2, <2>1, <3>3 DEF OpenDir
    <3> QED BY <3>1, <3>2, <3>3
  <2>3. ASSUME ~ stopped', NEW e \in walked' \cap Dirs
        PROVE  \/ pending'[e] > 0
               \/ \E a \in Actors : at'[a] \in {"last", "finish"} /\ arg'[a] = e
               \/ /\ e \in walked /\ ~ pending[e] > 0
                  /\ \A a \in Actors : at[a] \in {"last", "finish"} /\ arg[a] = e =>
                        at'[a] \in {"last", "finish"} /\ arg'[a] = e
    BY <2>1, <2>2
  <2> QED BY <2>1, <2>3, FinishedKept
<1>3. ASSUME NEW f \in Files, GoFile(f) PROVE Finished'
  <2>1. /\ UNCHANGED <<finishes, ended, stopped>> /\ walked' \cap Dirs = walked \cap Dirs /\ at[Walker] = "walk"
    BY <1>3, CopyAssumption DEF GoFile, pool
  <2>2. /\ at'[Walker] \in {"walk", "wait", "send"}
        /\ \A a \in Actors \ {Walker} : at'[a] = at[a] /\ arg'[a] = arg[a]
    BY <1>3, WhoIsWho DEF GoFile, Goto, With, TypeOK
  <2>3. \A a \in Actors : at'[a] = "finish" => at[a] = "finish" /\ arg'[a] = arg[a]
    BY <2>2
  <2>4. ASSUME NEW e \in walked' \cap Dirs PROVE pending'[e] > 0 \/ pending'[e] = pending[e]
    <3>1. pending[e] \in Nat
      BY DEF TypeOK
    <3>2. pending'[e] = pending[e] \/ pending'[e] = pending[e] + 1
      BY <1>3 DEF GoFile, TypeOK
    <3> QED BY <3>1, <3>2
  <2>5. ASSUME ~ stopped', NEW e \in walked' \cap Dirs
        PROVE  \/ pending'[e] > 0
               \/ \E a \in Actors : at'[a] \in {"last", "finish"} /\ arg'[a] = e
               \/ /\ e \in walked /\ ~ pending[e] > 0
                  /\ \A a \in Actors : at[a] \in {"last", "finish"} /\ arg[a] = e =>
                        at'[a] \in {"last", "finish"} /\ arg'[a] = e
    BY <2>1, <2>2, <2>4
  <2> QED BY <2>1, <2>3, <2>5, FinishedKept
<1>4. ASSUME NEW w \in Workers, Send(w) PROVE Finished'
  <2>1. UNCHANGED <<pending, finishes, walked, ended>> /\ (~ stopped' => ~ stopped)
    BY <1>4 DEF Send, pool, walk
  <2>2. \A b \in Actors : \/ at'[b] = at[b] /\ arg'[b] = arg[b]
                         \/ {at[b], at'[b]} \cap {"last", "finish"} = {}
    BY <1>4, WhoIsWho DEF Send, TypeOK, local
  <2> QED BY <2>1, <2>2, FinishedQuiet
<1>5. CASE SendRefused
  <2>1. /\ UNCHANGED <<finishes, ended, walked>> /\ stopped /\ stopped' /\ at[Walker] = "send"
    BY <1>5 DEF SendRefused, pool, walk
  <2>2. /\ at'[Walker] \in {"walk", "wait"}
        /\ \A a \in Actors \ {Walker} : at'[a] = at[a] /\ arg'[a] = arg[a]
    BY <1>5, WhoIsWho DEF SendRefused, Goto, With, TypeOK
  <2>3. \A a \in Actors : at'[a] = "finish" => at[a] = "finish" /\ arg'[a] = arg[a]
    BY <2>2
  <2> QED BY <2>1, <2>3, FinishedKept
<1>6. CASE CloseDir
  <2>1. UNCHANGED <<pending, finishes, walked, ended>> /\ (~ stopped' => ~ stopped)
    BY <1>6 DEF CloseDir, pool, walk
  <2>2. \A b \in Actors : \/ at'[b] = at[b] /\ arg'[b] = arg[b]
                         \/ {at[b], at'[b]} \cap {"last", "finish"} = {}
    BY <1>6, WhoIsWho DEF CloseDir, TypeOK, local, Goto, With
  <2> QED BY <2>1, <2>2, FinishedQuiet
<1>7. CASE WalkEnd
  <2>1. UNCHANGED <<pending, finishes, walked, ended>> /\ (~ stopped' => ~ stopped)
    BY <1>7 DEF WalkEnd, pool, walk
  <2>2. \A b \in Actors : \/ at'[b] = at[b] /\ arg'[b] = arg[b]
                         \/ {at[b], at'[b]} \cap {"last", "finish"} = {}
    BY <1>7, WhoIsWho DEF WalkEnd, TypeOK, local, Goto
  <2> QED BY <2>1, <2>2, FinishedQuiet
<1>8. CASE WaitReturns
  <2>1. UNCHANGED <<pending, finishes, walked, ended>> /\ (~ stopped' => ~ stopped)
    BY <1>8 DEF WaitReturns, pool, walk
  <2>2. \A b \in Actors : \/ at'[b] = at[b] /\ arg'[b] = arg[b]
                         \/ {at[b], at'[b]} \cap {"last", "finish"} = {}
    BY <1>8, WhoIsWho DEF WaitReturns, TypeOK, local, Goto
  <2> QED BY <2>1, <2>2, FinishedQuiet
<1>9. ASSUME NEW w \in Workers, TakeJob(w) PROVE Finished'
  <2>1. UNCHANGED <<pending, finishes, walked, ended>> /\ (~ stopped' => ~ stopped)
    BY <1>9 DEF TakeJob, pool, walk
  <2>2. at[w] = "got" /\ at'[w] \in {"idle", "ask", "copy"} /\ \A a \in Actors \ {w} : at'[a] = at[a] /\ arg'[a] = arg[a]
    BY <1>9, WhoIsWho DEF TakeJob, Goto, With, TypeOK
  <2>3. \A b \in Actors : \/ at'[b] = at[b] /\ arg'[b] = arg[b]
                         \/ {at[b], at'[b]} \cap {"last", "finish"} = {}
    BY <2>2
  <2> QED BY <2>1, <2>3, FinishedQuiet
<1>10. ASSUME NEW w \in Workers, JobMoves(w) PROVE Finished'
  <2>1. UNCHANGED <<pending, finishes, walked, ended>> /\ (~ stopped' => ~ stopped)
    BY <1>10 DEF JobMoves, pool, walk
  <2>2. \A b \in Actors : \/ at'[b] = at[b] /\ arg'[b] = arg[b]
                         \/ {at[b], at'[b]} \cap {"last", "finish"} = {}
    BY <1>10, WhoIsWho DEF JobMoves, TypeOK, local, Goto
  <2> QED BY <2>1, <2>2, FinishedQuiet
<1>11. ASSUME NEW w \in Workers, JobEnds(w) PROVE Finished'
  <2>1. UNCHANGED <<pending, finishes, walked, stopped, arg>>
    BY <1>11 DEF JobEnds, pool, walk
  <2>2. \A b \in Actors : at'[b] = at[b] \/ {at[b], at'[b]} \cap {"last", "finish"} = {}
    BY <1>11, WhoIsWho DEF JobEnds, TypeOK, Goto
  <2>3. \A f \in Files : ended[f] # None => ended'[f] # None
    BY <1>11 DEF JobEnds, TypeOK, None
  <2> QED BY <2>1, <2>2, <2>3, FinishedQuiet
<1>12. ASSUME NEW w \in Workers, Release(w) PROVE Finished'
  <2>1. UNCHANGED <<pending, finishes, walked, ended>> /\ (~ stopped' => ~ stopped)
    BY <1>12 DEF Release, pool, walk
  <2>2. \A b \in Actors : \/ at'[b] = at[b] /\ arg'[b] = arg[b]
                         \/ {at[b], at'[b]} \cap {"last", "finish"} = {}
    BY <1>12, WhoIsWho DEF Release, TypeOK, local, Goto, With
  <2> QED BY <2>1, <2>2, FinishedQuiet
<1>13. ASSUME NEW w \in Workers, FailRecord(w) PROVE Finished'
  <2>1. UNCHANGED <<pending, finishes, walked, ended>> /\ (~ stopped' => ~ stopped)
    BY <1>13 DEF FailRecord, pool, walk
  <2>2. \A b \in Actors : \/ at'[b] = at[b] /\ arg'[b] = arg[b]
                         \/ {at[b], at'[b]} \cap {"last", "finish"} = {}
    BY <1>13, WhoIsWho DEF FailRecord, TypeOK, local, Goto
  <2> QED BY <2>1, <2>2, FinishedQuiet
<1>14. ASSUME NEW w \in Workers, FailCancel(w) PROVE Finished'
  <2>1. UNCHANGED <<pending, finishes, walked, ended>> /\ (~ stopped' => ~ stopped)
    BY <1>14 DEF FailCancel, pool, walk
  <2>2. \A b \in Actors : \/ at'[b] = at[b] /\ arg'[b] = arg[b]
                         \/ {at[b], at'[b]} \cap {"last", "finish"} = {}
    BY <1>14, WhoIsWho DEF FailCancel, TypeOK, local, Goto
  <2> QED BY <2>1, <2>2, FinishedQuiet
<1>15. ASSUME NEW w \in Workers, WorkerLeaves(w) PROVE Finished'
  <2>1. UNCHANGED <<pending, finishes, walked, ended>> /\ (~ stopped' => ~ stopped)
    BY <1>15 DEF WorkerLeaves, pool, walk
  <2>2. \A b \in Actors : \/ at'[b] = at[b] /\ arg'[b] = arg[b]
                         \/ {at[b], at'[b]} \cap {"last", "finish"} = {}
    BY <1>15, WhoIsWho DEF WorkerLeaves, TypeOK, local, Goto
  <2> QED BY <2>1, <2>2, FinishedQuiet
<1>16. ASSUME NEW a \in Actors, DoneCount(a) PROVE Finished'
  <2>1. PICK p \in Dirs : p = arg[a] /\ pending[p] > 0 /\ at[a] = "done"
    BY <1>16, DoerIsCounted DEF DoneCount
  <2>2. /\ UNCHANGED <<finishes, walked, ended, stopped>> /\ \A e \in Dirs \ {p} : pending'[e] = pending[e]
        /\ pending'[p] = pending[p] - 1
        /\ \A b \in Actors \ {a} : at'[b] = at[b] /\ arg'[b] = arg[b]
        /\ IF pending'[p] # 0 THEN at'[a] \in {"walk", "idle", "fail"} ELSE at'[a] = "last" /\ arg'[a] = p
    BY <1>16, <2>1 DEF DoneCount, Goto, With, Continue, TypeOK, pool, walk
  <2>3. \A b \in Actors : at'[b] = "finish" => at[b] = "finish" /\ arg'[b] = arg[b]
    BY <2>2
  <2>4. pending[p] \in Nat
    BY DEF TypeOK
  <2>5. ASSUME ~ stopped', NEW e \in walked' \cap Dirs
        PROVE  \/ pending'[e] > 0
               \/ \E b \in Actors : at'[b] \in {"last", "finish"} /\ arg'[b] = e
               \/ /\ e \in walked /\ ~ pending[e] > 0
                  /\ \A b \in Actors : at[b] \in {"last", "finish"} /\ arg[b] = e =>
                        at'[b] \in {"last", "finish"} /\ arg'[b] = e
    <3>1. CASE e = p
      <4>1. CASE pending'[p] = 0
        BY <2>2, <3>1, <4>1
      <4>2. CASE pending'[p] # 0
        BY <2>1, <2>2, <2>4, <3>1, <4>2
      <4> QED BY <4>1, <4>2
    <3>2. CASE e # p
      BY <2>1, <2>2, <3>2
    <3> QED BY <3>1, <3>2
  <2> QED BY <2>2, <2>3, <2>5, FinishedKept
<1>17. ASSUME NEW a \in Actors, DoneLast(a) PROVE Finished'
  <2>1. /\ UNCHANGED <<finishes, ended, walked, stopped, arg, pending>> /\ at[a] = "last"
        /\ \A b \in Actors \ {a} : at'[b] = at[b]
        /\ at'[a] = IF stopped THEN "up" ELSE "finish"
    BY <1>17 DEF DoneLast, Goto, TypeOK, pool, walk
  <2>2. CASE stopped
    <3>1. \A b \in Actors : at'[b] = "finish" => at[b] = "finish" /\ arg'[b] = arg[b]
      BY <2>1, <2>2
    <3> QED BY <2>1, <2>2, <3>1, FinishedKept
  <2>3. CASE ~ stopped
    <3>1. Complete(arg[a])
      BY <2>1, <2>3, LastIsComplete
    <3>2. \A e \in Dirs : Complete(e)' <=> Complete(e)
      BY <2>1 DEF Complete
    <3>3. \A b \in Actors : at'[b] = "finish" => arg[b] \in Dirs /\ Complete(arg[b])
      BY <2>1, <3>1 DEF Finished, Places, FinishPlaces
    <3>4. \A b \in Actors : at'[b] = "finish" => Complete(arg[b])'
      BY <2>1, <3>3 DEF Complete
    <3>5. \A e \in Dirs : finishes'[e] > 0 => Complete(e)'
      BY <2>1, <3>2 DEF Finished
    <3>6. ASSUME ~ stopped', NEW e \in walked' \cap Dirs
          PROVE  \/ pending'[e] > 0 \/ finishes'[e] = 1
                 \/ \E b \in Actors : at'[b] \in {"last", "finish"} /\ arg'[b] = e
      BY <2>1, <2>3 DEF Finished
    <3> QED BY <3>4, <3>5, <3>6 DEF Finished
  <2> QED BY <2>2, <2>3
<1>18. ASSUME NEW a \in Actors, DoneFinish(a) PROVE Finished'
  <2>1. PICK p \in Dirs : p = arg[a] /\ at[a] = "finish" /\ Finishing(a, p) /\ Complete(p)
    BY <1>18 DEF DoneFinish, Places, FinishPlaces, Finishing, Finished
  <2>2. finishes[p] = 0
    BY <2>1 DEF OneLast
  <2>3. /\ UNCHANGED <<pending, walked, arg, ended, stopped>> /\ at'[a] = "up" /\ \A b \in Actors \ {a} : at'[b] = at[b]
        /\ finishes'[p] = 1 /\ \A e \in Dirs \ {p} : finishes'[e] = finishes[e]
    BY <1>18, <2>1, <2>2 DEF DoneFinish, Goto, TypeOK, walk, pool
  <2>4. \A e \in Dirs : Complete(e) => Complete(e)'
    <3>1. \A s \in Dirs : finishes[s] > 0 => finishes'[s] = finishes[s]
      BY <2>2, <2>3
    <3> QED BY <2>3, <3>1, CompleteStays
  <2>5. ASSUME NEW b \in Actors, at'[b] = "finish" PROVE Complete(arg[b])'
    <3>1. PICK e \in Dirs : e = arg[b] /\ e = arg'[b] /\ Complete(e)
      BY <2>3, <2>5 DEF Finished, Places, FinishPlaces
    <3>2. Complete(e)'
      BY <2>4, <3>1
    <3> QED BY <3>1, <3>2 DEF Complete
  <2>6. \A e \in Dirs : finishes'[e] > 0 => Complete(e)'
    BY <2>1, <2>3, <2>4 DEF Finished
  <2>7. ASSUME ~ stopped', NEW e \in walked' \cap Dirs
        PROVE  \/ pending'[e] > 0 \/ finishes'[e] = 1
               \/ \E b \in Actors : at'[b] \in {"last", "finish"} /\ arg'[b] = e
    BY <2>1, <2>3, <2>7 DEF Finished
  <2> QED BY <2>5, <2>6, <2>7 DEF Finished
<1>19. ASSUME NEW a \in Actors, DoneParent(a) PROVE Finished'
  <2>1. UNCHANGED <<pending, finishes, walked, ended, stopped>>
    BY <1>19 DEF DoneParent, pool, walk
  <2>2. at[a] = "up" /\ at'[a] \in {"walk", "idle", "fail", "done"} /\ \A b \in Actors \ {a} : at'[b] = at[b] /\ arg'[b] = arg[b]
    BY <1>19 DEF DoneParent, Goto, With, Continue, TypeOK
  <2>3. \A b \in Actors : \/ at'[b] = at[b] /\ arg'[b] = arg[b]
                         \/ {at[b], at'[b]} \cap {"last", "finish"} = {}
    BY <2>2
  <2> QED BY <2>1, <2>3, FinishedQuiet
<1>20. CASE UNCHANGED vars
  <2>1. UNCHANGED <<pending, finishes, walked, ended, stopped, at, arg>>
    BY <1>20 DEF vars, pool, walk, local
  <2> QED BY <2>1, FinishedQuiet
<1> QED
  BY StepKinds, <1>1, <1>2, <1>3, <1>4, <1>5, <1>6, <1>7, <1>8, <1>9, <1>10,
     <1>11, <1>12, <1>13, <1>14, <1>15, <1>16, <1>17, <1>18, <1>19, <1>20

\* Once Wait has returned nobody is anywhere.
LEMMA AllGone == ASSUME TypeOK, Returned, result # None PROVE \A a \in Actors : at[a] = "gone"
  BY WhoIsWho DEF Returned

\* Steps that touch no error, and send a worker to no place that asks for one.
LEMMA ErrorsKept ==
  ASSUME Errors, UNCHANGED <<stopped, cancelled, err, joberr, ended>>, result # None => result' # None,
         \A w \in Workers :
           /\ at'[w] \in (JobPlaces \ {"release"}) \cup {"idle", "gone"} =>
                at[w] \in (JobPlaces \ {"release"}) \cup {"idle", "gone"} \/ joberr[w] = None
           /\ at'[w] = "fail" => at[w] = "fail" \/ joberr[w] # None
           /\ at'[w] = "cancel" => at[w] = "cancel"
  PROVE  Errors'
<1>1. \A w \in Workers :
       /\ at'[w] \in (JobPlaces \ {"release"}) \cup {"idle", "gone"} => joberr'[w] = None
       /\ at'[w] = "fail" => joberr'[w] # None
       /\ at'[w] = "cancel" => err' # None
       /\ joberr'[w] \in Files => ended'[joberr'[w]] = "failed"
       /\ joberr'[w] = "cancel" => cancelled' \/ err' # None
  BY DEF Errors
<1>2. /\ cancelled' => stopped'
      /\ stopped' => cancelled' \/ err' # None \/ result' # None
      /\ err' \in Files => ended'[err'] = "failed"
      /\ err' = "cancel" => cancelled'
  BY DEF Errors
<1>3. \A f \in Files :
       /\ ended'[f] = "failed" => err' # None \/ \E w \in Workers : joberr'[w] = f
       /\ ended'[f] = "cancel" => stopped'
  BY DEF Errors
<1> QED BY <1>1, <1>2, <1>3 DEF Errors

LEMMA ErrorsHold ==
  ASSUME TypeOK, Places, OneJob, Errors, Returned, [Next]_vars
  PROVE  Errors'
<1>1. CASE ParentCancel
  <2>1. UNCHANGED <<err, result, joberr, ended, at>> /\ cancelled' /\ stopped'
    BY <1>1 DEF ParentCancel, local
  <2> QED BY <2>1 DEF Errors
<1>2. ASSUME NEW d \in Dirs, OpenDir(d) PROVE Errors'
  <2>1. UNCHANGED <<stopped, cancelled, err, result, joberr, ended>>
    BY <1>2 DEF OpenDir, pool, local
  <2>2. \A x \in Workers :
           /\ at'[x] \in (JobPlaces \ {"release"}) \cup {"idle", "gone"} =>
                at[x] \in (JobPlaces \ {"release"}) \cup {"idle", "gone"} \/ joberr[x] = None
           /\ at'[x] = "fail" => at[x] = "fail" \/ joberr[x] # None
           /\ at'[x] = "cancel" => at[x] = "cancel"
    BY <1>2, WhoIsWho DEF OpenDir, TypeOK, JobPlaces, local
  <2> QED BY <2>1, <2>2, ErrorsKept
<1>3. ASSUME NEW f \in Files, GoFile(f) PROVE Errors'
  <2>1. UNCHANGED <<stopped, cancelled, err, result, joberr, ended>>
    BY <1>3 DEF GoFile, pool, local
  <2>2. \A b \in Actors \ {Walker} : at'[b] = at[b]
    BY <1>3, WhoIsWho DEF GoFile, TypeOK, Goto
  <2>3. \A x \in Workers :
           /\ at'[x] \in (JobPlaces \ {"release"}) \cup {"idle", "gone"} =>
                at[x] \in (JobPlaces \ {"release"}) \cup {"idle", "gone"} \/ joberr[x] = None
           /\ at'[x] = "fail" => at[x] = "fail" \/ joberr[x] # None
           /\ at'[x] = "cancel" => at[x] = "cancel"
    BY <2>2, WhoIsWho
  <2> QED BY <2>1, <2>3, ErrorsKept
<1>4. ASSUME NEW w \in Workers, Send(w) PROVE Errors'
  <2>1. UNCHANGED <<stopped, cancelled, err, result, joberr, ended>>
    BY <1>4 DEF Send, pool, local
  <2>2. \A x \in Workers :
           /\ at'[x] \in (JobPlaces \ {"release"}) \cup {"idle", "gone"} =>
                at[x] \in (JobPlaces \ {"release"}) \cup {"idle", "gone"} \/ joberr[x] = None
           /\ at'[x] = "fail" => at[x] = "fail" \/ joberr[x] # None
           /\ at'[x] = "cancel" => at[x] = "cancel"
    BY <1>4, WhoIsWho DEF Send, TypeOK, JobPlaces, local
  <2> QED BY <2>1, <2>2, ErrorsKept
<1>5. CASE SendRefused
  <2>1. UNCHANGED <<stopped, cancelled, err, result, joberr, ended>>
    BY <1>5 DEF SendRefused, pool, local
  <2>2. \A b \in Actors \ {Walker} : at'[b] = at[b]
    BY <1>5, WhoIsWho DEF SendRefused, TypeOK, Goto
  <2>3. \A x \in Workers :
           /\ at'[x] \in (JobPlaces \ {"release"}) \cup {"idle", "gone"} =>
                at[x] \in (JobPlaces \ {"release"}) \cup {"idle", "gone"} \/ joberr[x] = None
           /\ at'[x] = "fail" => at[x] = "fail" \/ joberr[x] # None
           /\ at'[x] = "cancel" => at[x] = "cancel"
    BY <2>2, WhoIsWho
  <2> QED BY <2>1, <2>3, ErrorsKept
<1>6. CASE CloseDir
  <2>1. UNCHANGED <<stopped, cancelled, err, result, joberr, ended>>
    BY <1>6 DEF CloseDir, pool, local
  <2>2. \A x \in Workers :
           /\ at'[x] \in (JobPlaces \ {"release"}) \cup {"idle", "gone"} =>
                at[x] \in (JobPlaces \ {"release"}) \cup {"idle", "gone"} \/ joberr[x] = None
           /\ at'[x] = "fail" => at[x] = "fail" \/ joberr[x] # None
           /\ at'[x] = "cancel" => at[x] = "cancel"
    BY <1>6, WhoIsWho DEF CloseDir, TypeOK, JobPlaces, local, Goto, With
  <2> QED BY <2>1, <2>2, ErrorsKept
<1>7. CASE WalkEnd
  <2>1. UNCHANGED <<stopped, cancelled, err, result, joberr, ended>>
    BY <1>7 DEF WalkEnd, pool, local
  <2>2. \A x \in Workers :
           /\ at'[x] \in (JobPlaces \ {"release"}) \cup {"idle", "gone"} =>
                at[x] \in (JobPlaces \ {"release"}) \cup {"idle", "gone"} \/ joberr[x] = None
           /\ at'[x] = "fail" => at[x] = "fail" \/ joberr[x] # None
           /\ at'[x] = "cancel" => at[x] = "cancel"
    BY <1>7, WhoIsWho DEF WalkEnd, TypeOK, JobPlaces, local, Goto
  <2> QED BY <2>1, <2>2, ErrorsKept
<1>8. CASE WaitReturns
  <2>1. UNCHANGED <<err, cancelled, joberr, ended>> /\ stopped' /\ \A b \in Workers : at'[b] = at[b]
    BY <1>8, WhoIsWho DEF WaitReturns, Goto, TypeOK
  <2>2. result' # None
    BY <1>8 DEF WaitReturns, None
  <2> QED BY <2>1, <2>2 DEF Errors
<1>9. ASSUME NEW w \in Workers, TakeJob(w) PROVE Errors'
  <2>1. UNCHANGED <<stopped, cancelled, err, result, joberr, ended>>
    BY <1>9 DEF TakeJob, pool, local
  <2>2. at[w] = "got" /\ at'[w] \in {"idle", "ask", "copy"} /\ \A b \in Actors \ {w} : at'[b] = at[b]
    BY <1>9, WhoIsWho DEF TakeJob, TypeOK, Goto
  <2>3. \A x \in Workers :
           /\ at'[x] \in (JobPlaces \ {"release"}) \cup {"idle", "gone"} =>
                at[x] \in (JobPlaces \ {"release"}) \cup {"idle", "gone"} \/ joberr[x] = None
           /\ at'[x] = "fail" => at[x] = "fail" \/ joberr[x] # None
           /\ at'[x] = "cancel" => at[x] = "cancel"
    BY <2>2, WhoIsWho DEF JobPlaces
  <2> QED BY <2>1, <2>3, ErrorsKept
<1>10. ASSUME NEW w \in Workers, JobMoves(w) PROVE Errors'
  <2>1. UNCHANGED <<stopped, cancelled, err, result, joberr, ended>>
    BY <1>10 DEF JobMoves, pool, local
  <2>2. \A x \in Workers :
           /\ at'[x] \in (JobPlaces \ {"release"}) \cup {"idle", "gone"} =>
                at[x] \in (JobPlaces \ {"release"}) \cup {"idle", "gone"} \/ joberr[x] = None
           /\ at'[x] = "fail" => at[x] = "fail" \/ joberr[x] # None
           /\ at'[x] = "cancel" => at[x] = "cancel"
    BY <1>10, WhoIsWho DEF JobMoves, TypeOK, JobPlaces, local, Goto
  <2> QED BY <2>1, <2>2, ErrorsKept
<1>11. ASSUME NEW w \in Workers, JobEnds(w) PROVE Errors'
  <2>1. /\ UNCHANGED <<stopped, cancelled, err, result, arg>> /\ at'[w] = "release" /\ joberr[w] = None
        /\ \A x \in Workers \ {w} : at'[x] = at[x]
    BY <1>11, WhoIsWho DEF JobEnds, TypeOK, Goto, pool, Errors, JobPlaces
  <2>2. PICK f \in Files : f = arg[w] /\ ended[f] = None /\ f # "cancel" /\ f # None
    <3>1. arg[w] \in Files /\ HasFile(w, arg[w]) /\ at[w] # "release"
      BY <1>11, WhoIsWho DEF JobEnds, Places, JobPlaces, HasFile
    <3> QED BY <3>1, WhoIsWho, CopyAssumption DEF OneJob
  <2>3. PICK how \in {"copied", "failed", "cancel"} :
          /\ how = "cancel" => stopped
          /\ ended'[f] = how /\ \A g \in Files \ {f} : ended'[g] = ended[g]
          /\ joberr'[w] = (CASE how = "copied" -> None [] how = "failed" -> f [] OTHER -> how)
          /\ \A x \in Workers \ {w} : joberr'[x] = joberr[x]
    BY <1>11, <2>2 DEF JobEnds, TypeOK
  <2>4. result = None
    <3>1. at[w] # "gone"
      BY <1>11 DEF JobEnds
    <3> QED BY <3>1 DEF Returned
  <2>5. /\ how = "copied" => joberr'[w] = None
        /\ how = "failed" => joberr'[w] = f
        /\ how = "cancel" => joberr'[w] = "cancel" /\ (cancelled \/ err # None)
    BY <2>3, <2>4 DEF Errors
  <2>6. ASSUME NEW x \in Workers
        PROVE  /\ at'[x] \in (JobPlaces \ {"release"}) \cup {"idle", "gone"} => joberr'[x] = None
               /\ at'[x] = "fail" => joberr'[x] # None
               /\ at'[x] = "cancel" => err' # None
               /\ joberr'[x] \in Files => ended'[joberr'[x]] = "failed"
               /\ joberr'[x] = "cancel" => cancelled' \/ err' # None
    <3>1. CASE x = w
      <4>1. at'[x] = "release" /\ None \notin Files /\ "cancel" \notin Files /\ None # "cancel"
        BY <2>1, <3>1, CopyAssumption DEF None
      <4> QED BY <2>1, <2>2, <2>3, <2>5, <3>1, <4>1
    <3>2. CASE x # w
      BY <2>1, <2>2, <2>3, <3>2 DEF Errors, None
    <3> QED BY <3>1, <3>2
  <2>7. /\ cancelled' => stopped'
        /\ stopped' => cancelled' \/ err' # None \/ result' # None
        /\ err' \in Files => ended'[err'] = "failed"
        /\ err' = "cancel" => cancelled'
    BY <2>1, <2>2, <2>3 DEF Errors, None
  <2>8. ASSUME NEW g \in Files
        PROVE  /\ ended'[g] = "failed" => err' # None \/ \E x \in Workers : joberr'[x] = g
               /\ ended'[g] = "cancel" => stopped'
    <3>1. CASE g = f
      BY <2>1, <2>2, <2>3, <2>5, <3>1
    <3>2. CASE g # f
      <4>1. ended'[g] = "cancel" => stopped'
        BY <2>1, <2>3, <3>2 DEF Errors
      <4>2. ASSUME NEW x \in Workers, joberr[x] = g PROVE joberr'[x] = g
        <5>1. x # w
          BY <2>1, <4>2, CopyAssumption
        <5> QED BY <2>3, <4>2, <5>1
      <4> QED BY <2>1, <2>3, <3>2, <4>1, <4>2 DEF Errors
    <3> QED BY <3>1, <3>2
  <2> QED BY <2>6, <2>7, <2>8 DEF Errors
<1>12. ASSUME NEW w \in Workers, Release(w) PROVE Errors'
  <2>1. UNCHANGED <<stopped, cancelled, err, result, joberr, ended>>
    BY <1>12 DEF Release, pool, local
  <2>2. \A x \in Workers :
           /\ at'[x] \in (JobPlaces \ {"release"}) \cup {"idle", "gone"} =>
                at[x] \in (JobPlaces \ {"release"}) \cup {"idle", "gone"} \/ joberr[x] = None
           /\ at'[x] = "fail" => at[x] = "fail" \/ joberr[x] # None
           /\ at'[x] = "cancel" => at[x] = "cancel"
    BY <1>12, WhoIsWho DEF Release, TypeOK, JobPlaces, local, Goto, With
  <2> QED BY <2>1, <2>2, ErrorsKept
<1>13. ASSUME NEW w \in Workers, FailRecord(w) PROVE Errors'
  <2>1. /\ UNCHANGED <<stopped, cancelled, result, joberr, ended>> /\ at[w] = "fail" /\ at'[w] = "cancel"
        /\ err' = (IF err = None THEN joberr[w] ELSE err)
        /\ \A x \in Workers \ {w} : at'[x] = at[x]
    BY <1>13, WhoIsWho DEF FailRecord, TypeOK, Goto
  <2>2. joberr[w] # None
    BY <2>1 DEF Errors
  <2>3. err' # None /\ (err # None => err' = err) /\ (err = None => err' = joberr[w])
    BY <2>1, <2>2
  <2>4. \A x \in Workers :
       /\ at'[x] \in (JobPlaces \ {"release"}) \cup {"idle", "gone"} => joberr'[x] = None
       /\ at'[x] = "fail" => joberr'[x] # None
       /\ at'[x] = "cancel" => err' # None
       /\ joberr'[x] \in Files => ended'[joberr'[x]] = "failed"
       /\ joberr'[x] = "cancel" => cancelled' \/ err' # None
    BY <2>1, <2>3 DEF Errors, JobPlaces
  <2>5. /\ cancelled' => stopped'
        /\ stopped' => cancelled' \/ err' # None \/ result' # None
    BY <2>1, <2>3 DEF Errors
  <2>6. (err' \in Files => ended'[err'] = "failed") /\ (err' = "cancel" => cancelled')
    BY <2>1, <2>3 DEF Errors
  <2>7. \A f \in Files :
       /\ ended'[f] = "failed" => err' # None \/ \E x \in Workers : joberr'[x] = f
       /\ ended'[f] = "cancel" => stopped'
    BY <2>1, <2>3 DEF Errors
  <2> QED BY <2>4, <2>5, <2>6, <2>7 DEF Errors
<1>14. ASSUME NEW w \in Workers, FailCancel(w) PROVE Errors'
  <2>1. /\ UNCHANGED <<cancelled, err, result, ended>> /\ stopped' /\ at[w] = "cancel" /\ at'[w] = "idle"
        /\ joberr'[w] = None
        /\ \A x \in Workers \ {w} : at'[x] = at[x] /\ joberr'[x] = joberr[x]
    BY <1>14, WhoIsWho DEF FailCancel, TypeOK, Goto
  <2>2. err # None
    BY <2>1 DEF Errors
  <2>3. None \notin Files /\ None # "cancel"
    BY CopyAssumption DEF None
  <2>4. \A x \in Workers :
       /\ at'[x] \in (JobPlaces \ {"release"}) \cup {"idle", "gone"} => joberr'[x] = None
       /\ at'[x] = "fail" => joberr'[x] # None
       /\ at'[x] = "cancel" => err' # None
       /\ joberr'[x] \in Files => ended'[joberr'[x]] = "failed"
       /\ joberr'[x] = "cancel" => cancelled' \/ err' # None
    BY <2>1, <2>2, <2>3 DEF Errors, JobPlaces
  <2> QED BY <2>1, <2>2, <2>4 DEF Errors
<1>15. ASSUME NEW w \in Workers, WorkerLeaves(w) PROVE Errors'
  <2>1. UNCHANGED <<stopped, cancelled, err, result, joberr, ended>>
    BY <1>15 DEF WorkerLeaves, pool, local
  <2>2. \A x \in Workers :
           /\ at'[x] \in (JobPlaces \ {"release"}) \cup {"idle", "gone"} =>
                at[x] \in (JobPlaces \ {"release"}) \cup {"idle", "gone"} \/ joberr[x] = None
           /\ at'[x] = "fail" => at[x] = "fail" \/ joberr[x] # None
           /\ at'[x] = "cancel" => at[x] = "cancel"
    BY <1>15, WhoIsWho DEF WorkerLeaves, TypeOK, JobPlaces, local, Goto
  <2> QED BY <2>1, <2>2, ErrorsKept
<1>16. ASSUME NEW a \in Actors, DoneCount(a) PROVE Errors'
  <2>1. UNCHANGED <<stopped, cancelled, err, result, joberr, ended>>
    BY <1>16 DEF DoneCount, pool, local
  <2>2. /\ at'[a] = "done" \/ at'[a] = "last" \/ at'[a] = (IF a = Walker THEN "walk" ELSE IF joberr[a] = None THEN "idle" ELSE "fail")
        /\ \A b \in Actors \ {a} : at'[b] = at[b]
    BY <1>16, WhoIsWho DEF DoneCount, TypeOK, Goto, Continue
  <2>3. \A x \in Workers :
           /\ at'[x] \in (JobPlaces \ {"release"}) \cup {"idle", "gone"} =>
                at[x] \in (JobPlaces \ {"release"}) \cup {"idle", "gone"} \/ joberr[x] = None
           /\ at'[x] = "fail" => at[x] = "fail" \/ joberr[x] # None
           /\ at'[x] = "cancel" => at[x] = "cancel"
    BY <2>2, WhoIsWho DEF JobPlaces
  <2> QED BY <2>1, <2>3, ErrorsKept
<1>17. ASSUME NEW a \in Actors, DoneLast(a) PROVE Errors'
  <2>1. UNCHANGED <<stopped, cancelled, err, result, joberr, ended>>
    BY <1>17 DEF DoneLast, pool, local
  <2>2. \A x \in Workers :
           /\ at'[x] \in (JobPlaces \ {"release"}) \cup {"idle", "gone"} =>
                at[x] \in (JobPlaces \ {"release"}) \cup {"idle", "gone"} \/ joberr[x] = None
           /\ at'[x] = "fail" => at[x] = "fail" \/ joberr[x] # None
           /\ at'[x] = "cancel" => at[x] = "cancel"
    BY <1>17, WhoIsWho DEF DoneLast, TypeOK, JobPlaces, local, Goto
  <2> QED BY <2>1, <2>2, ErrorsKept
<1>18. ASSUME NEW a \in Actors, DoneFinish(a) PROVE Errors'
  <2>1. UNCHANGED <<stopped, cancelled, err, result, joberr, ended>>
    BY <1>18 DEF DoneFinish, pool, local
  <2>2. \A x \in Workers :
           /\ at'[x] \in (JobPlaces \ {"release"}) \cup {"idle", "gone"} =>
                at[x] \in (JobPlaces \ {"release"}) \cup {"idle", "gone"} \/ joberr[x] = None
           /\ at'[x] = "fail" => at[x] = "fail" \/ joberr[x] # None
           /\ at'[x] = "cancel" => at[x] = "cancel"
    BY <1>18, WhoIsWho DEF DoneFinish, TypeOK, JobPlaces, local, Goto
  <2> QED BY <2>1, <2>2, ErrorsKept
<1>19. ASSUME NEW a \in Actors, DoneParent(a) PROVE Errors'
  <2>1. UNCHANGED <<stopped, cancelled, err, result, joberr, ended>>
    BY <1>19 DEF DoneParent, pool, local
  <2>2. /\ at'[a] = "done" \/ at'[a] = "last" \/ at'[a] = (IF a = Walker THEN "walk" ELSE IF joberr[a] = None THEN "idle" ELSE "fail")
        /\ \A b \in Actors \ {a} : at'[b] = at[b]
    BY <1>19, WhoIsWho DEF DoneParent, TypeOK, Goto, Continue
  <2>3. \A x \in Workers :
           /\ at'[x] \in (JobPlaces \ {"release"}) \cup {"idle", "gone"} =>
                at[x] \in (JobPlaces \ {"release"}) \cup {"idle", "gone"} \/ joberr[x] = None
           /\ at'[x] = "fail" => at[x] = "fail" \/ joberr[x] # None
           /\ at'[x] = "cancel" => at[x] = "cancel"
    BY <2>2, WhoIsWho DEF JobPlaces
  <2> QED BY <2>1, <2>3, ErrorsKept
<1>20. CASE UNCHANGED vars
  <2>1. UNCHANGED <<stopped, cancelled, err, result, joberr, ended, at>>
    BY <1>20 DEF vars, pool, local
  <2> QED BY <2>1, ErrorsKept
<1> QED
  BY StepKinds, <1>1, <1>2, <1>3, <1>4, <1>5, <1>6, <1>7, <1>8, <1>9, <1>10,
     <1>11, <1>12, <1>13, <1>14, <1>15, <1>16, <1>17, <1>18, <1>19, <1>20

LEMMA ReturnedKept ==
  ASSUME Returned, result' = result, stopped => stopped',
         (at'[Walker] = "gone") = (at[Walker] = "gone"),
         at[Walker] \in {"wait", "gone"} => at'[Walker] = at[Walker],
         \A w \in Workers : (at'[w] = "gone" => at[w] = "gone" \/ at[Walker] = "wait") /\ (at[w] = "gone" => at'[w] = "gone")
  PROVE  Returned'
  BY DEF Returned

LEMMA ReturnedHolds ==
  ASSUME TypeOK, Places, Returned, [Next]_vars
  PROVE  Returned'
<1>1. CASE ParentCancel
  <2>1. result' = result /\ (stopped => stopped')
    BY <1>1 DEF ParentCancel, pool
  <2>2. /\ (at'[Walker] = "gone") = (at[Walker] = "gone")
        /\ at[Walker] \in {"wait", "gone"} => at'[Walker] = at[Walker]
    BY <1>1, WhoIsWho DEF ParentCancel, TypeOK, Places, Goto, Continue, local, FinishPlaces
  <2>3. \A x \in Workers : (at'[x] = "gone" => at[x] = "gone" \/ at[Walker] = "wait") /\ (at[x] = "gone" => at'[x] = "gone")
    BY <1>1, WhoIsWho DEF ParentCancel, TypeOK, Places, Goto, Continue, local, FinishPlaces, JobPlaces
  <2> QED BY <2>1, <2>2, <2>3, ReturnedKept
<1>2. ASSUME NEW d \in Dirs, OpenDir(d) PROVE Returned'
  <2>1. result' = result /\ (stopped => stopped')
    BY <1>2 DEF OpenDir, pool
  <2>2. /\ (at'[Walker] = "gone") = (at[Walker] = "gone")
        /\ at[Walker] \in {"wait", "gone"} => at'[Walker] = at[Walker]
    BY <1>2, WhoIsWho DEF OpenDir, TypeOK, Places, Goto, Continue, local, FinishPlaces
  <2>3. \A x \in Workers : (at'[x] = "gone" => at[x] = "gone" \/ at[Walker] = "wait") /\ (at[x] = "gone" => at'[x] = "gone")
    BY <1>2, WhoIsWho DEF OpenDir, TypeOK, Places, Goto, Continue, local, FinishPlaces, JobPlaces
  <2> QED BY <2>1, <2>2, <2>3, ReturnedKept
<1>3. ASSUME NEW f \in Files, GoFile(f) PROVE Returned'
  <2>1. result' = result /\ (stopped => stopped')
    BY <1>3 DEF GoFile, pool
  <2>2. /\ (at'[Walker] = "gone") = (at[Walker] = "gone")
        /\ at[Walker] \in {"wait", "gone"} => at'[Walker] = at[Walker]
    BY <1>3, WhoIsWho DEF GoFile, TypeOK, Places, Goto, Continue, local, FinishPlaces
  <2>3. \A x \in Workers : (at'[x] = "gone" => at[x] = "gone" \/ at[Walker] = "wait") /\ (at[x] = "gone" => at'[x] = "gone")
    BY <1>3, WhoIsWho DEF GoFile, TypeOK, Places, Goto, Continue, local, FinishPlaces, JobPlaces
  <2> QED BY <2>1, <2>2, <2>3, ReturnedKept
<1>4. ASSUME NEW w \in Workers, Send(w) PROVE Returned'
  <2>1. result' = result /\ (stopped => stopped')
    BY <1>4 DEF Send, pool
  <2>2. /\ (at'[Walker] = "gone") = (at[Walker] = "gone")
        /\ at[Walker] \in {"wait", "gone"} => at'[Walker] = at[Walker]
    BY <1>4, WhoIsWho DEF Send, TypeOK, Places, Goto, Continue, local, FinishPlaces
  <2>3. \A x \in Workers : (at'[x] = "gone" => at[x] = "gone" \/ at[Walker] = "wait") /\ (at[x] = "gone" => at'[x] = "gone")
    BY <1>4, WhoIsWho DEF Send, TypeOK, Places, Goto, Continue, local, FinishPlaces, JobPlaces
  <2> QED BY <2>1, <2>2, <2>3, ReturnedKept
<1>5. CASE SendRefused
  <2>1. result' = result /\ (stopped => stopped')
    BY <1>5 DEF SendRefused, pool
  <2>2. /\ (at'[Walker] = "gone") = (at[Walker] = "gone")
        /\ at[Walker] \in {"wait", "gone"} => at'[Walker] = at[Walker]
    BY <1>5, WhoIsWho DEF SendRefused, TypeOK, Places, Goto, Continue, local, FinishPlaces
  <2>3. \A x \in Workers : (at'[x] = "gone" => at[x] = "gone" \/ at[Walker] = "wait") /\ (at[x] = "gone" => at'[x] = "gone")
    BY <1>5, WhoIsWho DEF SendRefused, TypeOK, Places, Goto, Continue, local, FinishPlaces, JobPlaces
  <2> QED BY <2>1, <2>2, <2>3, ReturnedKept
<1>6. CASE CloseDir
  <2>1. result' = result /\ (stopped => stopped')
    BY <1>6 DEF CloseDir, pool
  <2>2. /\ (at'[Walker] = "gone") = (at[Walker] = "gone")
        /\ at[Walker] \in {"wait", "gone"} => at'[Walker] = at[Walker]
    BY <1>6, WhoIsWho DEF CloseDir, TypeOK, Places, Goto, Continue, local, FinishPlaces
  <2>3. \A x \in Workers : (at'[x] = "gone" => at[x] = "gone" \/ at[Walker] = "wait") /\ (at[x] = "gone" => at'[x] = "gone")
    BY <1>6, WhoIsWho DEF CloseDir, TypeOK, Places, Goto, Continue, local, FinishPlaces, JobPlaces
  <2> QED BY <2>1, <2>2, <2>3, ReturnedKept
<1>7. CASE WalkEnd
  <2>1. result' = result /\ (stopped => stopped')
    BY <1>7 DEF WalkEnd, pool
  <2>2. /\ (at'[Walker] = "gone") = (at[Walker] = "gone")
        /\ at[Walker] \in {"wait", "gone"} => at'[Walker] = at[Walker]
    BY <1>7, WhoIsWho DEF WalkEnd, TypeOK, Places, Goto, Continue, local, FinishPlaces
  <2>3. \A x \in Workers : (at'[x] = "gone" => at[x] = "gone" \/ at[Walker] = "wait") /\ (at[x] = "gone" => at'[x] = "gone")
    BY <1>7, WhoIsWho DEF WalkEnd, TypeOK, Places, Goto, Continue, local, FinishPlaces, JobPlaces
  <2> QED BY <2>1, <2>2, <2>3, ReturnedKept
<1>8. CASE WaitReturns
  <2>1. result' # None
    BY <1>8 DEF WaitReturns, None
  <2>2. at'[Walker] = "gone" /\ stopped' /\ \A x \in Workers : at[x] = "gone" /\ at'[x] = "gone"
    BY <1>8, WhoIsWho DEF WaitReturns, Goto, TypeOK
  <2> QED BY <2>1, <2>2 DEF Returned
<1>9. ASSUME NEW w \in Workers, TakeJob(w) PROVE Returned'
  <2>1. result' = result /\ (stopped => stopped')
    BY <1>9 DEF TakeJob, pool
  <2>2. /\ (at'[Walker] = "gone") = (at[Walker] = "gone")
        /\ at[Walker] \in {"wait", "gone"} => at'[Walker] = at[Walker]
    BY <1>9, WhoIsWho DEF TakeJob, TypeOK, Places, Goto, Continue, local, FinishPlaces
  <2>3. \A x \in Workers : (at'[x] = "gone" => at[x] = "gone" \/ at[Walker] = "wait") /\ (at[x] = "gone" => at'[x] = "gone")
    BY <1>9, WhoIsWho DEF TakeJob, TypeOK, Places, Goto, Continue, local, FinishPlaces, JobPlaces
  <2> QED BY <2>1, <2>2, <2>3, ReturnedKept
<1>10. ASSUME NEW w \in Workers, JobMoves(w) PROVE Returned'
  <2>1. result' = result /\ (stopped => stopped')
    BY <1>10 DEF JobMoves, pool
  <2>2. /\ (at'[Walker] = "gone") = (at[Walker] = "gone")
        /\ at[Walker] \in {"wait", "gone"} => at'[Walker] = at[Walker]
    BY <1>10, WhoIsWho DEF JobMoves, TypeOK, Places, Goto, Continue, local, FinishPlaces
  <2>3. \A x \in Workers : (at'[x] = "gone" => at[x] = "gone" \/ at[Walker] = "wait") /\ (at[x] = "gone" => at'[x] = "gone")
    BY <1>10, WhoIsWho DEF JobMoves, TypeOK, Places, Goto, Continue, local, FinishPlaces, JobPlaces
  <2> QED BY <2>1, <2>2, <2>3, ReturnedKept
<1>11. ASSUME NEW w \in Workers, JobEnds(w) PROVE Returned'
  <2>1. result' = result /\ (stopped => stopped')
    BY <1>11 DEF JobEnds, pool
  <2>2. /\ (at'[Walker] = "gone") = (at[Walker] = "gone")
        /\ at[Walker] \in {"wait", "gone"} => at'[Walker] = at[Walker]
    BY <1>11, WhoIsWho DEF JobEnds, TypeOK, Places, Goto, Continue, local, FinishPlaces
  <2>3. \A x \in Workers : (at'[x] = "gone" => at[x] = "gone" \/ at[Walker] = "wait") /\ (at[x] = "gone" => at'[x] = "gone")
    BY <1>11, WhoIsWho DEF JobEnds, TypeOK, Places, Goto, Continue, local, FinishPlaces, JobPlaces
  <2> QED BY <2>1, <2>2, <2>3, ReturnedKept
<1>12. ASSUME NEW w \in Workers, Release(w) PROVE Returned'
  <2>1. result' = result /\ (stopped => stopped')
    BY <1>12 DEF Release, pool
  <2>2. /\ (at'[Walker] = "gone") = (at[Walker] = "gone")
        /\ at[Walker] \in {"wait", "gone"} => at'[Walker] = at[Walker]
    BY <1>12, WhoIsWho DEF Release, TypeOK, Places, Goto, Continue, local, FinishPlaces
  <2>3. \A x \in Workers : (at'[x] = "gone" => at[x] = "gone" \/ at[Walker] = "wait") /\ (at[x] = "gone" => at'[x] = "gone")
    BY <1>12, WhoIsWho DEF Release, TypeOK, Places, Goto, Continue, local, FinishPlaces, JobPlaces
  <2> QED BY <2>1, <2>2, <2>3, ReturnedKept
<1>13. ASSUME NEW w \in Workers, FailRecord(w) PROVE Returned'
  <2>1. result' = result /\ (stopped => stopped')
    BY <1>13 DEF FailRecord, pool
  <2>2. /\ (at'[Walker] = "gone") = (at[Walker] = "gone")
        /\ at[Walker] \in {"wait", "gone"} => at'[Walker] = at[Walker]
    BY <1>13, WhoIsWho DEF FailRecord, TypeOK, Places, Goto, Continue, local, FinishPlaces
  <2>3. \A x \in Workers : (at'[x] = "gone" => at[x] = "gone" \/ at[Walker] = "wait") /\ (at[x] = "gone" => at'[x] = "gone")
    BY <1>13, WhoIsWho DEF FailRecord, TypeOK, Places, Goto, Continue, local, FinishPlaces, JobPlaces
  <2> QED BY <2>1, <2>2, <2>3, ReturnedKept
<1>14. ASSUME NEW w \in Workers, FailCancel(w) PROVE Returned'
  <2>1. result' = result /\ (stopped => stopped')
    BY <1>14 DEF FailCancel, pool
  <2>2. /\ (at'[Walker] = "gone") = (at[Walker] = "gone")
        /\ at[Walker] \in {"wait", "gone"} => at'[Walker] = at[Walker]
    BY <1>14, WhoIsWho DEF FailCancel, TypeOK, Places, Goto, Continue, local, FinishPlaces
  <2>3. \A x \in Workers : (at'[x] = "gone" => at[x] = "gone" \/ at[Walker] = "wait") /\ (at[x] = "gone" => at'[x] = "gone")
    BY <1>14, WhoIsWho DEF FailCancel, TypeOK, Places, Goto, Continue, local, FinishPlaces, JobPlaces
  <2> QED BY <2>1, <2>2, <2>3, ReturnedKept
<1>15. ASSUME NEW w \in Workers, WorkerLeaves(w) PROVE Returned'
  <2>1. result' = result /\ (stopped => stopped')
    BY <1>15 DEF WorkerLeaves, pool
  <2>2. /\ (at'[Walker] = "gone") = (at[Walker] = "gone")
        /\ at[Walker] \in {"wait", "gone"} => at'[Walker] = at[Walker]
    BY <1>15, WhoIsWho DEF WorkerLeaves, TypeOK, Places, Goto, Continue, local, FinishPlaces
  <2>3. \A x \in Workers : (at'[x] = "gone" => at[x] = "gone" \/ at[Walker] = "wait") /\ (at[x] = "gone" => at'[x] = "gone")
    BY <1>15, WhoIsWho DEF WorkerLeaves, TypeOK, Places, Goto, Continue, local, FinishPlaces, JobPlaces
  <2> QED BY <2>1, <2>2, <2>3, ReturnedKept
<1>16. ASSUME NEW a \in Actors, DoneCount(a) PROVE Returned'
  <2>1. result' = result /\ (stopped => stopped')
    BY <1>16 DEF DoneCount, pool
  <2>2. /\ (at'[Walker] = "gone") = (at[Walker] = "gone")
        /\ at[Walker] \in {"wait", "gone"} => at'[Walker] = at[Walker]
    BY <1>16, WhoIsWho DEF DoneCount, TypeOK, Places, Goto, Continue, local, FinishPlaces
  <2>3. \A x \in Workers : (at'[x] = "gone" => at[x] = "gone" \/ at[Walker] = "wait") /\ (at[x] = "gone" => at'[x] = "gone")
    BY <1>16, WhoIsWho DEF DoneCount, TypeOK, Places, Goto, Continue, local, FinishPlaces, JobPlaces
  <2> QED BY <2>1, <2>2, <2>3, ReturnedKept
<1>17. ASSUME NEW a \in Actors, DoneLast(a) PROVE Returned'
  <2>1. result' = result /\ (stopped => stopped')
    BY <1>17 DEF DoneLast, pool
  <2>2. /\ (at'[Walker] = "gone") = (at[Walker] = "gone")
        /\ at[Walker] \in {"wait", "gone"} => at'[Walker] = at[Walker]
    BY <1>17, WhoIsWho DEF DoneLast, TypeOK, Places, Goto, Continue, local, FinishPlaces
  <2>3. \A x \in Workers : (at'[x] = "gone" => at[x] = "gone" \/ at[Walker] = "wait") /\ (at[x] = "gone" => at'[x] = "gone")
    BY <1>17, WhoIsWho DEF DoneLast, TypeOK, Places, Goto, Continue, local, FinishPlaces, JobPlaces
  <2> QED BY <2>1, <2>2, <2>3, ReturnedKept
<1>18. ASSUME NEW a \in Actors, DoneFinish(a) PROVE Returned'
  <2>1. result' = result /\ (stopped => stopped')
    BY <1>18 DEF DoneFinish, pool
  <2>2. /\ (at'[Walker] = "gone") = (at[Walker] = "gone")
        /\ at[Walker] \in {"wait", "gone"} => at'[Walker] = at[Walker]
    BY <1>18, WhoIsWho DEF DoneFinish, TypeOK, Places, Goto, Continue, local, FinishPlaces
  <2>3. \A x \in Workers : (at'[x] = "gone" => at[x] = "gone" \/ at[Walker] = "wait") /\ (at[x] = "gone" => at'[x] = "gone")
    BY <1>18, WhoIsWho DEF DoneFinish, TypeOK, Places, Goto, Continue, local, FinishPlaces, JobPlaces
  <2> QED BY <2>1, <2>2, <2>3, ReturnedKept
<1>19. ASSUME NEW a \in Actors, DoneParent(a) PROVE Returned'
  <2>1. result' = result /\ (stopped => stopped')
    BY <1>19 DEF DoneParent, pool
  <2>2. /\ (at'[Walker] = "gone") = (at[Walker] = "gone")
        /\ at[Walker] \in {"wait", "gone"} => at'[Walker] = at[Walker]
    BY <1>19, WhoIsWho DEF DoneParent, TypeOK, Places, Goto, Continue, local, FinishPlaces
  <2>3. \A x \in Workers : (at'[x] = "gone" => at[x] = "gone" \/ at[Walker] = "wait") /\ (at[x] = "gone" => at'[x] = "gone")
    BY <1>19, WhoIsWho DEF DoneParent, TypeOK, Places, Goto, Continue, local, FinishPlaces, JobPlaces
  <2> QED BY <2>1, <2>2, <2>3, ReturnedKept
<1>20. CASE UNCHANGED vars
  <2>1. UNCHANGED <<result, stopped, at>>
    BY <1>20 DEF vars, pool, local
  <2> QED BY <2>1, ReturnedKept
<1> QED
  BY StepKinds, <1>1, <1>2, <1>3, <1>4, <1>5, <1>6, <1>7, <1>8, <1>9, <1>10,
     <1>11, <1>12, <1>13, <1>14, <1>15, <1>16, <1>17, <1>18, <1>19, <1>20

\* When Wait returns without an error, nothing was left undone.
LEMMA NothingLeft ==
  ASSUME TypeOK, Places, Walk, OneJob, Counts, OneLast, Finished, Errors, Returned,
         at[Walker] = "wait", \A w \in Workers : at[w] = "gone", err = None, ~ stopped
  PROVE  /\ \A f \in Files : ended[f] = "copied"
         /\ \A d \in Dirs : finishes[d] = 1
<1>1. \A a \in Actors : at[a] \in {"wait", "gone"}
  BY WhoIsWho
<1>2. stack = <<>> /\ Root \in walked /\ Range(stack) = {}
  BY DEF Walk, Range
<1>3. walked \cap Dirs = Dirs
  <2> DEFINE S == walked \cap Dirs
  <2>1. S \in SUBSET Dirs /\ Root \in S
    BY <1>2, CopyAssumption
  <2>2. \A d \in S : Subdirs(d) \subseteq S
    BY <1>2 DEF Walk, Subdirs
  <2> HIDE DEF S
  <2>3. S = Dirs
    BY <2>1, <2>2, RootReaches
  <2> QED BY <2>3 DEF S
<1>4. \A a \in Actors, d \in Dirs : ~ Holds(a, d) /\ ~ Finishing(a, d)
  BY <1>1 DEF Holds, Finishing, JobPlaces, FinishPlaces
<1>5. \A d \in Dirs : ~ Alive(d)
  <2> DEFINE S == {d \in Dirs : Alive(d)}
  <2>1. SUFFICES ASSUME S # {} PROVE FALSE
    OBVIOUS
  <2>2. PICK d \in S : Subdirs(d) \cap S = {}
    BY <2>1, CopyAssumption
  <2>3. \A s \in Subdirs(d) : ~ Alive(s)
    BY <2>2 DEF Subdirs
  <2>4. Holding(d) = {}
    BY <1>2, <1>4, <2>3 DEF Holding
  <2>5. Cardinality(Holding(d)) = 0
    BY <2>4, FS_EmptySet
  <2>6. pending[d] = 0
    BY <2>5 DEF Counts, Counted
  <2> QED BY <1>4, <2>6 DEF Alive
<1>6. ASSUME NEW d \in Dirs PROVE finishes[d] = 1
  BY <1>1, <1>3, <1>5 DEF Finished, Alive
<1>7. ASSUME NEW f \in Files PROVE ended[f] = "copied"
  <2>1. FileDir[f] \in Dirs /\ f \in walked
    BY <1>2, <1>3, CopyAssumption DEF Walk
  <2>2. \A a \in Actors : ~ HasFile(a, f)
    BY <1>1 DEF HasFile, JobPlaces
  <2>3. ended[f] # None
    BY <2>1, <2>2 DEF OneJob
  <2>4. ended[f] # "cancel"
    BY DEF Errors
  <2>5. \A w \in Workers : joberr[w] = None
    BY DEF Errors
  <2>6. ended[f] # "failed"
    BY <2>5, CopyAssumption DEF Errors
  <2> QED BY <2>3, <2>4, <2>6 DEF TypeOK
<1> QED BY <1>6, <1>7

LEMMA TruthKept ==
  ASSUME WaitIsTruthful, result' = result,
         result # None => ended' = ended /\ finishes' = finishes /\ (cancelled => cancelled')
  PROVE  WaitIsTruthful'
<1>1. CASE result = None
  <2>1. result' # "ok" /\ result' # "cancel" /\ result' \notin Files
    BY <1>1, CopyAssumption DEF None
  <2> QED BY <2>1 DEF WaitIsTruthful
<1>2. CASE result # None
  BY <1>2 DEF WaitIsTruthful
<1> QED BY <1>1, <1>2

LEMMA TruthHolds ==
  ASSUME TypeOK, Places, Walk, OneJob, Counts, OneLast, Finished, Errors, Returned, WaitIsTruthful, [Next]_vars
  PROVE  WaitIsTruthful'
<1>1. CASE ParentCancel
  <2>1. result' = result
    BY <1>1 DEF ParentCancel, pool
  <2>2. result # None => ended' = ended /\ finishes' = finishes /\ (cancelled => cancelled')
    BY <1>1, AllGone, WhoIsWho DEF ParentCancel, pool
  <2> QED BY <2>1, <2>2, TruthKept
<1>2. ASSUME NEW d \in Dirs, OpenDir(d) PROVE WaitIsTruthful'
  <2>1. result' = result
    BY <1>2 DEF OpenDir, pool
  <2>2. result # None => ended' = ended /\ finishes' = finishes /\ (cancelled => cancelled')
    BY <1>2, AllGone, WhoIsWho DEF OpenDir, pool
  <2> QED BY <2>1, <2>2, TruthKept
<1>3. ASSUME NEW f \in Files, GoFile(f) PROVE WaitIsTruthful'
  <2>1. result' = result
    BY <1>3 DEF GoFile, pool
  <2>2. result # None => ended' = ended /\ finishes' = finishes /\ (cancelled => cancelled')
    BY <1>3, AllGone, WhoIsWho DEF GoFile, pool
  <2> QED BY <2>1, <2>2, TruthKept
<1>4. ASSUME NEW w \in Workers, Send(w) PROVE WaitIsTruthful'
  <2>1. result' = result
    BY <1>4 DEF Send, pool
  <2>2. result # None => ended' = ended /\ finishes' = finishes /\ (cancelled => cancelled')
    BY <1>4, AllGone, WhoIsWho DEF Send, pool
  <2> QED BY <2>1, <2>2, TruthKept
<1>5. CASE SendRefused
  <2>1. result' = result
    BY <1>5 DEF SendRefused, pool
  <2>2. result # None => ended' = ended /\ finishes' = finishes /\ (cancelled => cancelled')
    BY <1>5, AllGone, WhoIsWho DEF SendRefused, pool
  <2> QED BY <2>1, <2>2, TruthKept
<1>6. CASE CloseDir
  <2>1. result' = result
    BY <1>6 DEF CloseDir, pool
  <2>2. result # None => ended' = ended /\ finishes' = finishes /\ (cancelled => cancelled')
    BY <1>6, AllGone, WhoIsWho DEF CloseDir, pool
  <2> QED BY <2>1, <2>2, TruthKept
<1>7. CASE WalkEnd
  <2>1. result' = result
    BY <1>7 DEF WalkEnd, pool
  <2>2. result # None => ended' = ended /\ finishes' = finishes /\ (cancelled => cancelled')
    BY <1>7, AllGone, WhoIsWho DEF WalkEnd, pool
  <2> QED BY <2>1, <2>2, TruthKept
<1>8. CASE WaitReturns
  <2>1. /\ UNCHANGED <<ended, finishes, cancelled, err>> /\ at[Walker] = "wait" /\ result = None
        /\ \A w \in Workers : at[w] = "gone"
        /\ result' = IF err # None THEN err ELSE IF stopped THEN "cancel" ELSE "ok"
    BY <1>8, WhoIsWho DEF WaitReturns, Returned
  <2>2. "ok" \notin Files /\ "cancel" \notin Files /\ err # "ok"
    BY CopyAssumption DEF TypeOK, None
  <2>3. CASE err # None
    BY <2>1, <2>2, <2>3 DEF Errors, WaitIsTruthful
  <2>4. CASE err = None /\ stopped
    BY <2>1, <2>2, <2>4 DEF Errors, WaitIsTruthful
  <2>5. CASE err = None /\ ~ stopped
    <3>1. /\ \A f \in Files : ended[f] = "copied"
          /\ \A d \in Dirs : finishes[d] = 1
      BY <2>1, <2>5, NothingLeft
    <3> QED BY <2>1, <2>2, <2>5, <3>1 DEF WaitIsTruthful
  <2> QED BY <2>3, <2>4, <2>5
<1>9. ASSUME NEW w \in Workers, TakeJob(w) PROVE WaitIsTruthful'
  <2>1. result' = result
    BY <1>9 DEF TakeJob, pool
  <2>2. result # None => ended' = ended /\ finishes' = finishes /\ (cancelled => cancelled')
    BY <1>9, AllGone, WhoIsWho DEF TakeJob, pool
  <2> QED BY <2>1, <2>2, TruthKept
<1>10. ASSUME NEW w \in Workers, JobMoves(w) PROVE WaitIsTruthful'
  <2>1. result' = result
    BY <1>10 DEF JobMoves, pool
  <2>2. result # None => ended' = ended /\ finishes' = finishes /\ (cancelled => cancelled')
    BY <1>10, AllGone, WhoIsWho DEF JobMoves, pool
  <2> QED BY <2>1, <2>2, TruthKept
<1>11. ASSUME NEW w \in Workers, JobEnds(w) PROVE WaitIsTruthful'
  <2>1. result' = result
    BY <1>11 DEF JobEnds, pool
  <2>2. result # None => ended' = ended /\ finishes' = finishes /\ (cancelled => cancelled')
    BY <1>11, AllGone, WhoIsWho DEF JobEnds, pool
  <2> QED BY <2>1, <2>2, TruthKept
<1>12. ASSUME NEW w \in Workers, Release(w) PROVE WaitIsTruthful'
  <2>1. result' = result
    BY <1>12 DEF Release, pool
  <2>2. result # None => ended' = ended /\ finishes' = finishes /\ (cancelled => cancelled')
    BY <1>12, AllGone, WhoIsWho DEF Release, pool
  <2> QED BY <2>1, <2>2, TruthKept
<1>13. ASSUME NEW w \in Workers, FailRecord(w) PROVE WaitIsTruthful'
  <2>1. result' = result
    BY <1>13 DEF FailRecord, pool
  <2>2. result # None => ended' = ended /\ finishes' = finishes /\ (cancelled => cancelled')
    BY <1>13, AllGone, WhoIsWho DEF FailRecord, pool
  <2> QED BY <2>1, <2>2, TruthKept
<1>14. ASSUME NEW w \in Workers, FailCancel(w) PROVE WaitIsTruthful'
  <2>1. result' = result
    BY <1>14 DEF FailCancel, pool
  <2>2. result # None => ended' = ended /\ finishes' = finishes /\ (cancelled => cancelled')
    BY <1>14, AllGone, WhoIsWho DEF FailCancel, pool
  <2> QED BY <2>1, <2>2, TruthKept
<1>15. ASSUME NEW w \in Workers, WorkerLeaves(w) PROVE WaitIsTruthful'
  <2>1. result' = result
    BY <1>15 DEF WorkerLeaves, pool
  <2>2. result # None => ended' = ended /\ finishes' = finishes /\ (cancelled => cancelled')
    BY <1>15, AllGone, WhoIsWho DEF WorkerLeaves, pool
  <2> QED BY <2>1, <2>2, TruthKept
<1>16. ASSUME NEW a \in Actors, DoneCount(a) PROVE WaitIsTruthful'
  <2>1. result' = result
    BY <1>16 DEF DoneCount, pool
  <2>2. result # None => ended' = ended /\ finishes' = finishes /\ (cancelled => cancelled')
    BY <1>16, AllGone, WhoIsWho DEF DoneCount, pool
  <2> QED BY <2>1, <2>2, TruthKept
<1>17. ASSUME NEW a \in Actors, DoneLast(a) PROVE WaitIsTruthful'
  <2>1. result' = result
    BY <1>17 DEF DoneLast, pool
  <2>2. result # None => ended' = ended /\ finishes' = finishes /\ (cancelled => cancelled')
    BY <1>17, AllGone, WhoIsWho DEF DoneLast, pool
  <2> QED BY <2>1, <2>2, TruthKept
<1>18. ASSUME NEW a \in Actors, DoneFinish(a) PROVE WaitIsTruthful'
  <2>1. result' = result
    BY <1>18 DEF DoneFinish, pool
  <2>2. result # None => ended' = ended /\ finishes' = finishes /\ (cancelled => cancelled')
    BY <1>18, AllGone, WhoIsWho DEF DoneFinish, pool
  <2> QED BY <2>1, <2>2, TruthKept
<1>19. ASSUME NEW a \in Actors, DoneParent(a) PROVE WaitIsTruthful'
  <2>1. result' = result
    BY <1>19 DEF DoneParent, pool
  <2>2. result # None => ended' = ended /\ finishes' = finishes /\ (cancelled => cancelled')
    BY <1>19, AllGone, WhoIsWho DEF DoneParent, pool
  <2> QED BY <2>1, <2>2, TruthKept
<1>20. CASE UNCHANGED vars
  <2>1. UNCHANGED <<result, ended, finishes, cancelled>>
    BY <1>20 DEF vars, pool
  <2> QED BY <2>1, TruthKept
<1> QED
  BY StepKinds, <1>1, <1>2, <1>3, <1>4, <1>5, <1>6, <1>7, <1>8, <1>9, <1>10,
     <1>11, <1>12, <1>13, <1>14, <1>15, <1>16, <1>17, <1>18, <1>19, <1>20

\* The views are apart while nobody takes one or gives one back.
LEMMA ViewingKept ==
  ASSUME Viewing, UNCHANGED views,
         \A w \in Workers : at'[w] \in JobPlaces \ {"got"} <=> at[w] \in JobPlaces \ {"got"}
  PROVE  Viewing'
<1>1. idle' = idle /\ view' = view /\ made' = made
  BY DEF views
<1>2. \A w \in Workers : view'[w] # 0 <=> at'[w] \in JobPlaces \ {"got"}
  BY <1>1 DEF Viewing
<1>3. /\ IsInjective(idle') /\ Range(idle') \subseteq 1..made'
      /\ \A w, x \in Workers : view'[w] # 0 => view'[w] \notin Range(idle') /\ (view'[w] = view'[x] => w = x)
      /\ \A v \in 1..made' : v \in Range(idle') \/ \E w \in Workers : view'[w] = v
      /\ made' <= Cardinality(Workers)
  BY <1>1 DEF Viewing
<1> QED BY <1>2, <1>3 DEF Viewing

\* With no view idle and a worker without one, a new one keeps within the workers.
LEMMA RoomForOne ==
  ASSUME TypeOK, Viewing, idle = <<>>, NEW w \in Workers, view[w] = 0
  PROVE  made + 1 <= Cardinality(Workers)
<1> DEFINE T == Workers \ {w}
           h == [v \in 1..made |-> CHOOSE x \in Workers : view[x] = v]
<1>1. \A v \in 1..made : \E x \in Workers : view[x] = v
  BY DEF Viewing, Range
<1>2. \A v \in 1..made : h[v] \in Workers /\ view[h[v]] = v
  BY <1>1
<1>3. \A v \in 1..made : h[v] \in T
  BY <1>2
<1>4. h \in [1..made -> T]
  BY <1>3
<1>5. IsInjective(h)
  BY <1>2 DEF IsInjective
<1>6. IsFiniteSet(T) /\ Cardinality(T) = Cardinality(Workers) - 1 /\ Cardinality(Workers) \in Nat
  BY CopyAssumption, FS_RemoveElement, FS_CardinalityType
<1> HIDE DEF h, T
<1>7. h \in Injection(1..made, T)
  BY <1>4, <1>5 DEF Injection
<1>8. Cardinality(1..made) <= Cardinality(T)
  BY <1>6, <1>7, FS_Injection
<1>9. Cardinality(1..made) = made
  BY FS_Interval DEF TypeOK
<1> QED BY <1>6, <1>8, <1>9 DEF TypeOK

LEMMA TakesView ==
  ASSUME TypeOK, Viewing, NEW w \in Workers, view[w] = 0, Acquire(w)
  PROVE  /\ IsInjective(idle') /\ Range(idle') \subseteq 1..made' /\ made' <= Cardinality(Workers)
         /\ view'[w] \in 1..made' /\ view'[w] \notin Range(idle')
         /\ \A x \in Workers \ {w} : view'[x] = view[x] /\ view[x] # view'[w]
         /\ Range(idle') \subseteq Range(idle)
         /\ \A v \in 1..made' : v \in 1..made \/ v = view'[w]
         /\ \A v \in Range(idle) : v \in Range(idle') \/ v = view'[w]
<1>1. CASE idle # <<>>
  <2>1. view' = [view EXCEPT ![w] = Last(idle)] /\ idle' = Front(idle) /\ made' = made
    BY <1>1 DEF Acquire
  <2>2. idle \in Seq(Nat) /\ IsInjective(idle) /\ Range(idle) \subseteq 1..made
    BY DEF TypeOK, Viewing
  <2>3. IsInjective(idle') /\ Last(idle) \in Range(idle) /\ Range(idle') = Range(idle) \ {Last(idle)}
    BY <1>1, <2>1, <2>2, TakenOff
  <2>4. view'[w] = Last(idle) /\ \A x \in Workers \ {w} : view'[x] = view[x]
    BY <2>1 DEF TypeOK
  <2>5. Last(idle) \in 1..made /\ Last(idle) # 0
    BY <2>2, <2>3
  <2>6. \A x \in Workers \ {w} : view[x] # Last(idle)
    BY <2>3, <2>5 DEF Viewing
  <2>7. made' <= Cardinality(Workers)
    BY <2>1 DEF Viewing
  <2> QED BY <2>1, <2>2, <2>3, <2>4, <2>5, <2>6, <2>7
<1>2. CASE idle = <<>>
  <2>1. view' = [view EXCEPT ![w] = made + 1] /\ made' = made + 1 /\ idle' = idle
    BY <1>2 DEF Acquire
  <2>2. Range(idle) = {} /\ IsInjective(idle) /\ made \in Nat
    BY <1>2 DEF Range, Viewing, TypeOK
  <2>3. made' <= Cardinality(Workers)
    BY <1>2, <2>1, RoomForOne
  <2>4. view'[w] = made + 1 /\ \A x \in Workers \ {w} : view'[x] = view[x] /\ view[x] \in 0..made
    BY <2>1 DEF TypeOK
  <2>5. \A x \in Workers \ {w} : view[x] # made + 1
    BY <2>2, <2>4
  <2> QED BY <2>1, <2>2, <2>3, <2>4, <2>5
<1> QED BY <1>1, <1>2

LEMMA ViewingHolds ==
  ASSUME TypeOK, Places, Viewing, [Next]_vars
  PROVE  Viewing'
<1>1. CASE ParentCancel
  <2>1. UNCHANGED views
    BY <1>1 DEF ParentCancel
  <2>2. \A x \in Workers : at'[x] \in JobPlaces \ {"got"} <=> at[x] \in JobPlaces \ {"got"}
    BY <1>1, WhoIsWho DEF ParentCancel, TypeOK, JobPlaces, Goto, Continue, local
  <2> QED BY <2>1, <2>2, ViewingKept
<1>2. ASSUME NEW d \in Dirs, OpenDir(d) PROVE Viewing'
  <2>1. UNCHANGED views
    BY <1>2 DEF OpenDir
  <2>2. \A x \in Workers : at'[x] \in JobPlaces \ {"got"} <=> at[x] \in JobPlaces \ {"got"}
    BY <1>2, WhoIsWho DEF OpenDir, TypeOK, JobPlaces, Goto, Continue, local
  <2> QED BY <2>1, <2>2, ViewingKept
<1>3. ASSUME NEW f \in Files, GoFile(f) PROVE Viewing'
  <2>1. UNCHANGED views
    BY <1>3 DEF GoFile
  <2>2. \A x \in Workers : at'[x] \in JobPlaces \ {"got"} <=> at[x] \in JobPlaces \ {"got"}
    BY <1>3, WhoIsWho DEF GoFile, TypeOK, JobPlaces, Goto, Continue, local
  <2> QED BY <2>1, <2>2, ViewingKept
<1>4. ASSUME NEW w \in Workers, Send(w) PROVE Viewing'
  <2>1. UNCHANGED views
    BY <1>4 DEF Send
  <2>2. \A x \in Workers : at'[x] \in JobPlaces \ {"got"} <=> at[x] \in JobPlaces \ {"got"}
    BY <1>4, WhoIsWho DEF Send, TypeOK, JobPlaces, Goto, Continue, local
  <2> QED BY <2>1, <2>2, ViewingKept
<1>5. CASE SendRefused
  <2>1. UNCHANGED views
    BY <1>5 DEF SendRefused
  <2>2. \A x \in Workers : at'[x] \in JobPlaces \ {"got"} <=> at[x] \in JobPlaces \ {"got"}
    BY <1>5, WhoIsWho DEF SendRefused, TypeOK, JobPlaces, Goto, Continue, local
  <2> QED BY <2>1, <2>2, ViewingKept
<1>6. CASE CloseDir
  <2>1. UNCHANGED views
    BY <1>6 DEF CloseDir
  <2>2. \A x \in Workers : at'[x] \in JobPlaces \ {"got"} <=> at[x] \in JobPlaces \ {"got"}
    BY <1>6, WhoIsWho DEF CloseDir, TypeOK, JobPlaces, Goto, Continue, local
  <2> QED BY <2>1, <2>2, ViewingKept
<1>7. CASE WalkEnd
  <2>1. UNCHANGED views
    BY <1>7 DEF WalkEnd
  <2>2. \A x \in Workers : at'[x] \in JobPlaces \ {"got"} <=> at[x] \in JobPlaces \ {"got"}
    BY <1>7, WhoIsWho DEF WalkEnd, TypeOK, JobPlaces, Goto, Continue, local
  <2> QED BY <2>1, <2>2, ViewingKept
<1>8. CASE WaitReturns
  <2>1. UNCHANGED views
    BY <1>8 DEF WaitReturns
  <2>2. \A x \in Workers : at'[x] \in JobPlaces \ {"got"} <=> at[x] \in JobPlaces \ {"got"}
    BY <1>8, WhoIsWho DEF WaitReturns, TypeOK, JobPlaces, Goto, Continue, local
  <2> QED BY <2>1, <2>2, ViewingKept
<1>9. ASSUME NEW w \in Workers, TakeJob(w) PROVE Viewing'
  <2>1. CASE stopped
    <3>1. UNCHANGED views /\ at[w] = "got" /\ at'[w] = "idle" /\ \A x \in Workers \ {w} : at'[x] = at[x]
      BY <1>9, <2>1, WhoIsWho DEF TakeJob, Goto, TypeOK
    <3>2. \A x \in Workers : at'[x] \in JobPlaces \ {"got"} <=> at[x] \in JobPlaces \ {"got"}
      BY <3>1 DEF JobPlaces
    <3> QED BY <3>1, <3>2, ViewingKept
  <2>2. CASE ~ stopped
    <3>1. Acquire(w) /\ at[w] = "got" /\ at'[w] \in {"ask", "copy"} /\ \A x \in Workers \ {w} : at'[x] = at[x]
      BY <1>9, <2>2, WhoIsWho DEF TakeJob, Goto, TypeOK
    <3>2. view[w] = 0
      BY <3>1 DEF Viewing
    <3>3. /\ IsInjective(idle') /\ Range(idle') \subseteq 1..made' /\ made' <= Cardinality(Workers)
          /\ view'[w] \in 1..made' /\ view'[w] \notin Range(idle')
          /\ \A x \in Workers \ {w} : view'[x] = view[x] /\ view[x] # view'[w]
          /\ Range(idle') \subseteq Range(idle)
          /\ \A v \in 1..made' : v \in 1..made \/ v = view'[w]
          /\ \A v \in Range(idle) : v \in Range(idle') \/ v = view'[w]
      BY <3>1, <3>2, TakesView
    <3>4. view'[w] # 0
      BY <3>3
    <3>5. \A x \in Workers : view'[x] # 0 <=> at'[x] \in JobPlaces \ {"got"}
      BY <3>1, <3>3, <3>4 DEF Viewing, JobPlaces
    <3>6. ASSUME NEW x \in Workers, NEW y \in Workers, view'[x] # 0
          PROVE  view'[x] \notin Range(idle') /\ (view'[x] = view'[y] => x = y)
      <4>1. CASE x = w
        BY <3>3, <4>1
      <4>2. CASE x # w
        BY <3>3, <3>6, <4>2 DEF Viewing
      <4> QED BY <4>1, <4>2
    <3>7. ASSUME NEW v \in 1..made' PROVE v \in Range(idle') \/ \E x \in Workers : view'[x] = v
      <4>1. CASE v = view'[w]
        BY <4>1
      <4>2. CASE v # view'[w] /\ v \in Range(idle)
        BY <3>3, <4>2
      <4>3. CASE v # view'[w] /\ v \notin Range(idle)
        <5>1. v \in 1..made
          BY <3>3, <3>7, <4>3
        <5>2. PICK x \in Workers : view[x] = v
          BY <4>3, <5>1 DEF Viewing
        <5>3. x # w
          BY <3>2, <5>1, <5>2
        <5> QED BY <3>3, <5>2, <5>3
      <4> QED BY <4>1, <4>2, <4>3
    <3> QED BY <3>3, <3>5, <3>6, <3>7 DEF Viewing
  <2> QED BY <2>1, <2>2
<1>10. ASSUME NEW w \in Workers, JobMoves(w) PROVE Viewing'
  <2>1. UNCHANGED views
    BY <1>10 DEF JobMoves
  <2>2. \A x \in Workers : at'[x] \in JobPlaces \ {"got"} <=> at[x] \in JobPlaces \ {"got"}
    BY <1>10, WhoIsWho DEF JobMoves, TypeOK, JobPlaces, Goto, Continue, local
  <2> QED BY <2>1, <2>2, ViewingKept
<1>11. ASSUME NEW w \in Workers, JobEnds(w) PROVE Viewing'
  <2>1. UNCHANGED views
    BY <1>11 DEF JobEnds
  <2>2. \A x \in Workers : at'[x] \in JobPlaces \ {"got"} <=> at[x] \in JobPlaces \ {"got"}
    BY <1>11, WhoIsWho DEF JobEnds, TypeOK, JobPlaces, Goto, Continue, local
  <2> QED BY <2>1, <2>2, ViewingKept
<1>12. ASSUME NEW w \in Workers, Release(w) PROVE Viewing'
  <2>1. /\ at[w] = "release" /\ at'[w] = "done" /\ \A x \in Workers \ {w} : at'[x] = at[x]
        /\ idle' = Append(idle, view[w]) /\ made' = made
        /\ view'[w] = 0 /\ \A x \in Workers \ {w} : view'[x] = view[x]
    BY <1>12, WhoIsWho DEF Release, Goto, TypeOK
  <2>2. view[w] # 0 /\ view[w] \in 1..made
    BY <2>1 DEF Viewing, JobPlaces, TypeOK
  <2>3. view[w] \notin Range(idle) /\ \A x \in Workers \ {w} : view[x] # view[w]
    BY <2>2 DEF Viewing
  <2>4. IsInjective(idle') /\ Range(idle') = Range(idle) \cup {view[w]}
    <3>1. idle \in Seq(Nat) /\ IsInjective(idle) /\ view[w] \in Nat
      BY <2>2 DEF TypeOK, Viewing
    <3> QED BY <2>1, <2>3, <3>1, PushedOn
  <2>5. Range(idle') \subseteq 1..made' /\ made' <= Cardinality(Workers)
    BY <2>1, <2>2, <2>4 DEF Viewing
  <2>6. \A x \in Workers : view'[x] # 0 <=> at'[x] \in JobPlaces \ {"got"}
    BY <2>1 DEF Viewing, JobPlaces
  <2>7. \A x, y \in Workers : view'[x] # 0 => view'[x] \notin Range(idle') /\ (view'[x] = view'[y] => x = y)
    BY <2>1, <2>3, <2>4 DEF Viewing
  <2>8. ASSUME NEW v \in 1..made' PROVE v \in Range(idle') \/ \E x \in Workers : view'[x] = v
    <3>1. v \in Range(idle) \/ \E x \in Workers : view[x] = v
      BY <2>1, <2>8 DEF Viewing
    <3> QED BY <2>1, <2>4, <3>1
  <2> QED BY <2>4, <2>5, <2>6, <2>7, <2>8 DEF Viewing
<1>13. ASSUME NEW w \in Workers, FailRecord(w) PROVE Viewing'
  <2>1. UNCHANGED views
    BY <1>13 DEF FailRecord
  <2>2. \A x \in Workers : at'[x] \in JobPlaces \ {"got"} <=> at[x] \in JobPlaces \ {"got"}
    BY <1>13, WhoIsWho DEF FailRecord, TypeOK, JobPlaces, Goto, Continue, local
  <2> QED BY <2>1, <2>2, ViewingKept
<1>14. ASSUME NEW w \in Workers, FailCancel(w) PROVE Viewing'
  <2>1. UNCHANGED views
    BY <1>14 DEF FailCancel
  <2>2. \A x \in Workers : at'[x] \in JobPlaces \ {"got"} <=> at[x] \in JobPlaces \ {"got"}
    BY <1>14, WhoIsWho DEF FailCancel, TypeOK, JobPlaces, Goto, Continue, local
  <2> QED BY <2>1, <2>2, ViewingKept
<1>15. ASSUME NEW w \in Workers, WorkerLeaves(w) PROVE Viewing'
  <2>1. UNCHANGED views
    BY <1>15 DEF WorkerLeaves
  <2>2. \A x \in Workers : at'[x] \in JobPlaces \ {"got"} <=> at[x] \in JobPlaces \ {"got"}
    BY <1>15, WhoIsWho DEF WorkerLeaves, TypeOK, JobPlaces, Goto, Continue, local
  <2> QED BY <2>1, <2>2, ViewingKept
<1>16. ASSUME NEW a \in Actors, DoneCount(a) PROVE Viewing'
  <2>1. UNCHANGED views
    BY <1>16 DEF DoneCount
  <2>2. \A x \in Workers : at'[x] \in JobPlaces \ {"got"} <=> at[x] \in JobPlaces \ {"got"}
    BY <1>16, WhoIsWho DEF DoneCount, TypeOK, JobPlaces, Goto, Continue, local
  <2> QED BY <2>1, <2>2, ViewingKept
<1>17. ASSUME NEW a \in Actors, DoneLast(a) PROVE Viewing'
  <2>1. UNCHANGED views
    BY <1>17 DEF DoneLast
  <2>2. \A x \in Workers : at'[x] \in JobPlaces \ {"got"} <=> at[x] \in JobPlaces \ {"got"}
    BY <1>17, WhoIsWho DEF DoneLast, TypeOK, JobPlaces, Goto, Continue, local
  <2> QED BY <2>1, <2>2, ViewingKept
<1>18. ASSUME NEW a \in Actors, DoneFinish(a) PROVE Viewing'
  <2>1. UNCHANGED views
    BY <1>18 DEF DoneFinish
  <2>2. \A x \in Workers : at'[x] \in JobPlaces \ {"got"} <=> at[x] \in JobPlaces \ {"got"}
    BY <1>18, WhoIsWho DEF DoneFinish, TypeOK, JobPlaces, Goto, Continue, local
  <2> QED BY <2>1, <2>2, ViewingKept
<1>19. ASSUME NEW a \in Actors, DoneParent(a) PROVE Viewing'
  <2>1. UNCHANGED views
    BY <1>19 DEF DoneParent
  <2>2. \A x \in Workers : at'[x] \in JobPlaces \ {"got"} <=> at[x] \in JobPlaces \ {"got"}
    BY <1>19, WhoIsWho DEF DoneParent, TypeOK, JobPlaces, Goto, Continue, local
  <2> QED BY <2>1, <2>2, ViewingKept
<1>20. CASE UNCHANGED vars
  <2>1. UNCHANGED <<views, at>>
    BY <1>20 DEF vars, local
  <2> QED BY <2>1, ViewingKept
<1> QED
  BY StepKinds, <1>1, <1>2, <1>3, <1>4, <1>5, <1>6, <1>7, <1>8, <1>9, <1>10,
     <1>11, <1>12, <1>13, <1>14, <1>15, <1>16, <1>17, <1>18, <1>19, <1>20

\* Nobody comes to the gate, leaves it or answers.
LEMMA AskingKept ==
  ASSUME Asking, UNCHANGED asks,
         \A w \in Workers : at'[w] = at[w] \/ {at[w], at'[w]} \cap {"slot", "show"} = {}
  PROVE  Asking'
<1>1. gate' = gate /\ answer' = answer
  BY DEF asks
<1>2. \A w \in Workers : (at'[w] \in {"slot", "show"} <=> at[w] \in {"slot", "show"}) /\ (at'[w] = "show" <=> at[w] = "show")
  OBVIOUS
<1>3. \A w \in Workers : at'[w] \in {"slot", "show"} <=> gate' = w
  BY <1>1, <1>2 DEF Asking
<1>4. \A w \in Workers : at'[w] = "show" => answer' = "each"
  BY <1>1, <1>2 DEF Asking
<1> QED BY <1>3, <1>4 DEF Asking

LEMMA AskingHolds ==
  ASSUME TypeOK, Asking, [Next]_vars
  PROVE  Asking'
<1>1. CASE ParentCancel
  <2>1. UNCHANGED asks
    BY <1>1 DEF ParentCancel
  <2>2. \A x \in Workers : at'[x] = at[x] \/ {at[x], at'[x]} \cap {"slot", "show"} = {}
    BY <1>1, WhoIsWho DEF ParentCancel, TypeOK, local
  <2> QED BY <2>1, <2>2, AskingKept
<1>2. ASSUME NEW d \in Dirs, OpenDir(d) PROVE Asking'
  <2>1. UNCHANGED asks
    BY <1>2 DEF OpenDir
  <2>2. \A x \in Workers : at'[x] = at[x] \/ {at[x], at'[x]} \cap {"slot", "show"} = {}
    BY <1>2, WhoIsWho DEF OpenDir, TypeOK, local
  <2> QED BY <2>1, <2>2, AskingKept
<1>3. ASSUME NEW f \in Files, GoFile(f) PROVE Asking'
  <2>1. UNCHANGED asks
    BY <1>3 DEF GoFile
  <2>2. \A x \in Workers : at'[x] = at[x] \/ {at[x], at'[x]} \cap {"slot", "show"} = {}
    BY <1>3, WhoIsWho DEF GoFile, TypeOK, Goto
  <2> QED BY <2>1, <2>2, AskingKept
<1>4. ASSUME NEW w \in Workers, Send(w) PROVE Asking'
  <2>1. UNCHANGED asks
    BY <1>4 DEF Send
  <2>2. \A x \in Workers : at'[x] = at[x] \/ {at[x], at'[x]} \cap {"slot", "show"} = {}
    BY <1>4, WhoIsWho DEF Send, TypeOK, Goto
  <2> QED BY <2>1, <2>2, AskingKept
<1>5. CASE SendRefused
  <2>1. UNCHANGED asks
    BY <1>5 DEF SendRefused
  <2>2. \A x \in Workers : at'[x] = at[x] \/ {at[x], at'[x]} \cap {"slot", "show"} = {}
    BY <1>5, WhoIsWho DEF SendRefused, TypeOK, Goto
  <2> QED BY <2>1, <2>2, AskingKept
<1>6. CASE CloseDir
  <2>1. UNCHANGED asks
    BY <1>6 DEF CloseDir
  <2>2. \A x \in Workers : at'[x] = at[x] \/ {at[x], at'[x]} \cap {"slot", "show"} = {}
    BY <1>6, WhoIsWho DEF CloseDir, TypeOK, Goto
  <2> QED BY <2>1, <2>2, AskingKept
<1>7. CASE WalkEnd
  <2>1. UNCHANGED asks
    BY <1>7 DEF WalkEnd
  <2>2. \A x \in Workers : at'[x] = at[x] \/ {at[x], at'[x]} \cap {"slot", "show"} = {}
    BY <1>7, WhoIsWho DEF WalkEnd, TypeOK, Goto
  <2> QED BY <2>1, <2>2, AskingKept
<1>8. CASE WaitReturns
  <2>1. UNCHANGED asks
    BY <1>8 DEF WaitReturns
  <2>2. \A x \in Workers : at'[x] = at[x] \/ {at[x], at'[x]} \cap {"slot", "show"} = {}
    BY <1>8, WhoIsWho DEF WaitReturns, TypeOK, Goto
  <2> QED BY <2>1, <2>2, AskingKept
<1>9. ASSUME NEW w \in Workers, TakeJob(w) PROVE Asking'
  <2>1. UNCHANGED asks
    BY <1>9 DEF TakeJob
  <2>2. \A x \in Workers : at'[x] = at[x] \/ {at[x], at'[x]} \cap {"slot", "show"} = {}
    BY <1>9, WhoIsWho DEF TakeJob, TypeOK, Goto
  <2> QED BY <2>1, <2>2, AskingKept
<1>10. ASSUME NEW w \in Workers, Release(w) PROVE Asking'
  <2>1. UNCHANGED asks
    BY <1>10 DEF Release
  <2>2. \A x \in Workers : at'[x] = at[x] \/ {at[x], at'[x]} \cap {"slot", "show"} = {}
    BY <1>10, WhoIsWho DEF Release, TypeOK, Goto
  <2> QED BY <2>1, <2>2, AskingKept
<1>11. ASSUME NEW w \in Workers, FailRecord(w) PROVE Asking'
  <2>1. UNCHANGED asks
    BY <1>11 DEF FailRecord
  <2>2. \A x \in Workers : at'[x] = at[x] \/ {at[x], at'[x]} \cap {"slot", "show"} = {}
    BY <1>11, WhoIsWho DEF FailRecord, TypeOK, Goto
  <2> QED BY <2>1, <2>2, AskingKept
<1>12. ASSUME NEW w \in Workers, FailCancel(w) PROVE Asking'
  <2>1. UNCHANGED asks
    BY <1>12 DEF FailCancel
  <2>2. \A x \in Workers : at'[x] = at[x] \/ {at[x], at'[x]} \cap {"slot", "show"} = {}
    BY <1>12, WhoIsWho DEF FailCancel, TypeOK, Goto
  <2> QED BY <2>1, <2>2, AskingKept
<1>13. ASSUME NEW w \in Workers, WorkerLeaves(w) PROVE Asking'
  <2>1. UNCHANGED asks
    BY <1>13 DEF WorkerLeaves
  <2>2. \A x \in Workers : at'[x] = at[x] \/ {at[x], at'[x]} \cap {"slot", "show"} = {}
    BY <1>13, WhoIsWho DEF WorkerLeaves, TypeOK, Goto
  <2> QED BY <2>1, <2>2, AskingKept
<1>14. ASSUME NEW a \in Actors, DoneCount(a) PROVE Asking'
  <2>1. UNCHANGED asks
    BY <1>14 DEF DoneCount
  <2>2. \A x \in Workers : at'[x] = at[x] \/ {at[x], at'[x]} \cap {"slot", "show"} = {}
    BY <1>14, WhoIsWho DEF DoneCount, TypeOK, Goto, Continue
  <2> QED BY <2>1, <2>2, AskingKept
<1>15. ASSUME NEW a \in Actors, DoneLast(a) PROVE Asking'
  <2>1. UNCHANGED asks
    BY <1>15 DEF DoneLast
  <2>2. \A x \in Workers : at'[x] = at[x] \/ {at[x], at'[x]} \cap {"slot", "show"} = {}
    BY <1>15, WhoIsWho DEF DoneLast, TypeOK, Goto
  <2> QED BY <2>1, <2>2, AskingKept
<1>16. ASSUME NEW a \in Actors, DoneFinish(a) PROVE Asking'
  <2>1. UNCHANGED asks
    BY <1>16 DEF DoneFinish
  <2>2. \A x \in Workers : at'[x] = at[x] \/ {at[x], at'[x]} \cap {"slot", "show"} = {}
    BY <1>16, WhoIsWho DEF DoneFinish, TypeOK, Goto
  <2> QED BY <2>1, <2>2, AskingKept
<1>17. ASSUME NEW a \in Actors, DoneParent(a) PROVE Asking'
  <2>1. UNCHANGED asks
    BY <1>17 DEF DoneParent
  <2>2. \A x \in Workers : at'[x] = at[x] \/ {at[x], at'[x]} \cap {"slot", "show"} = {}
    BY <1>17, WhoIsWho DEF DoneParent, TypeOK, Goto, Continue
  <2> QED BY <2>1, <2>2, AskingKept
<1>18. ASSUME NEW w \in Workers, AskCancelled(w) PROVE Asking'
  <2>1. /\ gate' = gate /\ answer' = answer /\ at'[w] = "release" /\ at[w] \in {"ask", "gate", "copy"}
        /\ \A x \in Workers \ {w} : at'[x] = at[x]
    BY <1>18, WhoIsWho DEF AskCancelled, Ends, Goto, TypeOK
  <2>2. UNCHANGED asks /\ \A x \in Workers : at'[x] = at[x] \/ {at[x], at'[x]} \cap {"slot", "show"} = {}
    BY <2>1 DEF asks
  <2> QED BY <2>2, AskingKept
<1>19. ASSUME NEW w \in Workers, AskWaits(w) PROVE Asking'
  <2>1. UNCHANGED asks
    BY <1>19 DEF AskWaits
  <2>2. \A x \in Workers : at'[x] = at[x] \/ {at[x], at'[x]} \cap {"slot", "show"} = {}
    BY <1>19, WhoIsWho DEF AskWaits, TypeOK, Goto
  <2> QED BY <2>1, <2>2, AskingKept
<1>20. ASSUME NEW w \in Workers, TakeSlot(w) PROVE Asking'
  <2>1. /\ gate = None /\ gate' = w /\ answer' = answer /\ at'[w] = "slot" /\ at[w] = "gate"
        /\ \A x \in Workers \ {w} : at'[x] = at[x]
    BY <1>20, WhoIsWho DEF TakeSlot, Goto, TypeOK
  <2>2. \A x \in Workers : at[x] \notin {"slot", "show"}
    BY <2>1, CopyAssumption DEF Asking
  <2> QED BY <2>1, <2>2 DEF Asking
<1>21. ASSUME NEW w \in Workers, Slot(w) PROVE Asking'
  <2>1. at[w] = "slot" /\ gate = w /\ None # w
    BY <1>21, CopyAssumption DEF Slot, Asking
  <2>2. \A x \in Workers \ {w} : at'[x] = at[x] /\ at[x] \notin {"slot", "show"}
    BY <1>21, <2>1, WhoIsWho DEF Slot, Ends, Goto, TypeOK, Asking
  <2>3. answer' = answer
    BY <1>21 DEF Slot, Ends
  <2>4. \/ at'[w] \in {"release", "copy"} /\ gate' = None
        \/ at'[w] = "show" /\ gate' = w /\ answer = "each"
    BY <1>21, <2>1, WhoIsWho DEF Slot, Ends, Goto, TypeOK
  <2>5. None \notin Workers
    BY CopyAssumption
  <2> QED BY <2>2, <2>3, <2>4, <2>5 DEF Asking
<1>22. ASSUME NEW w \in Workers, Answered(w) PROVE Asking'
  <2>1. /\ at[w] = "show" /\ gate = w /\ gate' = None /\ at'[w] = "copy"
        /\ \A x \in Workers \ {w} : at'[x] = at[x]
    BY <1>22, WhoIsWho DEF Answered, Goto, TypeOK, Asking
  <2>2. \A x \in Workers \ {w} : at[x] \notin {"slot", "show"}
    BY <2>1 DEF Asking
  <2>3. None \notin Workers
    BY CopyAssumption
  <2> QED BY <2>1, <2>2, <2>3 DEF Asking
<1>23. ASSUME NEW w \in Workers, JobReturns(w) PROVE Asking'
  <2>1. /\ gate' = gate /\ answer' = answer /\ at'[w] = "release" /\ at[w] \in {"ask", "gate", "copy"}
        /\ \A x \in Workers \ {w} : at'[x] = at[x]
    BY <1>23, WhoIsWho DEF JobReturns, Ends, Goto, TypeOK
  <2>2. UNCHANGED asks /\ \A x \in Workers : at'[x] = at[x] \/ {at[x], at'[x]} \cap {"slot", "show"} = {}
    BY <2>1 DEF asks
  <2> QED BY <2>2, AskingKept
<1>24. CASE UNCHANGED vars
  <2>1. UNCHANGED <<asks, at>>
    BY <1>24 DEF vars, local
  <2> QED BY <2>1, AskingKept
<1> QED
  BY <1>1, <1>2, <1>3, <1>4, <1>5, <1>6, <1>7, <1>8, <1>9, <1>10, <1>11, <1>12,
     <1>13, <1>14, <1>15, <1>16, <1>17, <1>18, <1>19, <1>20, <1>21, <1>22, <1>23, <1>24 DEF Next, WalkerStep, WorkerStep, Done

LEMMA Initially == Init => IInv
<1> SUFFICES ASSUME Init PROVE IInv
  OBVIOUS
<1>1. /\ ~ stopped /\ ~ cancelled /\ err = None /\ result = None /\ stack = <<>> /\ walked = {}
      /\ at = [a \in Actors |-> IF a = Walker THEN "walk" ELSE "idle"] /\ arg = [a \in Actors |-> None]
      /\ pending = [d \in Dirs |-> 0] /\ finishes = [d \in Dirs |-> 0]
      /\ joberr = [w \in Workers |-> None] /\ ended = [f \in Files |-> None]
      /\ gate = None /\ answer = "each" /\ idle = <<>> /\ view = [w \in Workers |-> 0] /\ made = 0
  BY DEF Init
<1>2. at[Walker] = "walk" /\ \A w \in Workers : at[w] = "idle"
  BY <1>1, WhoIsWho
<1>3. \A a \in Actors : at[a] \in {"walk", "idle"}
  BY <1>2, WhoIsWho
<1>4. \A a \in Actors : at[a] \notin JobPlaces \cup FinishPlaces \cup {"send", "done", "last", "finish", "slot", "show"}
  BY <1>3 DEF JobPlaces, FinishPlaces
<1>5. Range(stack) = {} /\ IsInjective(stack) /\ Range(idle) = {} /\ IsInjective(idle)
  BY <1>1 DEF Range, IsInjective
<1>6. TypeOK
  <2>1. at \in [Actors -> JobPlaces \cup FinishPlaces \cup
                       {"walk", "send", "wait", "idle", "done", "fail", "cancel", "gone"}]
    BY <1>1
  <2>2. stack \in Seq(Dirs) /\ idle \in Seq(Nat)
    BY <1>1
  <2>3. stopped \in BOOLEAN /\ cancelled \in BOOLEAN
    BY DEF Init
  <2>4. pending \in [Dirs -> Nat] /\ finishes \in [Dirs -> Nat]
    BY <1>1
  <2>5. made \in Nat /\ view \in [Workers -> 0..made]
    BY <1>1
  <2>6. /\ arg \in [Actors -> Dirs \cup Files \cup {None}]
        /\ joberr \in [Workers -> Files \cup {None, "cancel"}]
        /\ ended \in [Files -> {None, "copied", "failed", "cancel"}]
    BY <1>1
  <2> QED BY <1>1, <2>1, <2>2, <2>3, <2>4, <2>5, <2>6 DEF TypeOK
<1>7. Places
  BY <1>2, <1>4 DEF Places
<1>8. Walk
  BY <1>1, <1>2, <1>5 DEF Walk
<1>9. OneJob
  BY <1>1, <1>4 DEF OneJob, HasFile
<1>10. \A a \in Actors, d \in Dirs : ~ Holds(a, d) /\ ~ Finishing(a, d)
  BY <1>4 DEF Holds, Finishing
<1>11. \A d \in Dirs : pending[d] = 0 /\ finishes[d] = 0
  BY <1>1
<1>12. Counts
  <2> SUFFICES ASSUME NEW d \in Dirs PROVE Counted(d)
    BY DEF Counts
  <2>1. \A s \in Dirs : ~ Alive(s)
    BY <1>10, <1>11 DEF Alive
  <2>2. Holding(d) = {}
    BY <1>5, <1>10, <2>1 DEF Holding, Subdirs
  <2>3. Cardinality(Holding(d)) = 0
    BY <2>2, FS_EmptySet
  <2> QED BY <1>11, <2>3 DEF Counted
<1>13. OneLast
  BY <1>1, <1>10, <1>11 DEF OneLast
<1>14. Finished
  BY <1>1, <1>4, <1>11 DEF Finished
<1>15. Errors
  <2>1. None \notin Files /\ "cancel" \notin Files /\ None # "cancel"
    BY CopyAssumption DEF None
  <2>2. (\A w \in Workers : joberr[w] = None) /\ \A f \in Files : ended[f] = None
    BY <1>1
  <2>3. \A f \in Files : ended[f] # "failed" /\ ended[f] # "cancel"
    BY <2>2 DEF None
  <2> QED BY <1>1, <1>2, <2>1, <2>2, <2>3 DEF Errors
<1>16. Returned
  BY <1>1, <1>2 DEF Returned
<1>17. WaitIsTruthful
  BY <1>1, CopyAssumption DEF WaitIsTruthful, None
<1>18. Asking
  BY <1>1, <1>4, CopyAssumption, WhoIsWho DEF Asking
<1>19. Viewing
  <2>1. \A w \in Workers : view[w] = 0
    BY <1>1
  <2>2. made <= Cardinality(Workers)
    BY <1>1, CopyAssumption, FS_CardinalityType
  <2>3. \A w \in Workers : at[w] \notin JobPlaces
    BY <1>4, WhoIsWho
  <2> QED BY <1>1, <1>5, <2>1, <2>2, <2>3 DEF Viewing
<1> QED
  BY <1>6, <1>7, <1>8, <1>9, <1>12, <1>13, <1>14, <1>15, <1>16, <1>17, <1>18, <1>19 DEF IInv

LEMMA Steps == IInv /\ [Next]_vars => IInv'
<1> SUFFICES ASSUME IInv, [Next]_vars PROVE IInv'
  OBVIOUS
<1> USE DEF IInv
<1>1. TypeOK' /\ Places'
  BY TypesHold, PlacesHold
<1>2. Walk' /\ OneJob' /\ Counts'
  BY WalkHolds, OneJobHolds, CountsHold
<1>3. OneLast' /\ Finished'
  BY OneLastHolds, FinishedHolds
<1>4. Errors' /\ Returned' /\ WaitIsTruthful'
  BY ErrorsHold, ReturnedHolds, TruthHolds
<1>5. Asking' /\ Viewing'
  BY AskingHolds, ViewingHolds
<1> QED BY <1>1, <1>2, <1>3, <1>4, <1>5

-----------------------------------------------------------------------------
(***************************************************************************)
(* What is proved                                                          *)
(***************************************************************************)
\* The invariant holds of every copy, whatever its tree and its workers.
THEOREM Invariant == Spec => []IInv
<1>1. Init => IInv
  BY Initially
<1>2. IInv /\ [Next]_vars => IInv'
  BY Steps
<1> QED BY <1>1, <1>2, PTL DEF Spec

\* Every variable keeps its type: in particular dirScope.pending is never
\* below zero, whichever of the walker and the workers gives back its count.
THEOREM TypesAreKept == Spec => []TypeOK
<1>1. IInv => TypeOK
  BY DEF IInv
<1> QED BY <1>1, Invariant, PTL

\* dirScope.done runs finish last and once, with everything under the folder
\* done: the counts of the folder and of the folders under it all agree.
THEOREM AttributesAreLast == Spec => []FinishIsLast
<1>1. ASSUME IInv PROVE FinishIsLast
  <2> SUFFICES ASSUME NEW d \in Dirs
               PROVE  /\ finishes[d] <= 1
                      /\ finishes[d] = 1 => /\ \A f \in FilesUnder(d) : ended[f] # None
                                            /\ \A s \in Subdirs(d) : finishes[s] = 1
    BY DEF FinishIsLast
  <2>1. finishes[d] \in Nat
    BY <1>1 DEF IInv, TypeOK
  <2>2. finishes[d] <= 1
    BY <1>1, <2>1 DEF IInv, OneLast
  <2>3. finishes[d] = 1 => Complete(d)
    BY <1>1 DEF IInv, Finished
  <2> QED BY <2>2, <2>3 DEF Complete
<1> QED BY <1>1, Invariant, PTL

\* copyPool.Wait tells the truth: without an error every file was copied and
\* every folder finished, and a cancelled job never hides the real failure.
THEOREM WaitTellsTheTruth == Spec => []WaitIsTruthful
<1>1. IInv => WaitIsTruthful
  BY DEF IInv
<1> QED BY <1>1, Invariant, PTL

\* Questions come one at a time, and no two workers share a view of the
\* operation's state.
THEOREM WorkersAreApart == Spec => []WorkersApart
<1>1. ASSUME IInv PROVE WorkersApart
  <2>1. OneQuestion
    BY <1>1 DEF IInv, Asking, OneQuestion
  <2>2. ViewsApart
    BY <1>1 DEF IInv, Viewing, ViewsApart
  <2> QED BY <2>1, <2>2 DEF WorkersApart
<1> QED BY <1>1, Invariant, PTL
===============================================================================
