------------------------------- MODULE Transfer -------------------------------
(***************************************************************************)
(* One copy or move, as ExecuteFileOpAtWithOptions and recursiveCopy carry *)
(* it out: the items of the operation one after another, and the files of  *)
(* each item one after another.                                            *)
(*                                                                         *)
(* The two file systems are one function from paths to contents.  A        *)
(* content is the file it came from, or a mark: Old was there before the   *)
(* operation, Alien was put there by another program during it, Partial is *)
(* half a file or one nobody vouches for, Folder is a directory, and       *)
(* Nothing is a free path.  Every step of the worker that reads or writes  *)
(* a path is an action, so another program may act between any two of them.*)
(***************************************************************************)
EXTENDS Naturals, Sequences, SequencesExt

CONSTANTS
  Paths,
  Items,     \* the operation: [src, dst, files] records, in order
  Src, Dst,  \* the path every file is at and the one it goes to
  Worlds,    \* what the paths may hold when the operation starts
  Names,     \* the paths a "Rename" answer may name, for every file
  Foreign,   \* the paths another program may create during the operation
  Vias,      \* the pairs of file systems, see below
  Files, Old, Alien, Partial, Folder, Nothing, NoPath

Content == Files \cup {Old, Alien, Partial, Folder, Nothing}

ASSUME TransferAssumption ==
  /\ Src \in [Files -> Paths] /\ Dst \in [Files -> Paths]
  /\ Items \in Seq([src: Paths, dst: Paths, files: Seq(Files)])
  /\ Names \in [Files -> SUBSET Paths] /\ Foreign \subseteq Paths
  /\ Vias \subseteq {"samedisk", "disk", "cloud", "sftp", "fish", "scp", "upload", "staged"}
  /\ NoPath \notin Paths
  /\ \A w \in Worlds : /\ w \in [Paths -> Content]
                       /\ \A f \in Files : w[Src[f]] = f
                       /\ \A p \in Paths : w[p] \notin {Alien, Partial}

\* The marks are no files, and no two are one.
ASSUME MarksAssumption ==
  /\ {Old, Alien, Partial, Folder, Nothing} \cap Files = {}
  /\ Nothing \notin {Old, Alien, Partial, Folder}
  /\ Folder \notin {Old, Alien, Partial} /\ Partial \notin {Old, Alien} /\ Old # Alien

FilesOf(i) == ToSet(Items[i].files)
IsFolder(i) == Items[i].src \notin {Src[g] : g \in Files}

\* The items are of one panel, each under a name of its own, a listing names a
\* file once, and a folder is not copied into an item: what is copied into a
\* folder goes nowhere else, nothing else goes there, and a folder that is not
\* there holds nothing.
ASSUME ItemsAssumption ==
  /\ \A i, j \in DOMAIN Items : i # j => /\ Items[i].src # Items[j].src
                                        /\ FilesOf(i) \cap FilesOf(j) = {}
  /\ \A i \in DOMAIN Items : IsInjective(Items[i].files)
  /\ Files = UNION {FilesOf(i) : i \in DOMAIN Items}
  /\ \A i \in DOMAIN Items :
       IF IsFolder(i)
         THEN /\ \A g \in FilesOf(i), f \in Files : f # g => Dst[f] # Dst[g]
              /\ \A g \in FilesOf(i), f \in Files \ FilesOf(i) : Dst[g] \notin Names[f]
              /\ \A g \in FilesOf(i), j \in DOMAIN Items : IsFolder(j) => Dst[g] # Items[j].dst
              /\ \A j \in DOMAIN Items : Items[i].dst # Items[j].src
              /\ \A f \in Files : Items[i].dst # Src[f]
              /\ \A w \in Worlds : /\ w[Items[i].src] = Folder
                                   /\ w[Items[i].dst] # Folder => \A g \in FilesOf(i) : w[Dst[g]] = Nothing
         ELSE \E g \in Files : Items[i].files = <<g>> /\ Items[i].src = Src[g] /\ Items[i].dst = Dst[g]

VARIABLES
  fs,           \* what every path holds
  opt,          \* FileOpState's options: move, ignoreRead, ignoreWrite, via
  pc, item, todo,
  dest, existed,            \* destPathForFile, destinationExisted
  left, mark,               \* leftBehind() now and when the item began
  overwriteAll, skipAll, s2s,
  cancelled, outcome,
  consented,    \* history: the paths the user agreed to overwrite
  arrived,      \* history: where every file was reported copied to
  doubtful,     \* history: paths of unknown outcome, or not rolled back for a failure
  abandoned,    \* history: paths last written by a failed scp or server copy
  doubt         \* history: a change of unknown outcome, and whether it was reported as such

choices == <<opt, overwriteAll, skipAll, s2s>>
history == <<consented, arrived, doubtful, abandoned, doubt>>
walk == <<item, todo, dest, existed, mark>>
vars == <<fs, choices, pc, walk, left, cancelled, outcome, history>>

(* The pairs of file systems.  Of one namespace: "samedisk" and "disk" are    *)
(* local, "cloud" one cloud account, "sftp" one SFTP account, "fish" one      *)
(* FISH+ session.  Of two: "scp" are hosts that can run scp to each other,    *)
(* "upload" writes to SFTP or FISH+, "staged" to a cloud account.             *)

\* tryOptimizedRename is tried, and the two sides are one namespace.
Renames == opt.via \in {"samedisk", "cloud", "sftp", "fish"}
OneNamespace == Renames \/ opt.via = "disk"

\* What does not ask the conflict decision (WithDestinationOverwrite): FISH+'s
\* mv and cp, scp, and every Create but the local and the staged ones.
Replaces == opt.via = "fish"
Overwrites == opt.via \in {"sftp", "fish", "scp", "upload"}

\* A staged writer publishes at Close: until then its path is untouched.
Staged == opt.via \in {"cloud", "staged"}

\* A lost answer is a plain failure here, not one that must not be retried.
Lossy == opt.via \in {"sftp", "fish", "scp"}

cur == Head(todo)   \* the file in hand
it == Items[item]

\* The sources a removal or a rename of an item takes away.
SourcesOf(i) == {Items[i].src} \cup {Src[g] : g \in FilesOf(i)}
TargetOf(i, p) ==
  IF p = Items[i].src THEN Items[i].dst
  ELSE Dst[CHOOSE g \in FilesOf(i) : Src[g] = p]

Moved(i) ==  \* the tree after the rename of item i
  [p \in Paths |->
     IF p \in SourcesOf(i) THEN Nothing
     ELSE IF \E q \in SourcesOf(i) : TargetOf(i, q) = p
       THEN fs[CHOOSE q \in SourcesOf(i) : TargetOf(i, q) = p]
       ELSE fs[p]]

Init ==
  /\ fs \in Worlds
  /\ opt \in [move: BOOLEAN, ignoreRead: BOOLEAN, ignoreWrite: BOOLEAN, via: Vias]
  /\ pc = "scan" /\ item = 1 /\ todo = <<>> /\ dest = NoPath /\ existed = FALSE
  /\ left = 0 /\ mark = 0 /\ overwriteAll = FALSE /\ skipAll = FALSE
  /\ s2s = "probe" /\ cancelled = FALSE /\ outcome = "running"
  /\ consented = {} /\ arrived = [g \in Files |-> NoPath]
  /\ doubtful = {} /\ abandoned = {} /\ doubt = "no"

-----------------------------------------------------------------------------
(* How a step ends: with the operation, or with the file in hand.          *)

At(where) == pc = where /\ outcome = "running"
Goto(where) == pc' = where /\ UNCHANGED outcome
Stop(how) == pc' = "over" /\ outcome' = how

\* NextFile leaves the file in hand; recursiveCopy returned nil.
NextFile == Goto("file") /\ todo' = Tail(todo)

\* tolerate: an ignored error counts the item as failed and goes on; one the
\* provider cannot answer for is never ignored, so the other branch is always
\* open.  skipItem counts the same way.
Skipped == left' = left + 1 /\ NextFile
Refused(ignored) == \/ ignored /\ Skipped
                    \/ Stop("failed") /\ UNCHANGED <<left, todo>>

AskAnyway(where) == Goto(where)  \* (mutant)

\* A question put under a cancelled context is never shown: it is answered by
\* the cancellation.
Ask(where) == IF cancelled THEN Stop("cancelled") ELSE Goto(where)

\* Where the items still to come begin.
NextItem == Goto("item") /\ item' = item + 1

-----------------------------------------------------------------------------
(* The items: ExecuteFileOpAtWithOptions, runBody.                         *)

Scan ==
  /\ At("scan")
  /\ \/ ~cancelled /\ Goto("item")
     \/ Stop("failed")
  /\ UNCHANGED <<fs, choices, walk, left, cancelled, history>>

BeginItemNoMark ==  \* (mutant)
  /\ At("item")
  /\ UNCHANGED <<fs, choices, item, dest, existed, left, cancelled, history, mark>>
  /\ \/ item > Len(Items) /\ Stop("ok") /\ UNCHANGED todo
     \/ item <= Len(Items) /\ cancelled /\ Stop("cancelled") /\ UNCHANGED todo
     \/ /\ item <= Len(Items) /\ ~cancelled
        /\ todo' = IF IsFolder(item) THEN <<>> ELSE it.files
        /\ IF opt.move /\ Renames THEN Goto("rename")
           ELSE Goto(IF IsFolder(item) THEN "enter" ELSE "file")

BeginItem ==
  /\ At("item")
  /\ UNCHANGED <<fs, choices, item, dest, existed, left, cancelled, history>>
  /\ \/ item > Len(Items) /\ Stop("ok") /\ UNCHANGED <<todo, mark>>
     \/ item <= Len(Items) /\ cancelled /\ Stop("cancelled") /\ UNCHANGED <<todo, mark>>
     \/ /\ item <= Len(Items) /\ ~cancelled
        /\ mark' = left
        /\ todo' = IF IsFolder(item) THEN <<>> ELSE it.files
        /\ IF opt.move /\ Renames THEN Goto("rename")
           ELSE Goto(IF IsFolder(item) THEN "enter" ELSE "file")

Streaming == Goto(IF IsFolder(item) THEN "enter" ELSE "file")

\* tryOptimizedRename's Stat: only a proven absence lets the rename go on.
RenameStat ==
  /\ At("rename")
  /\ \/ fs[it.dst] # Nothing /\ Streaming
     \/ fs[it.dst] = Nothing /\ Goto("renaming")
     \/ Stop("failed")
  /\ UNCHANGED <<fs, choices, walk, left, cancelled, history>>

RenameRetried ==  \* (mutant)
  /\ At("renaming")
  /\ UNCHANGED <<choices, todo, dest, existed, mark, left, cancelled, consented, doubtful, abandoned>>
  /\ \/ Streaming /\ UNCHANGED <<fs, arrived, doubt, item>>
     \/ /\ fs' = fs \/ (fs[it.dst] = Nothing /\ fs' = Moved(item))
        /\ doubt' = "reported" /\ Streaming /\ UNCHANGED <<arrived, item>>

\* A rename does not stop at a free name, nor FISH+'s at a file: it replaces.
MayMove == \/ fs[it.dst] = Nothing
           \/ Replaces /\ ~IsFolder(item) /\ fs[it.dst] # Folder
Relocate ==
  /\ MayMove /\ fs' = Moved(item)
  /\ arrived' = [g \in Files |-> IF g \in FilesOf(item) THEN Dst[g] ELSE arrived[g]]

\* The rename itself.  A plain failure (someone took the name, or the two do
\* not share a disk after all) falls back to streaming; an unknown one may have
\* happened and ends the operation.  One that happened and whose answer was lost
\* falls back too: its source cannot be read any more, which is a failure of its
\* own, ignored or not.
Rename ==
  /\ At("renaming")
  /\ UNCHANGED <<choices, todo, dest, existed, mark, cancelled, consented, doubtful, abandoned>>
  /\ \/ Streaming /\ UNCHANGED <<fs, arrived, doubt, item, left>>
     \/ Relocate /\ NextItem /\ UNCHANGED <<doubt, left>>
     \/ /\ fs' = fs \/ (MayMove /\ fs' = Moved(item))
        /\ doubt' = "reported" \/ (Lossy /\ doubt' = "silent")
        /\ Stop("failed") /\ UNCHANGED <<arrived, item, left>>
     \/ /\ Lossy /\ opt.ignoreRead /\ Relocate /\ NextItem
        /\ doubt' = "silent" /\ left' = left + 1

EndItemAlways ==  \* (mutant)
  /\ At("file") /\ todo = <<>>
  /\ UNCHANGED <<choices, todo, dest, existed, mark, left, cancelled, history>>
  /\ NextItem
  /\ fs' = [p \in Paths |-> IF opt.move /\ p \in SourcesOf(item) THEN Nothing ELSE fs[p]]

\* The item is done.  A move then removes its source, unless something of
\* this very item was left behind; a removal that fails may have removed part.
EndItem ==
  /\ At("file") /\ todo = <<>>
  /\ UNCHANGED <<choices, todo, dest, existed, mark, left, cancelled, history>>
  /\ \/ /\ opt.move /\ left = mark
        /\ \/ /\ fs' = [p \in Paths |-> IF p \in SourcesOf(item) THEN Nothing ELSE fs[p]]
              /\ NextItem
           \/ \E gone \in SUBSET (SourcesOf(item) \ {it.src}) :
                /\ fs' = [p \in Paths |-> IF p \in gone THEN Nothing ELSE fs[p]]
                /\ Stop("failed") /\ UNCHANGED item
     \/ ~(opt.move /\ left = mark) /\ NextItem /\ UNCHANGED fs

-----------------------------------------------------------------------------
(* A folder: recursiveCopy's directory branch.                             *)

\* Stat of both sides and MkDir.  A folder that cannot be read or made is one
\* failed item when that error is ignored: nothing in it is visited.
EnterFolder ==
  /\ At("enter")
  /\ UNCHANGED <<choices, item, dest, existed, mark, cancelled, history>>
  /\ \/ cancelled /\ Stop("cancelled") /\ UNCHANGED <<fs, left, todo>>
     \/ ~cancelled /\ fs[it.dst] \in {Nothing, Folder}
        /\ fs' = [fs EXCEPT ![it.dst] = Folder]
        /\ Goto("list") /\ UNCHANGED <<left, todo>>
     \/ /\ UNCHANGED <<fs, todo>>
        /\ \/ /\ opt.ignoreRead \/ opt.ignoreWrite
              /\ left' = left + 1 /\ Goto("file")
           \/ Stop("failed") /\ UNCHANGED left

\* ReadDir: a listing that broke off is an ignored read error, and the part of
\* it that came is still copied.
ListFolder ==
  /\ At("list")
  /\ UNCHANGED <<fs, choices, item, dest, existed, mark, cancelled, history>>
  /\ \/ todo' = it.files /\ Goto("file") /\ UNCHANGED left
     \/ \E n \in 0..Len(it.files) :
          /\ opt.ignoreRead
          /\ todo' = SubSeq(it.files, 1, n) /\ Goto("file")
          /\ left' = left + 1
     \/ Stop("failed") /\ UNCHANGED <<todo, left>>

-----------------------------------------------------------------------------
(* A file: from its Stat to the choice of a destination.                   *)

\* Stat of the source, and the refusal to copy a file onto itself.
StatFile ==
  /\ At("file") /\ todo # <<>>
  /\ UNCHANGED <<fs, choices, item, existed, mark, cancelled, history>>
  /\ \/ cancelled /\ Stop("cancelled") /\ UNCHANGED <<todo, dest, left>>
     \/ ~cancelled /\ Refused(opt.ignoreRead) /\ UNCHANGED dest
     \/ /\ ~cancelled /\ ~(OneNamespace /\ Src[cur] = Dst[cur])
        /\ dest' = Dst[cur] /\ Goto("conflict") /\ UNCHANGED <<todo, left>>

\* What carries the file over once its destination is settled.
Direct == IF opt.via \in {"fish", "scp"} /\ s2s # "off" THEN "scp" ELSE "open"
Carrier == IF opt.via \in {"cloud", "fish"} THEN "servercopy" ELSE Direct

Settle(there) == Goto(Carrier) /\ existed' = there /\ UNCHANGED <<dest, todo, left>>

\* One turn of the conflict loop: Stat of the destination, and what the
\* answers remembered so far say of it.
Conflict ==
  /\ At("conflict")
  /\ UNCHANGED <<fs, choices, item, mark, cancelled, arrived, doubtful, abandoned, doubt>>
  /\ \/ fs[dest] = Nothing /\ Settle(FALSE) /\ UNCHANGED consented
     \/ /\ fs[dest] \notin {Nothing, Folder} /\ ~skipAll /\ overwriteAll
        /\ Settle(TRUE) /\ consented' = consented \cup {dest}
     \/ /\ fs[dest] \notin {Nothing, Folder} /\ skipAll /\ Skipped
        /\ UNCHANGED <<dest, existed, consented>>
     \/ /\ fs[dest] \notin {Nothing, Folder} /\ ~skipAll /\ ~overwriteAll
        /\ Ask("ask") /\ UNCHANGED <<todo, dest, existed, left, consented>>
     \/ Refused(opt.ignoreWrite) /\ UNCHANGED <<dest, existed, consented>>

\* AskOverwrite's answers.  Append and Resume only show that they are not
\* supported, and ask again.
AnswerOverwrite ==
  /\ At("ask")
  /\ existed' = TRUE /\ consented' = consented \cup {dest}
  /\ Goto(Carrier)
  /\ \E remember \in BOOLEAN : overwriteAll' = (overwriteAll \/ remember)
  /\ UNCHANGED <<fs, opt, skipAll, s2s, item, todo, dest, mark, left, cancelled,
                 arrived, doubtful, abandoned, doubt>>

AnswerSkipUncounted ==  \* (mutant)
  /\ At("ask") /\ NextFile /\ UNCHANGED left
  /\ \E remember \in BOOLEAN : skipAll' = (skipAll \/ remember)
  /\ UNCHANGED <<fs, opt, overwriteAll, s2s, item, dest, existed, mark, cancelled, history>>

AnswerSkip ==
  /\ At("ask") /\ Skipped
  /\ \E remember \in BOOLEAN : skipAll' = (skipAll \/ remember)
  /\ UNCHANGED <<fs, opt, overwriteAll, s2s, item, dest, existed, mark, cancelled, history>>

AnswerRename ==
  /\ At("ask")
  /\ \E p \in Names[cur] :
       /\ OneNamespace \/ p \notin {Src[g] : g \in Files}
       /\ ~cancelled /\ dest' = p /\ Goto("conflict")
  /\ UNCHANGED <<fs, choices, item, todo, existed, mark, left, cancelled, history>>

AnswerUnsupported ==
  /\ At("ask") /\ Goto("told")
  /\ UNCHANGED <<fs, choices, walk, left, cancelled, history>>

Dismiss ==
  /\ At("told") /\ Goto("conflict")
  /\ UNCHANGED <<fs, choices, walk, left, cancelled, history>>

\* A question the user cancels (a rename he is asked a name for, too), and one
\* on the screen that a cancelled operation gives up.
AnswerCancel ==
  /\ At("ask") \/ At("askopen") \/ At("askcreate")
  /\ Stop("cancelled")
  /\ UNCHANGED <<fs, choices, walk, left, cancelled, history>>

GiveUpAsking == cancelled /\ AnswerCancel

-----------------------------------------------------------------------------
(* A file: the ways it is carried over.                                    *)

\* What reading the source to its end delivers.
Received == IF fs[Src[cur]] \in Files THEN fs[Src[cur]] ELSE Partial
Put(content) == fs' = [fs EXCEPT ![dest] = content]
MayWrite == existed \/ Overwrites \/ fs[dest] = Nothing
Copied == arrived' = [arrived EXCEPT ![cur] = dest] /\ NextFile /\ UNCHANGED left

\* A copy made by the other side that failed, or whose answer was lost: it wrote
\* nothing, or something nobody vouches for and nobody takes back.
Abandon ==
  \/ UNCHANGED <<fs, abandoned, doubt>>
  \/ /\ Lossy /\ Put(Partial)
     /\ abandoned' = abandoned \cup {dest} /\ doubt' = "silent"

\* ServerSideCopier.Copy.  An outcome that may not be retried, and a name
\* somebody took meanwhile, end the operation; a plain failure goes on with
\* the next way there is.
ServerCopy ==
  /\ At("servercopy")
  /\ UNCHANGED <<choices, item, dest, existed, mark, cancelled, left, consented>>
  /\ \/ MayWrite /\ Put(Received) /\ Copied /\ UNCHANGED <<doubt, doubtful, abandoned>>
     \/ /\ UNCHANGED fs \/ (MayWrite /\ \E c \in {Received, Partial} : Put(c))
        /\ doubt' = "reported" /\ doubtful' = doubtful \cup {dest}
        /\ Stop("failed") /\ UNCHANGED <<todo, arrived, abandoned>>
     \/ ~MayWrite /\ Stop("failed") /\ UNCHANGED <<fs, todo, arrived, doubt, doubtful, abandoned>>
     \/ MayWrite /\ Abandon /\ Goto(Direct) /\ UNCHANGED <<todo, arrived, doubtful>>

\* scp run on one of the two hosts, its up to four attempts (pushed or pulled,
\* with a key or a password) taken as one.  It replaces whatever is there.
\* After a failure, whatever its outcome, the file is streamed, and the first
\* file that finds no way turns the attempt off for the operation.
Scp ==
  /\ At("scp")
  /\ UNCHANGED <<opt, overwriteAll, skipAll, item, dest, existed, mark, cancelled,
                 left, consented, doubtful>>
  /\ \/ /\ Put(Received) /\ Copied /\ s2s' = "works"
        /\ abandoned' = abandoned \ {dest} /\ UNCHANGED doubt
     \/ /\ Abandon /\ Goto("open") /\ UNCHANGED <<todo, arrived>>
        /\ s2s' = IF s2s = "probe" THEN "off" ELSE s2s

Open ==
  /\ At("open")
  /\ UNCHANGED <<fs, choices, item, dest, existed, mark, cancelled, history>>
  /\ \/ Goto("create") /\ UNCHANGED <<todo, left>>
     \/ opt.ignoreRead /\ Skipped
     \/ Ask("askopen") /\ UNCHANGED <<todo, left>>

\* AskError's Retry and Skip; Abort is AnswerCancel.
AnswerRetry ==
  /\ \/ At("askopen") /\ Goto("open")
     \/ At("askcreate") /\ Goto("create")
  /\ UNCHANGED <<fs, choices, walk, left, cancelled, history>>

AnswerSkipError ==
  /\ At("askopen") \/ At("askcreate")
  /\ Skipped
  /\ UNCHANGED <<fs, choices, item, dest, existed, mark, cancelled, history>>

CreateTruncates ==  \* (mutant)
  /\ At("create")
  /\ UNCHANGED <<choices, item, dest, existed, mark, cancelled, history>>
  /\ \/ /\ Goto("pump") /\ UNCHANGED <<todo, left>>
        /\ IF Staged THEN UNCHANGED fs ELSE Put(Partial)
     \/ UNCHANGED <<fs, todo, left>> /\ Ask("askcreate")

\* Create makes the file, or empties the one the user agreed to replace.  A
\* local one is exclusive when the Stat found nothing; SFTP's and FISH+'s
\* empty what is there by now.
Create ==
  /\ At("create")
  /\ UNCHANGED <<choices, item, dest, existed, mark, cancelled, consented, arrived, doubtful, doubt>>
  /\ \/ /\ Goto("pump") /\ UNCHANGED <<todo, left>>
        /\ IF Staged THEN UNCHANGED <<fs, abandoned>>
           ELSE MayWrite /\ Put(Partial) /\ abandoned' = abandoned \ {dest}
     \/ UNCHANGED <<fs, abandoned>> /\ opt.ignoreWrite /\ Skipped
     \/ UNCHANGED <<fs, abandoned, todo, left>> /\ Ask("askcreate")

-----------------------------------------------------------------------------
(* A file: the stream, its commit and its rollback.                        *)

\* The deferred function of recursiveCopy.  next says that the error was an
\* ignored one; undo that the destination is new and its close definite.
Unwind(next, undo) ==
  /\ IF undo THEN Goto(IF next THEN "undonext" ELSE "undostop") /\ UNCHANGED todo
     ELSE \/ next /\ NextFile
          \/ ~next /\ Stop("failed") /\ UNCHANGED todo
  /\ doubtful' = IF undo \/ existed \/ Staged THEN doubtful ELSE doubtful \cup {dest}

\* pumpFile (module Pump).  A failure discards the destination: a staged
\* writer is aborted, any other is closed after its context is cancelled.  A
\* discard that fails is reported even where the failure itself was ignored.
PumpFile ==
  /\ At("pump")
  /\ UNCHANGED <<fs, choices, item, dest, existed, mark, cancelled, consented, arrived, abandoned, doubt>>
  /\ \/ Goto("commit") /\ UNCHANGED <<todo, left, doubtful>>
     \/ \E ignored \in {FALSE, opt.ignoreRead \/ opt.ignoreWrite} :
          \E discard \in {"done", "failed", "refused"} :
            /\ left' = IF ignored THEN left + 1 ELSE left
            /\ Unwind(ignored /\ discard = "done",
                      ~existed /\ ~Staged /\ discard # "refused")

\* Close.  A failure is ignored or ends the operation; one whose outcome is
\* unknown, or that says the name is another's, is not rolled back.
Commit ==
  /\ At("commit")
  /\ UNCHANGED <<choices, item, dest, existed, mark, cancelled, consented, abandoned>>
  /\ \/ (Staged => MayWrite) /\ Put(Received) /\ Copied /\ UNCHANGED <<doubt, doubtful>>
     \/ \E ignored \in {FALSE, opt.ignoreWrite}, definite \in BOOLEAN :
          /\ left' = IF ignored THEN left + 1 ELSE left
          /\ Unwind(ignored, definite /\ ~existed)
          /\ UNCHANGED <<fs, arrived, doubt>>
     \/ /\ UNCHANGED fs \/ (MayWrite /\ Staged /\ Put(Received))
        /\ doubt' = "reported" /\ Unwind(FALSE, FALSE) /\ UNCHANGED <<left, arrived>>

\* The rollback: Remove of the new destination, whose own failure is ignored.
Undo ==
  /\ At("undonext") \/ At("undostop")
  /\ UNCHANGED <<choices, item, dest, existed, mark, left, cancelled, consented, arrived,
                 abandoned, doubt>>
  /\ \/ Put(Nothing) /\ UNCHANGED doubtful
     \/ UNCHANGED fs /\ doubtful' = doubtful \cup {dest}
  /\ IF pc = "undonext" THEN NextFile ELSE Stop("failed") /\ UNCHANGED todo

-----------------------------------------------------------------------------
(* The rest of the world.                                                  *)

Cancel ==
  /\ outcome = "running" /\ ~cancelled /\ cancelled' = TRUE
  /\ UNCHANGED <<fs, choices, pc, walk, left, outcome, history>>

\* Another program takes a free name, in a folder that is there.
InFolder(p) ==
  \A i \in DOMAIN Items :
    IsFolder(i) /\ p \in {Dst[g] : g \in FilesOf(i)} => fs[Items[i].dst] = Folder

ForeignCreate(p) ==
  /\ outcome = "running" /\ p \in Foreign /\ fs[p] = Nothing /\ InFolder(p)
  /\ fs' = [fs EXCEPT ![p] = Alien]
  /\ UNCHANGED <<choices, pc, walk, left, cancelled, outcome, history>>

Worker ==
  \/ Scan \/ BeginItem \/ RenameStat \/ Rename \/ EndItem
  \/ EnterFolder \/ ListFolder
  \/ StatFile \/ Conflict \/ GiveUpAsking
  \/ ServerCopy \/ Scp \/ Open \/ Create \/ PumpFile \/ Commit \/ Undo

User ==
  \/ AnswerOverwrite \/ AnswerSkip \/ AnswerRename \/ AnswerUnsupported
  \/ Dismiss \/ AnswerCancel \/ AnswerRetry \/ AnswerSkipError

Over == outcome # "running" /\ UNCHANGED vars

Next == Worker \/ User \/ Cancel \/ (\E p \in Foreign : ForeignCreate(p)) \/ Over

Spec == Init /\ [][Next]_vars

\* The worker goes on whenever it can: every call to a file system comes back.
\* The user owes nothing.
FairSpec == Spec /\ WF_vars(Worker)

-----------------------------------------------------------------------------
(* Properties.                                                             *)

Steps == {"scan", "item", "rename", "renaming", "enter", "list", "file", "conflict",
          "ask", "told", "servercopy", "scp", "open", "askopen", "create",
          "askcreate", "pump", "commit", "undonext", "undostop", "over"}

\* Every variable holds what the code's variable may hold; the leavings are
\* bounded by the files, the folders and their listings.
TypeOK ==
  /\ fs \in [Paths -> Content]
  /\ opt \in [move: BOOLEAN, ignoreRead: BOOLEAN, ignoreWrite: BOOLEAN, via: Vias]
  /\ pc \in Steps /\ outcome \in {"running", "ok", "failed", "cancelled"}
  /\ item \in 1..(Len(Items) + 1) /\ todo \in Seq(Files)
  /\ dest \in Paths \cup {NoPath} /\ existed \in BOOLEAN
  /\ left \in Nat /\ mark \in 0..left
  /\ overwriteAll \in BOOLEAN /\ skipAll \in BOOLEAN /\ s2s \in {"probe", "works", "off"}
  /\ cancelled \in BOOLEAN /\ doubt \in {"no", "reported", "silent"}
  /\ consented \subseteq Paths /\ doubtful \subseteq Paths /\ abandoned \subseteq Paths
  /\ arrived \in [Files -> Paths \cup {NoPath}]

\* No file of the operation is ever lost: its content is at some path, at every
\* moment, unless the user agreed to overwrite the very path it was at or had
\* arrived at.  A move may remove a source only behind a copy that is whole.
NothingLostUnasked ==
  \A g \in Files :
    \/ \E p \in Paths : fs[p] = g
    \/ Src[g] \in consented
    \/ arrived[g] \in consented

\* A file another program created while the operation ran is neither
\* overwritten nor removed by it, unless the user was asked about it (ops.go,
\* "Never delete a pre-existing destination, a concurrent creator's object").
ConcurrentCreatorSpared ==
  [][\A p \in Paths : fs[p] = Alien /\ fs'[p] # Alien => p \in consented]_vars

\* What was at a destination before the operation stays until the user agrees
\* to its replacement.  What another program puts there meanwhile stays too,
\* but for two: SFTP, FISH+ and scp replace it, and the rollback of a staged
\* writer whose Close failed removes it.
OthersFilesStay ==
  [][\A p \in Paths : fs'[p] # fs[p] /\ p \notin consented =>
       /\ fs[p] # Old
       /\ fs[p] = Alien => Overwrites \/ (Staged /\ pc \in {"undonext", "undostop"})]_vars

\* When the operation is over, half a file is left only where the user agreed
\* to a replacement, where the outcome is unknown or the rollback was refused or
\* failed, and where a failed scp or FISH+ copy left it: no rollback is tried
\* for one that was not streamed after all.
NoRemains ==
  outcome # "running" =>
    \A p \in Paths : fs[p] = Partial => p \in consented \cup doubtful \cup abandoned

\* A copy leaves every source as it was.  A move that ended well accounts for
\* every file: it arrived and its source is gone, or its item was left behind
\* and the source still stands.  The paths the user agreed to overwrite are
\* the user's.
SourcesSettled ==
  \A g \in {h \in Files : Src[h] \notin consented} :
    /\ ~opt.move => fs[Src[g]] = g
    /\ opt.move /\ outcome = "ok" =>
         IF fs[Src[g]] = g THEN left > 0 ELSE arrived[g] # NoPath

\* What an operation leaves, at its sources and at its destinations, is settled.
Settled == NoRemains /\ SourcesSettled

\* Only what an item itself left behind keeps its source: with no error
\* ignored, a move takes away the source of every item that arrived whole,
\* whatever was skipped in an item before it (ops.go, "a file skipped in an
\* earlier item is no reason to keep the source of a later one").  A folder with
\* nothing in it has no file to tell by whether it was made.
WholeItemsMove ==
  [][ /\ opt.move /\ ~opt.ignoreRead /\ item' = item + 1
      /\ FilesOf(item) # {} /\ \A g \in FilesOf(item) : arrived'[g] # NoPath
      => \A p \in SourcesOf(item) : fs'[p] = Nothing ]_vars

\* A change that is reported as of unknown outcome is never tried again another
\* way: the worker changes nothing after it (ops.go, "an uncertain mutation must
\* not be retried as a streaming copy").  A lost answer that reads as a plain
\* failure is tried again, and only SFTP, FISH+ and scp give one.
UncertainIsNotRetried ==
  [][doubt = "reported" \/ (doubt = "silent" /\ ~Lossy) =>
       \A p \in Paths : fs'[p] = fs[p] \/ fs'[p] = Alien]_vars

\* A file is never written onto itself (ops.go, "cannot copy file onto itself").
NeverOntoItself ==
  pc \in {"pump", "commit"} /\ OneNamespace => dest # Src[cur]

\* A cancelled operation ends whatever it was doing or asking, but for one box:
\* that Append and Resume are not supported does not watch the context, and an
\* operation in front of it waits for as long as the user leaves it there.
CancelEnds == cancelled ~> (outcome # "running" \/ [](pc = "told"))
===============================================================================
