-------------------------------- MODULE Updater --------------------------------
(***************************************************************************)
(* The updater (internal/update, internal/unpack, internal/app/updater.go): *)
(* f4 backs up its executable, unpacks the downloaded archive over the      *)
(* directory it runs from, file by file and on several workers, starts the  *)
(* new build once, and keeps it or puts the backup back.  Any step may      *)
(* fail, and f4 may be killed between any two.  What is on the disk is      *)
(* known by the build it is of, "torn" for half a file, "none" for no file. *)
(***************************************************************************)
EXTENDS Integers, FiniteSets

CONSTANTS
  Exe,         \* the executable
  Files,       \* Exe and whatever else lies beside it
  Archives,    \* the sets of files an archive may hold
  Workers,     \* how many files are unpacked at a time
  MaxUpdates   \* bound: updates begun

ASSUME UpdaterAssumption ==
  /\ Exe \in Files /\ \A a \in Archives : a \subseteq Files
  /\ Workers \in Nat \ {0} /\ MaxUpdates \in Nat

Places == {"unix", "windows", "protected"}
Builds == {"prev", "next"}
Contents == Builds \cup {"torn", "none"}

VARIABLES
  place,     \* the directory; "protected": of Windows, and denied to f4
  front,     \* who updates: the "dialog" of a running f4, or "cli", f4 --update
  archive,   \* the files of the archive
  starts,    \* the new build starts here
  knows,     \* the build that runs can tell which build it is
  pc,        \* where the update stands
  running,   \* the build of the process
  disk,      \* every file of the directory
  old,       \* every file's .old
  numbered,  \* its .old.1 and so on, together: the builds among them
  stage,     \* where the unpacking of a file stands
  workers,   \* workers that have met no error
  helper,    \* what the elevated helper was started for last, or "nothing"
  backup,    \* the backup of this update
  left,      \* backups of updates that were killed or whose rollback failed
  base,      \* the build this update began with
  promised,  \* the error of this update says already that the backup was put back
  told,      \* what the user was told last: the claims of one message
  saved,     \* LastVersion in the settings: the update installed last
  prior,     \* what saved was when the update began
  spoiled,   \* history: a rollback or a restart into the new build failed
  updates    \* updates begun

env     == <<place, front, archive, starts, knows>>
dir     == <<disk, old, numbered>>
unpack  == <<stage, workers, helper>>
backups == <<backup, left>>
report  == <<base, promised, told, saved, prior, spoiled>>
vars    == <<env, pc, running, dir, unpack, backups, report, updates>>

StartsUp(c) == c = "prev" \/ (c = "next" /\ starts)

Init ==
  /\ place \in Places /\ front \in {"dialog", "cli"} /\ archive \in Archives
  /\ starts \in BOOLEAN /\ knows \in BOOLEAN
  /\ pc = "idle" /\ running = "prev"
  /\ disk = [f \in Files |-> "prev"] /\ old = [f \in Files |-> "none"]
  /\ numbered = [f \in Files |-> {}]
  /\ stage = [f \in Files |-> "todo"] /\ workers = Workers /\ helper = "nothing"
  /\ backup = "none" /\ left = {}
  /\ base = "prev" /\ promised = FALSE /\ told = {}
  /\ saved = "prev" /\ prior = "prev" /\ spoiled = FALSE
  /\ updates = 0

Put(f, c) == disk' = [disk EXCEPT ![f] = c]
Stage(f, s) == stage' = [stage EXCEPT ![f] = s]

\* The update is over; the command line's process ends with it.
Over(claims) == told' = claims /\ pc' = IF front = "cli" THEN "gone" ELSE "idle"

\* The update lets go of its backup, which is gone or stays where it is.
Forget(kept) == backup' = "none" /\ left' = left \cup kept
-----------------------------------------------------------------------------
(* From the check to the backup.                                           *)

\* Check: the running build answers if it knows itself, else the record.
NeedsUpdate == IF knows THEN running # "next" ELSE saved # "next"

\* Checked, downloaded and backed up.  Until the backup is made a failure or
\* Ctrl+C ends the update with nothing changed.
Begin ==
  /\ pc = "idle" /\ NeedsUpdate /\ updates < MaxUpdates
  /\ updates' = updates + 1 /\ helper' = "nothing"
  /\ \/ /\ disk[Exe] # "none"
        /\ pc' = "install" /\ base' = disk[Exe] /\ backup' = disk[Exe]
        /\ told' = {} /\ UNCHANGED left
     \/ Over({}) /\ UNCHANGED <<base, backups>>
  /\ prior' = saved /\ promised' = FALSE
  /\ UNCHANGED <<env, running, dir, stage, workers, saved, spoiled>>

\* The extraction begins, in this process or in an elevated one, which is the
\* executable itself, run once more; or the archive cannot be read.
Extract ==
  /\ pc' = "extract" /\ workers' = Workers
  /\ stage' = [f \in Files |-> IF f \in archive THEN "todo" ELSE "done"]

Install ==
  /\ pc = "install"
  /\ \/ place # "protected" /\ Extract /\ UNCHANGED helper
     \/ place = "protected" /\ StartsUp(disk[Exe]) /\ Extract /\ helper' = "install"
     \/ pc' = "restore" /\ UNCHANGED unpack
  /\ UNCHANGED <<env, running, dir, backups, report, updates>>
-----------------------------------------------------------------------------
(* writeFileSafe, one step per change on the disk.                         *)

Frame == UNCHANGED <<env, pc, running, helper, backups, report, updates>>

Busy == {f \in archive : stage[f] \notin {"todo", "done", "failed"}}

\* A worker takes a file, and removes the .old of an earlier update.  Where
\* that stays, numbered ones are removed until a name is free.
ClearOld(f) ==
  /\ pc = "extract" /\ f \in archive /\ stage[f] = "todo"
  /\ Cardinality(Busy) < workers
  /\ Stage(f, "aside")
  /\ \/ old' = [old EXCEPT ![f] = "none"] /\ UNCHANGED numbered
     \/ /\ old[f] # "none" /\ UNCHANGED old
        /\ \E kept \in SUBSET numbered[f] : numbered' = [numbered EXCEPT ![f] = kept]
  /\ Frame /\ UNCHANGED <<disk, workers>>

\* What stands in the way is renamed, to .old or, where that could not be
\* removed, to a numbered name.  A rename that fails is not looked at.
PutAside(f) ==
  /\ pc = "extract" /\ stage[f] = "aside"
  /\ Stage(f, "open")
  /\ \/ /\ disk[f] # "none" /\ Put(f, "none")
        /\ IF old[f] = "none"
           THEN old' = [old EXCEPT ![f] = disk[f]] /\ UNCHANGED numbered
           ELSE numbered' = [numbered EXCEPT ![f] = @ \cup {disk[f]}] /\ UNCHANGED old
     \/ UNCHANGED dir
  /\ Frame /\ UNCHANGED workers

Fails(f) == Stage(f, "failed") /\ workers' = workers - 1

\* O_CREATE|O_TRUNC: the file is empty, or could not be opened.
OpenTarget(f) ==
  /\ pc = "extract" /\ stage[f] = "open"
  /\ \/ Put(f, "torn") /\ Stage(f, "write") /\ UNCHANGED workers
     \/ Fails(f) /\ UNCHANGED disk
  /\ Frame /\ UNCHANGED <<old, numbered>>

WriteTarget(f) ==
  /\ pc = "extract" /\ stage[f] = "write"
  /\ \/ Put(f, "next") /\ Stage(f, "tidy") /\ UNCHANGED workers
     \/ Fails(f) /\ UNCHANGED disk
  /\ Frame /\ UNCHANGED <<old, numbered>>

\* The .old goes, unless something still runs from it.
RemoveOld(f) ==
  /\ pc = "extract" /\ stage[f] = "tidy" /\ Stage(f, "done")
  /\ old' \in {old, [old EXCEPT ![f] = "none"]}
  /\ Frame /\ UNCHANGED <<disk, numbered, workers>>

\* Every worker is done, or every one that met no error found nothing to do.
\* A step Windows refused is made again by the elevated helper, once.
ExtractEnds ==
  /\ pc = "extract" /\ Busy = {}
  /\ \/ /\ \A f \in Files : stage[f] = "done"
        /\ pc' = "verify" /\ UNCHANGED unpack
     \/ /\ \E f \in Files : stage[f] = "failed"
        /\ workers = 0 \/ \A f \in Files : stage[f] # "todo"
        /\ \/ pc' = "restore" /\ UNCHANGED unpack
           \/ /\ place = "windows" /\ helper = "nothing" /\ StartsUp(disk[Exe])
              /\ Extract /\ helper' = "install"
  /\ UNCHANGED <<env, running, dir, backups, report, updates>>
-----------------------------------------------------------------------------
(* The checks, and the end of an update that passed them.                  *)

CheckReplacedTrusts ==  \* (mutant)
  /\ pc = "verify" /\ pc' = "start"
  /\ UNCHANGED <<env, running, dir, unpack, backups, report, updates>>

\* checkReplaced: an archive without the executable did not replace it.
CheckReplaced ==
  /\ pc = "verify"
  /\ pc' = IF Exe \in archive THEN "start" ELSE "restore"
  /\ UNCHANGED <<env, running, dir, unpack, backups, report, updates>>

CheckInstalledSkipped ==  \* (mutant)
  /\ pc = "start" /\ pc' = IF front = "cli" THEN "discard" ELSE "record"
  /\ UNCHANGED <<env, running, dir, unpack, backups, report, updates>>

\* CheckInstalled: the build is run with --version.  One that starts may still
\* be too slow.  The dialog words its error before anything is put back.
CheckInstalled ==
  /\ pc = "start"
  /\ \/ /\ StartsUp(disk[Exe]) /\ pc' = IF front = "cli" THEN "discard" ELSE "record"
        /\ UNCHANGED promised
     \/ pc' = "restore" /\ promised' = (front = "dialog")
  /\ UNCHANGED <<env, running, dir, unpack, backups, base, told, saved, prior, spoiled, updates>>

\* LastVersion is saved, and the dialog asks whether to restart.
Record ==
  /\ pc = "record" /\ saved' = "next" /\ told' = {"installed"}
  /\ pc' = IF front = "cli" THEN "gone" ELSE "ask"
  /\ UNCHANGED <<env, running, dir, unpack, backups, base, promised, prior, spoiled, updates>>

\* RemoveExecutableBackup: a backup that cannot be removed stays.
Discard ==
  /\ pc = "discard"
  /\ Forget({}) \/ Forget({backup})
  /\ pc' = IF front = "cli" THEN "record" ELSE "idle"
  /\ UNCHANGED <<env, running, dir, unpack, report, updates>>

\* Restart now starts the new build, or goes back to the old one; Later keeps
\* this process.
Answer ==
  /\ pc = "ask"
  /\ \/ pc' = "discard" /\ running' \in {running, disk[Exe]} /\ UNCHANGED report
     \/ /\ pc' = "restore" /\ told' = {} /\ spoiled' = TRUE
        /\ UNCHANGED <<running, base, promised, saved, prior>>
  /\ UNCHANGED <<env, dir, unpack, backups, updates>>
-----------------------------------------------------------------------------
(* RestoreExecutable, and the end of an update that failed.                *)

\* The command line says how the rollback went.  The dialog shows the error it has
\* and, if the rollback failed, that as well.
Claims(what) ==
  IF front = "cli" THEN {what}
  ELSE (IF promised THEN {"putback"} ELSE {}) \cup ({what} \ {"putback"})

\* The dialog takes back the record of an update whose restart failed.
Rollback(what) ==
  /\ spoiled' = (spoiled \/ what = "failed")
  /\ IF saved = prior THEN Over(Claims(what)) ELSE told' = Claims(what) /\ pc' = "unrecord"
  /\ UNCHANGED <<env, running, old, numbered, unpack, base, promised, saved, prior, updates>>

Unrecord ==
  /\ pc = "unrecord" /\ saved' = prior /\ pc' = "idle"
  /\ UNCHANGED <<env, running, dir, unpack, backups, base, promised, told, prior, spoiled, updates>>

\* The elevated helper is the executable that stands there, run once more.
HelperRestores ==
  /\ pc \in {"restore", "rename", "copy"} /\ place # "unix" /\ helper # "restore"
  /\ StartsUp(disk[Exe])
  /\ pc' = "restore" /\ helper' = "restore"
  /\ UNCHANGED <<env, running, dir, stage, workers, backups, report, updates>>

\* A step of the restore failed and no helper will do it.
RestoreFails ==
  /\ pc \in {"restore", "rename", "copy"}
  /\ Rollback("failed") /\ Forget({backup}) /\ UNCHANGED disk

\* Nothing reached the executable: only the backup is removed.
RestoreSame ==
  /\ pc = "restore" /\ disk[Exe] = backup
  /\ Rollback("putback") /\ Forget({}) /\ UNCHANGED disk

RemoveFailed ==
  /\ pc = "restore" /\ (place # "protected" \/ helper = "restore")
  /\ Put(Exe, "none") /\ pc' = "rename"
  /\ UNCHANGED <<env, running, old, numbered, unpack, backups, report, updates>>

\* The backup is renamed back, or copied from another file system.
RenameBack ==
  /\ pc = "rename"
  /\ Rollback("putback") /\ Put(Exe, backup) /\ Forget({})

CopyBack ==
  /\ pc = "rename" /\ pc' = "copy" /\ Put(Exe, "torn")
  /\ UNCHANGED <<env, running, old, numbered, unpack, backups, report, updates>>

CopyDone ==
  /\ pc = "copy" /\ Put(Exe, backup)
  /\ Rollback("putback") /\ (Forget({}) \/ Forget({backup}))
-----------------------------------------------------------------------------
(* f4 ends, is killed, and is started again.                               *)

\* Bound: a helper ends with the process that started it.
Kill ==
  /\ pc # "gone" /\ pc' = "gone"
  /\ Forget({backup} \ {"none"})
  /\ UNCHANGED <<env, running, dir, unpack, report, updates>>

Start ==
  /\ pc = "gone" /\ StartsUp(disk[Exe])
  /\ pc' = "idle" /\ running' = disk[Exe]
  /\ UNCHANGED <<env, dir, unpack, backups, report, updates>>

Next ==
  \/ Begin \/ Install \/ ExtractEnds
  \/ \E f \in Files : ClearOld(f) \/ PutAside(f) \/ OpenTarget(f) \/ WriteTarget(f) \/ RemoveOld(f)
  \/ CheckReplaced \/ CheckInstalled \/ Record \/ Discard \/ Answer
  \/ HelperRestores \/ RestoreFails \/ RestoreSame \/ RemoveFailed \/ RenameBack
  \/ CopyBack \/ CopyDone \/ Unrecord \/ Kill \/ Start

Spec == Init /\ [][Next]_vars
-----------------------------------------------------------------------------
Stages == {"todo", "aside", "open", "write", "tidy", "done", "failed"}

TypeOK ==
  /\ place \in Places /\ front \in {"dialog", "cli"} /\ archive \in Archives
  /\ starts \in BOOLEAN /\ knows \in BOOLEAN
  /\ pc \in {"idle", "gone", "install", "extract", "verify", "start", "discard", "record",
             "ask", "restore", "rename", "copy", "unrecord"}
  /\ running \in Contents /\ disk \in [Files -> Contents] /\ old \in [Files -> Contents]
  /\ numbered \in [Files -> SUBSET Contents]
  /\ stage \in [Files -> Stages] /\ workers \in Int
  /\ helper \in {"nothing", "install", "restore"}
  /\ backup \in Contents /\ left \subseteq Contents
  /\ base \in Contents /\ promised \in BOOLEAN /\ told \subseteq {"installed", "putback", "failed"}
  /\ saved \in Builds /\ prior \in Builds /\ spoiled \in BOOLEAN
  /\ updates \in 0..MaxUpdates

\* Whatever fails and whenever f4 is killed, a build that starts is somewhere
\* on the disk: installed, set aside under another name, or as a backup
\* (backup.go, "a failed update left no f4 at all").
ABuildSurvives ==
  \E c \in {disk[Exe], old[Exe], backup} \cup numbered[Exe] \cup left : StartsUp(c)

\* What the user is told, and what the settings record for the next check, is
\* what is installed: a build that was run once, the one before the update
\* again, or, where LastVersion names the new one, that one.  Only a message that
\* says a rollback failed may contradict itself (see PutBackIsPutBack), and the
\* record may be wrong only after a rollback or a restart that failed.
TheRecordIsTrue ==
  /\ "installed" \in told => disk[Exe] = "next" /\ starts
  /\ "putback" \in told => disk[Exe] = base \/ "failed" \in told
  /\ pc = "idle" /\ saved = "next" => disk[Exe] = "next" \/ spoiled

\* Whoever reads that the previous build was put back has it (updater.go, "The
\* previous build has been put back.").  The dialog's code does not keep this: it
\* says so before it tries, and shows both claims when the rollback fails.
PutBackIsPutBack == "putback" \in told => disk[Exe] = base

\* A build that does not start is put back (docs/UPDATER.md, "If it does not
\* start, the dialog and `f4 --update` put the previous build back").  In a
\* directory that is denied to f4 the code does not keep this: the elevated
\* helper that would put it back is the executable itself, by then the build
\* that does not start.
HelperStarts ==
  pc = "restore" /\ place = "protected" => StartsUp(disk[Exe])
===============================================================================
