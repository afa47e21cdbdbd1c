---------------------------- MODULE UpdaterProofs ----------------------------
(* Proofs about Updater for any directory, archives and number of workers.    *)
EXTENDS Updater, TLAPS

(***************************************************************************)
(* Types                                                                   *)
(***************************************************************************)
LEMMA InitTypes == ASSUME Init PROVE TypeOK
  <1> USE UpdaterAssumption DEF Init, Builds, Contents
  <1>1. /\ place \in Places /\ front \in {"dialog", "cli"} /\ archive \in Archives
        /\ starts \in BOOLEAN /\ knows \in BOOLEAN /\ pc = "idle" /\ running \in Contents
    OBVIOUS
  <1>2. disk \in [Files -> Contents] /\ old \in [Files -> Contents]
    OBVIOUS
  <1>3. numbered \in [Files -> SUBSET Contents] /\ left \subseteq Contents
    OBVIOUS
  <1>4. stage \in [Files -> Stages] /\ workers \in Int /\ helper = "nothing"
    BY DEF Stages
  <1>5. backup \in Contents /\ base \in Contents /\ promised = FALSE /\ told = {}
    OBVIOUS
  <1>6. saved \in Builds /\ prior \in Builds /\ spoiled \in BOOLEAN
    OBVIOUS
  <1>7. updates \in 0..MaxUpdates
    OBVIOUS
  <1> QED
    BY <1>1, <1>2, <1>3, <1>4, <1>5, <1>6, <1>7 DEF TypeOK

LEMMA StepTypes == ASSUME TypeOK, [Next]_vars PROVE TypeOK'
  <1> USE UpdaterAssumption DEF TypeOK, Builds, Contents, Stages, env, dir, unpack, backups,
          report, Put, Stage, Over, Forget
  <1>1. CASE Begin
    <2>1. disk[Exe] \in Contents /\ updates' \in 0..MaxUpdates /\ prior' \in Builds
      BY <1>1 DEF Begin
    <2>2. backup' \in Contents /\ base' \in Contents /\ left' \subseteq Contents
      BY <1>1, <2>1 DEF Begin
    <2>3. told' = {} /\ promised' = FALSE /\ pc' \in {"install", "idle", "gone"}
      BY <1>1 DEF Begin
    <2> QED
      BY <1>1, <2>1, <2>2, <2>3 DEF Begin
  <1>2. CASE Install
    BY <1>2 DEF Install, Extract
  <1>3. CASE ExtractEnds
    BY <1>3 DEF ExtractEnds, Extract
  <1>4. ASSUME NEW f \in Files, ClearOld(f) PROVE TypeOK'
    <2>1. old' \in [Files -> Contents] /\ stage' \in [Files -> Stages]
      BY <1>4 DEF ClearOld
    <2>2. numbered' \in [Files -> SUBSET Contents]
      <3>1. CASE UNCHANGED numbered
        BY <3>1
      <3>2. ASSUME NEW kept \in SUBSET numbered[f], numbered' = [numbered EXCEPT ![f] = kept]
            PROVE  numbered' \in [Files -> SUBSET Contents]
        <4>1. kept \in SUBSET Contents
          OBVIOUS
        <4> HIDE DEF Contents
        <4> QED
          BY <3>2, <4>1
      <3> QED
        BY <1>4, <3>1, <3>2 DEF ClearOld
    <2> QED
      BY <1>4, <2>1, <2>2 DEF ClearOld, Frame
  <1>5. ASSUME NEW f \in Files, PutAside(f) PROVE TypeOK'
    BY <1>5 DEF PutAside, Frame
  <1>6. ASSUME NEW f \in Files, OpenTarget(f) PROVE TypeOK'
    BY <1>6 DEF OpenTarget, Fails, Frame
  <1>7. ASSUME NEW f \in Files, WriteTarget(f) PROVE TypeOK'
    BY <1>7 DEF WriteTarget, Fails, Frame
  <1>8. ASSUME NEW f \in Files, RemoveOld(f) PROVE TypeOK'
    BY <1>8 DEF RemoveOld, Frame
  <1>9. CASE CheckReplaced
    BY <1>9 DEF CheckReplaced
  <1>10. CASE CheckInstalled
    <2>1. promised' \in BOOLEAN
      BY <1>10, Zenon DEF CheckInstalled
    <2>2. pc' \in {"discard", "record", "restore"}
      BY <1>10 DEF CheckInstalled
    <2> QED
      BY <1>10, <2>1, <2>2 DEF CheckInstalled
  <1>11. CASE Record
    BY <1>11 DEF Record
  <1>12. CASE Discard
    <2>1. backup' \in Contents /\ left' \subseteq Contents
      BY <1>12 DEF Discard
    <2> QED
      BY <1>12, <2>1 DEF Discard
  <1>13. CASE Answer
    <2>1. disk[Exe] \in Contents
      OBVIOUS
    <2>2. running' \in Contents
      BY <1>13, <2>1 DEF Answer
    <2>3. /\ spoiled' \in BOOLEAN /\ saved' \in Builds /\ prior' \in Builds /\ base' \in Contents
          /\ told' \subseteq {"installed", "putback", "failed"} /\ promised' \in BOOLEAN
          /\ pc' \in {"discard", "restore"}
      BY <1>13 DEF Answer
    <2> QED
      BY <1>13, <2>2, <2>3 DEF Answer
  <1>14. CASE HelperRestores
    BY <1>14 DEF HelperRestores
  <1>15. CASE RestoreFails
    BY <1>15 DEF RestoreFails, Rollback, Claims
  <1>16. CASE RestoreSame
    BY <1>16 DEF RestoreSame, Rollback, Claims
  <1>17. CASE RemoveFailed
    BY <1>17 DEF RemoveFailed
  <1>18. CASE RenameBack
    BY <1>18 DEF RenameBack, Rollback, Claims
  <1>19. CASE CopyBack
    BY <1>19 DEF CopyBack
  <1>20. CASE CopyDone
    <2>1. backup' \in Contents /\ left' \subseteq Contents /\ disk' \in [Files -> Contents]
      BY <1>20 DEF CopyDone
    <2> QED
      BY <1>20, <2>1 DEF CopyDone, Rollback, Claims
  <1>21. CASE Unrecord
    BY <1>21 DEF Unrecord
  <1>22. CASE Kill
    BY <1>22 DEF Kill
  <1>23. CASE Start
    BY <1>23 DEF Start
  <1>s. CASE UNCHANGED vars
    BY <1>s DEF vars
  <1> QED
    BY <1>1, <1>2, <1>3, <1>4, <1>5, <1>6, <1>7, <1>8, <1>9, <1>10, <1>11, <1>12, <1>13,
       <1>14, <1>15, <1>16, <1>17, <1>18, <1>19, <1>20, <1>21, <1>22, <1>23, <1>s DEF Next

(***************************************************************************)
(* The inductive invariant: where an update stands, what it still holds     *)
(* and what it has seen.                                                   *)
(***************************************************************************)
\* Steps that may still end in putting the backup back without the user.
Changing == {"install", "extract", "verify", "start", "restore", "rename", "copy"}

Holding == pc \in Changing \cup {"ask"} \/ (pc = "record" /\ front = "dialog")

\* A backup that starts was left behind by an update that ended badly.
Safe == \E c \in left : StartsUp(c)

\* An update holds a backup of a build that starts until the one in place does.
BackedUp ==
  /\ Holding => backup = base /\ (Safe \/ StartsUp(backup))
  /\ pc \in {"idle", "gone", "unrecord"} => Safe \/ StartsUp(disk[Exe])
  /\ pc \in {"discard", "record", "ask"} => StartsUp(disk[Exe])

\* The executable is the new build once it was unpacked, if it was at all.
Unpacked ==
  /\ pc \in {"extract", "verify"} /\ Exe \in archive /\ stage[Exe] \in {"tidy", "done"} =>
       disk[Exe] = "next"
  /\ pc = "verify" => stage[Exe] = "done"
  /\ pc \in {"start", "discard", "record", "ask"} => disk[Exe] = "next"

Told ==
  /\ "installed" \in told =>
       /\ disk[Exe] = "next" /\ starts
       /\ pc \in {"idle", "gone"} \/ (pc \in {"ask", "discard"} /\ front = "dialog")
  /\ "putback" \in told =>
       /\ disk[Exe] = base \/ "failed" \in told
       /\ pc \in {"unrecord", "idle", "gone"}

\* As long as nothing spoiled it, a record of the new build is of the one in
\* place or of the one the running update would put back.
Recorded ==
  ~ spoiled =>
    /\ pc # "unrecord"
    /\ pc \in Changing => saved = prior
    /\ saved = "next" =>
         /\ disk[Exe] # "prev"
         /\ pc = "idle" => disk[Exe] = "next"
         /\ pc \in Changing => base = "next"

IInv == BackedUp /\ Unpacked /\ Told /\ Recorded

LEMMA InitHolds == ASSUME Init PROVE IInv
  BY UpdaterAssumption DEF Init, IInv, BackedUp, Unpacked, Told, Recorded, Holding, Changing, StartsUp

LEMMA StepBackedUp == ASSUME TypeOK, IInv, [Next]_vars PROVE BackedUp'
  <1> USE UpdaterAssumption DEF TypeOK, IInv, BackedUp, Holding, Safe, StartsUp, Changing, Unpacked,
          env, dir, unpack, backups, report, Put, Stage, Over, Forget
  <1>1. CASE Begin
    BY <1>1 DEF Begin
  <1>2. CASE Install
    BY <1>2 DEF Install, Extract
  <1>3. CASE ExtractEnds
    BY <1>3 DEF ExtractEnds, Extract
  <1>4. ASSUME NEW f \in Files, ClearOld(f) PROVE BackedUp'
    BY <1>4 DEF ClearOld, Frame
  <1>5. ASSUME NEW f \in Files, PutAside(f) PROVE BackedUp'
    BY <1>5 DEF PutAside, Frame
  <1>6. ASSUME NEW f \in Files, OpenTarget(f) PROVE BackedUp'
    BY <1>6 DEF OpenTarget, Fails, Frame
  <1>7. ASSUME NEW f \in Files, WriteTarget(f) PROVE BackedUp'
    BY <1>7 DEF WriteTarget, Fails, Frame
  <1>8. ASSUME NEW f \in Files, RemoveOld(f) PROVE BackedUp'
    BY <1>8 DEF RemoveOld, Frame
  <1>9. CASE CheckReplaced
    BY <1>9 DEF CheckReplaced
  <1>10. CASE CheckInstalled
    BY <1>10 DEF CheckInstalled
  <1>11. CASE Record
    BY <1>11 DEF Record
  <1>12. CASE Discard
    BY <1>12 DEF Discard
  <1>13. CASE Answer
    BY <1>13 DEF Answer
  <1>14. CASE HelperRestores
    BY <1>14 DEF HelperRestores
  <1>15. CASE RestoreFails
    BY <1>15 DEF RestoreFails, Rollback, Claims
  <1>16. CASE RestoreSame
    BY <1>16 DEF RestoreSame, Rollback, Claims
  <1>17. CASE RemoveFailed
    BY <1>17 DEF RemoveFailed
  <1>18. CASE RenameBack
    BY <1>18 DEF RenameBack, Rollback, Claims
  <1>19. CASE CopyBack
    BY <1>19 DEF CopyBack
  <1>20. CASE CopyDone
    BY <1>20 DEF CopyDone, Rollback, Claims
  <1>21. CASE Unrecord
    BY <1>21 DEF Unrecord
  <1>22. CASE Kill
    BY <1>22 DEF Kill
  <1>23. CASE Start
    BY <1>23 DEF Start
  <1>s. CASE UNCHANGED vars
    BY <1>s DEF vars
  <1> QED
    BY <1>1, <1>2, <1>3, <1>4, <1>5, <1>6, <1>7, <1>8, <1>9, <1>10, <1>11, <1>12,
       <1>13, <1>14, <1>15, <1>16, <1>17, <1>18, <1>19, <1>20, <1>21, <1>22, <1>23, <1>s DEF Next

LEMMA StepUnpacked == ASSUME TypeOK, IInv, [Next]_vars PROVE Unpacked'
  <1> USE UpdaterAssumption DEF TypeOK, IInv, Unpacked,
          env, dir, unpack, backups, report, Put, Stage, Over, Forget
  <1>1. CASE Begin
    BY <1>1 DEF Begin
  <1>2. CASE Install
    BY <1>2 DEF Install, Extract
  <1>3. CASE ExtractEnds
    BY <1>3 DEF ExtractEnds, Extract
  <1>4. ASSUME NEW f \in Files, ClearOld(f) PROVE Unpacked'
    BY <1>4 DEF ClearOld, Frame
  <1>5. ASSUME NEW f \in Files, PutAside(f) PROVE Unpacked'
    BY <1>5 DEF PutAside, Frame
  <1>6. ASSUME NEW f \in Files, OpenTarget(f) PROVE Unpacked'
    BY <1>6 DEF OpenTarget, Fails, Frame
  <1>7. ASSUME NEW f \in Files, WriteTarget(f) PROVE Unpacked'
    BY <1>7 DEF WriteTarget, Fails, Frame
  <1>8. ASSUME NEW f \in Files, RemoveOld(f) PROVE Unpacked'
    BY <1>8 DEF RemoveOld, Frame
  <1>9. CASE CheckReplaced
    BY <1>9 DEF CheckReplaced
  <1>10. CASE CheckInstalled
    BY <1>10 DEF CheckInstalled
  <1>11. CASE Record
    BY <1>11 DEF Record
  <1>12. CASE Discard
    BY <1>12 DEF Discard
  <1>13. CASE Answer
    BY <1>13 DEF Answer
  <1>14. CASE HelperRestores
    BY <1>14 DEF HelperRestores
  <1>15. CASE RestoreFails
    BY <1>15 DEF RestoreFails, Rollback, Claims
  <1>16. CASE RestoreSame
    BY <1>16 DEF RestoreSame, Rollback, Claims
  <1>17. CASE RemoveFailed
    BY <1>17 DEF RemoveFailed
  <1>18. CASE RenameBack
    BY <1>18 DEF RenameBack, Rollback, Claims
  <1>19. CASE CopyBack
    BY <1>19 DEF CopyBack
  <1>20. CASE CopyDone
    BY <1>20 DEF CopyDone, Rollback, Claims
  <1>21. CASE Unrecord
    BY <1>21 DEF Unrecord
  <1>22. CASE Kill
    BY <1>22 DEF Kill
  <1>23. CASE Start
    BY <1>23 DEF Start
  <1>s. CASE UNCHANGED vars
    BY <1>s DEF vars
  <1> QED
    BY <1>1, <1>2, <1>3, <1>4, <1>5, <1>6, <1>7, <1>8, <1>9, <1>10, <1>11, <1>12,
       <1>13, <1>14, <1>15, <1>16, <1>17, <1>18, <1>19, <1>20, <1>21, <1>22, <1>23, <1>s DEF Next

LEMMA StepTold == ASSUME TypeOK, IInv, [Next]_vars PROVE Told'
  <1> USE UpdaterAssumption DEF TypeOK, IInv, Told, BackedUp, Holding, Unpacked, Changing, StartsUp,
          env, dir, unpack, backups, report, Put, Stage, Over, Forget
  <1>1. CASE Begin
    BY <1>1 DEF Begin
  <1>2. CASE Install
    BY <1>2 DEF Install, Extract
  <1>3. CASE ExtractEnds
    BY <1>3 DEF ExtractEnds, Extract
  <1>4. ASSUME NEW f \in Files, ClearOld(f) PROVE Told'
    BY <1>4 DEF ClearOld, Frame
  <1>5. ASSUME NEW f \in Files, PutAside(f) PROVE Told'
    BY <1>5 DEF PutAside, Frame
  <1>6. ASSUME NEW f \in Files, OpenTarget(f) PROVE Told'
    BY <1>6 DEF OpenTarget, Fails, Frame
  <1>7. ASSUME NEW f \in Files, WriteTarget(f) PROVE Told'
    BY <1>7 DEF WriteTarget, Fails, Frame
  <1>8. ASSUME NEW f \in Files, RemoveOld(f) PROVE Told'
    BY <1>8 DEF RemoveOld, Frame
  <1>9. CASE CheckReplaced
    BY <1>9 DEF CheckReplaced
  <1>10. CASE CheckInstalled
    BY <1>10 DEF CheckInstalled
  <1>11. CASE Record
    BY <1>11 DEF Record
  <1>12. CASE Discard
    BY <1>12 DEF Discard
  <1>13. CASE Answer
    BY <1>13 DEF Answer
  <1>14. CASE HelperRestores
    BY <1>14 DEF HelperRestores
  <1>15. CASE RestoreFails
    BY <1>15 DEF RestoreFails, Rollback, Claims
  <1>16. CASE RestoreSame
    BY <1>16 DEF RestoreSame, Rollback, Claims
  <1>17. CASE RemoveFailed
    BY <1>17 DEF RemoveFailed
  <1>18. CASE RenameBack
    BY <1>18 DEF RenameBack, Rollback, Claims
  <1>19. CASE CopyBack
    BY <1>19 DEF CopyBack
  <1>20. CASE CopyDone
    BY <1>20 DEF CopyDone, Rollback, Claims
  <1>21. CASE Unrecord
    BY <1>21 DEF Unrecord
  <1>22. CASE Kill
    BY <1>22 DEF Kill
  <1>23. CASE Start
    BY <1>23 DEF Start
  <1>s. CASE UNCHANGED vars
    BY <1>s DEF vars
  <1> QED
    BY <1>1, <1>2, <1>3, <1>4, <1>5, <1>6, <1>7, <1>8, <1>9, <1>10, <1>11, <1>12,
       <1>13, <1>14, <1>15, <1>16, <1>17, <1>18, <1>19, <1>20, <1>21, <1>22, <1>23, <1>s DEF Next

LEMMA StepRecorded == ASSUME TypeOK, IInv, [Next]_vars PROVE Recorded'
  <1> USE UpdaterAssumption DEF TypeOK, IInv, Recorded, BackedUp, Holding, Unpacked, Changing, StartsUp,
          Builds, env, dir, unpack, backups, report, Put, Stage, Over, Forget
  <1>1. CASE Begin
    BY <1>1 DEF Begin
  <1>2. CASE Install
    BY <1>2 DEF Install, Extract
  <1>3. CASE ExtractEnds
    BY <1>3 DEF ExtractEnds, Extract
  <1>4. ASSUME NEW f \in Files, ClearOld(f) PROVE Recorded'
    BY <1>4 DEF ClearOld, Frame
  <1>5. ASSUME NEW f \in Files, PutAside(f) PROVE Recorded'
    BY <1>5 DEF PutAside, Frame
  <1>6. ASSUME NEW f \in Files, OpenTarget(f) PROVE Recorded'
    BY <1>6 DEF OpenTarget, Fails, Frame
  <1>7. ASSUME NEW f \in Files, WriteTarget(f) PROVE Recorded'
    BY <1>7 DEF WriteTarget, Fails, Frame
  <1>8. ASSUME NEW f \in Files, RemoveOld(f) PROVE Recorded'
    BY <1>8 DEF RemoveOld, Frame
  <1>9. CASE CheckReplaced
    BY <1>9 DEF CheckReplaced
  <1>10. CASE CheckInstalled
    BY <1>10 DEF CheckInstalled
  <1>11. CASE Record
    BY <1>11 DEF Record
  <1>12. CASE Discard
    BY <1>12 DEF Discard
  <1>13. CASE Answer
    BY <1>13 DEF Answer
  <1>14. CASE HelperRestores
    BY <1>14 DEF HelperRestores
  <1>15. CASE RestoreFails
    BY <1>15 DEF RestoreFails, Rollback, Claims
  <1>16. CASE RestoreSame
    BY <1>16 DEF RestoreSame, Rollback, Claims
  <1>17. CASE RemoveFailed
    BY <1>17 DEF RemoveFailed
  <1>18. CASE RenameBack
    BY <1>18 DEF RenameBack, Rollback, Claims
  <1>19. CASE CopyBack
    BY <1>19 DEF CopyBack
  <1>20. CASE CopyDone
    BY <1>20 DEF CopyDone, Rollback, Claims
  <1>21. CASE Unrecord
    BY <1>21 DEF Unrecord
  <1>22. CASE Kill
    BY <1>22 DEF Kill
  <1>23. CASE Start
    BY <1>23 DEF Start
  <1>s. CASE UNCHANGED vars
    BY <1>s DEF vars
  <1> QED
    BY <1>1, <1>2, <1>3, <1>4, <1>5, <1>6, <1>7, <1>8, <1>9, <1>10, <1>11, <1>12,
       <1>13, <1>14, <1>15, <1>16, <1>17, <1>18, <1>19, <1>20, <1>21, <1>22, <1>23, <1>s DEF Next

LEMMA UpdateCorrect == Spec => [](TypeOK /\ IInv)
  <1>1. Init => TypeOK /\ IInv
    BY InitTypes, InitHolds
  <1>2. (TypeOK /\ IInv) /\ [Next]_vars => (TypeOK /\ IInv)'
    BY StepTypes, StepBackedUp, StepUnpacked, StepTold, StepRecorded DEF IInv
  <1> QED
    BY <1>1, <1>2, PTL DEF Spec

\* Every variable of the updater keeps its type, whatever the directory.
THEOREM TypeCorrect == Spec => []TypeOK
  BY UpdateCorrect, PTL

\* Whatever fails and whenever f4 is killed, a build that starts is on the disk.
THEOREM ABuildSurvivesAlways == Spec => []ABuildSurvives
  <1>1. TypeOK /\ IInv => ABuildSurvives
    BY DEF TypeOK, IInv, BackedUp, Holding, Changing, Safe, ABuildSurvives
  <1> QED
    BY <1>1, UpdateCorrect, PTL

\* What is told and what is recorded is what is installed, but for what a message
\* says that tells of a failed rollback, and for the record after such a rollback
\* or after a restart that failed.
THEOREM TheRecordIsTrueAlways == Spec => []TheRecordIsTrue
  <1>1. TypeOK /\ IInv => TheRecordIsTrue
    BY DEF TypeOK, IInv, Told, Recorded, TheRecordIsTrue
  <1> QED
    BY <1>1, UpdateCorrect, PTL
===============================================================================
