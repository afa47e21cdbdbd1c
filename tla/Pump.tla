--------------------------------- MODULE Pump ---------------------------------
(***************************************************************************)
(* pumpFile (internal/fileops/pump.go): one file's bytes from its source   *)
(* to its destination through a buffer, with the failed reads of an        *)
(* operation that ignores read errors tried again by offset.               *)
(*                                                                         *)
(* An action is one turn of the loop: the read, the write of what it       *)
(* delivered and the bookkeeping.  pos is where the source's own Read will *)
(* go on; a Read that failed leaves it anywhere.                           *)
(*                                                                         *)
(* It is one step of Transfer; what both have carries the pump's name here,*)
(* so that a module may extend the two.                                    *)
(***************************************************************************)
EXTENDS Integers, Sequences

CONSTANTS Data,      \* the source's bytes
          Buffer,    \* the buffer's size
          Attempts   \* attempts: max(ReadAttempts, 1), or 1

ASSUME PumpAssumption ==
  /\ Data \in Seq(Nat) /\ Buffer \in Nat \ {0} /\ Attempts \in Nat \ {0}

VARIABLES pos, offset, positional, failures, written, pumpCancelled, pumpOutcome,
          idle       \* the last Read gave nothing and no error

pumpVars == <<pos, offset, positional, failures, written, pumpCancelled, pumpOutcome, idle>>

Size == Len(Data)

PumpInit ==
  /\ pos = 0 /\ offset = 0 /\ positional = FALSE /\ failures = 0
  /\ written = <<>> /\ pumpCancelled = FALSE /\ pumpOutcome = "running" /\ idle = FALSE

\* Where the next read reads: ReadAt at the offset, or Read at the stream's own
\* position.
ReadsAt == IF positional THEN offset ELSE pos

\* The bytes a read may deliver: at most a buffer, at most what is left.
Delivers(n) == n = 0 \/ (n <= Buffer /\ ReadsAt + n <= Size)
Bytes(n) == SubSeq(Data, ReadsAt + 1, ReadsAt + n)

\* The write of n > 0 bytes, and what is counted after it.
Take(n) ==
  /\ written' = written \o Bytes(n)
  /\ offset' = offset + n

\* The failures in a row before a read that delivered n bytes.
Before(n) == IF n > 0 THEN 0 ELSE failures
Adrift == pos' \in IF positional THEN {pos} ELSE 0..Size

\* What follows a read without an error.  A Read of the stream may give nothing
\* and is then simply made again; a ReadAt that gives nothing is a failure.
ReadOn(n) ==
  /\ n > 0 \/ ~positional
  /\ Take(n) /\ failures' = Before(n) /\ idle' = (n = 0)
  /\ pos' = IF positional THEN pos ELSE pos + n
  /\ UNCHANGED <<positional, pumpOutcome>>

\* ... and what follows one at the end of the file.
ReadEnd(n) ==
  /\ ReadsAt + n = Size
  /\ Take(n) /\ pumpOutcome' = "whole"
  /\ failures' = Before(n)
  /\ UNCHANGED <<pos, positional, idle>>

ReadFailsInStream(n) ==  \* (mutant)
  /\ Take(n) /\ Adrift /\ failures' = Before(n) + 1 /\ idle' = FALSE /\ UNCHANGED positional
  /\ \/ Before(n) + 1 < Attempts /\ UNCHANGED pumpOutcome
     \/ pumpOutcome' = "readFailure"

ReadFailsWrapping(n) ==  \* (mutant)
  /\ Take(n) /\ Adrift /\ positional' = TRUE /\ UNCHANGED pumpOutcome
  /\ failures' = (Before(n) + 1) % Attempts /\ idle' = FALSE

\* A read that failed, after delivering n bytes.  The last attempt and a
\* failure that must not be tried again end the pump; any other is read again,
\* from now on by offset.
ReadFails(n) ==
  /\ Take(n) /\ Adrift /\ failures' = Before(n) + 1 /\ idle' = FALSE
  /\ \/ Before(n) + 1 < Attempts /\ positional' = TRUE /\ UNCHANGED pumpOutcome
     \/ pumpOutcome' = "readFailure" /\ UNCHANGED positional

\* dst.Write failed: some of the bytes may have gone out.
WriteFails(n) ==
  /\ n > 0
  /\ \E m \in 0..n : written' = written \o Bytes(m)
  /\ pumpOutcome' = "writeFailure"
  /\ UNCHANGED <<pos, offset, positional, failures, idle>>

Turn ==
  /\ pumpOutcome = "running" /\ ~pumpCancelled /\ UNCHANGED pumpCancelled
  /\ \E n \in 0..Buffer :
       Delivers(n) /\ (ReadOn(n) \/ ReadEnd(n) \/ ReadFails(n) \/ WriteFails(n))

\* The context is looked at before a read, and after one that failed: a read
\* under way when it is cancelled may still deliver.
StopPump ==
  /\ pumpOutcome = "running" /\ pumpCancelled /\ UNCHANGED pumpCancelled
  /\ \/ /\ pumpOutcome' = "cancelled"
        /\ UNCHANGED <<pos, offset, positional, failures, written, idle>>
     \/ \E n \in 0..Buffer :
          /\ Delivers(n)
          /\ \/ ReadEnd(n) \/ WriteFails(n)
             \/ /\ Take(n) /\ pumpOutcome' = "cancelled"
                /\ UNCHANGED <<pos, positional, failures, idle>>

CancelPump ==
  /\ pumpOutcome = "running" /\ ~pumpCancelled /\ pumpCancelled' = TRUE
  /\ UNCHANGED <<pos, offset, positional, failures, written, pumpOutcome, idle>>

PumpOver == pumpOutcome # "running" /\ UNCHANGED pumpVars

PumpNext == Turn \/ StopPump \/ CancelPump \/ PumpOver

PumpSpec == PumpInit /\ [][PumpNext]_pumpVars

\* Fairness: every read and write comes back.  Nothing says that a stream which
\* gave nothing will ever give more.
PumpFairSpec == PumpSpec /\ WF_pumpVars(~idle /\ Turn) /\ WF_pumpVars(StopPump)

-----------------------------------------------------------------------------
PumpTypeOK ==
  /\ pos \in 0..Size /\ offset \in 0..Size /\ failures \in 0..Attempts
  /\ positional \in BOOLEAN /\ pumpCancelled \in BOOLEAN /\ idle \in BOOLEAN
  /\ written \in Seq(Nat)
  /\ pumpOutcome \in {"running", "whole", "readFailure", "writeFailure", "cancelled"}

\* What has gone out is the beginning of the source, byte for byte, whatever
\* was read again: no byte twice, none left out (pump.go, "the retry and every
\* read after it address the file by offset").
Prefix == \E n \in 0..Size : written = SubSeq(Data, 1, n)

\* A pump that says the file is copied has copied all of it.
WholeIsWhole == pumpOutcome = "whole" => written = Data

\* A reader of the destination finds the file or a beginning of it, and the
\* file when the pump said so.
OnlyTheFile == Prefix /\ WholeIsWhole

\* A read error gives the file up only after all its attempts in a row, unless
\* it may not be tried again: the pump goes on while attempts are left.
AttemptsBound == pumpOutcome = "running" => failures < Attempts

\* Every pump ends, each turn delivering bytes or using up an attempt, unless
\* nobody cancels it and the source, still read as a stream, gives nothing and
\* no error for ever: what the code calls "must not spin here forever" of reads
\* by offset, it does not prevent of these.
PumpEnds ==
  <>(pumpOutcome # "running") \/ <>[](idle /\ ~positional /\ ~pumpCancelled)
===============================================================================
