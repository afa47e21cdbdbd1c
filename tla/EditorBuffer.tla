----------------------------- MODULE EditorBuffer -----------------------------
(* The editor's text: the piece table of internal/piecetable/piecetable.go,   *)
(* the undo and redo stacks of internal/editor/view.go, and the save that     *)
(* writes the table out and replaces it by one on the file it reopened        *)
(* (saveToFile, save_mapping.go, save_as.go).  Editing runs on the UI thread, *)
(* a save on a goroutine of its own; "actions reach the editor without        *)
(* passing through its key handling", so nothing stops an edit during a save. *)
(* A byte is a number; the codepage, the line index, the cursor and the       *)
(* colours are left out.                                                      *)
EXTENDS Integers, Sequences, SequencesExt

CONSTANTS
  Opened,       \* the bytes of the file the editor opened
  Environs,     \* the file systems the file may be on, see Environ
  MaxEdits,     \* bound: edits made
  MaxSaves,     \* bound: saves started
  MaxUndo       \* the undo stack's limit, 1000 in the code

(* patch: what the file system offers beside a full write: InPlacePatcher (a  *)
(*        local disk), DeltaWriter (FISH+) or neither;                         *)
(* frees: releaseMappingBeforeReplace, an open file cannot be replaced         *)
(*        (Windows);                                                           *)
(* maps:  the file can be mapped, else it is read in chunks;                   *)
(* links: the file has other hard links (keepLinks).                           *)
Environ == [patch: {"inplace", "delta", "none"}, frees: BOOLEAN, maps: BOOLEAN, links: BOOLEAN]

ASSUME EnvironsAssumption ==
  \A e \in Environs : e \in Environ /\ (e.frees \/ e.maps \/ e.links => e.patch = "inplace")

ASSUME OpenedAssumption == Opened \in Seq(Nat)
ASSUME BoundsAssumption == MaxEdits \in Nat /\ MaxSaves \in Nat /\ MaxUndo \in Nat

VARIABLES
  env,          \* the file system of this file
  pieces, add,  \* PieceTable.pieces and PieceTable.add
  orig,         \* what PieceTable.orig answers when it is read
  backing,      \* what orig is: a "mapping", "chunks", a "copy" or "loading"
  undo, redo,   \* the stacks of EditorState
  lastOp,       \* "typing", "other" or "none"
  clean,        \* cleanState
  modified, textLost,
  job,          \* where the save stands, "no" when none runs (ev.Saving)
  conv,         \* the save changes codepage, BOM or line ends (fullWrite)
  disk,         \* the content of the file at ev.FilePath
  stage,        \* the temporary sibling of the running save, or NoStage
  shown,        \* history: the text after the edits made, as plain bytes
  base,         \* history: the file the original pieces are ranges of, NoStage once
                \* that file was overwritten in part or is no longer there
  gen,          \* history: how often the bytes under the pieces changed
  left,         \* history: the stages left beside the file
  edits, saves  \* counters, for the bounds

table   == <<pieces, add, orig, backing>>
history == <<undo, redo, lastOp>>
file    == <<disk, stage, left>>
flags   == <<clean, modified, textLost>>
ghosts  == <<shown, base, gen>>
vars    == <<env, table, history, file, flags, job, conv, ghosts, edits, saves>>

NoStage == << -1 >>
Piece(b, s, n) == [buf |-> b, start |-> s, len |-> n]
-----------------------------------------------------------------------------
(***************************************************************************)
(* The piece table                                                         *)
(***************************************************************************)
\* How many bytes the first j pieces hold.
Size(ps, j) ==
  LET sum[i \in 0..j] == IF i = 0 THEN 0 ELSE sum[i - 1] + ps[i].len IN sum[j]

\* A piece reads its buffer; beyond the end of the original there is nothing.
ReadPiece(p, o, a) ==
  IF p.buf = "add" THEN SubSeq(a, p.start + 1, p.start + p.len)
  ELSE SubSeq(o, p.start + 1, IF p.start + p.len <= Len(o) THEN p.start + p.len ELSE Len(o))

\* Bytes: the text a list of pieces stands for over the buffers o and a.
TextOf(ps, o, a) ==
  LET text[i \in 0..Len(ps)] == IF i = 0 THEN <<>> ELSE text[i - 1] \o ReadPiece(ps[i], o, a)
  IN text[Len(ps)]

\* The add buffer of a new table may be shorter than an old state's pieces
\* claim; slicing it there is a panic.
OutOfBounds(ps, a) == \E i \in 1..Len(ps) : ps[i].buf = "add" /\ ps[i].start + ps[i].len > Len(a)

\* offsetToPiece: the number of pieces that lie whole before an offset.
PiecesBefore(ps, off) == CHOOSE j \in 0..Len(ps) :
  Size(ps, j) <= off /\ (j < Len(ps) => Size(ps, j + 1) > off)

Upto(ps, off) ==
  LET j == PiecesBefore(ps, off) rest == off - Size(ps, j) IN
  SubSeq(ps, 1, j) \o IF rest = 0 THEN <<>> ELSE <<[ps[j + 1] EXCEPT !.len = rest]>>

From(ps, off) ==
  LET j == PiecesBefore(ps, off) rest == off - Size(ps, j) IN
  IF rest = 0 THEN SubSeq(ps, j + 1, Len(ps))
  ELSE <<[ps[j + 1] EXCEPT !.start = @ + rest, !.len = @ - rest]>> \o SubSeq(ps, j + 2, Len(ps))

\* Insert: at the end, a piece that ends where the add buffer did grows.
Insert(ps, off, p) ==
  IF /\ off = Size(ps, Len(ps)) /\ ps # <<>>
     /\ Last(ps).buf = "add" /\ Last(ps).start + Last(ps).len = p.start
  THEN Front(ps) \o <<[Last(ps) EXCEPT !.len = @ + p.len]>>
  ELSE Upto(ps, off) \o <<p>> \o From(ps, off)

Delete(ps, off, n) == Upto(ps, off) \o From(ps, off + n)

\* New, NewWithBuffer: one piece over the whole original buffer.
WholeFile(bytes) == IF bytes = <<>> THEN <<>> ELSE <<Piece("orig", 0, Len(bytes))>>

Text == TextOf(pieces, orig, add)

\* A read of the text succeeds.
Readable ==
  /\ backing = "loading" => \A i \in 1..Len(pieces) : pieces[i].buf = "add"
  /\ ~ OutOfBounds(pieces, add)
-----------------------------------------------------------------------------
Init ==
  /\ env \in Environs
  /\ pieces = WholeFile(Opened) /\ add = <<>> /\ orig = Opened /\ backing = IF env.maps THEN "mapping" ELSE "chunks"
  /\ undo = <<>> /\ redo = <<>> /\ lastOp = "none"
  /\ clean = WholeFile(Opened) /\ modified = FALSE /\ textLost = FALSE
  /\ job = "no" /\ conv = FALSE
  /\ disk = Opened /\ stage = NoStage /\ left = {}
  /\ shown = Opened /\ base = Opened /\ gen = 0
  /\ edits = 0 /\ saves = 0
-----------------------------------------------------------------------------
(***************************************************************************)
(* Editing, on the UI thread                                               *)
(***************************************************************************)
State == [pieces |-> pieces, text |-> shown, gen |-> gen]

\* saveUndo: typing joins the typing before it, every other edit is a state.
SaveUndo(op) ==
  /\ redo' = <<>>
  /\ IF op = "typing" /\ lastOp = "typing" /\ undo # <<>> THEN UNCHANGED <<undo, lastOp>>
     ELSE /\ lastOp' = op
          /\ undo' = LET u == Append(undo, State) IN IF Len(u) > MaxUndo THEN Tail(u) ELSE u

Edit == edits < MaxEdits /\ edits' = edits + 1 /\ ~ OutOfBounds(pieces, add)

\* Typing, a paste, InsertTextAtCursor: bytes go in at the cursor.
InsertText(op, off, bytes) ==
  /\ Edit /\ bytes # <<>> /\ SaveUndo(op)
  /\ pieces' = Insert(pieces, off, Piece("add", Len(add), Len(bytes)))
  /\ add' = add \o bytes
  /\ shown' = SubSeq(shown, 1, off) \o bytes \o SubSeq(shown, off + 1, Len(shown))
  /\ modified' = TRUE
  /\ UNCHANGED <<env, orig, backing, file, clean, textLost, job, conv, base, gen, saves>>

\* DeleteSelection, Del, Backspace.
DeleteText(off, n) ==
  /\ Edit /\ SaveUndo("other")
  /\ pieces' = Delete(pieces, off, n)
  /\ shown' = SubSeq(shown, 1, off) \o SubSeq(shown, off + n + 1, Len(shown))
  /\ modified' = TRUE
  /\ UNCHANGED <<env, add, orig, backing, file, clean, textLost, job, conv, base, gen, saves>>

\* (mutant) The replacement is taken for unchanged bytes of a new table.
SetTextNewTable(bytes) ==
  /\ Edit /\ SaveUndo("other")
  /\ pieces' = WholeFile(bytes) /\ orig' = bytes /\ add' = <<>> /\ backing' = "copy"
  /\ shown' = bytes /\ modified' = TRUE
  /\ UNCHANGED <<env, file, clean, textLost, job, conv, base, gen, saves>>

\* SetText after saveUndo: Replace All, a converted line ending, a codepage.
SetText(bytes) ==
  /\ Edit /\ SaveUndo("other")
  /\ pieces' = IF bytes = <<>> THEN <<>> ELSE <<Piece("add", Len(add), Len(bytes))>>
  /\ add' = add \o bytes
  /\ shown' = bytes /\ modified' = TRUE
  /\ UNCHANGED <<env, orig, backing, file, clean, textLost, job, conv, base, gen, saves>>

\* LoadState of a state taken from one stack; the present goes on the other.
Load(state) ==
  /\ pieces' = state.pieces /\ shown' = state.text
  /\ modified' = (state.pieces # clean)
  /\ lastOp' = "none"
  /\ UNCHANGED <<env, add, orig, backing, file, clean, textLost, job, conv, base, gen, edits, saves>>

Undo ==
  /\ undo # <<>> /\ ~ OutOfBounds(pieces, add)
  /\ undo' = Front(undo) /\ redo' = Append(redo, State)
  /\ Load(Last(undo))

Redo ==
  /\ redo # <<>> /\ ~ OutOfBounds(pieces, add)
  /\ redo' = Front(redo) /\ undo' = Append(undo, State)
  /\ Load(Last(redo))
-----------------------------------------------------------------------------
(***************************************************************************)
(* Saving: saveToFile on its own goroutine, one step per stage             *)
(***************************************************************************)
Local == env.patch = "inplace"
KeepTable == UNCHANGED <<pieces, add, orig, backing>>
KeepFile == UNCHANGED <<disk, stage, left>>
Save(from, to) == job = from /\ job' = to /\ UNCHANGED <<env, pieces, add, conv, shown, edits, saves>>

\* The save failed: the text and the flags stay as they were.
Failed(from) == Save(from, "no") /\ UNCHANGED <<history, flags, base, gen>>
Went(from, to) == Save(from, to) /\ UNCHANGED <<history, flags, base, gen>>

\* saveToFile: refused while a save runs and once the text is lost; applySaveAs
\* marks a text it converts as modified.
SaveStart(c) ==
  /\ job = "no" /\ ~ textLost /\ saves < MaxSaves /\ saves' = saves + 1
  /\ job' = "patch" /\ conv' = c /\ modified' = (modified \/ c)
  /\ UNCHANGED <<env, table, history, file, clean, textLost, ghosts, edits>>

\* ValidateInPlacePieces: unchanged bytes stay where they are.
InPlace == \A i \in 1..Len(pieces) : pieces[i].buf = "orig" => pieces[i].start = Size(pieces, i - 1)

\* PatchInPlace after k pieces: typed bytes written over the file.
Overlaid(k) ==
  LET data(i) == \E j \in 1..k : /\ pieces[j].buf = "add"
                                 /\ Size(pieces, j - 1) < i /\ i <= Size(pieces, j)
      end == CHOOSE n \in Len(disk)..Len(disk) + Size(pieces, k) :
               /\ n = Len(disk) \/ data(n)
               /\ \A m \in n + 1..Size(pieces, k) : ~ data(m)
  IN [i \in 1..end |-> IF data(i) THEN Text[i] ELSE IF i <= Len(disk) THEN disk[i] ELSE 0]

Truncated(bytes, n) == [i \in 1..n |-> IF i <= Len(bytes) THEN bytes[i] ELSE 0]

\* What is read under a table whose local file was rewritten: pages and chunks
\* not read before show the new bytes, as many as there were.
Rewritten(bytes) == orig' \in IF backing = "copy" THEN {orig} ELSE {orig, Truncated(bytes, Len(orig))}

\* It writes all and truncates, or fails after some of the pieces.
PatchInPlace ==
  /\ Local /\ ~ conv /\ InPlace /\ ~ OutOfBounds(pieces, add) /\ UNCHANGED <<backing, stage, left>>
  /\ \/ /\ disk' = Truncated(Overlaid(Len(pieces)), Size(pieces, Len(pieces)))
        /\ Save("patch", "reopen")
     \/ \E k \in 0..Len(pieces) : disk' = Overlaid(k) /\ Save("patch", "stage")
  /\ Rewritten(disk') /\ base' = disk' /\ gen' = IF disk' = disk THEN gen ELSE gen + 1
  /\ UNCHANGED <<history, flags>>

\* PatchFile: the server copies the unchanged ranges out of the file as it is.
PatchFile ==
  /\ env.patch = "delta" /\ ~ conv /\ ~ OutOfBounds(pieces, add)
  /\ stage' = TextOf(pieces, disk, add) /\ KeepTable /\ UNCHANGED <<disk, left>>
  /\ Went("patch", "release")

\* Neither applies, or it was refused before the first byte.
PatchUnavailable == Went("patch", "stage") /\ KeepTable /\ KeepFile

\* writeTableText into the temporary sibling.
WriteStage ==
  /\ KeepTable /\ UNCHANGED <<disk, left>>
  /\ \/ Readable /\ stage' = Text /\ Went("stage", "release")
     \/ stage' = NoStage /\ Failed("stage")

\* releaseForSave with a copy before a rewrite in place, releaseChunksForSave
\* before a rename; it may fail, and the stage is then removed.
Release ==
  LET next == IF env.links THEN "copyover" ELSE "rename" IN
  /\ orig' = orig /\ UNCHANGED <<disk, left>>
  /\ \/ /\ stage' = stage /\ Went("release", next)
        /\ backing' = IF env.links THEN "copy"
                      ELSE IF env.frees /\ backing = "chunks" THEN "loading" ELSE backing
     \/ /\ env.links \/ env.frees
        /\ backing' = backing /\ stage' = NoStage /\ Failed("release")

\* copyEditorStageInPlace: the file is truncated and written; if that fails
\* the stage stays.
CopyOver ==
  /\ UNCHANGED backing
  /\ \/ disk' = stage /\ left' = left /\ Save("copyover", "reopen")
     \/ \E k \in 0..Len(stage) :
          disk' = SubSeq(stage, 1, k) /\ left' = left \cup {stage} /\ Save("copyover", "no")
  /\ Rewritten(disk') /\ base' = NoStage /\ stage' = NoStage
  /\ UNCHANGED <<history, flags, gen>>

\* A file is mapped again if it was, and read in chunks if that fails.
Reopened == IF env.maps THEN {"mapping", "chunks"} ELSE {"chunks"}

\* A remote file that is read by its path shows what is there now.
ByPath(bytes) == IF Local THEN orig' = orig ELSE orig' \in {orig, bytes}

RenameDone ==
  /\ disk' = stage /\ stage' = NoStage /\ ByPath(disk') /\ base' = NoStage
  /\ Save("rename", "reopen") /\ UNCHANGED <<backing, left, history, flags, gen>>

\* renameOverMapping: a refused rename is tried again without the mapping, if
\* the mapped file is the one at the path (describes).
RenameWithoutMapping ==
  /\ env.frees /\ backing = "mapping" /\ base # NoStage /\ backing' = "loading"
  /\ UNCHANGED orig /\ KeepFile /\ Went("rename", "rename")

\* (mutant) The text counts as saved as soon as it was written.
RenameRefusedSaved ==
  /\ stage' = NoStage /\ KeepTable /\ UNCHANGED <<disk, left>> /\ Save("rename", "no")
  /\ modified' = FALSE /\ UNCHANGED <<history, clean, textLost, base, gen>>

\* A definite refusal: the stage goes, and a text that was released is read
\* back from the file it came from, if that opens and has the size it had
\* (recoverMapping, adoptRecoveredBacking).
RenameRefused ==
  /\ stage' = NoStage /\ UNCHANGED <<disk, left>> /\ Save("rename", "no")
  /\ UNCHANGED <<history, clean, modified, base, gen>>
  /\ \/ backing # "loading" /\ UNCHANGED <<orig, backing, textLost>>
     \/ /\ backing = "loading" /\ Len(disk) = Len(orig)
        /\ backing' \in Reopened /\ orig' = disk /\ UNCHANGED textLost
     \/ backing = "loading" /\ textLost' = TRUE /\ UNCHANGED <<orig, backing>>

\* (mutant) The stage of a rename whose outcome is unknown is removed.
RenameUncertainCleans ==
  /\ ~ Local
  /\ \/ KeepTable /\ disk' = disk
     \/ disk' = <<>> /\ ByPath(disk') /\ backing' = backing
  /\ stage' = NoStage /\ left' = left /\ Failed("rename")

\* A remote answer was lost: the rename may have been made, and no stage is
\* removed (OperationMustNotRetry).
RenameUncertain ==
  /\ ~ Local /\ UNCHANGED backing /\ stage' = NoStage
  /\ \/ disk' = disk /\ orig' = orig /\ left' = left \cup {stage}
     \/ disk' = stage /\ ByPath(disk') /\ left' = left
  /\ base' = IF disk' = disk THEN base ELSE NoStage
  /\ Save("rename", "no") /\ UNCHANGED <<history, flags, gen>>

\* The file was written and reopened: a new table on it takes the place of the
\* old one.  The stacks are kept, unless the bytes of the text changed
\* (applySaveAs).
SaveDone ==
  /\ job = "reopen" /\ job' = "no"
  /\ pieces' = WholeFile(disk) /\ add' = <<>> /\ orig' = disk /\ clean' = pieces'
  /\ backing' \in Reopened
  /\ modified' = FALSE /\ base' = disk /\ gen' = gen + 1
  /\ IF conv THEN undo' = <<>> /\ redo' = <<>> /\ lastOp' = "none" ELSE UNCHANGED history
  /\ UNCHANGED <<env, file, textLost, conv, shown, edits, saves>>

\* The file was written but could not be reopened: the old table stays, and is
\* lost if there is nothing under it.
SaveKept ==
  /\ clean' = pieces /\ modified' = FALSE /\ textLost' = (backing = "loading")
  /\ KeepTable /\ KeepFile /\ UNCHANGED <<history, base, gen>>
  /\ Save("reopen", "no")
-----------------------------------------------------------------------------
\* What may be typed, and what SetText may put in the place of the text.
Typed == <<100 + edits>>
Replacements == {<<>>, <<200 + edits>> \o Reverse(shown)}

Editing ==
  \/ \E off \in 0..Len(shown) : \E op \in {"typing", "other"} : InsertText(op, off, Typed)
  \/ \E off \in 0..Len(shown) - 1 : \E n \in 1..Len(shown) - off : DeleteText(off, n)
  \/ \E bytes \in Replacements : SetText(bytes)

SaveStep ==
  \/ PatchInPlace \/ PatchFile \/ PatchUnavailable \/ WriteStage \/ Release
  \/ CopyOver
  \/ RenameDone \/ RenameWithoutMapping \/ RenameRefused \/ RenameUncertain
  \/ SaveDone \/ SaveKept

Next == Editing \/ Undo \/ Redo \/ (\E c \in BOOLEAN : SaveStart(c)) \/ SaveStep

\* A stack whose last state is of the table there is, over the bytes it was made
\* for, while the clean state is what the file holds.
Current(stack) ==
  /\ job = "no" /\ disk = base /\ disk = TextOf(clean, orig, add)
  /\ stack # <<>> /\ Last(stack).gen = gen

\* A remote file that is read by its path was replaced under the text.
ReplacedUnderneath == ~ Local /\ disk # base

\* The editor as it is meant to be used: nothing is edited while a save runs,
\* nor after a remote file was replaced but not reopened, no state of an earlier
\* table is loaded, and the pieces are not saved as a patch of a file they are
\* not ranges of.
CalmNext ==
  \/ job = "no" /\ ~ ReplacedUnderneath /\ Editing
  \/ Current(undo) /\ Undo
  \/ Current(redo) /\ Redo
  \/ \E c \in BOOLEAN : (disk = base \/ (c /\ Local)) /\ SaveStart(c)
  \/ SaveStep

Spec == Init /\ [][Next]_vars
CalmSpec == Init /\ [][CalmNext]_vars
-----------------------------------------------------------------------------
PieceOK(p) == p.buf \in {"orig", "add"} /\ p.start \in Nat /\ p.len \in Nat \ {0}

\* Type invariant; no piece is empty, and no stack is longer than its limit.
TypeOK ==
  /\ env \in Environs
  /\ \A i \in 1..Len(pieces) : PieceOK(pieces[i])
  /\ backing \in {"mapping", "chunks", "copy", "loading"}
  /\ lastOp \in {"typing", "other", "none"} /\ modified \in BOOLEAN /\ textLost \in BOOLEAN
  /\ job \in {"no", "patch", "stage", "release", "copyover", "rename", "reopen"}
  /\ Len(undo) <= MaxUndo /\ Len(redo) <= MaxUndo
  /\ \A i \in 1..Len(undo) : \A j \in 1..Len(undo[i].pieces) : PieceOK(undo[i].pieces[j])
  /\ stage = NoStage <=> job \notin {"release", "copyover", "rename"}

\* The table reads as the plain text the edits, undos and redos make of the
\* opened file, whatever buffers a save swaps under it; and unless the editor
\* says that the text is lost, it can be read once no save runs.
ShowsTheEdits ==
  \/ textLost \/ ReplacedUnderneath
  \/ /\ Readable => Text = shown
     /\ job = "no" => Readable

\* A text the editor calls unmodified is in the file, or in a stage that a
\* failed rewrite left beside it, also after undoing back to it.
CleanIsSaved == job = "no" /\ ~ modified => disk = shown \/ shown \in left

\* Whatever step of a save fails, and whether or not its outcome is known, the
\* text the editor showed is still in the file, in a stage beside it, or in the
\* editor, to be read and saved again.  (On Windows a save may give up a text
\* that it had released and cannot read back.)
TextIsSomewhere ==
  job = "no" =>
    \/ shown \in {disk} \cup left
    \/ ~ textLost /\ Readable /\ Text = shown
    \/ env.frees /\ textLost

\* A state of the history reads as the text it was taken from ("Undo states are
\* pieces of the file's bytes. ... every earlier state would load garbage; the
\* history has to start over", save_as.go:379).
HistoryReads ==
  job = "no" /\ disk = base /\ clean = WholeFile(base) =>
    \A i \in 1..Len(undo) :
      ~ OutOfBounds(undo[i].pieces, add) /\ TextOf(undo[i].pieces, orig, add) = undo[i].text
=============================================================================
