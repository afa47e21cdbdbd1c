--------------------------- MODULE MCEditorBuffer ---------------------------
(* The editor on a file of two bytes, on each kind of file system it knows.   *)
EXTENDS EditorBuffer

On(patch, frees, maps, links) == [patch |-> patch, frees |-> frees, maps |-> maps, links |-> links]

MCOpened == <<1, 2>>

\* A local disk on Unix, with and without other links to the file; on Windows,
\* mapped and read in chunks; FISH+; another remote file system.
MCEnvirons == {
  On("inplace", FALSE, TRUE, FALSE), On("inplace", FALSE, TRUE, TRUE),
  On("inplace", TRUE, TRUE, FALSE), On("inplace", TRUE, FALSE, FALSE),
  On("delta", FALSE, FALSE, FALSE), On("none", FALSE, FALSE, FALSE)}

\* A local disk on Unix, for the history after an ordinary save.
MCUnix == {On("inplace", FALSE, TRUE, FALSE)}
=============================================================================
