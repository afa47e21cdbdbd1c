------------------------------ MODULE MCUpdater ------------------------------
(* The executable and one file beside it, unpacked by two workers from an     *)
(* archive of both, or from one that holds the other file only.               *)
EXTENDS Updater

CONSTANTS exe, lib

MCFiles    == {exe, lib}
MCArchives == {{exe, lib}, {lib}}
===============================================================================
