------------------------------ MODULE MCTransfer ------------------------------
(* One file and one folder of two files, with a free name to rename to.  The *)
(* file's destination and one of the folder's may be taken beforehand.       *)
EXTENDS Transfer

CONSTANTS a, b, c,                                  \* files
          sa, sd, sb, sc, ta, td, tb, tc, free      \* paths

MCSrc == a :> sa @@ b :> sb @@ c :> sc
MCDst == a :> ta @@ b :> tb @@ c :> tc
MCItems == << [src |-> sa, dst |-> ta, files |-> <<a>>],
              [src |-> sd, dst |-> td, files |-> <<b, c>>] >>
World(taken) ==
  [p \in Paths |-> CASE p = sa -> a [] p = sb -> b [] p = sc -> c [] p = sd -> Folder
                     [] p \in taken -> IF p = td THEN Folder ELSE Old
                     [] OTHER -> Nothing]
MCWorlds == {World({}), World({ta, td, tb})}
MCNames == [g \in Files |-> IF g = a THEN {free} ELSE {}]
MCForeign == {ta, tb}
===============================================================================
