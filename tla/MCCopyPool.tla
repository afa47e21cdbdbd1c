------------------------------ MODULE MCCopyPool ------------------------------
(* Two workers on a root with a file and a folder of two files, whose         *)
(* destinations exist already.                                                *)
EXTENDS CopyPool

CONSTANTS root, full, f1, f2, f3, w1, w2

MCDirs    == {root, full}
MCFiles   == {f1, f2, f3}
MCWorkers == {w1, w2}
MCParent  == [d \in MCDirs \ {root} |-> root]
MCTaken   == {f2, f3}
MCFileDir == [f \in MCFiles |-> IF f = f1 THEN root ELSE full]
===============================================================================
