---------------------------- MODULE MCPanelLoads ----------------------------
(* An instance of PanelLoads: two directories of the local disk, one below   *)
(* the other, and the root of a remote file system.                          *)
EXTENDS PanelLoads

CONSTANTS disk, home, site

MCDirs  == {disk, home, site}
MCLocal == {disk, home}
MCUp    == [d \in Dirs |-> IF d = home THEN disk ELSE None]

(* DirCache starts empty or with the remote root.                             *)
CalmInit == Init /\ \A d \in Dirs : d \in Local \/ sync => cache[d] = None
CalmSpec == CalmInit /\ [][CalmNext]_vars /\ Fairness
=============================================================================
