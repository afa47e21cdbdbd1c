------------------------------ MODULE MCOpQueue ------------------------------
(* Instances of OpQueue.  Three tasks on two devices: a folder copy that is   *)
(* not small, a small one on the same device that may bypass it, and one that *)
(* needs both devices and whose paths meet those of the small one.  For some  *)
(* runs the folder copy and a MkDir, which has no keys, paths or selection.   *)
EXTENDS OpQueue

CONSTANTS big, small, wide, mkdir, k1, k2

MCTasks == {big, small, wide}
MCPair  == {big, mkdir}
MCKeys  == {k1, k2}

Entry(isDir, size) == [isDir |-> isDir, size |-> size]

MCResKeys ==
  [t \in Tasks |-> CASE t = wide  -> {k1, k2}
                     [] t = mkdir -> {}
                     [] OTHER     -> {k1}]

MCPaths ==
  [t \in Tasks |-> CASE t = big   -> {<<"a">>}
                     [] t = small -> {<<"b", "f">>, <<"c">>}
                     [] t = wide  -> {<<"b">>}
                     [] OTHER     -> {}]

\* The small task sits exactly on both limits; the wide one is one byte over
\* unless MaxBytes is raised.
MCPreconds ==
  [t \in Tasks |-> CASE t = big   -> [f \in {"d"} |-> Entry(TRUE, 0)]
                     [] t = small -> [f \in {"f", "g"} |-> Entry(FALSE, 1)]
                     [] t = mkdir -> [f \in {} |-> Entry(FALSE, 0)]
                     [] OTHER     -> [f \in {"b"} |-> Entry(FALSE, 3)]]

(* Two tasks do whatever the queue allows.  When the third one comes in, all  *)
(* three succeed or are cancelled, report one kind of progress, and the user  *)
(* cancels by quitting only ...                                               *)
Calm ==
  /\ \A t \in Tasks : err'[t] # "failed" /\ state'[t] # "Scanning"
  /\ ui' = "cancel" => quitting
  /\ quitting' \/ \A t \in Tasks : ~ ctxDone'[t] /\ state'[t] \notin {"Cancelling", "Cancelled"}
CalmSpec == Init /\ [][Next /\ (state'[wide] = "New" \/ Calm)]_vars

(* Liveness, with operations that may hang for ever: a task that ends succeeds *)
(* or is cancelled, no progress is reported, and the user cancels the folder *)
(* copy, or quits.                                                           *)
Live ==
  /\ \A t \in Tasks : err'[t] # "failed" /\ state'[t] \notin {"Scanning", "Running"}
  /\ ui' = "cancel" => quitting \/ target' \in {big, NoTask}
LiveSpec == Init /\ [][Next /\ Live]_vars /\ Fairness
=============================================================================
