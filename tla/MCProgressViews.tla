--------------------------- MODULE MCProgressViews ---------------------------
(* Two reporters and two updates of the dialog: one shown, one that comes     *)
(* before, while or after it is drawn.  Two tasks and four pieces of news of *)
(* the queue: both enqueued, and two changes or ends that race the refreshes.*)
EXTENDS ProgressViews
===============================================================================
