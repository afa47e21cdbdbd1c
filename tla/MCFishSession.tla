---------------------------- MODULE MCFishSession ----------------------------
(* An upload, a read and a noop.  The upload's body is streamed after its     *)
(* request; it succeeds, or fails with its body read (the line) or not        *)
(* (torn).  A read's answer is a size line and one frame, with either end, or *)
(* a refusal, or makes no sense at its header or its end.                     *)
EXTENDS FishSession

CONSTANTS save, read, ping

MCRequests == {save, read, ping}
MCKind == [q \in MCRequests |-> CASE q = save -> "put" [] q = read -> "data" [] OTHER -> "noop"]
MCAnswers ==
  [k \in {"text", "data", "put", "noop"} |->
     CASE k = "data" -> {<<"line", "head", p, "term">> : p \in Payload}
                        \cup {<<"term">>, <<"badhead", "even", "term">>, <<"line", "badterm">>}
       [] k = "put"  -> {<<"line", "term">>, <<"term">>, <<"torn">>}
       [] OTHER -> {<<"term">>}]
===============================================================================
