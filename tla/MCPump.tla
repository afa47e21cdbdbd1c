-------------------------------- MODULE MCPump --------------------------------
(* Five bytes, all different, through a buffer of two, three attempts. *)
EXTENDS Pump
MCData == <<11, 12, 13, 14, 15>>
===============================================================================
