---------------------------- MODULE MCConnection ----------------------------
(* Client commands whose length matters to the buffer of the server.       *)
EXTENDS Connection

(* Bodies of 3 bytes (larger than the buffer), of one, and of 4 (beyond IntMax). *)
Commands == <<7, 12, 20>>
=============================================================================
