----------------------------- MODULE MCSocClient -----------------------------
(* SocClient on small instances; the .cfg file gives the constants. *)
EXTENDS SocClient
=============================================================================
