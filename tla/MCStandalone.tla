---------------------------- MODULE MCStandalone ----------------------------
(* Standalone on small instances; the .cfg files give the constants. *)
EXTENDS Standalone
=============================================================================
