----------------------------- MODULE MCDownload -----------------------------
(* Download on small instances; the .cfg files give the constants. *)
EXTENDS Download
=============================================================================
