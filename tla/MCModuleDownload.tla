-------------------------- MODULE MCModuleDownload --------------------------
(* ModuleDownload on small instances; the .cfg files give the constants. *)
EXTENDS ModuleDownload
=============================================================================
