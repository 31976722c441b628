---------------------------- MODULE MCUpdateFlow ----------------------------
(* UpdateFlow on small instances; the .cfg files give the constants. *)
EXTENDS UpdateFlow

(* Every script transition but ToError, for which no script name exists. *)
AllScripts == {"Idle", "Sync", "Download_Enter", "Download_Leave",
  "ArtifactInstall", "ArtifactReboot_Enter", "ArtifactReboot_Leave",
  "ArtifactCommit_Enter", "ArtifactCommit_Leave", "ArtifactRollback",
  "ArtifactRollbackReboot_Enter", "ArtifactRollbackReboot_Leave",
  "ArtifactFailure"}

=============================================================================
