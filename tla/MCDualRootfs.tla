---------------------------- MODULE MCDualRootfs ----------------------------
(***************************************************************************)
(* The module TLC checks; every constant of DualRootfs is given in the     *)
(* configuration files.                                                    *)
(***************************************************************************)
EXTENDS DualRootfs

=============================================================================
