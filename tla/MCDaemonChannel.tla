-------------------------- MODULE MCDaemonChannel --------------------------
(***************************************************************************)
(* Instances of DaemonChannel for TLC.  The service calls the daemon from  *)
(* one thread, its service task; a second caller shows what mutex_ is for. *)
(* The runs check liveness, so none of them uses symmetry.                 *)
(***************************************************************************)
EXTENDS DaemonChannel
=============================================================================
