------------------------- MODULE MCBundleInstaller -------------------------
(***************************************************************************)
(* Instances of BundleInstaller for TLC.  The uid ranges keep the shape of *)
(* the code's, and the bundles its three kinds: one pre-installed by the   *)
(* system, one by a vendor, the others only installed by clients.          *)
(***************************************************************************)
EXTENDS BundleInstaller

CONSTANTS sys, ven, a, b   (* bundle names *)

MCHome ==
  [x \in Bundles |-> CASE x = sys -> "SYSTEM" [] x = ven -> "THIRD_SYSTEM"
                       [] OTHER   -> "THIRD"]
=============================================================================
