-------------------------- MODULE MCBundleRequests --------------------------
(***************************************************************************)
(* Instances of BundleRequests for TLC.  Two clients share the queue, which*)
(* is short enough to be often full and long enough for a registration and *)
(* a request to wait in it together: one installs and listens, and stops   *)
(* to, the other uninstalls and listens.  The run checks liveness, so it   *)
(* uses no symmetry.                                                       *)
(***************************************************************************)
EXTENDS BundleRequests

CONSTANTS c1, c2, a

Message(kind, c, x) == [kind |-> kind, from |-> c, about |-> x]

TwoClients ==
  (c1 :> {Message("install", c1, a), Message("add", c1, All), Message("remove", c1, All)})
  @@ (c2 :> {Message("uninstall", c2, a), Message("add", c2, a)})
=============================================================================
