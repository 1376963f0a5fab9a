------------------------------ MODULE AppStore ------------------------------
(***************************************************************************)
(* What the bundle manager promises about the applications of a device,    *)
(* without files, scans or operations in several steps: which bundles are  *)
(* there, in which version, and under which uid each runs.                 *)
(***************************************************************************)
EXTENDS Integers

CONSTANTS
  Bundles,  (* bundle names                                                *)
  Fixed     (* the bundles of the system partition: never uninstalled      *)

VARIABLE apps   (* for every bundle its version, 0 for none, and its uid   *)

Present(x) == apps[x].ver # 0

(* A bundle appears, with a uid no other bundle has.                       *)
Install(x) ==
  /\ ~Present(x)
  /\ Present(x)'
  /\ \A y \in Bundles \ {x} : Present(y) => apps[y].uid # apps'[x].uid

(* A bundle is replaced by the same or a newer version and keeps its uid.  *)
Update(x) ==
  /\ Present(x)
  /\ apps'[x].ver >= apps[x].ver
  /\ apps'[x].uid = apps[x].uid

Uninstall(x) ==
  /\ Present(x)
  /\ x \notin Fixed
  /\ ~Present(x)'

Init == \A x \in Bundles : ~Present(x)

(* One bundle at a time; a restart of the device changes nothing.          *)
Next ==
  \E x \in Bundles :
    /\ \A y \in Bundles \ {x} : apps'[y] = apps[y]
    /\ Install(x) \/ Update(x) \/ Uninstall(x)

Spec == Init /\ [][Next]_apps
=============================================================================
