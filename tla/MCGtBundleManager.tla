------------------------- MODULE MCGtBundleManager -------------------------
(***************************************************************************)
(* Instances of GtBundleManager for TLC: s is in the system partition, v   *)
(* in that of the vendors, a and b are third-party bundles.                *)
(***************************************************************************)
EXTENDS GtBundleManager

AllHomes == [s |-> "SYSTEM", v |-> "THIRD_SYSTEM", a |-> "THIRD", b |-> "THIRD"]

HomeOf(names) == [x \in names |-> AllHomes[x]]

VendorAndTwo == {"v", "a", "b"}
VendorHomes  == HomeOf(VendorAndTwo)

OneOfEach      == {"s", "v", "a"}
OneOfEachHomes == HomeOf(OneOfEach)
=============================================================================
