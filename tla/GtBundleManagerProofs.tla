------------------------ MODULE GtBundleManagerProofs -----------------------
(***************************************************************************)
(* Theorems about GtBundleManager, for all bundles, versions and bounds.   *)
(***************************************************************************)
EXTENDS GtBundleManager, FiniteSetTheorems, TLAPS

LEMMA NullTypes ==
  /\ NoHap \in Haps /\ NoInfo \in Infos
  /\ None \notin Versions /\ Partial \notin Versions /\ NoBundle \notin Bundles
<1>1. NoHap \in Haps
  <2>1. PICK x \in Bundles, v \in Versions : TRUE
    BY GtAssumption
  <2>2. [name |-> x, ver |-> v, style |-> "THIRD"] \in Haps
    BY DEF Haps, Styles
  <2> QED
    BY <2>2 DEF NoHap
<1>2. NoInfo \in Infos
  BY DEF NoInfo, Infos
<1>3. None \notin Versions /\ Partial \notin Versions
  BY GtAssumption DEF None, Partial
<1>4. QED
  BY <1>1, <1>2, <1>3, GtAssumption

LEMMA Bounds ==
  /\ MaxThird \in Nat /\ MaxRequests \in Nat /\ MaxRestarts \in Nat /\ MaxFailures \in Nat
  /\ CountModulus \in Nat /\ CountModulus > MaxThird + MaxRequests
  /\ 0 \in 0 .. CountModulus - 1
<1>1. /\ MaxThird \in Nat /\ MaxRequests \in Nat /\ MaxRestarts \in Nat /\ MaxFailures \in Nat
      /\ CountModulus \in Nat /\ CountModulus > MaxThird + MaxRequests
  BY GtAssumption
<1>2. QED
  BY <1>1

-----------------------------------------------------------------------------
(* Type correctness.                                                       *)

LEMMA PreInstalledType ==
  ASSUME TypeOK, NEW x \in Bundles
  PROVE  PreInstalled(x) \in Haps
BY GtAssumption DEF TypeOK, PreInstalled, Haps

(* The counter wraps around within its width. *)
LEMMA CountType ==
  ASSUME TypeOK, AddNumOfThirdBundles \/ ReduceNumOfThirdBundles
  PROVE  count' \in 0 .. CountModulus - 1
<1>1. CountModulus \in Nat \ {0} /\ count \in Int
  BY GtAssumption DEF TypeOK
<1>2. \A n \in Int : n % CountModulus \in 0 .. CountModulus - 1
  BY <1>1
<1>3. QED
  BY <1>1, <1>2 DEF AddNumOfThirdBundles, ReduceNumOfThirdBundles

LEMMA MayFailType ==
  ASSUME TypeOK, MayFail \/ WithoutFault
  PROVE  /\ calm' \in 0 .. 2 /\ requests' \in 0 .. MaxRequests
         /\ restarts' \in 0 .. MaxRestarts /\ failures' \in 0 .. MaxFailures
BY GtAssumption DEF TypeOK, MayFail, WithoutFault, budget

LEMMA MayRequestType ==
  ASSUME TypeOK, MayRequest
  PROVE  /\ calm' \in 0 .. 2 /\ requests' \in 0 .. MaxRequests
         /\ restarts' \in 0 .. MaxRestarts /\ failures' \in 0 .. MaxFailures
BY GtAssumption DEF TypeOK, MayRequest

LEMMA EndType ==
  ASSUME End
  PROVE  pc' \in Steps /\ hap' \in Haps /\ tmpRecord' \in BOOLEAN
BY NullTypes DEF End, Steps

LEMMA RemainsType ==
  ASSUME NEW v \in Versions \cup {Partial, None}
  PROVE  Remains(v) \subseteq Versions \cup {Partial, None}
BY DEF Remains

LEMMA ReloadType ==
  ASSUME TypeOK, NEW x \in Bundles, NEW sys \in BOOLEAN, Reload(x, sys)
  PROVE  /\ bundleMap' \in [Bundles -> Infos]
         /\ code' \in [Bundles -> Versions \cup {Partial, None}]
         /\ calm' \in 0 .. 2 /\ requests' \in 0 .. MaxRequests
         /\ restarts' \in 0 .. MaxRestarts /\ failures' \in 0 .. MaxFailures
<1>1. CASE code[x] \in Versions
  <2>1. [ver |-> code[x], sys |-> sys] \in Infos
    BY <1>1 DEF Infos
  <2> QED
    BY <1>1, <2>1, MayFailType DEF Reload, TypeOK
<1>2. CASE code[x] \notin Versions
  BY <1>2, MayFailType DEF Reload, TypeOK
<1>3. QED
  BY <1>1, <1>2

LEMMA StartType ==
  ASSUME TypeOK, Start
  PROVE  /\ bundleMap' \in [Bundles -> Infos] /\ count' \in 0 .. CountModulus - 1
         /\ phase' \in {"system", "third", "ready", "preinstall"}
         /\ toScan' \subseteq Bundles /\ pending' \subseteq Bundles
         /\ updated' \subseteq Bundles /\ registered' \in BOOLEAN
         /\ requests' \in 0 .. MaxRequests /\ restarts' \in 0 .. MaxRestarts
         /\ failures' \in 0 .. MaxFailures
<1>1. bundleMap' \in [Bundles -> Infos] /\ count' \in 0 .. CountModulus - 1
  BY NullTypes, Bounds DEF Start
<1>2. requests' \in 0 .. MaxRequests /\ restarts' \in 0 .. MaxRestarts
  BY Bounds DEF TypeOK, Start
<1>3. QED
  BY <1>1, <1>2 DEF TypeOK, Start, PreInstalledBundles

LEMMA ListsType ==
  ASSUME TypeOK
  PROVE  /\ \A list \in Rewritten(thirdSystem) : list \subseteq Bundles \/ list = Torn
         /\ \A list \in Rewritten(uninstalled) : list \subseteq Bundles \/ list = Torn
         /\ \A list : list \subseteq Bundles \/ list = Torn => Readable(list) \subseteq Bundles
         /\ WithThirdSystem \subseteq Bundles \/ WithThirdSystem = Torn
         /\ WithUninstalled \subseteq Bundles \/ WithUninstalled = Torn
BY DEF TypeOK, Rewritten, Readable, WithThirdSystem, WithUninstalled, bundle, Haps

(* Every action keeps the types. *)
LEMMA TypeStep ==
  ASSUME TypeOK, [Next]_vars
  PROVE  TypeOK'
<1> USE NullTypes
    DEF TypeOK, Goto, memory, lists, disk, task, boot, told, budget, bundle, Steps
<1>0. CASE UNCHANGED vars
  BY <1>0 DEF vars
<1>1. ASSUME NEW h \in ClientHaps, ReceiveInstall(h) PROVE TypeOK'
  BY <1>1, MayRequestType DEF ReceiveInstall, ClientHaps
<1>2. ASSUME NEW x \in Bundles, ReceiveUninstall(x) PROVE TypeOK'
  BY <1>2, MayRequestType DEF ReceiveUninstall, Haps
<1>3. CASE BadHap
  BY <1>3, EndType, MayFailType DEF BadHap
<1>4. CASE RefuseTooMany
  BY <1>4, EndType DEF RefuseTooMany
<1>5. CASE RefuseVersion
  BY <1>5, EndType DEF RefuseVersion
<1>6. CASE Accept
  BY <1>6 DEF Accept
<1>7. CASE RenameDirBegin
  BY <1>7, RemainsType DEF RenameDirBegin, Haps
<1>8. CASE RenameDirEnd
  BY <1>8 DEF RenameDirEnd, Haps
<1>9. CASE BackUpInstallRecord
  BY <1>9 DEF BackUpInstallRecord
<1>10. CASE RemoveData
  BY <1>10 DEF RemoveData
<1>11. CASE MakeData
  BY <1>11 DEF MakeData, Haps
<1>12. CASE UpdateBundleInfo
  BY <1>12 DEF UpdateBundleInfo, Haps, Infos
<1>13. CASE StepFails
  BY <1>13, MayFailType DEF StepFails, Undo, Haps
<1>14. CASE RenameRecordBegin
  BY <1>14 DEF RenameRecordBegin
<1>15. CASE RenameRecordEnd
  BY <1>15 DEF RenameRecordEnd, Haps
<1>16. CASE RenameRecordFails
  BY <1>16, MayFailType DEF RenameRecordFails, Undo, Haps
<1>17. CASE InstallDone
  BY <1>17, EndType, MayFailType, ListsType, CountType DEF InstallDone, Haps
<1>18. CASE Rollback
  BY <1>18 DEF Rollback
<1>19. CASE RemoveDirsBegin
  BY <1>19, RemainsType DEF RemoveDirsBegin
<1>20. CASE RemoveDirsEnd
  BY <1>20, EndType, MayFailType DEF RemoveDirsEnd
<1>21. CASE RefuseUninstall
  BY <1>21, EndType DEF RefuseUninstall
<1>22. CASE DeletePermissionsFails
  BY <1>22, EndType, MayFailType DEF DeletePermissionsFails
<1>23. CASE UninstallDirsBegin
  BY <1>23, RemainsType DEF UninstallDirsBegin, Undo, Haps
<1>24. CASE UninstallDirsEnd
  BY <1>24, EndType, MayFailType, CountType DEF UninstallDirsEnd, RemoveBundle
<1>25. CASE Unlink
  BY <1>25, EndType, MayFailType DEF Unlink
<1>26. CASE UninstallDone
  BY <1>26, EndType, MayFailType, ListsType DEF UninstallDone, Haps
<1>27. CASE ScanDone
  BY <1>27 DEF ScanDone
<1>28. ASSUME NEW x \in Bundles, SkipSystemApp(x) PROVE TypeOK'
  BY <1>28 DEF SkipSystemApp, TakeFrom
<1>29. ASSUME NEW x \in Bundles, PostponeSystemApp(x) PROVE TypeOK'
  BY <1>29 DEF PostponeSystemApp, TakeFrom
<1>30. ASSUME NEW x \in Bundles, ReloadSystemApp(x) PROVE TypeOK'
  BY <1>30, ReloadType DEF ReloadSystemApp, TakeFrom
<1>31. ASSUME NEW x \in Bundles, SkipThirdApp(x) PROVE TypeOK'
  BY <1>31 DEF SkipThirdApp, TakeFrom
<1>32. ASSUME NEW x \in Bundles, ReloadThirdApp(x) PROVE TypeOK'
  BY <1>32, ReloadType, CountType DEF ReloadThirdApp, TakeFrom
<1>33. CASE InstallPreBundleDone
  BY <1>33 DEF InstallPreBundleDone
<1>34. ASSUME NEW x \in Bundles, InstallPreBundle(x) PROVE TypeOK'
  BY <1>34, ReloadType, PreInstalledType, MayFailType
     DEF InstallPreBundle, ReloadIfUpdated
<1>35. CASE RegisterInstallerCallback
  BY <1>35 DEF RegisterInstallerCallback
<1>36. CASE Reboot
  BY <1>36, StartType, ListsType DEF Reboot
<1>37. CASE PowerLoss
  BY <1>37, StartType, ListsType, EndType DEF PowerLoss, Undo, Haps
<1>38. QED
  BY <1>0, <1>1, <1>2, <1>3, <1>4, <1>5, <1>6, <1>7, <1>8, <1>9, <1>10, <1>11,
     <1>12, <1>13, <1>14, <1>15, <1>16, <1>17, <1>18, <1>19, <1>20, <1>21,
     <1>22, <1>23, <1>24, <1>25, <1>26, <1>27, <1>28, <1>29, <1>30, <1>31,
     <1>32, <1>33, <1>34, <1>35, <1>36, <1>37
     DEF Next, Request, Work, Install, Uninstall, ScanPackages, PreInstall

LEMMA GtInitType ==
  ASSUME Init
  PROVE  TypeOK
<1>1. /\ count \in 0 .. CountModulus - 1 /\ requests \in 0 .. MaxRequests
      /\ restarts \in 0 .. MaxRestarts /\ failures \in 0 .. MaxFailures
  BY Bounds DEF Init
<1>2. /\ bundleMap \in [Bundles -> Infos] /\ image \in [Bundles -> Versions]
      /\ code \in [Bundles -> Versions \cup {Partial, None}]
      /\ record \in [Bundles -> Versions \cup {None}]
      /\ acked \in [Bundles -> Versions \cup {None}]
  BY NullTypes DEF Init
<1>3. /\ pc \in Steps /\ hap \in Haps /\ tmpRecord \in BOOLEAN
      /\ phase \in {"system", "third", "ready", "preinstall"} /\ calm \in 0 .. 2
  <2>1. pc = "idle" /\ hap = NoHap /\ tmpRecord = FALSE /\ phase = "system" /\ calm = 0
    BY DEF Init
  <2>2. calm \in 0 .. 2
    BY <2>1
  <2> QED
    BY <2>1, <2>2, NullTypes DEF Steps
<1>4. /\ data \subseteq Bundles /\ thirdSystem \subseteq Bundles
      /\ undone \subseteq Bundles
      /\ uninstalled \subseteq Bundles /\ toScan \subseteq Bundles
      /\ pending \subseteq Bundles /\ updated \subseteq Bundles
      /\ registered \in BOOLEAN /\ gone \subseteq Bundles
  BY DEF Init, PreInstalledBundles
<1> QED
  BY <1>1, <1>2, <1>3, <1>4 DEF TypeOK

(* The memory, the disk and the counter always have their types: no step,  *)
(* failed or interrupted, leaves a version, a list or a number that no     *)
(* other step can take up.                                                 *)
THEOREM GtTypeCorrect == Spec => []TypeOK
<1>1. Init => TypeOK
  BY GtInitType
<1>2. TypeOK /\ [Next]_vars => TypeOK'
  BY TypeStep
<1>3. QED
  BY <1>1, <1>2, PTL DEF Spec

-----------------------------------------------------------------------------
(* A bundle that no partition holds stays uninstalled.                     *)

(* Nothing of a removed bundle is left that a scan or a request could      *)
(* find, and no operation is about it but an uninstall yet to be refused.  *)
RemovedLeavesNoTrace ==
  \A x \in gone : Home[x] = "THIRD" =>
    /\ ~Installed(x)
    /\ record[x] = None
    /\ pc \in {"idle", "uninstall"} \/ bundle # x

(* What the first scan finds and puts off is in a partition.               *)
PutOffIsPreInstalled ==
  /\ pending \subseteq PreInstalledBundles /\ updated \subseteq PreInstalledBundles
  /\ phase = "system" => toScan \subseteq PreInstalledBundles

(* How far an uninstall has come.                                          *)
UninstallProgress ==
  /\ pc \in {"unlink", "recordUninstalled"} => ~Installed(bundle)
  /\ pc = "recordUninstalled" => record[bundle] = None

RemovedInv == RemovedLeavesNoTrace /\ PutOffIsPreInstalled /\ UninstallProgress

(* No operation, failure or restart leads out of RemovedInv.               *)
LEMMA RemovedStep ==
  ASSUME TypeOK, TypeOK', RemovedInv, [Next]_vars
  PROVE  RemovedInv'
<1> USE NullTypes
    DEF RemovedInv, RemovedLeavesNoTrace, PutOffIsPreInstalled, UninstallProgress,
        Installed, bundle, Goto, memory, lists, disk, task, boot, told, budget
<1>0. CASE UNCHANGED vars
  BY <1>0 DEF vars
<1>1. ASSUME NEW h \in ClientHaps, ReceiveInstall(h) PROVE RemovedInv'
  BY <1>1 DEF ReceiveInstall, MayRequest, Idle
<1>2. ASSUME NEW x \in Bundles, ReceiveUninstall(x) PROVE RemovedInv'
  BY <1>2 DEF ReceiveUninstall, MayRequest, Idle
<1>3. CASE BadHap
  BY <1>3 DEF BadHap, End
<1>4. CASE RefuseTooMany
  BY <1>4 DEF RefuseTooMany, End
<1>5. CASE RefuseVersion
  BY <1>5 DEF RefuseVersion, End
<1>6. CASE Accept
  BY <1>6 DEF Accept
<1>7. CASE RenameDirBegin
  BY <1>7 DEF RenameDirBegin
<1>8. CASE RenameDirEnd
  BY <1>8 DEF RenameDirEnd
<1>9. CASE BackUpInstallRecord
  BY <1>9 DEF BackUpInstallRecord
<1>10. CASE RemoveData
  BY <1>10 DEF RemoveData
<1>11. CASE MakeData
  BY <1>11 DEF MakeData
<1>12. CASE UpdateBundleInfo
  BY <1>12 DEF UpdateBundleInfo, TypeOK
<1>13. CASE StepFails
  BY <1>13 DEF StepFails
<1>14. CASE RenameRecordBegin
  BY <1>14 DEF RenameRecordBegin, TypeOK
<1>15. CASE RenameRecordEnd
  BY <1>15 DEF RenameRecordEnd, TypeOK
<1>16. CASE RenameRecordFails
  BY <1>16 DEF RenameRecordFails
<1>17. CASE InstallDone
  BY <1>17 DEF InstallDone, End
<1>18. CASE Rollback
  BY <1>18 DEF Rollback, TypeOK, NoInfo
<1>19. CASE RemoveDirsBegin
  BY <1>19 DEF RemoveDirsBegin
<1>20. CASE RemoveDirsEnd
  BY <1>20 DEF RemoveDirsEnd, TypeOK, NoInfo, End
<1>21. CASE RefuseUninstall
  BY <1>21 DEF RefuseUninstall, End
<1>22. CASE DeletePermissionsFails
  BY <1>22 DEF DeletePermissionsFails, End
<1>23. CASE UninstallDirsBegin
  BY <1>23 DEF UninstallDirsBegin
<1>24. CASE UninstallDirsEnd
  BY <1>24 DEF UninstallDirsEnd, RemoveBundle, TypeOK, NoInfo, End
<1>25. CASE Unlink
  <2>1. CASE End
    BY <1>25, <2>1 DEF Unlink, TypeOK, End
  <2>2. CASE record' = [record EXCEPT ![bundle] = None] /\ pc' = "recordUninstalled" /\ UNCHANGED task
    BY <1>25, <2>2 DEF Unlink, TypeOK
  <2> QED
    BY <1>25, <2>1, <2>2 DEF Unlink
<1>26. CASE UninstallDone
  BY <1>26 DEF UninstallDone, End
<1>27. CASE ScanDone
  BY <1>27 DEF ScanDone
<1>28. ASSUME NEW x \in Bundles, SkipSystemApp(x) PROVE RemovedInv'
  BY <1>28 DEF SkipSystemApp, TakeFrom
<1>29. ASSUME NEW x \in Bundles, PostponeSystemApp(x) PROVE RemovedInv'
  BY <1>29 DEF PostponeSystemApp, TakeFrom
<1>30. ASSUME NEW x \in Bundles, ReloadSystemApp(x) PROVE RemovedInv'
  BY <1>30 DEF ReloadSystemApp, TakeFrom, Reload, ValidRecord, TypeOK
<1>31. ASSUME NEW x \in Bundles, SkipThirdApp(x) PROVE RemovedInv'
  BY <1>31 DEF SkipThirdApp, TakeFrom
<1>32. ASSUME NEW x \in Bundles, ReloadThirdApp(x) PROVE RemovedInv'
  BY <1>32 DEF ReloadThirdApp, TakeFrom, Reload, SkippedThirdApp, ValidRecord, TypeOK
<1>33. CASE InstallPreBundleDone
  BY <1>33 DEF InstallPreBundleDone
<1>34. ASSUME NEW x \in Bundles, InstallPreBundle(x) PROVE RemovedInv'
  BY <1>34
     DEF InstallPreBundle, ReloadIfUpdated, Reload, PreInstalled,
         PreInstalledBundles, TypeOK
<1>35. CASE RegisterInstallerCallback
  BY <1>35 DEF RegisterInstallerCallback
<1>36. CASE Reboot
  BY <1>36 DEF Reboot, Start, TypeOK, NoInfo, Idle
<1>37. CASE PowerLoss
  BY <1>37 DEF PowerLoss, Start, End, TypeOK, NoInfo
<1>38. QED
  BY <1>0, <1>1, <1>2, <1>3, <1>4, <1>5, <1>6, <1>7, <1>8, <1>9, <1>10, <1>11,
     <1>12, <1>13, <1>14, <1>15, <1>16, <1>17, <1>18, <1>19, <1>20, <1>21,
     <1>22, <1>23, <1>24, <1>25, <1>26, <1>27, <1>28, <1>29, <1>30, <1>31,
     <1>32, <1>33, <1>34, <1>35, <1>36, <1>37
     DEF Next, Request, Work, Install, Uninstall, ScanPackages, PreInstall

LEMMA RemovedInit == Init => RemovedInv
BY DEF Init, RemovedInv, RemovedLeavesNoTrace, PutOffIsPreInstalled, UninstallProgress

(* A third-party bundle whose removal was reported is not installed again  *)
(* by anything but a later request: no scan, pre-installation, failure or  *)
(* power loss brings it back.                                              *)
THEOREM GtThirdRemovedStays == Spec => []ThirdStaysRemoved
<1>1. Init => TypeOK /\ RemovedInv
  BY GtInitType, RemovedInit
<1>2. TypeOK /\ RemovedInv /\ [Next]_vars => (TypeOK /\ RemovedInv)'
  BY TypeStep, RemovedStep
<1>3. TypeOK /\ RemovedInv => ThirdStaysRemoved
  BY DEF RemovedInv, RemovedLeavesNoTrace, ThirdStaysRemoved
<1>4. QED
  BY <1>1, <1>2, <1>3, PTL DEF Spec

-----------------------------------------------------------------------------
(* The limit of third-party bundles, while no power is lost, no file       *)
(* operation fails and no request comes early.                             *)

Undisturbed == Faults \cap {"power", "io", "early"} = {}

InstallSteps == {"check", "renameDir", "renamingDir", "backUp", "removeData",
                 "makeData", "publish", "renameRecord", "renamingRecord", "thirdSystem"}
Published    == {"renameRecord", "renamingRecord", "thirdSystem"}

(* Nothing is rolled back, requests come when nothing is put off any more, *)
(* and what is put off is installed from its own partition.                *)
Orderly ==
  /\ thirdSystem \subseteq Bundles /\ uninstalled \subseteq thirdSystem
  /\ pc \in InstallSteps \cup {"idle", "uninstall", "uninstalling", "unlink",
                               "recordUninstalled"}
  /\ phase \in {"system", "third"} => pc = "idle" /\ ~registered
  /\ phase = "preinstall" => registered /\ pc \in InstallSteps \cup {"idle"}
  /\ phase = "ready" /\ (registered \/ pc # "idle") => registered /\ pending = {}
  /\ phase = "preinstall" /\ pc # "idle" =>
       bundle \in PreInstalledBundles /\ hap.style = Home[bundle]

(* A vendor bundle that is not listed yet has left nothing and waits to be *)
(* installed.                                                              *)
VendorsListed ==
  \A x \in Bundles : Home[x] = "THIRD_SYSTEM" /\ x \notin thirdSystem =>
    /\ Installed(x) => pc \in Published /\ bundle = x
    /\ record[x] # None => pc = "thirdSystem" /\ bundle = x
    /\ x \notin updated
    /\ \/ phase = "system" /\ x \in toScan
       \/ x \in pending
       \/ phase = "preinstall" /\ pc \in InstallSteps /\ bundle = x

(* A bundle that is in the map but not counted, or not listed, yet. *)
NotYet(styles) == IF pc \in Published /\ hap.style \in styles THEN {bundle} ELSE {}

CountCovers ==
  Cardinality(ThirdParty \ NotYet({"THIRD", "THIRD_SYSTEM"})) <= count

LimitCovers ==
  Cardinality(ThirdParty \ NotYet({"THIRD_SYSTEM"})) <= MaxThird

(* A new bundle has its place below the limit, a bundle that is removed    *)
(* was counted, and the counter stays far from its width.                  *)
CountBounded ==
  /\ pc \in InstallSteps \ (Published \cup {"check"}) /\ hap.style = "THIRD" =>
       Installed(bundle) \/ count < MaxThird
  /\ pc = "uninstalling" => Installed(bundle) /\ ~bundleMap[bundle].sys
  /\ count <= MaxThird + requests
  /\ pc \in InstallSteps /\ hap.style = "THIRD" => count + 1 <= MaxThird + requests

LEMMA NothingFails ==
  ASSUME Undisturbed
  PROVE  ~MayFail /\ ~PowerLoss /\ (MayRequest => registered)
BY DEF Undisturbed, MayFail, PowerLoss, MayRequest

LEMMA OrderlyStep ==
  ASSUME Undisturbed, TypeOK, RemovedInv, Orderly, [Next]_vars
  PROVE  Orderly'
<1> USE NullTypes, NothingFails
    DEF Orderly, InstallSteps, bundle, Goto, memory, lists, disk, task, boot, told, budget
<1>0. CASE UNCHANGED vars
  BY <1>0 DEF vars
<1>1. ASSUME NEW h \in ClientHaps, ReceiveInstall(h) PROVE Orderly'
  BY <1>1 DEF ReceiveInstall, MayRequest, Idle
<1>2. ASSUME NEW x \in Bundles, ReceiveUninstall(x) PROVE Orderly'
  BY <1>2 DEF ReceiveUninstall, MayRequest, Idle
<1>3. CASE BadHap
  BY <1>3 DEF BadHap, End
<1>4. CASE RefuseTooMany
  BY <1>4 DEF RefuseTooMany, End
<1>5. CASE RefuseVersion
  BY <1>5 DEF RefuseVersion, End
<1>6. CASE Accept
  BY <1>6 DEF Accept
<1>7. CASE RenameDirBegin
  BY <1>7 DEF RenameDirBegin
<1>8. CASE RenameDirEnd
  BY <1>8 DEF RenameDirEnd
<1>9. CASE BackUpInstallRecord
  BY <1>9 DEF BackUpInstallRecord
<1>10. CASE RemoveData
  BY <1>10 DEF RemoveData
<1>11. CASE MakeData
  BY <1>11 DEF MakeData
<1>12. CASE UpdateBundleInfo
  BY <1>12 DEF UpdateBundleInfo
<1>13. CASE StepFails
  BY <1>13 DEF StepFails
<1>14. CASE RenameRecordBegin
  BY <1>14 DEF RenameRecordBegin
<1>15. CASE RenameRecordEnd
  BY <1>15 DEF RenameRecordEnd
<1>16. CASE RenameRecordFails
  BY <1>16 DEF RenameRecordFails
<1>17. CASE InstallDone
  BY <1>17 DEF InstallDone, End, WithThirdSystem, TypeOK, Haps
<1>18. CASE Rollback
  BY <1>18 DEF Rollback
<1>19. CASE RemoveDirsBegin
  BY <1>19 DEF RemoveDirsBegin
<1>20. CASE RemoveDirsEnd
  BY <1>20 DEF RemoveDirsEnd
<1>21. CASE RefuseUninstall
  BY <1>21 DEF RefuseUninstall, End
<1>22. CASE DeletePermissionsFails
  BY <1>22 DEF DeletePermissionsFails
<1>23. CASE UninstallDirsBegin
  BY <1>23 DEF UninstallDirsBegin
<1>24. CASE UninstallDirsEnd
  BY <1>24 DEF UninstallDirsEnd, End
<1>25. CASE Unlink
  BY <1>25 DEF Unlink, End
<1>26. CASE UninstallDone
  BY <1>26 DEF UninstallDone, End, WithUninstalled, IsThirdSystem
<1>27. CASE ScanDone
  BY <1>27 DEF ScanDone
<1>28. ASSUME NEW x \in Bundles, SkipSystemApp(x) PROVE Orderly'
  BY <1>28 DEF SkipSystemApp, TakeFrom
<1>29. ASSUME NEW x \in Bundles, PostponeSystemApp(x) PROVE Orderly'
  BY <1>29 DEF PostponeSystemApp, TakeFrom
<1>30. ASSUME NEW x \in Bundles, ReloadSystemApp(x) PROVE Orderly'
  BY <1>30 DEF ReloadSystemApp, TakeFrom
<1>31. ASSUME NEW x \in Bundles, SkipThirdApp(x) PROVE Orderly'
  BY <1>31 DEF SkipThirdApp, TakeFrom
<1>32. ASSUME NEW x \in Bundles, ReloadThirdApp(x) PROVE Orderly'
  BY <1>32 DEF ReloadThirdApp, TakeFrom
<1>33. CASE InstallPreBundleDone
  BY <1>33 DEF InstallPreBundleDone
<1>34. ASSUME NEW x \in Bundles, InstallPreBundle(x) PROVE Orderly'
  BY <1>34 DEF InstallPreBundle, RemovedInv, PutOffIsPreInstalled, PreInstalled
<1>35. CASE RegisterInstallerCallback
  BY <1>35 DEF RegisterInstallerCallback, Idle
<1>36. CASE Reboot
  BY <1>36 DEF Reboot, Start, Readable, Idle
<1>37. CASE PowerLoss
  BY <1>37
<1>38. QED
  BY <1>0, <1>1, <1>2, <1>3, <1>4, <1>5, <1>6, <1>7, <1>8, <1>9, <1>10, <1>11,
     <1>12, <1>13, <1>14, <1>15, <1>16, <1>17, <1>18, <1>19, <1>20, <1>21,
     <1>22, <1>23, <1>24, <1>25, <1>26, <1>27, <1>28, <1>29, <1>30, <1>31,
     <1>32, <1>33, <1>34, <1>35, <1>36, <1>37
     DEF Next, Request, Work, Install, Uninstall, ScanPackages, PreInstall

LEMMA VendorsStep ==
  ASSUME Undisturbed, TypeOK, TypeOK', RemovedInv, Orderly, VendorsListed, [Next]_vars
  PROVE  VendorsListed'
<1> USE NullTypes, NothingFails
    DEF VendorsListed, InstallSteps, Published, Installed, bundle, Goto, memory, lists,
        disk, task, boot, told, budget
<1>0. CASE UNCHANGED vars
  BY <1>0 DEF vars
<1>1. ASSUME NEW h \in ClientHaps, ReceiveInstall(h) PROVE VendorsListed'
  BY <1>1 DEF ReceiveInstall, MayRequest, Idle, Orderly
<1>2. ASSUME NEW x \in Bundles, ReceiveUninstall(x) PROVE VendorsListed'
  BY <1>2 DEF ReceiveUninstall, MayRequest, Idle, Orderly
<1>3. CASE BadHap
  BY <1>3 DEF BadHap, End, Orderly
<1>4. CASE RefuseTooMany
  BY <1>4 DEF RefuseTooMany, End, TooMany, Orderly
<1>5. CASE RefuseVersion
  BY <1>5 DEF RefuseVersion, End, Refused, Orderly
<1>6. CASE Accept
  BY <1>6 DEF Accept
<1>7. CASE RenameDirBegin
  BY <1>7 DEF RenameDirBegin
<1>8. CASE RenameDirEnd
  BY <1>8 DEF RenameDirEnd
<1>9. CASE BackUpInstallRecord
  BY <1>9 DEF BackUpInstallRecord
<1>10. CASE RemoveData
  BY <1>10 DEF RemoveData
<1>11. CASE MakeData
  BY <1>11 DEF MakeData
<1>12. CASE UpdateBundleInfo
  BY <1>12 DEF UpdateBundleInfo, TypeOK
<1>13. CASE StepFails
  BY <1>13 DEF StepFails
<1>14. CASE RenameRecordBegin
  BY <1>14 DEF RenameRecordBegin, TypeOK
<1>15. CASE RenameRecordEnd
  BY <1>15 DEF RenameRecordEnd, TypeOK
<1>16. CASE RenameRecordFails
  BY <1>16 DEF RenameRecordFails
<1>17. CASE InstallDone
  BY <1>17 DEF InstallDone, End, WithThirdSystem, TypeOK, Haps, Orderly, Torn
<1>18. CASE Rollback
  BY <1>18 DEF Rollback, Orderly
<1>19. CASE RemoveDirsBegin
  BY <1>19 DEF RemoveDirsBegin, Orderly
<1>20. CASE RemoveDirsEnd
  BY <1>20 DEF RemoveDirsEnd, Orderly
<1>21. CASE RefuseUninstall
  BY <1>21 DEF RefuseUninstall, End, Orderly
<1>22. CASE DeletePermissionsFails
  BY <1>22 DEF DeletePermissionsFails
<1>23. CASE UninstallDirsBegin
  BY <1>23 DEF UninstallDirsBegin, Orderly
<1>24. CASE UninstallDirsEnd
  BY <1>24 DEF UninstallDirsEnd, End, RemoveBundle, NoInfo, TypeOK, Orderly
<1>25. CASE Unlink
  BY <1>25 DEF Unlink, End, TypeOK, Orderly
<1>26. CASE UninstallDone
  BY <1>26 DEF UninstallDone, End, Orderly
<1>27. CASE ScanDone
  BY <1>27 DEF ScanDone
<1>28. ASSUME NEW x \in Bundles, SkipSystemApp(x) PROVE VendorsListed'
  BY <1>28 DEF SkipSystemApp, TakeFrom, SkippedSystemApp, Orderly
<1>29. ASSUME NEW x \in Bundles, PostponeSystemApp(x) PROVE VendorsListed'
  BY <1>29 DEF PostponeSystemApp, TakeFrom, ValidRecord
<1>30. ASSUME NEW x \in Bundles, ReloadSystemApp(x) PROVE VendorsListed'
  BY <1>30 DEF ReloadSystemApp, TakeFrom, ValidRecord, Reload, TypeOK
<1>31. ASSUME NEW x \in Bundles, SkipThirdApp(x) PROVE VendorsListed'
  BY <1>31 DEF SkipThirdApp, TakeFrom
<1>32. ASSUME NEW x \in Bundles, ReloadThirdApp(x) PROVE VendorsListed'
  BY <1>32 DEF ReloadThirdApp, TakeFrom, SkippedThirdApp, ValidRecord, Reload, TypeOK
<1>33. CASE InstallPreBundleDone
  BY <1>33 DEF InstallPreBundleDone, Orderly
<1>34. ASSUME NEW x \in Bundles, InstallPreBundle(x) PROVE VendorsListed'
  BY <1>34 DEF InstallPreBundle, ReloadIfUpdated, Reload, PreInstalled, TypeOK
<1>35. CASE RegisterInstallerCallback
  BY <1>35 DEF RegisterInstallerCallback, Idle, Orderly
<1>36. CASE Reboot
  BY <1>36 DEF Reboot, Start, NoInfo, Idle, TypeOK, PreInstalledBundles
<1>37. CASE PowerLoss
  BY <1>37
<1>38. QED
  BY <1>0, <1>1, <1>2, <1>3, <1>4, <1>5, <1>6, <1>7, <1>8, <1>9, <1>10, <1>11,
     <1>12, <1>13, <1>14, <1>15, <1>16, <1>17, <1>18, <1>19, <1>20, <1>21,
     <1>22, <1>23, <1>24, <1>25, <1>26, <1>27, <1>28, <1>29, <1>30, <1>31,
     <1>32, <1>33, <1>34, <1>35, <1>36, <1>37
     DEF Next, Request, Work, Install, Uninstall, ScanPackages, PreInstall

LEMMA ThirdPartyFinite ==
  ASSUME NEW S \in SUBSET ThirdParty
  PROVE  IsFiniteSet(S) /\ Cardinality(S) \in Nat
<1>1. IsFiniteSet(Bundles) /\ S \subseteq Bundles
  BY GtAssumption DEF ThirdParty
<1>2. IsFiniteSet(S)
  BY <1>1, FS_Subset
<1>3. QED
  BY <1>2, FS_CardinalityType

(* A bundle that is removed was counted: the counter does not pass zero.   *)
LEMMA ReducesByOne ==
  ASSUME TypeOK, Orderly, CountCovers, CountBounded, pc = "uninstalling", RemoveBundle
  PROVE  /\ ~IsThirdSystem(bundle) => bundle \in ThirdParty /\ count' = count - 1
         /\ IsThirdSystem(bundle) => bundle \notin ThirdParty /\ count' = count
         /\ count' <= count
<1>1. Installed(bundle) /\ ~bundleMap[bundle].sys /\ bundle \in Bundles
  BY DEF CountBounded, TypeOK, bundle, Haps
<1>2. count \in 0 .. CountModulus - 1
  BY DEF TypeOK
<1>3. CASE IsThirdSystem(bundle)
  BY <1>2, <1>3 DEF RemoveBundle, ThirdParty
<1>4. CASE ~IsThirdSystem(bundle)
  <2>1. bundle \in ThirdParty
    BY <1>1, <1>4 DEF ThirdParty
  <2>2. ThirdParty \ NotYet({"THIRD", "THIRD_SYSTEM"}) = ThirdParty
    BY DEF NotYet, Published
  <2>3. Cardinality(ThirdParty) <= count /\ Cardinality(ThirdParty) \in Nat
    BY <2>2, ThirdPartyFinite DEF CountCovers
  <2>4. Cardinality(ThirdParty) # 0
    BY <2>1, ThirdPartyFinite, FS_EmptySet
  <2>5. count - 1 \in 0 .. CountModulus - 1
    BY <1>2, <2>3, <2>4, Bounds
  <2>6. (count - 1) % CountModulus = count - 1
    BY <2>5, Bounds
  <2>7. count' = count - 1
    BY <1>4, <2>6 DEF RemoveBundle, ReduceNumOfThirdBundles
  <2> QED
    BY <1>2, <1>4, <2>1, <2>7
<1>5. QED
  BY <1>3, <1>4

(* An addition does not wrap around below the bounds of a behaviour.       *)
LEMMA AddsOne ==
  ASSUME TypeOK, count + 1 <= MaxThird + MaxRequests, AddNumOfThirdBundles
  PROVE  count' = count + 1
<1>1. count \in Nat /\ count + 1 \in 0 .. CountModulus - 1
  BY Bounds DEF TypeOK
<1>2. (count + 1) % CountModulus = count + 1
  BY <1>1, Bounds
<1>3. QED
  BY <1>2 DEF AddNumOfThirdBundles

LEMMA CountBoundedStep ==
  ASSUME Undisturbed, TypeOK, TypeOK', RemovedInv, Orderly, CountCovers, CountBounded,
         [Next]_vars
  PROVE  CountBounded'
<1> USE NullTypes, NothingFails, Bounds
    DEF CountBounded, InstallSteps, Published, Installed, bundle, Goto, memory, lists,
        disk, task, boot, told, budget, WithoutFault
<1>types. count \in Nat /\ requests \in Nat /\ requests <= MaxRequests
  BY DEF TypeOK
<1>0. CASE UNCHANGED vars
  BY <1>0 DEF vars
<1>1. ASSUME NEW h \in ClientHaps, ReceiveInstall(h) PROVE CountBounded'
  BY <1>1, <1>types DEF ReceiveInstall, MayRequest, TypeOK
<1>2. ASSUME NEW x \in Bundles, ReceiveUninstall(x) PROVE CountBounded'
  BY <1>2, <1>types DEF ReceiveUninstall, MayRequest, TypeOK
<1>3. CASE BadHap
  BY <1>3, <1>types DEF BadHap, End
<1>4. CASE RefuseTooMany
  BY <1>4, <1>types DEF RefuseTooMany, End
<1>5. CASE RefuseVersion
  BY <1>5, <1>types DEF RefuseVersion, End
<1>6. CASE Accept
  BY <1>6, <1>types DEF Accept, TooMany, Refused
<1>7. CASE RenameDirBegin
  BY <1>7, <1>types DEF RenameDirBegin
<1>8. CASE RenameDirEnd
  BY <1>8, <1>types DEF RenameDirEnd
<1>9. CASE BackUpInstallRecord
  BY <1>9, <1>types DEF BackUpInstallRecord
<1>10. CASE RemoveData
  BY <1>10, <1>types DEF RemoveData
<1>11. CASE MakeData
  BY <1>11, <1>types DEF MakeData
<1>12. CASE UpdateBundleInfo
  BY <1>12, <1>types DEF UpdateBundleInfo, TypeOK
<1>13. CASE StepFails
  BY <1>13 DEF StepFails
<1>14. CASE RenameRecordBegin
  BY <1>14, <1>types DEF RenameRecordBegin
<1>15. CASE RenameRecordEnd
  BY <1>15, <1>types DEF RenameRecordEnd
<1>16. CASE RenameRecordFails
  BY <1>16 DEF RenameRecordFails
<1>17. CASE InstallDone
  <2>1. pc' = "idle" /\ requests' = requests
    BY <1>17, <1>types DEF InstallDone, End
  <2>2. count' <= MaxThird + requests
    <3>1. CASE hap.style = "THIRD"
      <4>1. count + 1 <= MaxThird + requests
        BY <1>17, <3>1 DEF InstallDone
      <4>2. count' = count + 1
        BY <1>17, <1>types, <3>1, <4>1, AddsOne DEF InstallDone
      <4> QED
        BY <4>1, <4>2
    <3>2. CASE hap.style # "THIRD"
      BY <1>17, <3>2 DEF InstallDone
    <3> QED
      BY <3>1, <3>2
  <2> QED
    BY <2>1, <2>2
<1>18. CASE Rollback
  BY <1>18 DEF Rollback, Orderly
<1>19. CASE RemoveDirsBegin
  BY <1>19 DEF RemoveDirsBegin, Orderly
<1>20. CASE RemoveDirsEnd
  BY <1>20 DEF RemoveDirsEnd, Orderly
<1>21. CASE RefuseUninstall
  BY <1>21, <1>types DEF RefuseUninstall, End
<1>22. CASE DeletePermissionsFails
  BY <1>22 DEF DeletePermissionsFails
<1>23. CASE UninstallDirsBegin
  BY <1>23, <1>types DEF UninstallDirsBegin
<1>24. CASE UninstallDirsEnd
  <2>1. requests' = requests /\ pc' \in {"idle", "unlink"}
    BY <1>24 DEF UninstallDirsEnd, End
  <2>2. count' <= count /\ count' \in Nat
    BY <1>24, ReducesByOne DEF UninstallDirsEnd, TypeOK
  <2>3. pc' # "uninstalling" /\ pc' \notin InstallSteps
    BY <2>1
  <2>4. count' <= MaxThird + requests'
    BY <1>types, <2>1, <2>2
  <2> QED
    BY <2>3, <2>4
<1>25. CASE Unlink
  BY <1>25, <1>types DEF Unlink, End, TypeOK
<1>26. CASE UninstallDone
  BY <1>26, <1>types DEF UninstallDone, End
<1>27. CASE ScanDone
  BY <1>27, <1>types DEF ScanDone
<1>28. ASSUME NEW x \in Bundles, SkipSystemApp(x) PROVE CountBounded'
  BY <1>28, <1>types DEF SkipSystemApp, TakeFrom
<1>29. ASSUME NEW x \in Bundles, PostponeSystemApp(x) PROVE CountBounded'
  BY <1>29, <1>types DEF PostponeSystemApp, TakeFrom
<1>30. ASSUME NEW x \in Bundles, ReloadSystemApp(x) PROVE CountBounded'
  BY <1>30, <1>types DEF ReloadSystemApp, TakeFrom, Reload
<1>31. ASSUME NEW x \in Bundles, SkipThirdApp(x) PROVE CountBounded'
  BY <1>31, <1>types DEF SkipThirdApp, TakeFrom
<1>32. ASSUME NEW x \in Bundles, ReloadThirdApp(x) PROVE CountBounded'
  <2>1. requests' = requests /\ pc' = "idle"
    BY <1>32 DEF ReloadThirdApp, TakeFrom, Reload
  <2>2. count < MaxThird
    BY <1>32, <1>types DEF ReloadThirdApp, SkippedThirdApp
  <2>3. count' = count \/ count' = count + 1
    BY <1>32, <1>types, <2>2, AddsOne DEF ReloadThirdApp
  <2> QED
    BY <1>types, <2>1, <2>2, <2>3
<1>33. CASE InstallPreBundleDone
  BY <1>33, <1>types DEF InstallPreBundleDone
<1>34. ASSUME NEW x \in Bundles, InstallPreBundle(x) PROVE CountBounded'
  BY <1>34, <1>types
     DEF InstallPreBundle, PreInstalled, ReloadIfUpdated, Reload,
         PreInstalledBundles, RemovedInv, PutOffIsPreInstalled
<1>35. CASE RegisterInstallerCallback
  BY <1>35, <1>types DEF RegisterInstallerCallback
<1>36. CASE Reboot
  BY <1>36, <1>types DEF Reboot, Start, TypeOK, Idle
<1>37. CASE PowerLoss
  BY <1>37
<1>38. QED
  BY <1>0, <1>1, <1>2, <1>3, <1>4, <1>5, <1>6, <1>7, <1>8, <1>9, <1>10, <1>11,
     <1>12, <1>13, <1>14, <1>15, <1>16, <1>17, <1>18, <1>19, <1>20, <1>21,
     <1>22, <1>23, <1>24, <1>25, <1>26, <1>27, <1>28, <1>29, <1>30, <1>31,
     <1>32, <1>33, <1>34, <1>35, <1>36, <1>37
     DEF Next, Request, Work, Install, Uninstall, ScanPackages, PreInstall

Covers == CountCovers /\ LimitCovers

(* Fewer bundles are no more than before. *)
LEMMA CoversFewer ==
  ASSUME TypeOK, TypeOK', Covers,
         ThirdParty' \ NotYet({"THIRD", "THIRD_SYSTEM"})'
           \subseteq ThirdParty \ NotYet({"THIRD", "THIRD_SYSTEM"}),
         ThirdParty' \ NotYet({"THIRD_SYSTEM"})' \subseteq ThirdParty \ NotYet({"THIRD_SYSTEM"}),
         count' = count
  PROVE  Covers'
<1> DEFINE A == ThirdParty \ NotYet({"THIRD", "THIRD_SYSTEM"})
           B == ThirdParty \ NotYet({"THIRD_SYSTEM"})
           A1 == ThirdParty' \ NotYet({"THIRD", "THIRD_SYSTEM"})'
           B1 == ThirdParty' \ NotYet({"THIRD_SYSTEM"})'
<1>1. /\ IsFiniteSet(A) /\ Cardinality(A) \in Nat
      /\ IsFiniteSet(B) /\ Cardinality(B) \in Nat
  BY ThirdPartyFinite
<1>2. /\ Cardinality(A1) <= Cardinality(A) /\ Cardinality(A1) \in Nat
      /\ Cardinality(B1) <= Cardinality(B) /\ Cardinality(B1) \in Nat
  BY <1>1, FS_Subset, FS_CardinalityType
<1>3. Cardinality(A) <= count /\ Cardinality(B) <= MaxThird
  BY DEF Covers, CountCovers, LimitCovers
<1>4. Cardinality(A1) <= count' /\ Cardinality(B1) <= MaxThird
  <2> HIDE DEF A, B, A1, B1
  <2> QED
    BY <1>1, <1>2, <1>3, Bounds DEF TypeOK
<1>5. QED
  BY <1>4 DEF Covers, CountCovers, LimitCovers

(* The same for a step that leaves the map, the list and the counter alone *)
(* and does not enter or leave the end of an install.                      *)
LEMMA CoversKept ==
  ASSUME TypeOK, TypeOK', Covers, UNCHANGED <<bundleMap, thirdSystem, count>>,
         \/ pc \notin Published /\ pc' \notin Published
         \/ pc \in Published /\ pc' \in Published /\ UNCHANGED hap
  PROVE  Covers'
<1>1. ThirdParty' = ThirdParty
  BY DEF ThirdParty, Installed, IsThirdSystem
<1>2. \A styles : NotYet(styles)' = NotYet(styles)
  BY DEF NotYet, bundle
<1>3. QED
  BY <1>1, <1>2, CoversFewer

(* One more bundle is within the limit if it was below, and counted if the *)
(* counter goes up.                                                        *)
LEMMA OneMore ==
  ASSUME NEW S \in SUBSET ThirdParty, NEW T, NEW x, T \subseteq S \cup {x}
  PROVE  /\ Cardinality(S) \in Nat /\ Cardinality(T) \in Nat
         /\ Cardinality(T) <= Cardinality(S) + 1
<1>1. IsFiniteSet(S) /\ Cardinality(S) \in Nat
  BY ThirdPartyFinite
<1>2. /\ IsFiniteSet(S \cup {x}) /\ Cardinality(S \cup {x}) \in Nat
      /\ Cardinality(S \cup {x}) <= Cardinality(S) + 1
  <2>1. IsFiniteSet(S \cup {x}) /\ Cardinality(S \cup {x}) = IF x \in S THEN Cardinality(S) ELSE Cardinality(S) + 1
    BY <1>1, FS_AddElement
  <2> QED
    BY <1>1, <2>1
<1>3. IsFiniteSet(T) /\ Cardinality(T) \in Nat /\ Cardinality(T) <= Cardinality(S \cup {x})
  BY <1>2, FS_Subset, FS_CardinalityType
<1>4. QED
  BY <1>1, <1>2, <1>3

(* A bundle is loaded from a partition: a vendor one is on the list.       *)
LEMMA LoadedFromPartition ==
  ASSUME TypeOK, TypeOK', VendorsListed, NEW x \in PreInstalledBundles,
         pc = "idle", pc' \notin Published,
         x \in updated \/ record[x] # None,
         UNCHANGED <<thirdSystem, count>>, Reload(x, Home[x] = "SYSTEM"), Covers
  PROVE  Covers'
<1>1. Home[x] \in {"SYSTEM", "THIRD_SYSTEM"} /\ x \in Bundles
  BY GtAssumption DEF PreInstalledBundles, Styles
<1>2. Home[x] = "SYSTEM" \/ x \in thirdSystem
  BY <1>1 DEF VendorsListed
<1>3. \A y \in Bundles : y # x => bundleMap'[y] = bundleMap[y]
  BY DEF Reload, TypeOK
<1>4. bundleMap'[x] = bundleMap[x] \/ (Home[x] = "SYSTEM" => bundleMap'[x].sys)
  <2>1. CASE bundleMap' = [bundleMap EXCEPT ![x] = [ver |-> code[x], sys |-> Home[x] = "SYSTEM"]]
    BY <1>1, <2>1 DEF TypeOK
  <2>2. CASE bundleMap' = bundleMap
    BY <2>2
  <2> QED
    BY <2>1, <2>2 DEF Reload
<1>5. ThirdParty' \subseteq ThirdParty
  BY <1>2, <1>3, <1>4 DEF ThirdParty, Installed, IsThirdSystem
<1>6. \A styles : NotYet(styles)' = {} /\ NotYet(styles) = {}
  BY DEF NotYet, Published
<1>7. QED
  BY <1>5, <1>6, CoversFewer

LEMMA CoversStep ==
  ASSUME Undisturbed, TypeOK, TypeOK', RemovedInv, Orderly, VendorsListed, Covers,
         CountBounded, [Next]_vars
  PROVE  Covers'
<1> USE NothingFails DEF Published, Goto, memory, lists, disk, task, boot, told, budget
<1>0. CASE UNCHANGED vars
  BY <1>0, CoversKept DEF vars
<1>1. ASSUME NEW h \in ClientHaps, ReceiveInstall(h) PROVE Covers'
  BY <1>1, CoversKept DEF ReceiveInstall, MayRequest, Idle
<1>2. ASSUME NEW x \in Bundles, ReceiveUninstall(x) PROVE Covers'
  BY <1>2, CoversKept DEF ReceiveUninstall, MayRequest, Idle
<1>3. CASE BadHap
  BY <1>3, CoversKept DEF BadHap, End
<1>4. CASE RefuseTooMany
  BY <1>4, CoversKept DEF RefuseTooMany, End
<1>5. CASE RefuseVersion
  BY <1>5, CoversKept DEF RefuseVersion, End
<1>6. CASE Accept
  BY <1>6, CoversKept DEF Accept
<1>7. CASE RenameDirBegin
  BY <1>7, CoversKept DEF RenameDirBegin
<1>8. CASE RenameDirEnd
  BY <1>8, CoversKept DEF RenameDirEnd
<1>9. CASE BackUpInstallRecord
  BY <1>9, CoversKept DEF BackUpInstallRecord
<1>10. CASE RemoveData
  BY <1>10, CoversKept DEF RemoveData
<1>11. CASE MakeData
  BY <1>11, CoversKept DEF MakeData
<1>12. CASE UpdateBundleInfo
  <2> DEFINE info == [ver |-> hap.ver,
                      sys |-> IF Installed(bundle) THEN bundleMap[bundle].sys
                                                   ELSE hap.style = "SYSTEM"]
  <2>1. /\ bundle \in Bundles /\ pc = "publish" /\ pc' = "renameRecord"
        /\ bundleMap' = [bundleMap EXCEPT ![bundle] = info]
        /\ UNCHANGED <<hap, count, thirdSystem>>
    BY <1>12 DEF UpdateBundleInfo, TypeOK, Haps, bundle
  <2>2. ThirdParty' \subseteq ThirdParty \cup {bundle}
    BY <2>1 DEF ThirdParty, Installed, IsThirdSystem, TypeOK
  <2>3. Installed(bundle) \/ hap.style = "SYSTEM" => ThirdParty' \subseteq ThirdParty
    <3>1. CASE Installed(bundle)
      <4>1. bundleMap'[bundle].sys = bundleMap[bundle].sys
        BY <2>1, <3>1 DEF TypeOK
      <4> QED
        BY <2>1, <2>2, <3>1, <4>1 DEF ThirdParty, Installed, IsThirdSystem
    <3>2. CASE ~Installed(bundle) /\ hap.style = "SYSTEM"
      <4>1. bundleMap'[bundle].sys
        BY <2>1, <3>2 DEF TypeOK
      <4> QED
        BY <2>2, <4>1 DEF ThirdParty
    <3> QED
      BY <3>1, <3>2
  <2>4. \A styles : /\ NotYet(styles) = {}
                    /\ NotYet(styles)' = IF hap.style \in styles THEN {bundle} ELSE {}
    BY <2>1 DEF NotYet, bundle
  <2>5. CASE Installed(bundle) \/ hap.style # "THIRD"
    <3>1. hap.style \in {"SYSTEM", "THIRD_SYSTEM", "THIRD"}
      BY DEF TypeOK, Haps, Styles
    <3>2. ThirdParty' \ NotYet({"THIRD_SYSTEM"})' \subseteq ThirdParty
      BY <2>2, <2>3, <2>4, <2>5, <3>1
    <3>3. ThirdParty' \ NotYet({"THIRD", "THIRD_SYSTEM"})' \subseteq ThirdParty
      BY <2>4, <3>2
    <3> QED
      BY <2>1, <2>4, <3>2, <3>3, CoversFewer
  <2>6. CASE ~Installed(bundle) /\ hap.style = "THIRD"
    <3>1. count < MaxThird
      BY <2>1, <2>6 DEF CountBounded, InstallSteps
    <3>2. Cardinality(ThirdParty) <= count
      BY <2>4 DEF Covers, CountCovers
    <3>3. /\ Cardinality(ThirdParty) \in Nat /\ Cardinality(ThirdParty') \in Nat
          /\ Cardinality(ThirdParty') <= Cardinality(ThirdParty) + 1
      BY <2>2, OneMore
    <3>4. Cardinality(ThirdParty') <= MaxThird
      BY <3>1, <3>2, <3>3, Bounds DEF TypeOK
    <3>5. ThirdParty' \ NotYet({"THIRD_SYSTEM"})' = ThirdParty'
      BY <2>4, <2>6
    <3>6. ThirdParty' \ NotYet({"THIRD", "THIRD_SYSTEM"})' \subseteq ThirdParty
      BY <2>2, <2>4, <2>6
    <3>7. /\ Cardinality(ThirdParty' \ NotYet({"THIRD", "THIRD_SYSTEM"})') <= Cardinality(ThirdParty)
          /\ Cardinality(ThirdParty' \ NotYet({"THIRD", "THIRD_SYSTEM"})') \in Nat
      BY <3>6, ThirdPartyFinite, FS_Subset, FS_CardinalityType
    <3>8. Cardinality(ThirdParty' \ NotYet({"THIRD", "THIRD_SYSTEM"})') <= count'
      BY <2>1, <3>2, <3>3, <3>7 DEF TypeOK
    <3> QED
      BY <3>4, <3>5, <3>8 DEF Covers, CountCovers, LimitCovers
  <2> QED
    BY <2>5, <2>6
<1>13. CASE StepFails
  BY <1>13 DEF StepFails
<1>14. CASE RenameRecordBegin
  BY <1>14, CoversKept DEF RenameRecordBegin
<1>15. CASE RenameRecordEnd
  BY <1>15, CoversKept DEF RenameRecordEnd
<1>16. CASE RenameRecordFails
  BY <1>16 DEF RenameRecordFails
<1>17. CASE InstallDone
  <2>1. /\ bundle \in Bundles /\ pc = "thirdSystem" /\ pc' = "idle"
        /\ thirdSystem' = WithThirdSystem /\ UNCHANGED bundleMap
    BY <1>17 DEF InstallDone, End, TypeOK, Haps, bundle
  <2>2. \A styles : /\ NotYet(styles)' = {}
                    /\ NotYet(styles) = IF hap.style \in styles THEN {bundle} ELSE {}
    BY <2>1 DEF NotYet
  <2>3. CASE hap.style = "THIRD_SYSTEM"
    <3>1. thirdSystem' = thirdSystem \cup {bundle}
      BY <2>1, <2>3, NullTypes DEF WithThirdSystem, Orderly, Torn
    <3>2. ThirdParty' \subseteq ThirdParty \ {bundle}
      BY <2>1, <3>1 DEF ThirdParty, Installed, IsThirdSystem
    <3>3. count' = count
      BY <1>17, <2>3 DEF InstallDone
    <3> QED
      BY <2>2, <2>3, <3>2, <3>3, CoversFewer
  <2>4. CASE hap.style # "THIRD_SYSTEM"
    <3>1. ThirdParty' = ThirdParty
      BY <2>1, <2>4 DEF WithThirdSystem, ThirdParty, Installed, IsThirdSystem
    <3>2. CASE hap.style # "THIRD"
      <4>1. count' = count
        BY <1>17, <3>2 DEF InstallDone
      <4> QED
        BY <2>2, <2>4, <3>1, <3>2, <4>1, CoversFewer
    <3>3. CASE hap.style = "THIRD"
      <4>1. count' = count + 1
        BY <1>17, <2>1, <3>3, AddsOne, Bounds DEF InstallDone, CountBounded, InstallSteps, TypeOK
      <4>2. Cardinality(ThirdParty \ {bundle}) <= count /\ Cardinality(ThirdParty) <= MaxThird
        BY <2>2, <3>3 DEF Covers, CountCovers, LimitCovers
      <4>3. /\ Cardinality(ThirdParty \ {bundle}) \in Nat /\ Cardinality(ThirdParty) \in Nat
            /\ Cardinality(ThirdParty) <= Cardinality(ThirdParty \ {bundle}) + 1
        BY OneMore
      <4>4. Cardinality(ThirdParty') <= count' /\ Cardinality(ThirdParty') <= MaxThird
        BY <3>1, <4>1, <4>2, <4>3 DEF TypeOK
      <4> QED
        BY <2>2, <4>4 DEF Covers, CountCovers, LimitCovers
    <3> QED
      BY <3>2, <3>3
  <2> QED
    BY <2>3, <2>4
<1>18. CASE Rollback
  BY <1>18 DEF Rollback, Orderly, InstallSteps
<1>19. CASE RemoveDirsBegin
  BY <1>19 DEF RemoveDirsBegin, Orderly, InstallSteps
<1>20. CASE RemoveDirsEnd
  BY <1>20 DEF RemoveDirsEnd, Orderly, InstallSteps
<1>21. CASE RefuseUninstall
  BY <1>21, CoversKept DEF RefuseUninstall, End
<1>22. CASE DeletePermissionsFails
  BY <1>22 DEF DeletePermissionsFails
<1>23. CASE UninstallDirsBegin
  BY <1>23, CoversKept DEF UninstallDirsBegin
<1>24. CASE UninstallDirsEnd
  <2>1. /\ bundle \in Bundles /\ pc = "uninstalling" /\ pc' \in {"idle", "unlink"}
        /\ bundleMap' = [bundleMap EXCEPT ![bundle] = NoInfo] /\ UNCHANGED thirdSystem
        /\ RemoveBundle
    BY <1>24 DEF UninstallDirsEnd, RemoveBundle, End, TypeOK, Haps, bundle
  <2>2. ThirdParty' \subseteq ThirdParty \ {bundle}
    BY <2>1 DEF ThirdParty, Installed, IsThirdSystem, NoInfo, TypeOK
  <2>3. \A styles : NotYet(styles) = {} /\ NotYet(styles)' = {}
    BY <2>1 DEF NotYet
  <2>4. CASE IsThirdSystem(bundle)
    BY <2>1, <2>2, <2>3, <2>4, ReducesByOne, CoversFewer DEF Covers
  <2>5. CASE ~IsThirdSystem(bundle)
    <3>1. bundle \in ThirdParty /\ count' = count - 1
      BY <2>1, <2>5, ReducesByOne DEF Covers
    <3>2. /\ IsFiniteSet(ThirdParty) /\ Cardinality(ThirdParty) \in Nat
          /\ Cardinality(ThirdParty) <= count /\ Cardinality(ThirdParty) <= MaxThird
      BY <2>3, ThirdPartyFinite DEF Covers, CountCovers, LimitCovers
    <3>3. /\ IsFiniteSet(ThirdParty \ {bundle})
          /\ Cardinality(ThirdParty \ {bundle}) = Cardinality(ThirdParty) - 1
      BY <3>1, <3>2, FS_RemoveElement
    <3>4. /\ Cardinality(ThirdParty') <= Cardinality(ThirdParty \ {bundle})
          /\ Cardinality(ThirdParty') \in Nat
      BY <2>2, <3>3, FS_Subset, FS_CardinalityType
    <3>5. Cardinality(ThirdParty') <= count' /\ Cardinality(ThirdParty') <= MaxThird
      BY <3>1, <3>2, <3>3, <3>4, Bounds DEF TypeOK
    <3> QED
      BY <2>3, <3>5 DEF Covers, CountCovers, LimitCovers
  <2> QED
    BY <2>4, <2>5
<1>25. CASE Unlink
  BY <1>25, CoversKept DEF Unlink, End
<1>26. CASE UninstallDone
  BY <1>26, CoversKept DEF UninstallDone, End
<1>27. CASE ScanDone
  BY <1>27, CoversKept DEF ScanDone
<1>28. ASSUME NEW x \in Bundles, SkipSystemApp(x) PROVE Covers'
  BY <1>28, CoversKept DEF SkipSystemApp, TakeFrom
<1>29. ASSUME NEW x \in Bundles, PostponeSystemApp(x) PROVE Covers'
  BY <1>29, CoversKept DEF PostponeSystemApp, TakeFrom
<1>30. ASSUME NEW x \in Bundles, ReloadSystemApp(x) PROVE Covers'
  <2>1. /\ x \in PreInstalledBundles /\ pc = "idle" /\ pc' = "idle" /\ record[x] # None
        /\ Reload(x, Home[x] = "SYSTEM") /\ UNCHANGED <<thirdSystem, count>>
    BY <1>30 DEF ReloadSystemApp, TakeFrom, ValidRecord, RemovedInv, PutOffIsPreInstalled
  <2> QED
    BY <2>1, LoadedFromPartition
<1>31. ASSUME NEW x \in Bundles, SkipThirdApp(x) PROVE Covers'
  BY <1>31, CoversKept DEF SkipThirdApp, TakeFrom
<1>32. ASSUME NEW x \in Bundles, ReloadThirdApp(x) PROVE Covers'
  <2>1. /\ pc = "idle" /\ pc' = "idle" /\ count < MaxThird /\ ~Installed(x)
        /\ UNCHANGED thirdSystem
    BY <1>32, Bounds DEF ReloadThirdApp, TakeFrom, SkippedThirdApp, TypeOK
  <2>2. \A styles : NotYet(styles) = {} /\ NotYet(styles)' = {}
    BY <2>1 DEF NotYet
  <2>3. CASE code[x] \notin Versions
    BY <1>32, <2>1, <2>3, CoversKept DEF ReloadThirdApp, Reload
  <2>4. CASE code[x] \in Versions
    <3>1. count' = count + 1
      BY <1>32, <2>1, <2>4, AddsOne, Bounds DEF ReloadThirdApp, TypeOK
    <3>2. ThirdParty' \subseteq ThirdParty \cup {x}
      BY <1>32, <2>1, <2>4 DEF ReloadThirdApp, Reload, ThirdParty, Installed, IsThirdSystem, TypeOK
    <3>3. /\ Cardinality(ThirdParty) \in Nat /\ Cardinality(ThirdParty') \in Nat
          /\ Cardinality(ThirdParty') <= Cardinality(ThirdParty) + 1
      BY <3>2, OneMore
    <3>4. Cardinality(ThirdParty) <= count
      BY <2>2 DEF Covers, CountCovers
    <3>5. Cardinality(ThirdParty') <= count' /\ Cardinality(ThirdParty') <= MaxThird
      BY <2>1, <3>1, <3>3, <3>4, Bounds DEF TypeOK
    <3> QED
      BY <2>2, <3>5 DEF Covers, CountCovers, LimitCovers
  <2> QED
    BY <2>3, <2>4
<1>33. CASE InstallPreBundleDone
  BY <1>33, CoversKept DEF InstallPreBundleDone
<1>34. ASSUME NEW x \in Bundles, InstallPreBundle(x) PROVE Covers'
  <2>1. /\ x \in PreInstalledBundles /\ pc = "idle" /\ pc' = "check"
        /\ ReloadIfUpdated(x) /\ UNCHANGED <<thirdSystem, count>>
    BY <1>34 DEF InstallPreBundle, RemovedInv, PutOffIsPreInstalled
  <2>2. CASE x \in updated
    BY <2>1, <2>2, LoadedFromPartition DEF ReloadIfUpdated
  <2>3. CASE x \notin updated
    BY <2>1, <2>3, CoversKept DEF ReloadIfUpdated
  <2> QED
    BY <2>2, <2>3
<1>35. CASE RegisterInstallerCallback
  BY <1>35, CoversKept DEF RegisterInstallerCallback, Idle
<1>36. CASE Reboot
  <2>1. /\ bundleMap' = [x \in Bundles |-> NoInfo] /\ count' = 0 /\ pc' = "idle"
    BY <1>36 DEF Reboot, Start, Idle
  <2>2. ThirdParty' = {} /\ \A styles : NotYet(styles)' = {}
    BY <2>1 DEF ThirdParty, Installed, NoInfo, NotYet
  <2> QED
    BY <2>1, <2>2, FS_EmptySet, Bounds DEF Covers, CountCovers, LimitCovers
<1>37. CASE PowerLoss
  BY <1>37
<1>38. QED
  BY <1>0, <1>1, <1>2, <1>3, <1>4, <1>5, <1>6, <1>7, <1>8, <1>9, <1>10, <1>11,
     <1>12, <1>13, <1>14, <1>15, <1>16, <1>17, <1>18, <1>19, <1>20, <1>21,
     <1>22, <1>23, <1>24, <1>25, <1>26, <1>27, <1>28, <1>29, <1>30, <1>31,
     <1>32, <1>33, <1>34, <1>35, <1>36, <1>37
     DEF Next, Request, Work, Install, Uninstall, ScanPackages, PreInstall

LEMMA LimitInit ==
  ASSUME Init
  PROVE  Orderly /\ VendorsListed /\ Covers /\ CountBounded
<1>1. Orderly
  BY DEF Init, Orderly
<1>2. VendorsListed
  BY DEF Init, VendorsListed, Installed, NoInfo, PreInstalledBundles
<1>3. Covers
  <2>1. bundleMap = [x \in Bundles |-> NoInfo] /\ count = 0 /\ pc = "idle"
    BY DEF Init
  <2>2. ThirdParty = {} /\ \A styles : NotYet(styles) = {}
    BY <2>1 DEF ThirdParty, Installed, NoInfo, NotYet, Published
  <2> QED
    BY <2>1, <2>2, FS_EmptySet, Bounds DEF Covers, CountCovers, LimitCovers
<1>4. CountBounded
  BY Bounds DEF Init, CountBounded, InstallSteps
<1>5. QED
  BY <1>1, <1>2, <1>3, <1>4

(* There are never more third-party bundles than the limit between two     *)
(* operations, though updates make the counter drift and a restart counts  *)
(* anew: the counter never falls below the bundles it counts, and every    *)
(* vendor bundle, which is not counted, is on the list before it can be    *)
(* removed.                                                                *)
THEOREM GtLimitKept ==
  ASSUME Undisturbed
  PROVE  Spec => []LimitKept
<1> DEFINE Inv == /\ TypeOK /\ RemovedInv
                  /\ Orderly /\ VendorsListed /\ Covers /\ CountBounded
<1>1. Init => Inv
  BY GtInitType, RemovedInit, LimitInit
<1>2. Inv /\ [Next]_vars => Inv'
  <2> SUFFICES ASSUME Inv, [Next]_vars PROVE Inv'
    OBVIOUS
  <2>1. TypeOK' /\ RemovedInv'
    BY TypeStep, RemovedStep
  <2>2. Orderly' /\ VendorsListed'
    BY <2>1, OrderlyStep, VendorsStep
  <2>3. Covers'
    BY <2>1, CoversStep
  <2>4. CountBounded'
    BY <2>1, CountBoundedStep DEF Covers
  <2> QED
    BY <2>1, <2>2, <2>3, <2>4
<1>3. Inv => LimitKept
  <2> SUFFICES ASSUME Inv, pc = "idle" PROVE Cardinality(ThirdParty) <= MaxThird
    BY DEF LimitKept
  <2>1. ThirdParty \ NotYet({"THIRD_SYSTEM"}) = ThirdParty
    BY DEF NotYet, Published
  <2> QED
    BY <2>1 DEF Covers, LimitCovers
<1>4. QED
  BY <1>1, <1>2, <1>3, PTL DEF Spec
-----------------------------------------------------------------------------
(* What was reported installed stays on disk, whatever goes wrong.         *)

Working == {"renameDir", "renamingDir", "backUp", "removeData", "makeData",
            "publish", "renameRecord", "renamingRecord", "thirdSystem"}
RollingBack  == {"rollback", "rollbackDirs", "rollingBack", "clear", "clearing"}
Uninstalling == {"uninstalling", "unlink", "recordUninstalled"}

(* The version that was reported is to be kept.                            *)
Owed(x) == acked[x] # None /\ x \notin undone

(* What is owed is on disk, but for what RenameDir and RenameJsonFile      *)
(* replace in an update of the bundle that has not failed; an operation    *)
(* that takes the bundle away owes nothing any longer.                     *)
AckedHeld ==
  /\ \A x \in Bundles : Owed(x) =>
       /\ \/ record[x] >= acked[x]
          \/ bundle = x /\ pc \in {"renamingRecord", "thirdSystem"}
       /\ \/ code[x] >= acked[x]
          \/ bundle = x /\ pc \in Working \ {"renameDir"}
  /\ pc \in Working \ {"renameDir", "renamingDir"} => code[bundle] = hap.ver
  /\ pc = "thirdSystem" => record[bundle] = hap.ver
  /\ pc \in RollingBack \cup Uninstalling => ~Owed(bundle)

(* The directory of a bundle that was reported installed has a profile.    *)
LEMMA ReloadKeepsAcked ==
  ASSUME TypeOK, AckedHeld, pc = "idle", NEW x \in Bundles, NEW sys, Reload(x, sys)
  PROVE  \A y \in Bundles : Owed(y) => code'[y] = code[y]
<1> SUFFICES ASSUME Owed(x) PROVE UNCHANGED code
  BY DEF Reload, TypeOK
<1>1. acked[x] \in Nat /\ acked[x] > 0
  <2>1. acked[x] \in Versions
    BY DEF TypeOK, Owed
  <2>2. acked[x] \in Nat /\ acked[x] # 0
    BY <2>1, GtAssumption
  <2> QED
    BY <2>2
<1>2. code[x] >= acked[x]
  BY DEF AckedHeld, Working
<1>3. code[x] \in Versions
  BY <1>1, <1>2 DEF TypeOK, None, Partial
<1>4. QED
  BY <1>3 DEF Reload

(* No operation, failure or restart takes an acknowledged version away.    *)
LEMMA AckedStep ==
  ASSUME TypeOK, TypeOK', AckedHeld,
         [Next]_vars
  PROVE  AckedHeld'
<1> USE NullTypes DEF AckedHeld, Owed, Undo, Working, RollingBack, Uninstalling, bundle, Goto,
        memory, lists, disk, task, boot, told, budget
<1>0. CASE UNCHANGED vars
  BY <1>0 DEF vars
<1>1. ASSUME NEW h \in ClientHaps, ReceiveInstall(h) PROVE AckedHeld'
  BY <1>1 DEF ReceiveInstall, MayRequest, Idle
<1>2. ASSUME NEW x \in Bundles, ReceiveUninstall(x) PROVE AckedHeld'
  BY <1>2 DEF ReceiveUninstall, MayRequest, Idle
<1>3. CASE BadHap
  BY <1>3 DEF BadHap, End
<1>4. CASE RefuseTooMany
  BY <1>4 DEF RefuseTooMany, End
<1>5. CASE RefuseVersion
  BY <1>5 DEF RefuseVersion, End
<1>6. CASE Accept
  BY <1>6 DEF Accept
<1>7. CASE RenameDirBegin
  BY <1>7 DEF RenameDirBegin, TypeOK, Haps
<1>8. CASE RenameDirEnd
  BY <1>8 DEF RenameDirEnd, TypeOK, Haps
<1>9. CASE BackUpInstallRecord
  BY <1>9 DEF BackUpInstallRecord
<1>10. CASE RemoveData
  BY <1>10 DEF RemoveData
<1>11. CASE MakeData
  BY <1>11 DEF MakeData
<1>12. CASE UpdateBundleInfo
  BY <1>12 DEF UpdateBundleInfo
<1>13. CASE StepFails
  BY <1>13 DEF StepFails, TypeOK, Haps
<1>14. CASE RenameRecordBegin
  BY <1>14 DEF RenameRecordBegin, TypeOK, Haps
<1>15. CASE RenameRecordEnd
  BY <1>15 DEF RenameRecordEnd, TypeOK, Haps
<1>16. CASE RenameRecordFails
  BY <1>16 DEF RenameRecordFails, TypeOK, Haps
<1>17. CASE InstallDone
  <2>1. /\ pc = "thirdSystem" /\ bundle \in Bundles /\ hap.ver \in Nat
        /\ record[bundle] = hap.ver /\ code[bundle] = hap.ver
    BY <1>17, GtAssumption DEF InstallDone, TypeOK, Haps
  <2>2. /\ pc' = "idle" /\ acked' = [acked EXCEPT ![bundle] = hap.ver]
        /\ undone' = undone \ {bundle} /\ UNCHANGED <<record, code>>
    BY <1>17 DEF InstallDone, End
  <2>3. \A x \in Bundles : Owed(x)' => record'[x] >= acked'[x] /\ code'[x] >= acked'[x]
    BY <2>1, <2>2 DEF TypeOK
  <2> QED
    BY <2>2, <2>3
<1>18. CASE Rollback
  BY <1>18 DEF Rollback, TypeOK, Haps
<1>19. CASE RemoveDirsBegin
  BY <1>19 DEF RemoveDirsBegin, TypeOK, Haps
<1>20. CASE RemoveDirsEnd
  BY <1>20 DEF RemoveDirsEnd, End, TypeOK
<1>21. CASE RefuseUninstall
  BY <1>21 DEF RefuseUninstall, End
<1>22. CASE DeletePermissionsFails
  BY <1>22 DEF DeletePermissionsFails, End
<1>23. CASE UninstallDirsBegin
  BY <1>23 DEF UninstallDirsBegin, TypeOK, Haps
<1>24. CASE UninstallDirsEnd
  BY <1>24 DEF UninstallDirsEnd, End, TypeOK
<1>25. CASE Unlink
  BY <1>25 DEF Unlink, End, TypeOK
<1>26. CASE UninstallDone
  BY <1>26 DEF UninstallDone, End
<1>27. CASE ScanDone
  BY <1>27 DEF ScanDone
<1>28. ASSUME NEW x \in Bundles, SkipSystemApp(x) PROVE AckedHeld'
  BY <1>28 DEF SkipSystemApp, TakeFrom
<1>29. ASSUME NEW x \in Bundles, PostponeSystemApp(x) PROVE AckedHeld'
  BY <1>29 DEF PostponeSystemApp, TakeFrom
<1>30. ASSUME NEW x \in Bundles, ReloadSystemApp(x) PROVE AckedHeld'
  <2>1. UNCHANGED <<record, acked, undone, pc, hap>> /\ pc = "idle"
    BY <1>30 DEF ReloadSystemApp, TakeFrom
  <2>2. \A y \in Bundles : Owed(y) => code'[y] = code[y]
    BY <1>30, <2>1, ReloadKeepsAcked DEF ReloadSystemApp
  <2> QED
    BY <2>1, <2>2
<1>31. ASSUME NEW x \in Bundles, SkipThirdApp(x) PROVE AckedHeld'
  BY <1>31 DEF SkipThirdApp, TakeFrom
<1>32. ASSUME NEW x \in Bundles, ReloadThirdApp(x) PROVE AckedHeld'
  <2>1. UNCHANGED <<record, acked, undone, pc, hap>> /\ pc = "idle"
    BY <1>32 DEF ReloadThirdApp, TakeFrom
  <2>2. \A y \in Bundles : Owed(y) => code'[y] = code[y]
    BY <1>32, <2>1, ReloadKeepsAcked DEF ReloadThirdApp
  <2> QED
    BY <2>1, <2>2
<1>33. CASE InstallPreBundleDone
  BY <1>33 DEF InstallPreBundleDone
<1>34. ASSUME NEW x \in Bundles, InstallPreBundle(x) PROVE AckedHeld'
  <2>1. UNCHANGED <<record, acked, undone>> /\ pc = "idle" /\ pc' = "check"
    BY <1>34 DEF InstallPreBundle
  <2>2. \A y \in Bundles : Owed(y) => code'[y] = code[y]
    BY <1>34, <2>1, ReloadKeepsAcked DEF InstallPreBundle, ReloadIfUpdated
  <2> QED
    BY <2>1, <2>2
<1>35. CASE RegisterInstallerCallback
  BY <1>35 DEF RegisterInstallerCallback, Idle
<1>36. CASE Reboot
  BY <1>36 DEF Reboot, Start, Idle
<1>37. CASE PowerLoss
  <2>1. /\ pc' = "idle" /\ UNCHANGED <<record, code, acked>>
        /\ undone \subseteq undone'
    BY <1>37 DEF PowerLoss, End
  <2>2. ASSUME NEW x \in Bundles, Owed(x)' PROVE record[x] >= acked[x] /\ code[x] >= acked[x]
    <3>1. Owed(x) /\ acked[x] \in Nat
      BY <2>1, <2>2, GtAssumption DEF TypeOK, None
    <3>2. ~(LostByPower /\ bundle = x)
      BY <1>37, <2>2, <3>1 DEF PowerLoss
    <3>3. hap.ver \in Nat
      BY GtAssumption DEF TypeOK, Haps
    <3> QED
      BY <3>1, <3>2, <3>3 DEF LostByPower
  <2> QED
    BY <2>1, <2>2
<1>38. QED
  BY <1>0, <1>1, <1>2, <1>3, <1>4, <1>5, <1>6, <1>7, <1>8, <1>9, <1>10, <1>11, <1>12,
     <1>13, <1>14, <1>15, <1>16, <1>17, <1>18, <1>19, <1>20, <1>21, <1>22, <1>23, <1>24,
     <1>25, <1>26, <1>27, <1>28, <1>29, <1>30, <1>31, <1>32, <1>33, <1>34, <1>35, <1>36,
     <1>37
     DEF Next, Request, Work, Install, Uninstall, ScanPackages, PreInstall

(* The code and the record of what was reported installed stay on disk, in *)
(* that version or a later one, through power losses, failures of other    *)
(* operations, refused and early requests.  `undone' names what takes      *)
(* them: the bundle's own uninstall, its own update when that fails or     *)
(* loses power inside RenameDir or RenameJsonFile, or after an older       *)
(* version was let in.  Every other step that removes one of the two       *)
(* belongs to an install that puts it back before it ends.                 *)
THEOREM GtAckedOnDisk == Spec => []AckedOnDisk
<1>1. Init => TypeOK /\ AckedHeld
  BY GtInitType DEF Init, AckedHeld, Owed, Working, RollingBack, Uninstalling
<1>2. TypeOK /\ AckedHeld /\ [Next]_vars => (TypeOK /\ AckedHeld)'
  BY TypeStep, AckedStep
<1>3. TypeOK /\ AckedHeld => AckedOnDisk
  BY DEF AckedHeld, AckedOnDisk, Owed, Idle, Working
<1>4. QED
  BY <1>1, <1>2, <1>3, PTL DEF Spec

-----------------------------------------------------------------------------
(* The bundles of the system partition, after two boots without a fault or *)
(* where nothing but reboots and refused requests happens.                 *)

(* Nothing happens but reboots and refused requests.                       *)
OnlyReboots == Faults \subseteq {"reboot", "reject"}

(* The device has come through so many boots without a fault.              *)
Sound(boots) == calm >= boots \/ OnlyReboots

(* Nothing is rolled back and no request comes before the bundles that     *)
(* were put off are installed.                                             *)
BootOrder ==
  /\ phase \in {"system", "third"} => pc = "idle" /\ ~registered
  /\ phase = "preinstall" => registered /\ pc \in InstallSteps \cup RollingBack \cup {"idle"}
  /\ phase = "preinstall" /\ pc # "idle" => hap.style = Home[bundle] /\ bundle \notin pending
  /\ phase = "ready" /\ registered => pending = {}
  /\ Sound(1) => pc \notin RollingBack /\ (phase = "ready" /\ ~registered => pc = "idle")

SystemApps == {x \in Bundles : Home[x] = "SYSTEM"}

(* x is yet to be scanned, to be installed, or being installed.            *)
Awaited(x) ==
  \/ phase = "system" /\ x \in toScan
  \/ x \in pending
  \/ phase = "preinstall" /\ bundle = x /\ pc \in InstallSteps

(* What is put off, but not as an update, cannot be loaded.                *)
PutOffFresh ==
  /\ phase = "system" => \A x \in toScan : ~Installed(x)
  /\ Sound(1) => \A x \in pending \ updated :
       ~Installed(x) /\ (phase \in {"system", "third"} => ~ValidRecord(x))

(* The first boot without a fault ends with no directory cut off, and none *)
(* is there in the second.                                                 *)
CodeWhole ==
  Sound(1) => \A x \in SystemApps :
    \/ code[x] # Partial
    \/ bundle = x /\ pc \in {"renamingDir", "uninstalling"}
    \/ ~Sound(2) /\ Awaited(x) /\ ~(pc = "check" /\ bundle = x /\ Installed(x))

(* The second boot loads or installs every bundle of the system, as one.   *)
SystemThere ==
  Sound(2) =>
    /\ \A x \in SystemApps : Installed(x) => bundleMap[x].sys
    /\ \A x \in SystemApps : Installed(x) \/ Awaited(x)
    /\ pc \in Uninstalling => bundle \notin SystemApps

(* A bundle whose record is written is in the map.                         *)
PublishedInstalled == pc \in Published => Installed(bundle)

BootInv == BootOrder /\ PutOffFresh /\ CodeWhole /\ SystemThere /\ PublishedInstalled

(* A fault ends the boots that count. *)
LEMMA Unsound ==
  ASSUME \/ MayFail
         \/ MayRequest /\ ~registered
         \/ PowerLoss
  PROVE  calm' = 0 /\ ~OnlyReboots
BY DEF MayFail, MayRequest, PowerLoss, OnlyReboots

LEMMA SteadyCalm ==
  ASSUME \/ WithoutFault
         \/ MayRequest /\ registered
  PROVE  UNCHANGED calm
BY DEF WithoutFault, MayRequest

LEMMA CalmNumber ==
  ASSUME TypeOK
  PROVE  calm \in Int
BY DEF TypeOK

LEMMA BootOrderStep ==
  ASSUME TypeOK, TypeOK', BootOrder,
         [Next]_vars
  PROVE  BootOrder'
<1> USE NullTypes, Unsound, SteadyCalm DEF BootOrder, Sound, InstallSteps, RollingBack,
        bundle, Goto, memory, lists, disk, task, boot, told, budget
<1>t. calm \in Int /\ calm' \in Int
  BY CalmNumber DEF TypeOK
<1>0. CASE UNCHANGED vars
  BY <1>0, <1>t DEF vars
<1>1. ASSUME NEW h \in ClientHaps, ReceiveInstall(h) PROVE BootOrder'
  BY <1>1, <1>t DEF ReceiveInstall, MayRequest, Idle
<1>2. ASSUME NEW x \in Bundles, ReceiveUninstall(x) PROVE BootOrder'
  BY <1>2, <1>t DEF ReceiveUninstall, MayRequest, Idle
<1>3. CASE BadHap
  BY <1>3, <1>t DEF BadHap, End
<1>4. CASE RefuseTooMany
  BY <1>4, <1>t DEF RefuseTooMany, End
<1>5. CASE RefuseVersion
  BY <1>5, <1>t DEF RefuseVersion, End
<1>6. CASE Accept
  BY <1>6, <1>t DEF Accept
<1>7. CASE RenameDirBegin
  BY <1>7, <1>t DEF RenameDirBegin
<1>8. CASE RenameDirEnd
  BY <1>8, <1>t DEF RenameDirEnd
<1>9. CASE BackUpInstallRecord
  BY <1>9, <1>t DEF BackUpInstallRecord
<1>10. CASE RemoveData
  BY <1>10, <1>t DEF RemoveData
<1>11. CASE MakeData
  BY <1>11, <1>t DEF MakeData
<1>12. CASE UpdateBundleInfo
  BY <1>12, <1>t DEF UpdateBundleInfo
<1>13. CASE StepFails
  BY <1>13, <1>t DEF StepFails
<1>14. CASE RenameRecordBegin
  BY <1>14, <1>t DEF RenameRecordBegin
<1>15. CASE RenameRecordEnd
  BY <1>15, <1>t DEF RenameRecordEnd
<1>16. CASE RenameRecordFails
  BY <1>16, <1>t DEF RenameRecordFails
<1>17. CASE InstallDone
  BY <1>17, <1>t DEF InstallDone, End
<1>18. CASE Rollback
  BY <1>18, <1>t DEF Rollback
<1>19. CASE RemoveDirsBegin
  BY <1>19, <1>t DEF RemoveDirsBegin
<1>20. CASE RemoveDirsEnd
  BY <1>20, <1>t DEF RemoveDirsEnd, End
<1>21. CASE RefuseUninstall
  BY <1>21, <1>t DEF RefuseUninstall, End
<1>22. CASE DeletePermissionsFails
  BY <1>22, <1>t DEF DeletePermissionsFails, End
<1>23. CASE UninstallDirsBegin
  BY <1>23, <1>t DEF UninstallDirsBegin
<1>24. CASE UninstallDirsEnd
  BY <1>24, <1>t DEF UninstallDirsEnd, End, RemoveBundle
<1>25. CASE Unlink
  BY <1>25, <1>t DEF Unlink, End
<1>26. CASE UninstallDone
  BY <1>26, <1>t DEF UninstallDone, End
<1>27. CASE ScanDone
  BY <1>27, <1>t DEF ScanDone
<1>28. ASSUME NEW x \in Bundles, SkipSystemApp(x) PROVE BootOrder'
  BY <1>28, <1>t DEF SkipSystemApp, TakeFrom
<1>29. ASSUME NEW x \in Bundles, PostponeSystemApp(x) PROVE BootOrder'
  BY <1>29, <1>t DEF PostponeSystemApp, TakeFrom
<1>30. ASSUME NEW x \in Bundles, ReloadSystemApp(x) PROVE BootOrder'
  BY <1>30, <1>t DEF ReloadSystemApp, TakeFrom, Reload
<1>31. ASSUME NEW x \in Bundles, SkipThirdApp(x) PROVE BootOrder'
  BY <1>31, <1>t DEF SkipThirdApp, TakeFrom
<1>32. ASSUME NEW x \in Bundles, ReloadThirdApp(x) PROVE BootOrder'
  BY <1>32, <1>t DEF ReloadThirdApp, TakeFrom, Reload
<1>33. CASE InstallPreBundleDone
  BY <1>33, <1>t DEF InstallPreBundleDone
<1>34. ASSUME NEW x \in Bundles, InstallPreBundle(x) PROVE BootOrder'
  BY <1>34, <1>t DEF InstallPreBundle, PreInstalled
<1>35. CASE RegisterInstallerCallback
  BY <1>35, <1>t DEF RegisterInstallerCallback, Idle
<1>36. CASE Reboot
  BY <1>36, <1>t DEF Reboot, Start, Idle
<1>37. CASE PowerLoss
  BY <1>37, <1>t DEF PowerLoss, Start, End
<1>38. QED
  BY <1>0, <1>1, <1>2, <1>3, <1>4, <1>5, <1>6, <1>7, <1>8, <1>9, <1>10, <1>11, <1>12,
     <1>13, <1>14, <1>15, <1>16, <1>17, <1>18, <1>19, <1>20, <1>21, <1>22, <1>23, <1>24,
     <1>25, <1>26, <1>27, <1>28, <1>29, <1>30, <1>31, <1>32, <1>33, <1>34, <1>35, <1>36,
     <1>37
     DEF Next, Request, Work, Install, Uninstall, ScanPackages, PreInstall

LEMMA PutOffStep ==
  ASSUME TypeOK, TypeOK', BootOrder, PutOffFresh,
         [Next]_vars
  PROVE  PutOffFresh'
<1> USE NullTypes, Unsound, SteadyCalm DEF PutOffFresh, BootOrder, Sound, InstallSteps,
        RollingBack, Installed, ValidRecord, bundle, Goto, memory, lists, disk, task,
        boot, told, budget
<1>t. calm \in Int /\ calm' \in Int
  BY CalmNumber DEF TypeOK
<1>0. CASE UNCHANGED vars
  BY <1>0, <1>t DEF vars
<1>1. ASSUME NEW h \in ClientHaps, ReceiveInstall(h) PROVE PutOffFresh'
  BY <1>1, <1>t DEF ReceiveInstall, MayRequest, Idle
<1>2. ASSUME NEW x \in Bundles, ReceiveUninstall(x) PROVE PutOffFresh'
  BY <1>2, <1>t DEF ReceiveUninstall, MayRequest, Idle
<1>3. CASE BadHap
  BY <1>3, <1>t DEF BadHap, End
<1>4. CASE RefuseTooMany
  BY <1>4, <1>t DEF RefuseTooMany, End
<1>5. CASE RefuseVersion
  BY <1>5, <1>t DEF RefuseVersion, End
<1>6. CASE Accept
  BY <1>6, <1>t DEF Accept
<1>7. CASE RenameDirBegin
  BY <1>7, <1>t DEF RenameDirBegin, TypeOK, Haps
<1>8. CASE RenameDirEnd
  BY <1>8, <1>t DEF RenameDirEnd, TypeOK, Haps
<1>9. CASE BackUpInstallRecord
  BY <1>9, <1>t DEF BackUpInstallRecord
<1>10. CASE RemoveData
  BY <1>10, <1>t DEF RemoveData
<1>11. CASE MakeData
  BY <1>11, <1>t DEF MakeData
<1>12. CASE UpdateBundleInfo
  BY <1>12, <1>t DEF UpdateBundleInfo, TypeOK, Haps
<1>13. CASE StepFails
  BY <1>13, <1>t DEF StepFails
<1>14. CASE RenameRecordBegin
  BY <1>14, <1>t DEF RenameRecordBegin, TypeOK, Haps
<1>15. CASE RenameRecordEnd
  BY <1>15, <1>t DEF RenameRecordEnd, TypeOK, Haps
<1>16. CASE RenameRecordFails
  BY <1>16, <1>t DEF RenameRecordFails
<1>17. CASE InstallDone
  BY <1>17, <1>t DEF InstallDone, End
<1>18. CASE Rollback
  BY <1>18, <1>t DEF Rollback, TypeOK, Haps
<1>19. CASE RemoveDirsBegin
  BY <1>19, <1>t DEF RemoveDirsBegin, TypeOK, Haps
<1>20. CASE RemoveDirsEnd
  BY <1>20, <1>t DEF RemoveDirsEnd, End
<1>21. CASE RefuseUninstall
  BY <1>21, <1>t DEF RefuseUninstall, End
<1>22. CASE DeletePermissionsFails
  BY <1>22, <1>t DEF DeletePermissionsFails, End
<1>23. CASE UninstallDirsBegin
  BY <1>23, <1>t DEF UninstallDirsBegin
<1>24. CASE UninstallDirsEnd
  BY <1>24, <1>t DEF UninstallDirsEnd, End, TypeOK
<1>25. CASE Unlink
  BY <1>25, <1>t DEF Unlink, End
<1>26. CASE UninstallDone
  BY <1>26, <1>t DEF UninstallDone, End
<1>27. CASE ScanDone
  BY <1>27, <1>t DEF ScanDone
<1>28. ASSUME NEW x \in Bundles, SkipSystemApp(x) PROVE PutOffFresh'
  BY <1>28, <1>t DEF SkipSystemApp, TakeFrom
<1>29. ASSUME NEW x \in Bundles, PostponeSystemApp(x) PROVE PutOffFresh'
  BY <1>29, <1>t DEF PostponeSystemApp, TakeFrom
<1>30. ASSUME NEW x \in Bundles, ReloadSystemApp(x) PROVE PutOffFresh'
  BY <1>30, <1>t DEF ReloadSystemApp, TakeFrom, Reload, TypeOK
<1>31. ASSUME NEW x \in Bundles, SkipThirdApp(x) PROVE PutOffFresh'
  BY <1>31, <1>t DEF SkipThirdApp, TakeFrom
<1>32. ASSUME NEW x \in Bundles, ReloadThirdApp(x) PROVE PutOffFresh'
  BY <1>32, <1>t DEF ReloadThirdApp, TakeFrom, SkippedThirdApp, Reload, TypeOK
<1>33. CASE InstallPreBundleDone
  BY <1>33, <1>t DEF InstallPreBundleDone
<1>34. ASSUME NEW x \in Bundles, InstallPreBundle(x) PROVE PutOffFresh'
  BY <1>34, <1>t DEF InstallPreBundle, ReloadIfUpdated, Reload, TypeOK
<1>35. CASE RegisterInstallerCallback
  BY <1>35, <1>t DEF RegisterInstallerCallback, Idle
<1>36. CASE Reboot
  BY <1>36, <1>t DEF Reboot, Start, TypeOK, NoInfo
<1>37. CASE PowerLoss
  BY <1>37, <1>t DEF PowerLoss, Start, TypeOK, NoInfo
<1>38. QED
  BY <1>0, <1>1, <1>2, <1>3, <1>4, <1>5, <1>6, <1>7, <1>8, <1>9, <1>10, <1>11, <1>12,
     <1>13, <1>14, <1>15, <1>16, <1>17, <1>18, <1>19, <1>20, <1>21, <1>22, <1>23, <1>24,
     <1>25, <1>26, <1>27, <1>28, <1>29, <1>30, <1>31, <1>32, <1>33, <1>34, <1>35, <1>36,
     <1>37
     DEF Next, Request, Work, Install, Uninstall, ScanPackages, PreInstall

LEMMA PublishedStep ==
  ASSUME TypeOK, TypeOK', BootOrder, PublishedInstalled,
         [Next]_vars
  PROVE  PublishedInstalled'
<1> USE NullTypes, Unsound, SteadyCalm DEF PublishedInstalled, Published, BootOrder,
        Installed, bundle, Goto, memory, lists, disk, task, boot, told, budget
<1>0. CASE UNCHANGED vars
  BY <1>0 DEF vars
<1>1. ASSUME NEW h \in ClientHaps, ReceiveInstall(h) PROVE PublishedInstalled'
  BY <1>1 DEF ReceiveInstall, MayRequest, Idle
<1>2. ASSUME NEW x \in Bundles, ReceiveUninstall(x) PROVE PublishedInstalled'
  BY <1>2 DEF ReceiveUninstall, MayRequest, Idle
<1>3. CASE BadHap
  BY <1>3 DEF BadHap, End
<1>4. CASE RefuseTooMany
  BY <1>4 DEF RefuseTooMany, End
<1>5. CASE RefuseVersion
  BY <1>5 DEF RefuseVersion, End
<1>6. CASE Accept
  BY <1>6 DEF Accept
<1>7. CASE RenameDirBegin
  BY <1>7 DEF RenameDirBegin
<1>8. CASE RenameDirEnd
  BY <1>8 DEF RenameDirEnd
<1>9. CASE BackUpInstallRecord
  BY <1>9 DEF BackUpInstallRecord
<1>10. CASE RemoveData
  BY <1>10 DEF RemoveData
<1>11. CASE MakeData
  BY <1>11 DEF MakeData
<1>12. CASE UpdateBundleInfo
  BY <1>12 DEF UpdateBundleInfo, TypeOK, Haps
<1>13. CASE StepFails
  BY <1>13 DEF StepFails
<1>14. CASE RenameRecordBegin
  BY <1>14 DEF RenameRecordBegin
<1>15. CASE RenameRecordEnd
  BY <1>15 DEF RenameRecordEnd
<1>16. CASE RenameRecordFails
  BY <1>16 DEF RenameRecordFails
<1>17. CASE InstallDone
  BY <1>17 DEF InstallDone, End
<1>18. CASE Rollback
  BY <1>18 DEF Rollback
<1>19. CASE RemoveDirsBegin
  BY <1>19 DEF RemoveDirsBegin
<1>20. CASE RemoveDirsEnd
  BY <1>20 DEF RemoveDirsEnd, End
<1>21. CASE RefuseUninstall
  BY <1>21 DEF RefuseUninstall, End
<1>22. CASE DeletePermissionsFails
  BY <1>22 DEF DeletePermissionsFails, End
<1>23. CASE UninstallDirsBegin
  BY <1>23 DEF UninstallDirsBegin
<1>24. CASE UninstallDirsEnd
  BY <1>24 DEF UninstallDirsEnd, End, RemoveBundle
<1>25. CASE Unlink
  BY <1>25 DEF Unlink, End
<1>26. CASE UninstallDone
  BY <1>26 DEF UninstallDone, End
<1>27. CASE ScanDone
  BY <1>27 DEF ScanDone
<1>28. ASSUME NEW x \in Bundles, SkipSystemApp(x) PROVE PublishedInstalled'
  BY <1>28 DEF SkipSystemApp, TakeFrom
<1>29. ASSUME NEW x \in Bundles, PostponeSystemApp(x) PROVE PublishedInstalled'
  BY <1>29 DEF PostponeSystemApp, TakeFrom
<1>30. ASSUME NEW x \in Bundles, ReloadSystemApp(x) PROVE PublishedInstalled'
  BY <1>30 DEF ReloadSystemApp, TakeFrom
<1>31. ASSUME NEW x \in Bundles, SkipThirdApp(x) PROVE PublishedInstalled'
  BY <1>31 DEF SkipThirdApp, TakeFrom
<1>32. ASSUME NEW x \in Bundles, ReloadThirdApp(x) PROVE PublishedInstalled'
  BY <1>32 DEF ReloadThirdApp, TakeFrom
<1>33. CASE InstallPreBundleDone
  BY <1>33 DEF InstallPreBundleDone
<1>34. ASSUME NEW x \in Bundles, InstallPreBundle(x) PROVE PublishedInstalled'
  BY <1>34 DEF InstallPreBundle
<1>35. CASE RegisterInstallerCallback
  BY <1>35 DEF RegisterInstallerCallback, Idle
<1>36. CASE Reboot
  BY <1>36 DEF Reboot, Start, Idle
<1>37. CASE PowerLoss
  BY <1>37 DEF PowerLoss, Start, End
<1>38. QED
  BY <1>0, <1>1, <1>2, <1>3, <1>4, <1>5, <1>6, <1>7, <1>8, <1>9, <1>10, <1>11, <1>12,
     <1>13, <1>14, <1>15, <1>16, <1>17, <1>18, <1>19, <1>20, <1>21, <1>22, <1>23, <1>24,
     <1>25, <1>26, <1>27, <1>28, <1>29, <1>30, <1>31, <1>32, <1>33, <1>34, <1>35, <1>36,
     <1>37
     DEF Next, Request, Work, Install, Uninstall, ScanPackages, PreInstall

LEMMA CodeStep ==
  ASSUME TypeOK, TypeOK', AckedHeld, BootOrder, PutOffFresh, CodeWhole,
         [Next]_vars
  PROVE  CodeWhole'
<1> USE NullTypes, Unsound, SteadyCalm DEF CodeWhole, BootOrder, Awaited, SystemApps,
        Sound, InstallSteps, RollingBack, Installed, bundle, Goto, memory, lists, disk,
        task, boot, told, budget
<1>t. calm \in Int /\ calm' \in Int
  BY CalmNumber DEF TypeOK
<1>0. CASE UNCHANGED vars
  BY <1>0, <1>t DEF vars
<1>1. ASSUME NEW h \in ClientHaps, ReceiveInstall(h) PROVE CodeWhole'
  BY <1>1, <1>t DEF ReceiveInstall, MayRequest, Idle
<1>2. ASSUME NEW x \in Bundles, ReceiveUninstall(x) PROVE CodeWhole'
  BY <1>2, <1>t DEF ReceiveUninstall, MayRequest, Idle
<1>3. CASE BadHap
  BY <1>3, <1>t DEF BadHap, End
<1>4. CASE RefuseTooMany
  BY <1>4, <1>t DEF RefuseTooMany, End, TooMany
<1>5. CASE RefuseVersion
  BY <1>5, <1>t DEF RefuseVersion, End, Refused
<1>6. CASE Accept
  BY <1>6, <1>t DEF Accept
<1>7. CASE RenameDirBegin
  BY <1>7, <1>t DEF RenameDirBegin, TypeOK, Haps
<1>8. CASE RenameDirEnd
  BY <1>8, <1>t DEF RenameDirEnd, TypeOK, Haps
<1>9. CASE BackUpInstallRecord
  BY <1>9, <1>t DEF BackUpInstallRecord
<1>10. CASE RemoveData
  BY <1>10, <1>t DEF RemoveData
<1>11. CASE MakeData
  BY <1>11, <1>t DEF MakeData
<1>12. CASE UpdateBundleInfo
  BY <1>12, <1>t DEF UpdateBundleInfo, TypeOK, Haps
<1>13. CASE StepFails
  BY <1>13, <1>t DEF StepFails
<1>14. CASE RenameRecordBegin
  BY <1>14, <1>t DEF RenameRecordBegin, TypeOK, Haps
<1>15. CASE RenameRecordEnd
  BY <1>15, <1>t DEF RenameRecordEnd, TypeOK, Haps
<1>16. CASE RenameRecordFails
  BY <1>16, <1>t DEF RenameRecordFails
<1>17. CASE InstallDone
  BY <1>17, <1>t DEF InstallDone, End, AckedHeld, Working, TypeOK, Haps
<1>18. CASE Rollback
  BY <1>18, <1>t DEF Rollback, TypeOK, Haps
<1>19. CASE RemoveDirsBegin
  BY <1>19, <1>t DEF RemoveDirsBegin, TypeOK, Haps
<1>20. CASE RemoveDirsEnd
  BY <1>20, <1>t DEF RemoveDirsEnd, End
<1>21. CASE RefuseUninstall
  BY <1>21, <1>t DEF RefuseUninstall, End
<1>22. CASE DeletePermissionsFails
  BY <1>22, <1>t DEF DeletePermissionsFails, End
<1>23. CASE UninstallDirsBegin
  BY <1>23, <1>t DEF UninstallDirsBegin
<1>24. CASE UninstallDirsEnd
  BY <1>24, <1>t DEF UninstallDirsEnd, End, TypeOK, None, Partial
<1>25. CASE Unlink
  BY <1>25, <1>t DEF Unlink, End
<1>26. CASE UninstallDone
  BY <1>26, <1>t DEF UninstallDone, End
<1>27. CASE ScanDone
  BY <1>27, <1>t DEF ScanDone
<1>28. ASSUME NEW x \in Bundles, SkipSystemApp(x) PROVE CodeWhole'
  BY <1>28, <1>t DEF SkipSystemApp, TakeFrom, SkippedSystemApp
<1>29. ASSUME NEW x \in Bundles, PostponeSystemApp(x) PROVE CodeWhole'
  BY <1>29, <1>t DEF PostponeSystemApp, TakeFrom
<1>30. ASSUME NEW x \in Bundles, ReloadSystemApp(x) PROVE CodeWhole'
  BY <1>30, <1>t DEF ReloadSystemApp, TakeFrom, Reload, TypeOK, None, Partial
<1>31. ASSUME NEW x \in Bundles, SkipThirdApp(x) PROVE CodeWhole'
  BY <1>31, <1>t DEF SkipThirdApp, TakeFrom
<1>32. ASSUME NEW x \in Bundles, ReloadThirdApp(x) PROVE CodeWhole'
  BY <1>32, <1>t DEF ReloadThirdApp, TakeFrom, Reload, TypeOK
<1>33. CASE InstallPreBundleDone
  BY <1>33, <1>t DEF InstallPreBundleDone
<1>34. ASSUME NEW x \in Bundles, InstallPreBundle(x) PROVE CodeWhole'
  BY <1>34, <1>t
     DEF InstallPreBundle, PreInstalled, ReloadIfUpdated, Reload, TypeOK, PutOffFresh,
         None, Partial
<1>35. CASE RegisterInstallerCallback
  BY <1>35, <1>t DEF RegisterInstallerCallback, Idle
<1>36. CASE Reboot
  BY <1>36, <1>t DEF Reboot, Start, Idle, PreInstalledBundles
<1>37. CASE PowerLoss
  <2>1. calm' = 0 /\ ~OnlyReboots
    BY <1>37, Unsound
  <2> QED
    BY <2>1
<1>38. QED
  BY <1>0, <1>1, <1>2, <1>3, <1>4, <1>5, <1>6, <1>7, <1>8, <1>9, <1>10, <1>11, <1>12,
     <1>13, <1>14, <1>15, <1>16, <1>17, <1>18, <1>19, <1>20, <1>21, <1>22, <1>23, <1>24,
     <1>25, <1>26, <1>27, <1>28, <1>29, <1>30, <1>31, <1>32, <1>33, <1>34, <1>35, <1>36,
     <1>37
     DEF Next, Request, Work, Install, Uninstall, ScanPackages, PreInstall

LEMMA SystemStep ==
  ASSUME TypeOK, TypeOK', BootOrder, PutOffFresh, PublishedInstalled, CodeWhole, SystemThere,
         [Next]_vars
  PROVE  SystemThere'
<1> USE NullTypes, Unsound, SteadyCalm DEF SystemThere, PublishedInstalled, BootOrder,
        Awaited, SystemApps, Sound, InstallSteps, Published, RollingBack, Uninstalling,
        Installed, bundle, Goto, memory, lists, disk, task, boot, told, budget
<1>t. calm \in Int /\ calm' \in Int
  BY CalmNumber DEF TypeOK
<1>0. CASE UNCHANGED vars
  BY <1>0, <1>t DEF vars
<1>1. ASSUME NEW h \in ClientHaps, ReceiveInstall(h) PROVE SystemThere'
  BY <1>1, <1>t DEF ReceiveInstall, MayRequest, Idle
<1>2. ASSUME NEW x \in Bundles, ReceiveUninstall(x) PROVE SystemThere'
  BY <1>2, <1>t DEF ReceiveUninstall, MayRequest, Idle
<1>3. CASE BadHap
  BY <1>3, <1>t DEF BadHap, End
<1>4. CASE RefuseTooMany
  BY <1>4, <1>t DEF RefuseTooMany, End, TooMany
<1>5. CASE RefuseVersion
  BY <1>5, <1>t DEF RefuseVersion, End, Refused
<1>6. CASE Accept
  BY <1>6, <1>t DEF Accept
<1>7. CASE RenameDirBegin
  BY <1>7, <1>t DEF RenameDirBegin, TypeOK, Haps
<1>8. CASE RenameDirEnd
  BY <1>8, <1>t DEF RenameDirEnd, TypeOK, Haps
<1>9. CASE BackUpInstallRecord
  BY <1>9, <1>t DEF BackUpInstallRecord
<1>10. CASE RemoveData
  BY <1>10, <1>t DEF RemoveData
<1>11. CASE MakeData
  BY <1>11, <1>t DEF MakeData
<1>12. CASE UpdateBundleInfo
  BY <1>12, <1>t DEF UpdateBundleInfo, TypeOK, Haps
<1>13. CASE StepFails
  BY <1>13, <1>t DEF StepFails
<1>14. CASE RenameRecordBegin
  BY <1>14, <1>t DEF RenameRecordBegin, TypeOK, Haps
<1>15. CASE RenameRecordEnd
  BY <1>15, <1>t DEF RenameRecordEnd, TypeOK, Haps
<1>16. CASE RenameRecordFails
  BY <1>16, <1>t DEF RenameRecordFails
<1>17. CASE InstallDone
  BY <1>17, <1>t DEF InstallDone, End
<1>18. CASE Rollback
  BY <1>18, <1>t DEF Rollback, TypeOK, Haps
<1>19. CASE RemoveDirsBegin
  BY <1>19, <1>t DEF RemoveDirsBegin, TypeOK, Haps
<1>20. CASE RemoveDirsEnd
  BY <1>20, <1>t DEF RemoveDirsEnd, End
<1>21. CASE RefuseUninstall
  BY <1>21, <1>t DEF RefuseUninstall, End
<1>22. CASE DeletePermissionsFails
  BY <1>22, <1>t DEF DeletePermissionsFails, End
<1>23. CASE UninstallDirsBegin
  BY <1>23, <1>t DEF UninstallDirsBegin
<1>24. CASE UninstallDirsEnd
  BY <1>24, <1>t DEF UninstallDirsEnd, End, RemoveBundle
<1>25. CASE Unlink
  BY <1>25, <1>t DEF Unlink, End
<1>26. CASE UninstallDone
  BY <1>26, <1>t DEF UninstallDone, End
<1>27. CASE ScanDone
  BY <1>27, <1>t DEF ScanDone
<1>28. ASSUME NEW x \in Bundles, SkipSystemApp(x) PROVE SystemThere'
  BY <1>28, <1>t DEF SkipSystemApp, TakeFrom, SkippedSystemApp
<1>29. ASSUME NEW x \in Bundles, PostponeSystemApp(x) PROVE SystemThere'
  BY <1>29, <1>t DEF PostponeSystemApp, TakeFrom
<1>30. ASSUME NEW x \in Bundles, ReloadSystemApp(x) PROVE SystemThere'
  <2> SUFFICES ASSUME Sound(2)' PROVE SystemThere'
    OBVIOUS
  <2>1. /\ pc = "idle" /\ pc' = "idle" /\ phase = "system" /\ phase' = "system"
        /\ toScan' = toScan \ {x} /\ UNCHANGED <<pending, hap>>
        /\ ValidRecord(x) /\ Reload(x, Home[x] = "SYSTEM")
    BY <1>30 DEF ReloadSystemApp, TakeFrom
  <2>2. Sound(2) /\ WithoutFault
    BY <1>t, <2>1 DEF Reload
  <2>3. x \in SystemApps => code[x] \in Versions
    BY <2>1, <2>2 DEF CodeWhole, ValidRecord, TypeOK
  <2>4. x \in SystemApps => Installed(x)' /\ bundleMap'[x].sys
    <3>1. CASE Installed(x)
      BY <2>1, <2>2, <3>1 DEF Reload
    <3>2. CASE ~Installed(x) /\ x \in SystemApps
      <4>1. bundleMap' = [bundleMap EXCEPT ![x] = [ver |-> code[x], sys |-> Home[x] = "SYSTEM"]]
        BY <2>1, <2>3, <3>2 DEF Reload
      <4>2. bundleMap'[x].ver = code[x]
        BY <4>1 DEF TypeOK
      <4>3. bundleMap'[x].sys
        BY <3>2, <4>1 DEF TypeOK
      <4> QED
        BY <2>3, <3>2, <4>2, <4>3
    <3> QED
      BY <3>1, <3>2
  <2>5. \A y \in Bundles : y # x => bundleMap'[y] = bundleMap[y]
    BY <2>1 DEF Reload, TypeOK
  <2> QED
    BY <2>1, <2>2, <2>4, <2>5
<1>31. ASSUME NEW x \in Bundles, SkipThirdApp(x) PROVE SystemThere'
  BY <1>31, <1>t DEF SkipThirdApp, TakeFrom
<1>32. ASSUME NEW x \in Bundles, ReloadThirdApp(x) PROVE SystemThere'
  BY <1>32, <1>t
     DEF ReloadThirdApp, TakeFrom, SkippedThirdApp, Reload, TypeOK, PutOffFresh
<1>33. CASE InstallPreBundleDone
  BY <1>33, <1>t DEF InstallPreBundleDone
<1>34. ASSUME NEW x \in Bundles, InstallPreBundle(x) PROVE SystemThere'
  <2> SUFFICES ASSUME Sound(2)' PROVE SystemThere'
    OBVIOUS
  <2>1. /\ pc = "idle" /\ pc' = "check" /\ phase = "preinstall" /\ phase' = "preinstall"
        /\ pending' = pending \ {x} /\ bundle' = x
        /\ ReloadIfUpdated(x)
    BY <1>34 DEF InstallPreBundle, PreInstalled
  <2>2. Sound(2)
    BY <1>t, <2>1 DEF ReloadIfUpdated, Reload
  <2>3. \A y \in Bundles : y # x => bundleMap'[y] = bundleMap[y]
    BY <2>1 DEF ReloadIfUpdated, Reload, TypeOK
  <2>4. x \in SystemApps /\ Installed(x)' => bundleMap'[x].sys
    <3>1. CASE bundleMap' = bundleMap
      BY <2>2, <3>1
    <3>2. CASE bundleMap' = [bundleMap EXCEPT ![x] = [ver |-> code[x], sys |-> Home[x] = "SYSTEM"]]
      BY <3>2 DEF TypeOK
    <3> QED
      BY <2>1, <3>1, <3>2 DEF ReloadIfUpdated, Reload
  <2> QED
    BY <2>1, <2>2, <2>3, <2>4
<1>35. CASE RegisterInstallerCallback
  BY <1>35, <1>t DEF RegisterInstallerCallback, Idle
<1>36. CASE Reboot
  BY <1>36, <1>t DEF Reboot, Start, Idle, NoInfo, PreInstalledBundles
<1>37. CASE PowerLoss
  <2>1. calm' = 0 /\ ~OnlyReboots
    BY <1>37, Unsound
  <2> QED
    BY <2>1
<1>38. QED
  BY <1>0, <1>1, <1>2, <1>3, <1>4, <1>5, <1>6, <1>7, <1>8, <1>9, <1>10, <1>11, <1>12,
     <1>13, <1>14, <1>15, <1>16, <1>17, <1>18, <1>19, <1>20, <1>21, <1>22, <1>23, <1>24,
     <1>25, <1>26, <1>27, <1>28, <1>29, <1>30, <1>31, <1>32, <1>33, <1>34, <1>35, <1>36,
     <1>37
     DEF Next, Request, Work, Install, Uninstall, ScanPackages, PreInstall

LEMMA BootInit == Init => BootInv
<1> SUFFICES ASSUME Init PROVE BootInv
  OBVIOUS
<1>1. BootOrder /\ PutOffFresh /\ PublishedInstalled
  BY DEF Init, BootOrder, PutOffFresh, PublishedInstalled, Installed, NoInfo,
         RollingBack, Published, PreInstalledBundles
<1>2. CodeWhole
  BY DEF Init, CodeWhole, SystemApps, None, Partial
<1>3. SystemThere
  BY DEF Init, SystemThere, SystemApps, Awaited, Installed, NoInfo, Uninstalling,
         PreInstalledBundles
<1>4. QED
  BY <1>1, <1>2, <1>3 DEF BootInv

LEMMA BootStep ==
  ASSUME TypeOK, TypeOK', AckedHeld, BootInv, [Next]_vars
  PROVE  BootInv'
BY BootOrderStep, PutOffStep, PublishedStep, CodeStep, SystemStep DEF BootInv

(* Two boots in a row without a fault bring every bundle of the system     *)
(* back, whatever was interrupted, failed or came early before them, and   *)
(* as one that cannot be removed.  The first boot removes a directory that *)
(* was cut off, but the scan has taken its record for a valid one and does *)
(* not put the bundle off; the second installs it from the image.          *)
THEOREM GtSystemAppsBack == Spec => []SystemAppsBack
<1>1. Init => TypeOK /\ AckedHeld /\ BootInv
  BY GtInitType, BootInit DEF Init, AckedHeld, Owed, Working, RollingBack, Uninstalling
<1>2. TypeOK /\ AckedHeld /\ BootInv /\ [Next]_vars => (TypeOK /\ AckedHeld /\ BootInv)'
  BY TypeStep, AckedStep, BootStep
<1>3. TypeOK /\ BootInv => SystemAppsBack
  <2> SUFFICES ASSUME BootInv, Settled, calm = 2 PROVE SystemAppsBack
    BY DEF SystemAppsBack
  <2>1. Sound(2) /\ phase = "ready" /\ pending = {}
    BY DEF Sound, Settled, Idle, BootInv, BootOrder
  <2>2. \A x \in SystemApps : Installed(x) /\ bundleMap[x].sys
    BY <2>1 DEF BootInv, SystemThere, Awaited
  <2> QED
    BY <2>2 DEF SystemAppsBack, SystemApps
<1>4. QED
  BY <1>1, <1>2, <1>3, PTL DEF Spec

-----------------------------------------------------------------------------
(* x is on disk and in memory in one version, with its data, or absent.    *)
Whole(x) ==
  /\ record[x] = code[x]
  /\ record[x] # None => x \in data
  /\ Installed(x) => bundleMap[x].ver = record[x]

DiskWhole ==
  /\ \A x \in Bundles :
       \/ Whole(x)
       \/ bundle = x /\ pc \in (Working \ {"renameDir"}) \cup {"uninstalling", "unlink"}
  /\ pc \in {"renamingDir", "backUp", "removeData", "makeData", "publish"} =>
       /\ record[bundle] # None => bundle \in data \/ pc = "makeData"
       /\ Installed(bundle) => bundleMap[bundle].ver = record[bundle]
  /\ pc \in {"removeData", "makeData"} => ~Installed(bundle)
  /\ pc \in Published \cup {"publish"} => bundle \in data
  /\ pc \in Published => bundleMap[bundle].ver = hap.ver
  /\ pc = "unlink" => code[bundle] = None /\ bundle \notin data

(* Every bundle with a record is loaded, or is about to be: the scan has   *)
(* not come to it yet, or its update does it.                              *)
Loaded ==
  \A x \in Bundles : record[x] # None =>
    \/ Installed(x)
    \/ bundle = x /\ pc = "unlink"
    \/ x \in toScan /\ phase = IF Home[x] = "THIRD" THEN "third" ELSE "system"
    \/ phase = "system" /\ Home[x] = "THIRD"
    \/ x \in pending \cap updated

(* A third-party bundle is never taken for one of a partition.             *)
StylesMatch ==
  /\ pc \in InstallSteps => hap.style \in {"THIRD", Home[bundle]}
  /\ \A x \in thirdSystem : Home[x] = "THIRD_SYSTEM"
  /\ \A x \in Bundles : Home[x] = "THIRD" /\ Installed(x) => ~bundleMap[x].sys

(* The scan has room for every third-party bundle on disk.                 *)
ThirdOnDisk == {x \in Bundles : Home[x] = "THIRD" /\ record[x] # None}
ThirdLoaded == {x \in Bundles : Home[x] = "THIRD" /\ Installed(x)}

RoomLeft ==
  /\ phase \in {"system", "third"} => Cardinality(ThirdOnDisk) <= MaxThird
  /\ phase = "system" => count = 0
  /\ phase = "third" => count <= Cardinality(ThirdLoaded)

(* A vendor bundle that was removed is listed and has left nothing.        *)
VendorsGone ==
  /\ \A x \in uninstalled :
       /\ record[x] = None /\ ~Installed(x) /\ x \notin pending
       /\ pc \in {"idle", "uninstall"} \/ bundle # x
  /\ \A x \in gone : Home[x] = "THIRD" \/ x \in uninstalled

LEMMA NothingButReboots ==
  ASSUME OnlyReboots
  PROVE  /\ Undisturbed /\ "reinstall" \notin Faults
         /\ Sound(1) /\ Sound(2)
BY DEF OnlyReboots, Undisturbed, Sound

LEMMA ReloadOnlyOne ==
  ASSUME TypeOK, NEW x \in Bundles, NEW sys, Reload(x, sys)
  PROVE  \A y \in Bundles : y # x => bundleMap'[y] = bundleMap[y] /\ code'[y] = code[y]
BY DEF Reload, TypeOK

(* What is whole and has a record is loaded.                               *)
LEMMA ReloadLoads ==
  ASSUME TypeOK, NEW x \in Bundles, NEW sys, Reload(x, sys), record[x] # None, Whole(x)
  PROVE  Installed(x)'
<1>1. code[x] \in Versions
  BY DEF Whole, TypeOK
<1>2. CASE Installed(x)
  BY <1>1, <1>2 DEF Reload, Installed
<1>3. CASE ~Installed(x)
  <2>1. bundleMap' = [bundleMap EXCEPT ![x] = [ver |-> code[x], sys |-> sys]]
    BY <1>1, <1>3 DEF Reload
  <2>2. bundleMap'[x].ver = code[x]
    BY <2>1 DEF TypeOK
  <2> QED
    BY <1>1, <2>2, NullTypes DEF Installed
<1>4. QED
  BY <1>2, <1>3

(* There is room for a third-party bundle that is on disk and not loaded.  *)
LEMMA RoomForOneMore ==
  ASSUME TypeOK, DiskWhole, RoomLeft, phase = "third", pc = "idle",
         NEW x \in ThirdOnDisk, ~Installed(x)
  PROVE  count < MaxThird
<1>1. ThirdLoaded \subseteq ThirdOnDisk \ {x}
  BY DEF ThirdLoaded, ThirdOnDisk, DiskWhole, Whole, Installed, Working
<1>2. IsFiniteSet(ThirdOnDisk) /\ Cardinality(ThirdOnDisk) \in Nat
  <2>1. IsFiniteSet(Bundles) /\ ThirdOnDisk \subseteq Bundles
    BY GtAssumption DEF ThirdOnDisk
  <2> QED
    BY <2>1, FS_Subset, FS_CardinalityType
<1>3. /\ IsFiniteSet(ThirdOnDisk \ {x})
      /\ Cardinality(ThirdOnDisk \ {x}) = Cardinality(ThirdOnDisk) - 1
  BY <1>2, FS_RemoveElement
<1>4. Cardinality(ThirdLoaded) <= Cardinality(ThirdOnDisk \ {x}) /\ Cardinality(ThirdLoaded) \in Nat
  BY <1>1, <1>3, FS_Subset, FS_CardinalityType
<1>5. count <= Cardinality(ThirdLoaded) /\ Cardinality(ThirdOnDisk) <= MaxThird
  BY DEF RoomLeft
<1>6. QED
  BY <1>2, <1>3, <1>4, <1>5, Bounds DEF TypeOK

LEMMA StylesStep ==
  ASSUME OnlyReboots, TypeOK, TypeOK', RemovedInv, Orderly, StylesMatch,
         [Next]_vars
  PROVE  StylesMatch'
<1> USE NullTypes, NothingButReboots, NothingFails DEF StylesMatch, InstallSteps,
        Installed, bundle, Goto, memory, lists, disk, task, boot, told, budget
<1>0. CASE UNCHANGED vars
  BY <1>0 DEF vars
<1>1. ASSUME NEW h \in ClientHaps, ReceiveInstall(h) PROVE StylesMatch'
  BY <1>1 DEF ReceiveInstall, MayRequest, ClientHaps, PreInstalled
<1>2. ASSUME NEW x \in Bundles, ReceiveUninstall(x) PROVE StylesMatch'
  BY <1>2 DEF ReceiveUninstall, MayRequest, Idle
<1>3. CASE BadHap
  BY <1>3 DEF BadHap, End
<1>4. CASE RefuseTooMany
  BY <1>4 DEF RefuseTooMany, End
<1>5. CASE RefuseVersion
  BY <1>5 DEF RefuseVersion, End
<1>6. CASE Accept
  BY <1>6 DEF Accept
<1>7. CASE RenameDirBegin
  BY <1>7 DEF RenameDirBegin, TypeOK, Haps
<1>8. CASE RenameDirEnd
  BY <1>8 DEF RenameDirEnd, TypeOK, Haps
<1>9. CASE BackUpInstallRecord
  BY <1>9 DEF BackUpInstallRecord
<1>10. CASE RemoveData
  BY <1>10 DEF RemoveData
<1>11. CASE MakeData
  BY <1>11 DEF MakeData
<1>12. CASE UpdateBundleInfo
  <2>1. /\ bundle \in Bundles /\ pc = "publish" /\ UNCHANGED <<thirdSystem, hap>>
        /\ \A y \in Bundles : y # bundle => bundleMap'[y] = bundleMap[y]
    BY <1>12 DEF UpdateBundleInfo, TypeOK, Haps
  <2>2. bundleMap'[bundle].sys => hap.style = "SYSTEM" \/ (Installed(bundle) /\ bundleMap[bundle].sys)
    BY <1>12, <2>1 DEF UpdateBundleInfo, TypeOK
  <2>3. Home[bundle] = "THIRD" => ~bundleMap'[bundle].sys
    BY <2>1, <2>2
  <2> QED
    BY <1>12, <2>1, <2>3 DEF UpdateBundleInfo
<1>13. CASE StepFails
  BY <1>13 DEF StepFails
<1>14. CASE RenameRecordBegin
  BY <1>14 DEF RenameRecordBegin, TypeOK, Haps
<1>15. CASE RenameRecordEnd
  BY <1>15 DEF RenameRecordEnd, TypeOK, Haps
<1>16. CASE RenameRecordFails
  BY <1>16 DEF RenameRecordFails
<1>17. CASE InstallDone
  BY <1>17 DEF InstallDone, End, WithThirdSystem
<1>18. CASE Rollback
  BY <1>18 DEF Rollback, Orderly, InstallSteps
<1>19. CASE RemoveDirsBegin
  BY <1>19 DEF RemoveDirsBegin, Orderly, InstallSteps
<1>20. CASE RemoveDirsEnd
  BY <1>20 DEF RemoveDirsEnd, End, Orderly
<1>21. CASE RefuseUninstall
  BY <1>21 DEF RefuseUninstall, End
<1>22. CASE DeletePermissionsFails
  BY <1>22 DEF DeletePermissionsFails, End
<1>23. CASE UninstallDirsBegin
  BY <1>23 DEF UninstallDirsBegin
<1>24. CASE UninstallDirsEnd
  BY <1>24 DEF UninstallDirsEnd, End, RemoveBundle, NoInfo
<1>25. CASE Unlink
  BY <1>25 DEF Unlink, End
<1>26. CASE UninstallDone
  BY <1>26 DEF UninstallDone, End
<1>27. CASE ScanDone
  BY <1>27 DEF ScanDone
<1>28. ASSUME NEW x \in Bundles, SkipSystemApp(x) PROVE StylesMatch'
  BY <1>28 DEF SkipSystemApp, TakeFrom
<1>29. ASSUME NEW x \in Bundles, PostponeSystemApp(x) PROVE StylesMatch'
  BY <1>29 DEF PostponeSystemApp, TakeFrom
<1>30. ASSUME NEW x \in Bundles, ReloadSystemApp(x) PROVE StylesMatch'
  BY <1>30
     DEF ReloadSystemApp, TakeFrom, Reload, TypeOK, RemovedInv, PutOffIsPreInstalled,
         PreInstalledBundles
<1>31. ASSUME NEW x \in Bundles, SkipThirdApp(x) PROVE StylesMatch'
  BY <1>31 DEF SkipThirdApp, TakeFrom
<1>32. ASSUME NEW x \in Bundles, ReloadThirdApp(x) PROVE StylesMatch'
  BY <1>32 DEF ReloadThirdApp, TakeFrom, Reload, TypeOK
<1>33. CASE InstallPreBundleDone
  BY <1>33 DEF InstallPreBundleDone
<1>34. ASSUME NEW x \in Bundles, InstallPreBundle(x) PROVE StylesMatch'
  BY <1>34
     DEF InstallPreBundle, PreInstalled, ReloadIfUpdated, Reload, TypeOK, RemovedInv,
         PutOffIsPreInstalled, PreInstalledBundles
<1>35. CASE RegisterInstallerCallback
  BY <1>35 DEF RegisterInstallerCallback, Idle
<1>36. CASE Reboot
  BY <1>36 DEF Reboot, Start, NoInfo
<1>37. CASE PowerLoss
  BY <1>37
<1>38. QED
  BY <1>0, <1>1, <1>2, <1>3, <1>4, <1>5, <1>6, <1>7, <1>8, <1>9, <1>10, <1>11, <1>12,
     <1>13, <1>14, <1>15, <1>16, <1>17, <1>18, <1>19, <1>20, <1>21, <1>22, <1>23, <1>24,
     <1>25, <1>26, <1>27, <1>28, <1>29, <1>30, <1>31, <1>32, <1>33, <1>34, <1>35, <1>36,
     <1>37
     DEF Next, Request, Work, Install, Uninstall, ScanPackages, PreInstall

LEMMA WholeStep ==
  ASSUME OnlyReboots, TypeOK, TypeOK', AckedHeld, Orderly, UninstallProgress, PublishedInstalled, Loaded, DiskWhole,
         [Next]_vars
  PROVE  DiskWhole'
<1> USE NullTypes, NothingButReboots, NothingFails DEF DiskWhole, Whole, Working,
        Published, Installed, bundle, Goto, memory, lists, disk, task, boot, told,
        budget
<1>0. CASE UNCHANGED vars
  BY <1>0 DEF vars
<1>1. ASSUME NEW h \in ClientHaps, ReceiveInstall(h) PROVE DiskWhole'
  BY <1>1 DEF ReceiveInstall, MayRequest, Idle
<1>2. ASSUME NEW x \in Bundles, ReceiveUninstall(x) PROVE DiskWhole'
  BY <1>2 DEF ReceiveUninstall, MayRequest, Idle
<1>3. CASE BadHap
  BY <1>3 DEF BadHap, End
<1>4. CASE RefuseTooMany
  BY <1>4 DEF RefuseTooMany, End
<1>5. CASE RefuseVersion
  BY <1>5 DEF RefuseVersion, End
<1>6. CASE Accept
  BY <1>6 DEF Accept
<1>7. CASE RenameDirBegin
  BY <1>7 DEF RenameDirBegin, TypeOK, Haps
<1>8. CASE RenameDirEnd
  BY <1>8 DEF RenameDirEnd, TypeOK, Haps
<1>9. CASE BackUpInstallRecord
  BY <1>9 DEF BackUpInstallRecord, Loaded
<1>10. CASE RemoveData
  BY <1>10 DEF RemoveData
<1>11. CASE MakeData
  BY <1>11 DEF MakeData
<1>12. CASE UpdateBundleInfo
  BY <1>12 DEF UpdateBundleInfo, TypeOK, Haps
<1>13. CASE StepFails
  BY <1>13 DEF StepFails
<1>14. CASE RenameRecordBegin
  BY <1>14 DEF RenameRecordBegin, TypeOK, Haps
<1>15. CASE RenameRecordEnd
  BY <1>15 DEF RenameRecordEnd, TypeOK, Haps
<1>16. CASE RenameRecordFails
  BY <1>16 DEF RenameRecordFails
<1>17. CASE InstallDone
  BY <1>17 DEF InstallDone, End, AckedHeld
<1>18. CASE Rollback
  BY <1>18 DEF Rollback, Orderly, InstallSteps
<1>19. CASE RemoveDirsBegin
  BY <1>19 DEF RemoveDirsBegin, Orderly, InstallSteps
<1>20. CASE RemoveDirsEnd
  BY <1>20 DEF RemoveDirsEnd, End, Orderly, InstallSteps
<1>21. CASE RefuseUninstall
  BY <1>21 DEF RefuseUninstall, End
<1>22. CASE DeletePermissionsFails
  BY <1>22 DEF DeletePermissionsFails, End
<1>23. CASE UninstallDirsBegin
  BY <1>23 DEF UninstallDirsBegin
<1>24. CASE UninstallDirsEnd
  BY <1>24 DEF UninstallDirsEnd, End, RemoveBundle, TypeOK
<1>25. CASE Unlink
  BY <1>25 DEF Unlink, End, UninstallProgress, TypeOK
<1>26. CASE UninstallDone
  BY <1>26 DEF UninstallDone, End
<1>27. CASE ScanDone
  BY <1>27 DEF ScanDone
<1>28. ASSUME NEW x \in Bundles, SkipSystemApp(x) PROVE DiskWhole'
  BY <1>28 DEF SkipSystemApp, TakeFrom
<1>29. ASSUME NEW x \in Bundles, PostponeSystemApp(x) PROVE DiskWhole'
  BY <1>29 DEF PostponeSystemApp, TakeFrom
<1>30. ASSUME NEW x \in Bundles, ReloadSystemApp(x) PROVE DiskWhole'
  BY <1>30 DEF ReloadSystemApp, TakeFrom, Reload, TypeOK
<1>31. ASSUME NEW x \in Bundles, SkipThirdApp(x) PROVE DiskWhole'
  BY <1>31 DEF SkipThirdApp, TakeFrom
<1>32. ASSUME NEW x \in Bundles, ReloadThirdApp(x) PROVE DiskWhole'
  BY <1>32 DEF ReloadThirdApp, TakeFrom, Reload, TypeOK
<1>33. CASE InstallPreBundleDone
  BY <1>33 DEF InstallPreBundleDone
<1>34. ASSUME NEW x \in Bundles, InstallPreBundle(x) PROVE DiskWhole'
  BY <1>34 DEF InstallPreBundle, PreInstalled, ReloadIfUpdated, Reload, TypeOK
<1>35. CASE RegisterInstallerCallback
  BY <1>35 DEF RegisterInstallerCallback, Idle
<1>36. CASE Reboot
  BY <1>36 DEF Reboot, Start, Idle, NoInfo
<1>37. CASE PowerLoss
  BY <1>37
<1>38. QED
  BY <1>0, <1>1, <1>2, <1>3, <1>4, <1>5, <1>6, <1>7, <1>8, <1>9, <1>10, <1>11, <1>12,
     <1>13, <1>14, <1>15, <1>16, <1>17, <1>18, <1>19, <1>20, <1>21, <1>22, <1>23, <1>24,
     <1>25, <1>26, <1>27, <1>28, <1>29, <1>30, <1>31, <1>32, <1>33, <1>34, <1>35, <1>36,
     <1>37
     DEF Next, Request, Work, Install, Uninstall, ScanPackages, PreInstall

LEMMA LoadedStep ==
  ASSUME OnlyReboots, TypeOK, TypeOK', RemovedInv, Orderly, PublishedInstalled,
         DiskWhole, RoomLeft, VendorsGone, StylesMatch, Loaded,
         [Next]_vars
  PROVE  Loaded'
<1> USE NullTypes, NothingButReboots, NothingFails DEF Loaded, Installed, bundle, Goto,
        memory, lists, disk, task, boot, told, budget
<1>0. CASE UNCHANGED vars
  BY <1>0 DEF vars
<1>1. ASSUME NEW h \in ClientHaps, ReceiveInstall(h) PROVE Loaded'
  BY <1>1 DEF ReceiveInstall, MayRequest, Idle
<1>2. ASSUME NEW x \in Bundles, ReceiveUninstall(x) PROVE Loaded'
  BY <1>2 DEF ReceiveUninstall, MayRequest, Idle
<1>3. CASE BadHap
  BY <1>3 DEF BadHap, End
<1>4. CASE RefuseTooMany
  BY <1>4 DEF RefuseTooMany, End
<1>5. CASE RefuseVersion
  BY <1>5 DEF RefuseVersion, End
<1>6. CASE Accept
  BY <1>6 DEF Accept
<1>7. CASE RenameDirBegin
  BY <1>7 DEF RenameDirBegin, TypeOK, Haps
<1>8. CASE RenameDirEnd
  BY <1>8 DEF RenameDirEnd, TypeOK, Haps
<1>9. CASE BackUpInstallRecord
  BY <1>9 DEF BackUpInstallRecord
<1>10. CASE RemoveData
  BY <1>10 DEF RemoveData
<1>11. CASE MakeData
  BY <1>11 DEF MakeData
<1>12. CASE UpdateBundleInfo
  BY <1>12 DEF UpdateBundleInfo, TypeOK, Haps
<1>13. CASE StepFails
  BY <1>13 DEF StepFails
<1>14. CASE RenameRecordBegin
  BY <1>14 DEF RenameRecordBegin, TypeOK
<1>15. CASE RenameRecordEnd
  BY <1>15 DEF RenameRecordEnd, TypeOK, PublishedInstalled, Published
<1>16. CASE RenameRecordFails
  BY <1>16 DEF RenameRecordFails
<1>17. CASE InstallDone
  BY <1>17 DEF InstallDone, End
<1>18. CASE Rollback
  BY <1>18 DEF Rollback, Orderly, InstallSteps
<1>19. CASE RemoveDirsBegin
  BY <1>19 DEF RemoveDirsBegin, Orderly, InstallSteps
<1>20. CASE RemoveDirsEnd
  BY <1>20 DEF RemoveDirsEnd, End, Orderly, InstallSteps
<1>21. CASE RefuseUninstall
  BY <1>21 DEF RefuseUninstall, End
<1>22. CASE DeletePermissionsFails
  BY <1>22 DEF DeletePermissionsFails, End
<1>23. CASE UninstallDirsBegin
  BY <1>23 DEF UninstallDirsBegin
<1>24. CASE UninstallDirsEnd
  BY <1>24 DEF UninstallDirsEnd, End, RemoveBundle
<1>25. CASE Unlink
  BY <1>25 DEF Unlink, End, TypeOK
<1>26. CASE UninstallDone
  BY <1>26 DEF UninstallDone, End
<1>27. CASE ScanDone
  BY <1>27 DEF ScanDone, DiskWhole, Whole, Working
<1>28. ASSUME NEW x \in Bundles, SkipSystemApp(x) PROVE Loaded'
  BY <1>28 DEF SkipSystemApp, TakeFrom, SkippedSystemApp, VendorsGone
<1>29. ASSUME NEW x \in Bundles, PostponeSystemApp(x) PROVE Loaded'
  BY <1>29 DEF PostponeSystemApp, TakeFrom, DiskWhole, Whole, ValidRecord, Working
<1>30. ASSUME NEW x \in Bundles, ReloadSystemApp(x) PROVE Loaded'
  <2>1. /\ pc = "idle" /\ phase = "system" /\ toScan' = toScan \ {x}
        /\ UNCHANGED <<record, pc, hap, phase, pending, updated>>
        /\ Reload(x, Home[x] = "SYSTEM")
    BY <1>30 DEF ReloadSystemApp, TakeFrom
  <2>2. record[x] # None => Installed(x)'
    BY <2>1, ReloadLoads DEF DiskWhole, Working
  <2>3. \A y \in Bundles : y # x => bundleMap'[y] = bundleMap[y]
    BY <2>1, ReloadOnlyOne
  <2> QED
    BY <2>1, <2>2, <2>3
<1>31. ASSUME NEW x \in Bundles, SkipThirdApp(x) PROVE Loaded'
  <2>1. /\ pc = "idle" /\ phase = "third" /\ toScan' = toScan \ {x}
        /\ UNCHANGED <<bundleMap, record, pc, hap, phase, pending, updated>>
        /\ SkippedThirdApp(x)
    BY <1>31 DEF SkipThirdApp, TakeFrom
  <2>2. record[x] # None /\ Home[x] = "THIRD" => Installed(x)
    <3> SUFFICES ASSUME record[x] # None, Home[x] = "THIRD", ~Installed(x) PROVE FALSE
      OBVIOUS
    <3>1. code[x] # None /\ x \notin updated
      BY <2>1
         DEF DiskWhole, Whole, Working, RemovedInv, PutOffIsPreInstalled,
             PreInstalledBundles
    <3>2. count < MaxThird
      BY <2>1, RoomForOneMore DEF ThirdOnDisk
    <3> QED
      BY <2>1, <3>1, <3>2, Bounds DEF SkippedThirdApp, ValidRecord, TypeOK
  <2> QED
    BY <2>1, <2>2
<1>32. ASSUME NEW x \in Bundles, ReloadThirdApp(x) PROVE Loaded'
  <2>1. /\ pc = "idle" /\ phase = "third" /\ toScan' = toScan \ {x}
        /\ UNCHANGED <<record, pc, hap, phase, pending, updated>>
        /\ Reload(x, FALSE)
    BY <1>32 DEF ReloadThirdApp, TakeFrom
  <2>2. record[x] # None => Installed(x)'
    BY <2>1, ReloadLoads DEF DiskWhole, Working
  <2>3. \A y \in Bundles : y # x => bundleMap'[y] = bundleMap[y]
    BY <2>1, ReloadOnlyOne
  <2> QED
    BY <2>1, <2>2, <2>3
<1>33. CASE InstallPreBundleDone
  BY <1>33 DEF InstallPreBundleDone
<1>34. ASSUME NEW x \in Bundles, InstallPreBundle(x) PROVE Loaded'
  <2>1. /\ pc = "idle" /\ pc' = "check" /\ phase = "preinstall" /\ pending' = pending \ {x}
        /\ UNCHANGED <<record, phase, toScan, updated>>
        /\ ReloadIfUpdated(x)
    BY <1>34 DEF InstallPreBundle
  <2>2. record[x] # None => Installed(x)'
    <3>1. CASE x \in updated
      BY <2>1, <3>1, ReloadLoads DEF DiskWhole, Working, ReloadIfUpdated
    <3>2. CASE x \notin updated
      BY <2>1, <3>2 DEF ReloadIfUpdated
    <3> QED
      BY <3>1, <3>2
  <2>3. \A y \in Bundles : y # x => bundleMap'[y] = bundleMap[y]
    BY <2>1, ReloadOnlyOne DEF ReloadIfUpdated
  <2> QED
    BY <2>1, <2>2, <2>3
<1>35. CASE RegisterInstallerCallback
  BY <1>35 DEF RegisterInstallerCallback, Idle
<1>36. CASE Reboot
  BY <1>36 DEF Reboot, Start, PreInstalledBundles
<1>37. CASE PowerLoss
  BY <1>37
<1>38. QED
  BY <1>0, <1>1, <1>2, <1>3, <1>4, <1>5, <1>6, <1>7, <1>8, <1>9, <1>10, <1>11, <1>12,
     <1>13, <1>14, <1>15, <1>16, <1>17, <1>18, <1>19, <1>20, <1>21, <1>22, <1>23, <1>24,
     <1>25, <1>26, <1>27, <1>28, <1>29, <1>30, <1>31, <1>32, <1>33, <1>34, <1>35, <1>36,
     <1>37
     DEF Next, Request, Work, Install, Uninstall, ScanPackages, PreInstall

LEMMA GoneStep ==
  ASSUME OnlyReboots, TypeOK, TypeOK', RemovedInv, Orderly, VendorsListed, StylesMatch,
         SystemThere, VendorsGone,
         [Next]_vars
  PROVE  VendorsGone'
<1> USE NullTypes, NothingButReboots, NothingFails DEF VendorsGone, Installed, bundle,
        Goto, memory, lists, disk, task, boot, told, budget
<1>0. CASE UNCHANGED vars
  BY <1>0 DEF vars
<1>1. ASSUME NEW h \in ClientHaps, ReceiveInstall(h) PROVE VendorsGone'
  BY <1>1 DEF ReceiveInstall, MayRequest
<1>2. ASSUME NEW x \in Bundles, ReceiveUninstall(x) PROVE VendorsGone'
  BY <1>2 DEF ReceiveUninstall, MayRequest, Idle
<1>3. CASE BadHap
  BY <1>3 DEF BadHap, End
<1>4. CASE RefuseTooMany
  BY <1>4 DEF RefuseTooMany, End
<1>5. CASE RefuseVersion
  BY <1>5 DEF RefuseVersion, End
<1>6. CASE Accept
  BY <1>6 DEF Accept
<1>7. CASE RenameDirBegin
  BY <1>7 DEF RenameDirBegin, TypeOK, Haps
<1>8. CASE RenameDirEnd
  BY <1>8 DEF RenameDirEnd, TypeOK, Haps
<1>9. CASE BackUpInstallRecord
  BY <1>9 DEF BackUpInstallRecord
<1>10. CASE RemoveData
  BY <1>10 DEF RemoveData
<1>11. CASE MakeData
  BY <1>11 DEF MakeData
<1>12. CASE UpdateBundleInfo
  BY <1>12 DEF UpdateBundleInfo, TypeOK, Haps
<1>13. CASE StepFails
  BY <1>13 DEF StepFails
<1>14. CASE RenameRecordBegin
  BY <1>14 DEF RenameRecordBegin, TypeOK, Haps
<1>15. CASE RenameRecordEnd
  BY <1>15 DEF RenameRecordEnd, TypeOK, Haps
<1>16. CASE RenameRecordFails
  BY <1>16 DEF RenameRecordFails
<1>17. CASE InstallDone
  BY <1>17 DEF InstallDone, End
<1>18. CASE Rollback
  BY <1>18 DEF Rollback, Orderly, InstallSteps
<1>19. CASE RemoveDirsBegin
  BY <1>19 DEF RemoveDirsBegin, Orderly, InstallSteps
<1>20. CASE RemoveDirsEnd
  BY <1>20 DEF RemoveDirsEnd, End, Orderly, InstallSteps
<1>21. CASE RefuseUninstall
  BY <1>21 DEF RefuseUninstall, End
<1>22. CASE DeletePermissionsFails
  BY <1>22 DEF DeletePermissionsFails, End
<1>23. CASE UninstallDirsBegin
  BY <1>23 DEF UninstallDirsBegin
<1>24. CASE UninstallDirsEnd
  BY <1>24 DEF UninstallDirsEnd, End, RemoveBundle
<1>25. CASE Unlink
  <2>1. CASE End /\ UNCHANGED record
    BY <1>25, <2>1 DEF Unlink, End
  <2>2. CASE record' = [record EXCEPT ![bundle] = None] /\ pc' = "recordUninstalled" /\ UNCHANGED task
    BY <1>25, <2>2 DEF Unlink, TypeOK
  <2> QED
    BY <1>25, <2>1, <2>2 DEF Unlink
<1>26. CASE UninstallDone
  <2>1. /\ pc = "recordUninstalled" /\ pc' = "idle" /\ bundle \in Bundles
        /\ uninstalled' = WithUninstalled /\ gone' = gone \cup {bundle}
        /\ UNCHANGED <<bundleMap, record, pending>>
    BY <1>26 DEF UninstallDone, End, TypeOK
  <2>2. phase = "ready" /\ pending = {} /\ uninstalled # Torn
    BY <2>1 DEF Orderly, InstallSteps, TypeOK, Torn
  <2>3. record[bundle] = None /\ ~Installed(bundle)
    BY <2>1 DEF RemovedInv, UninstallProgress
  <2>4. Home[bundle] = "THIRD_SYSTEM" => bundle \in thirdSystem
    BY <2>1, <2>2 DEF VendorsListed
  <2>5. Home[bundle] # "SYSTEM"
    BY <2>1 DEF SystemThere, SystemApps, Uninstalling
  <2>6. Home[bundle] = "THIRD" \/ bundle \in thirdSystem
    BY <2>1, <2>4, <2>5, GtAssumption DEF Styles
  <2>7. uninstalled' = IF bundle \in thirdSystem THEN uninstalled \cup {bundle} ELSE uninstalled
    BY <2>1, <2>2 DEF WithUninstalled, IsThirdSystem
  <2> QED
    BY <2>1, <2>2, <2>3, <2>6, <2>7
<1>27. CASE ScanDone
  BY <1>27 DEF ScanDone
<1>28. ASSUME NEW x \in Bundles, SkipSystemApp(x) PROVE VendorsGone'
  BY <1>28 DEF SkipSystemApp, TakeFrom
<1>29. ASSUME NEW x \in Bundles, PostponeSystemApp(x) PROVE VendorsGone'
  BY <1>29 DEF PostponeSystemApp, TakeFrom, SkippedSystemApp, StylesMatch, Orderly
<1>30. ASSUME NEW x \in Bundles, ReloadSystemApp(x) PROVE VendorsGone'
  <2>1. /\ pc = "idle" /\ record[x] # None /\ Reload(x, Home[x] = "SYSTEM")
        /\ UNCHANGED <<record, pc, hap, pending, uninstalled, gone>>
    BY <1>30 DEF ReloadSystemApp, TakeFrom, ValidRecord
  <2>2. \A y \in Bundles : y # x => bundleMap'[y] = bundleMap[y]
    BY <2>1, ReloadOnlyOne
  <2> QED
    BY <2>1, <2>2 DEF Orderly
<1>31. ASSUME NEW x \in Bundles, SkipThirdApp(x) PROVE VendorsGone'
  BY <1>31 DEF SkipThirdApp, TakeFrom
<1>32. ASSUME NEW x \in Bundles, ReloadThirdApp(x) PROVE VendorsGone'
  <2>1. /\ pc = "idle" /\ record[x] # None /\ Reload(x, FALSE)
        /\ UNCHANGED <<record, pc, hap, pending, uninstalled, gone>>
    BY <1>32 DEF ReloadThirdApp, TakeFrom, SkippedThirdApp, ValidRecord
  <2>2. \A y \in Bundles : y # x => bundleMap'[y] = bundleMap[y]
    BY <2>1, ReloadOnlyOne
  <2> QED
    BY <2>1, <2>2 DEF Orderly
<1>33. CASE InstallPreBundleDone
  BY <1>33 DEF InstallPreBundleDone
<1>34. ASSUME NEW x \in Bundles, InstallPreBundle(x) PROVE VendorsGone'
  <2>1. /\ pc = "idle" /\ x \in pending /\ pending' = pending \ {x} /\ bundle' = x
        /\ ReloadIfUpdated(x) /\ UNCHANGED <<record, uninstalled, gone>>
    BY <1>34 DEF InstallPreBundle, PreInstalled
  <2>2. \A y \in Bundles : y # x => bundleMap'[y] = bundleMap[y]
    BY <2>1, ReloadOnlyOne DEF ReloadIfUpdated
  <2> QED
    BY <2>1, <2>2 DEF Orderly
<1>35. CASE RegisterInstallerCallback
  BY <1>35 DEF RegisterInstallerCallback, Idle
<1>36. CASE Reboot
  BY <1>36 DEF Reboot, Start, TypeOK, NoInfo, Readable, Torn
<1>37. CASE PowerLoss
  BY <1>37
<1>38. QED
  BY <1>0, <1>1, <1>2, <1>3, <1>4, <1>5, <1>6, <1>7, <1>8, <1>9, <1>10, <1>11, <1>12,
     <1>13, <1>14, <1>15, <1>16, <1>17, <1>18, <1>19, <1>20, <1>21, <1>22, <1>23, <1>24,
     <1>25, <1>26, <1>27, <1>28, <1>29, <1>30, <1>31, <1>32, <1>33, <1>34, <1>35, <1>36,
     <1>37
     DEF Next, Request, Work, Install, Uninstall, ScanPackages, PreInstall

(* When the service is ready, what a scan would load is within the limit.  *)
LEMMA OnDiskWithinLimit ==
  ASSUME TypeOK, RemovedInv, Loaded, StylesMatch, Covers, pc = "idle", phase = "ready"
  PROVE  Cardinality(ThirdOnDisk) <= MaxThird
<1>1. ThirdOnDisk \subseteq ThirdParty
  <2> SUFFICES ASSUME NEW x \in ThirdOnDisk PROVE x \in ThirdParty
    OBVIOUS
  <2>1. x \in Bundles /\ Home[x] = "THIRD" /\ record[x] # None
    BY DEF ThirdOnDisk
  <2>2. x \notin pending
    BY <2>1 DEF RemovedInv, PutOffIsPreInstalled, PreInstalledBundles
  <2>3. Installed(x) /\ ~bundleMap[x].sys /\ x \notin thirdSystem
    BY <2>1, <2>2 DEF Loaded, StylesMatch
  <2> QED
    BY <2>1, <2>3 DEF ThirdParty, IsThirdSystem
<1>2. IsFiniteSet(ThirdParty) /\ Cardinality(ThirdParty) \in Nat
  BY ThirdPartyFinite
<1>3. Cardinality(ThirdParty) <= MaxThird
  <2>1. ThirdParty \ NotYet({"THIRD_SYSTEM"}) = ThirdParty
    BY DEF NotYet, Published
  <2> QED
    BY <2>1 DEF Covers, LimitCovers
<1>4. Cardinality(ThirdOnDisk) <= Cardinality(ThirdParty) /\ Cardinality(ThirdOnDisk) \in Nat
  BY <1>1, <1>2, FS_Subset, FS_CardinalityType
<1>5. QED
  BY <1>2, <1>3, <1>4, Bounds

LEMMA ThirdLoadedFinite ==
  IsFiniteSet(ThirdLoaded) /\ Cardinality(ThirdLoaded) \in Nat
<1>1. IsFiniteSet(Bundles) /\ ThirdLoaded \subseteq Bundles
  BY GtAssumption DEF ThirdLoaded
<1>2. QED
  BY <1>1, FS_Subset, FS_CardinalityType

(* The number of bundles on disk and the counter in a scan that changes    *)
(* neither.                                                                *)
LEMMA RoomKept ==
  ASSUME RoomLeft, UNCHANGED <<record, count, phase>>,
         phase = "third" => UNCHANGED bundleMap
  PROVE  RoomLeft'
<1>1. ThirdOnDisk' = ThirdOnDisk
  BY DEF ThirdOnDisk
<1>2. phase = "third" => ThirdLoaded' = ThirdLoaded
  BY DEF ThirdLoaded, Installed
<1>3. QED
  BY <1>1, <1>2 DEF RoomLeft

(* Outside of a scan nothing is said.                                      *)
LEMMA RoomOutside ==
  ASSUME phase' \in {"ready", "preinstall"}
  PROVE  RoomLeft'
BY DEF RoomLeft

LEMMA RoomStep ==
  ASSUME OnlyReboots, TypeOK, TypeOK', RemovedInv, Orderly, StylesMatch, Covers,
         Loaded, RoomLeft,
         [Next]_vars
  PROVE  RoomLeft'
<1> USE NothingButReboots, NothingFails DEF bundle, Goto, memory, lists, disk, task,
        boot, told, budget
<1>0. CASE UNCHANGED vars
  BY <1>0, RoomKept DEF vars
<1>1. ASSUME NEW h \in ClientHaps, ReceiveInstall(h) PROVE RoomLeft'
  BY <1>1, RoomOutside DEF ReceiveInstall, MayRequest, Idle
<1>2. ASSUME NEW x \in Bundles, ReceiveUninstall(x) PROVE RoomLeft'
  BY <1>2, RoomOutside DEF ReceiveUninstall, MayRequest, Idle
<1>3. CASE BadHap
  BY <1>3, RoomOutside DEF BadHap, End
<1>4. CASE RefuseTooMany
  BY <1>4, RoomOutside DEF RefuseTooMany, End, Orderly, TypeOK
<1>5. CASE RefuseVersion
  BY <1>5, RoomOutside DEF RefuseVersion, End, Orderly, TypeOK
<1>6. CASE Accept
  BY <1>6, RoomOutside DEF Accept, Orderly, TypeOK
<1>7. CASE RenameDirBegin
  BY <1>7, RoomOutside DEF RenameDirBegin, Orderly, TypeOK
<1>8. CASE RenameDirEnd
  BY <1>8, RoomOutside DEF RenameDirEnd, Orderly, TypeOK
<1>9. CASE BackUpInstallRecord
  BY <1>9, RoomOutside DEF BackUpInstallRecord, Orderly, TypeOK
<1>10. CASE RemoveData
  BY <1>10, RoomOutside DEF RemoveData, Orderly, TypeOK
<1>11. CASE MakeData
  BY <1>11, RoomOutside DEF MakeData, Orderly, TypeOK
<1>12. CASE UpdateBundleInfo
  BY <1>12, RoomOutside DEF UpdateBundleInfo, Orderly, TypeOK
<1>13. CASE StepFails
  BY <1>13, RoomOutside DEF StepFails, Orderly
<1>14. CASE RenameRecordBegin
  BY <1>14, RoomOutside DEF RenameRecordBegin, Orderly, TypeOK
<1>15. CASE RenameRecordEnd
  BY <1>15, RoomOutside DEF RenameRecordEnd, Orderly, TypeOK
<1>16. CASE RenameRecordFails
  BY <1>16, RoomOutside DEF RenameRecordFails, Orderly
<1>17. CASE InstallDone
  BY <1>17, RoomOutside DEF InstallDone, End, Orderly, TypeOK
<1>18. CASE Rollback
  BY <1>18, RoomOutside DEF Rollback, Orderly, InstallSteps
<1>19. CASE RemoveDirsBegin
  BY <1>19, RoomOutside DEF RemoveDirsBegin, Orderly, InstallSteps
<1>20. CASE RemoveDirsEnd
  BY <1>20, RoomOutside DEF RemoveDirsEnd, End, Orderly, InstallSteps
<1>21. CASE RefuseUninstall
  BY <1>21, RoomOutside DEF RefuseUninstall, End, Orderly, TypeOK
<1>22. CASE DeletePermissionsFails
  BY <1>22, RoomOutside DEF DeletePermissionsFails, End
<1>23. CASE UninstallDirsBegin
  BY <1>23, RoomOutside DEF UninstallDirsBegin, Orderly, TypeOK
<1>24. CASE UninstallDirsEnd
  BY <1>24, RoomOutside DEF UninstallDirsEnd, End, Orderly, TypeOK
<1>25. CASE Unlink
  BY <1>25, RoomOutside DEF Unlink, End, Orderly, TypeOK
<1>26. CASE UninstallDone
  BY <1>26, RoomOutside DEF UninstallDone, End, Orderly, TypeOK
<1>27. CASE ScanDone
  <2>1. CASE phase = "system"
    <3>1. UNCHANGED <<record, count, bundleMap>> /\ phase' = "third"
      BY <1>27, <2>1 DEF ScanDone
    <3>2. ThirdOnDisk' = ThirdOnDisk /\ ThirdLoaded' = ThirdLoaded
      BY <3>1 DEF ThirdOnDisk, ThirdLoaded, Installed
    <3>3. count = 0 /\ Cardinality(ThirdOnDisk) <= MaxThird
      BY <2>1 DEF RoomLeft
    <3>4. count' <= Cardinality(ThirdLoaded') /\ Cardinality(ThirdOnDisk') <= MaxThird
      BY <3>1, <3>2, <3>3, ThirdLoadedFinite
    <3> QED
      BY <3>1, <3>4 DEF RoomLeft
  <2>2. CASE phase # "system"
    BY <1>27, <2>2, RoomOutside DEF ScanDone
  <2> QED
    BY <2>1, <2>2
<1>28. ASSUME NEW x \in Bundles, SkipSystemApp(x) PROVE RoomLeft'
  BY <1>28, RoomKept DEF SkipSystemApp, TakeFrom
<1>29. ASSUME NEW x \in Bundles, PostponeSystemApp(x) PROVE RoomLeft'
  BY <1>29, RoomKept DEF PostponeSystemApp, TakeFrom
<1>30. ASSUME NEW x \in Bundles, ReloadSystemApp(x) PROVE RoomLeft'
  BY <1>30, RoomKept DEF ReloadSystemApp, TakeFrom, Reload
<1>31. ASSUME NEW x \in Bundles, SkipThirdApp(x) PROVE RoomLeft'
  BY <1>31, RoomKept DEF SkipThirdApp, TakeFrom
<1>32. ASSUME NEW x \in Bundles, ReloadThirdApp(x) PROVE RoomLeft'
  <2>0. ~SkippedThirdApp(x)
    BY <1>32 DEF ReloadThirdApp
  <2>a. count < MaxThird /\ ~Installed(x) /\ record[x] # None /\ x \notin updated
    BY <2>0, Bounds DEF SkippedThirdApp, ValidRecord, TypeOK
  <2>b. /\ pc = "idle" /\ phase = "third" /\ phase' = "third" /\ UNCHANGED record
        /\ Reload(x, FALSE)
    BY <1>32 DEF ReloadThirdApp, TakeFrom
  <2>1. /\ pc = "idle" /\ phase = "third" /\ phase' = "third" /\ count < MaxThird
        /\ ~Installed(x) /\ record[x] # None /\ x \notin updated /\ UNCHANGED record
        /\ Reload(x, FALSE)
    BY <2>a, <2>b
  <2>2. Home[x] = "THIRD"
    BY <2>1 DEF Loaded
  <2>3. ThirdOnDisk' = ThirdOnDisk
    BY <2>1 DEF ThirdOnDisk
  <2>4. CASE code[x] \notin Versions
    BY <1>32, <2>1, <2>4, RoomKept DEF ReloadThirdApp, Reload
  <2>5. CASE code[x] \in Versions
    <3>1. count' = count + 1
      BY <1>32, <2>1, <2>5, AddsOne, Bounds DEF ReloadThirdApp, TypeOK
    <3>2. bundleMap' = [bundleMap EXCEPT ![x] = [ver |-> code[x], sys |-> FALSE]]
      BY <2>1, <2>5 DEF Reload
    <3>3. bundleMap'[x].ver = code[x] /\ code[x] # None
      BY <2>5, <3>2, NullTypes DEF TypeOK
    <3>4. ThirdLoaded' = ThirdLoaded \cup {x}
      BY <2>2, <3>2, <3>3 DEF ThirdLoaded, Installed, TypeOK
    <3>5. Cardinality(ThirdLoaded') = Cardinality(ThirdLoaded) + 1
      <4>1. x \notin ThirdLoaded
        BY <2>1 DEF ThirdLoaded
      <4> QED
        BY <3>4, <4>1, ThirdLoadedFinite, FS_AddElement
    <3>6. count <= Cardinality(ThirdLoaded) /\ Cardinality(ThirdOnDisk) <= MaxThird
      BY <2>1 DEF RoomLeft
    <3>7. count' <= Cardinality(ThirdLoaded')
      BY <3>1, <3>5, <3>6, ThirdLoadedFinite DEF TypeOK
    <3> QED
      BY <2>1, <2>3, <3>6, <3>7 DEF RoomLeft
  <2> QED
    BY <2>4, <2>5
<1>33. CASE InstallPreBundleDone
  BY <1>33, RoomOutside DEF InstallPreBundleDone
<1>34. ASSUME NEW x \in Bundles, InstallPreBundle(x) PROVE RoomLeft'
  BY <1>34, RoomOutside DEF InstallPreBundle
<1>35. CASE RegisterInstallerCallback
  BY <1>35, RoomOutside DEF RegisterInstallerCallback
<1>36. CASE Reboot
  <2>1. pc = "idle" /\ phase = "ready" /\ phase' = "system" /\ count' = 0 /\ UNCHANGED record
    BY <1>36 DEF Reboot, Start, Idle
  <2>2. ThirdOnDisk' = ThirdOnDisk
    BY <2>1 DEF ThirdOnDisk
  <2>3. Cardinality(ThirdOnDisk) <= MaxThird
    BY <2>1, OnDiskWithinLimit
  <2> QED
    BY <2>1, <2>2, <2>3 DEF RoomLeft
<1>37. CASE PowerLoss
  BY <1>37
<1>38. QED
  BY <1>0, <1>1, <1>2, <1>3, <1>4, <1>5, <1>6, <1>7, <1>8, <1>9, <1>10, <1>11, <1>12,
     <1>13, <1>14, <1>15, <1>16, <1>17, <1>18, <1>19, <1>20, <1>21, <1>22, <1>23, <1>24,
     <1>25, <1>26, <1>27, <1>28, <1>29, <1>30, <1>31, <1>32, <1>33, <1>34, <1>35, <1>36,
     <1>37
     DEF Next, Request, Work, Install, Uninstall, ScanPackages, PreInstall

(* What holds of disk and memory as long as the device only restarts       *)
(* between two requests.                                                   *)
RebootInv ==
  /\ TypeOK /\ RemovedInv /\ AckedHeld /\ BootInv
  /\ Orderly /\ VendorsListed /\ Covers /\ CountBounded
  /\ DiskWhole /\ Loaded /\ StylesMatch /\ RoomLeft /\ VendorsGone

LEMMA RebootInit ==
  ASSUME Init
  PROVE  RebootInv
<1>1. TypeOK /\ RemovedInv /\ BootInv /\ Orderly /\ VendorsListed /\ Covers /\ CountBounded
  BY GtInitType, RemovedInit, BootInit, LimitInit
<1>2. AckedHeld
  BY DEF Init, AckedHeld, Owed, Working, RollingBack, Uninstalling
<1>3. DiskWhole
  BY DEF Init, DiskWhole, Whole, NoInfo, Published
<1>4. Loaded /\ StylesMatch /\ VendorsGone
  BY DEF Init, Loaded, StylesMatch, VendorsGone, NoInfo, InstallSteps
<1>5. RoomLeft
  <2>1. ThirdOnDisk = {} /\ count = 0 /\ phase = "system"
    BY DEF Init, ThirdOnDisk
  <2> QED
    BY <2>1, FS_EmptySet, Bounds DEF RoomLeft
<1>6. QED
  BY <1>1, <1>2, <1>3, <1>4, <1>5 DEF RebootInv

LEMMA RebootStep ==
  ASSUME OnlyReboots, RebootInv, [Next]_vars
  PROVE  RebootInv'
<1> USE DEF RebootInv
<1>1. Undisturbed
  BY NothingButReboots
<1>2. TypeOK' /\ RemovedInv'
  BY TypeStep, RemovedStep
<1>3. AckedHeld' /\ BootInv'
  BY <1>2, AckedStep, BootStep
<1>4. Orderly' /\ VendorsListed' /\ Covers' /\ CountBounded'
  BY <1>1, <1>2, OrderlyStep, VendorsStep, CoversStep, CountBoundedStep DEF Covers
<1>5. DiskWhole'
  BY <1>2, WholeStep DEF RemovedInv, BootInv
<1>6. Loaded'
  BY <1>2, LoadedStep DEF BootInv
<1>7. StylesMatch' /\ RoomLeft'
  BY <1>2, StylesStep, RoomStep
<1>8. VendorsGone'
  BY <1>2, GoneStep DEF BootInv
<1>9. QED
  BY <1>2, <1>3, <1>4, <1>5, <1>6, <1>7, <1>8

(* What was reported installed is there, in that version or a later one    *)
(* and with its data, whenever the service is ready again: the image may   *)
(* have been updated, the list reordered and the limit reached.  The scan  *)
(* counts the third-party bundles anew, and because no more of them are on *)
(* disk than the limit, it leaves none out.                                *)
THEOREM GtAckedSurvives ==
  ASSUME OnlyReboots
  PROVE  Spec => []AckedSurvives
<1>1. Init => RebootInv
  BY RebootInit
<1>2. RebootInv /\ [Next]_vars => RebootInv'
  BY RebootStep
<1>3. RebootInv => AckedSurvives
  <2> SUFFICES ASSUME RebootInv, Settled, NEW x \in Bundles, acked[x] # None, x \notin undone
               PROVE  Installed(x) /\ bundleMap[x].ver >= acked[x] /\ x \in data
    BY DEF AckedSurvives
  <2>1. pc = "idle" /\ phase = "ready" /\ pending = {}
    BY DEF Settled, Idle, RebootInv, BootInv, BootOrder
  <2>2. record[x] >= acked[x]
    BY <2>1 DEF RebootInv, AckedHeld, Owed, Working
  <2>3. record[x] # None
    <3>1. acked[x] \in Versions
      BY DEF RebootInv, TypeOK
    <3>2. acked[x] \in Nat /\ acked[x] # 0
      BY <3>1, GtAssumption
    <3> QED
      BY <2>2, <3>2 DEF None
  <2>4. Installed(x)
    BY <2>1, <2>3 DEF RebootInv, Loaded
  <2>5. Whole(x)
    BY <2>1 DEF RebootInv, DiskWhole, Working
  <2> QED
    BY <2>2, <2>3, <2>4, <2>5 DEF Whole
<1>4. QED
  BY <1>1, <1>2, <1>3, PTL DEF Spec

(* A bundle whose removal was reported does not come back: one of a vendor *)
(* is on the list of those that the scan skips, one of the system cannot   *)
(* be removed, and of any other nothing is left to be found.               *)
THEOREM GtStaysRemoved ==
  ASSUME OnlyReboots
  PROVE  Spec => []StaysRemoved
<1>1. Init => RebootInv
  BY RebootInit
<1>2. RebootInv /\ [Next]_vars => RebootInv'
  BY RebootStep
<1>3. RebootInv => StaysRemoved
  BY DEF RebootInv, RemovedInv, RemovedLeavesNoTrace, VendorsGone, StaysRemoved
<1>4. QED
  BY <1>1, <1>2, <1>3, PTL DEF Spec

(* No update, of the bundle or of the image, removes data: an install      *)
(* clears the data directory only of a bundle that is not in the map, and  *)
(* then there is no record of it either.                                   *)
THEOREM GtDataKept ==
  ASSUME OnlyReboots
  PROVE  Spec => DataKept
<1> DEFINE Kept == \A x \in Bundles :
      x \in data \ data' => record[x] = None \/ pc = "uninstalling"
<1>1. Init => RebootInv
  BY RebootInit
<1>2. RebootInv /\ [Next]_vars => RebootInv'
  BY RebootStep
<1>3. RebootInv /\ [Next]_vars => Kept
  <2> SUFFICES ASSUME RebootInv, [Next]_vars,
                      NEW x \in Bundles, x \in data \ data', pc # "uninstalling"
               PROVE  record[x] = None
    OBVIOUS
  <2>1. ~MayFail /\ ~PowerLoss
    BY NothingButReboots, NothingFails
  <2>2. RemoveData \/ RemoveDirsEnd
    BY <2>1
       DEF Next, Request, Work, Install, Uninstall, ScanPackages, PreInstall, vars,
           disk, ReceiveInstall, ReceiveUninstall, BadHap, RefuseTooMany, RefuseVersion,
           Accept, RenameDirBegin, RenameDirEnd, BackUpInstallRecord, MakeData,
           UpdateBundleInfo, StepFails, RenameRecordBegin, RenameRecordEnd,
           RenameRecordFails, InstallDone, Rollback, RemoveDirsBegin, RefuseUninstall,
           DeletePermissionsFails, UninstallDirsBegin, UninstallDirsEnd, Unlink,
           UninstallDone, ScanDone, SkipSystemApp, PostponeSystemApp, ReloadSystemApp,
           SkipThirdApp, ReloadThirdApp, InstallPreBundleDone, InstallPreBundle,
           RegisterInstallerCallback, Reboot
  <2>3. ~RemoveDirsEnd
    BY DEF RemoveDirsEnd, RebootInv, Orderly, InstallSteps
  <2>4. pc = "removeData" /\ x = bundle
    BY <2>2, <2>3 DEF RemoveData
  <2>5. ~Installed(x)
    BY <2>4 DEF RebootInv, DiskWhole
  <2>6. phase \in {"ready", "preinstall"} /\ x \notin pending
    BY <2>4 DEF RebootInv, TypeOK, Orderly, BootInv, BootOrder
  <2> QED
    BY <2>4, <2>5, <2>6 DEF RebootInv, Loaded
<1>4. QED
  BY <1>1, <1>2, <1>3, PTL DEF Spec, DataKept
=============================================================================
