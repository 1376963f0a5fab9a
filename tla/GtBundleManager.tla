--------------------------- MODULE GtBundleManager -------------------------
(***************************************************************************)
(* The bundle manager of small systems: one task installs, uninstalls and  *)
(* scans, with no daemon beside it, and counts the third-party bundles to  *)
(* keep their number below a limit.                                        *)
(*                                                                         *)
(* It keeps in memory the bundle map, the counter and the list of the      *)
(* pre-installed haps that wait for RegisterInstallerCallback, and on disk *)
(* the code and data directories, the install records and the two lists of *)
(* third-system bundles.  A step lies between two points where the device  *)
(* may stop.  Staging directories and temporary records that are left over *)
(* are not state: no record is valid for them and no scan takes them.      *)
(***************************************************************************)
EXTENDS Integers, FiniteSets

CONSTANTS
  Bundles,
  Versions,     (* version codes                                           *)
  Home,         (* the partition that holds the bundle's pre-installed hap;*)
                (* "THIRD" for a bundle that has none                      *)
  MaxThird,     (* MAX_THIRD_BUNDLE_NUMBER                                 *)
  CountModulus, (* the counter is unsigned: 2^32                           *)
  Faults,       (* what may go wrong, see FaultKinds                       *)
  MaxRequests,  (* bound on the requests of a behaviour                    *)
  MaxRestarts,  (* bound on its restarts                                   *)
  MaxFailures   (* bound on file operations that fail and early requests   *)

Styles     == {"SYSTEM", "THIRD_SYSTEM", "THIRD"}

FaultKinds == {
  "reboot",     (* the device restarts between two requests                *)
  "power",      (* the device stops anywhere                               *)
  "reject",     (* a request is for an older version                       *)
  "early",      (* a request comes before RegisterInstallerCallback        *)
  "reinstall",  (* a request is for a vendor bundle that was removed       *)
  "io" }        (* a file operation reports an error                       *)

None     == 0    (* no version *)
Partial  == -1   (* a directory without a readable profile *)
NoBundle == ""

ASSUME GtAssumption ==
  /\ Versions \subseteq Nat \ {0} /\ IsFiniteSet(Versions) /\ Versions # {}
  /\ IsFiniteSet(Bundles) /\ Bundles # {} /\ NoBundle \notin Bundles
  /\ Home \in [Bundles -> Styles]
  /\ Faults \subseteq FaultKinds
  /\ {MaxThird, CountModulus, MaxRequests, MaxRestarts, MaxFailures} \subseteq Nat
  /\ CountModulus > MaxThird + MaxRequests

VARIABLES
  (* memory *)
  bundleMap,    (* bundleMap_: the installed bundles                       *)
  count,        (* installedThirdBundleNum_                                *)
  (* disk *)
  code,         (* the code directory: a version, Partial or None          *)
  data,         (* the bundles whose data directory exists                 *)
  record,       (* version in <bundleName>.json, or None                   *)
  thirdSystem,  (* third_system_bundle.json                                *)
  uninstalled,  (* uninstalled_third_system_bundle.json                    *)
  image,        (* version of the pre-installed haps                       *)
  (* the operation in progress *)
  pc, hap,
  tmpRecord,    (* <bundleName> + randStr.json is there                    *)
  (* start-up *)
  phase, toScan,
  pending,      (* systemPathList_                                         *)
  updated,      (* its bundles that have isUpdated                         *)
  registered,   (* RegisterInstallerCallback was called                    *)
  (* history: what the clients were told, and how long all went well       *)
  acked,        (* version of the last install reported BUNDLE_INSTALL_OK  *)
  undone,       (* bundles whose reported install was taken away again      *)
  gone,         (* bundles whose removal was reported BUNDLE_UNINSTALL_OK  *)
  calm,         (* boots since the last fault, up to 2                     *)
  (* budgets *)
  requests, restarts, failures

memory == <<bundleMap, count>>
lists  == <<thirdSystem, uninstalled>>
disk   == <<code, data, record, lists, image>>
task   == <<hap, tmpRecord>>
boot   == <<phase, toScan, pending, updated, registered>>
told   == <<acked, undone, gone, calm>>
budget == <<requests, restarts, failures>>
vars   == <<memory, disk, pc, task, boot, told, budget>>

-----------------------------------------------------------------------------
NoInfo == [ver |-> None, sys |-> FALSE]
Haps   == [name : Bundles, ver : Versions, style : Styles]
NoHap  == CHOOSE h \in Haps : TRUE

bundle == hap.name

Installed(x) == bundleMap[x].ver # None

PreInstalled(x) == [name |-> x, ver |-> image[x], style |-> Home[x]]

(* A list cut off while it is written, which nobody can read.              *)
Torn == {NoBundle}

(* StoreJsonContentToFile removes the file, creates and writes it again:   *)
(* what is there when it fails or the device stops on the way.             *)
Rewritten(list) == {list, {}, Torn}

(* CheckIsThirdSystemBundle *)
IsThirdSystem(x) == x \in thirdSystem

(* CheckVersionAndSignature: an older version, or no record to compare. *)
Refused(h) ==
  Installed(h.name) /\ (bundleMap[h.name].ver > h.ver \/ record[h.name] = None)

(* PreCheckBundle: the limit, which an update need not keep. *)
TooMany(h) == h.style = "THIRD" /\ ~Installed(h.name) /\ count >= MaxThird

ReduceSigned == count' = count - 1   \* a bug: the counter is signed

(* The counter is a uint32_t. *)
AddNumOfThirdBundles    == count' = (count + 1) % CountModulus
ReduceNumOfThirdBundles == count' = (count - 1) % CountModulus

Idle    == pc = "idle" /\ phase = "ready"
Settled == Idle /\ registered

Goto(l) == pc' = l

End ==
  /\ pc' = "idle"
  /\ hap' = NoHap
  /\ tmpRecord' = FALSE

MayFail ==
  /\ "io" \in Faults
  /\ failures < MaxFailures
  /\ failures' = failures + 1
  /\ calm' = 0
  /\ UNCHANGED <<requests, restarts>>

WithoutFault == UNCHANGED <<calm, budget>>

(* The version that was reported, if any, is not to be kept any longer. *)
Undo == undone' = undone \cup ({bundle} \ {x \in Bundles : acked[x] = None})

(* What is left of a directory while RemoveDir works on it. *)
Remains(v) == IF v = None THEN {None} ELSE {None, Partial, v}

-----------------------------------------------------------------------------
(* Requests *)

MayRequest ==
  /\ Idle
  /\ requests < MaxRequests
  /\ requests' = requests + 1
  /\ \/ registered /\ UNCHANGED <<calm, failures>>
     \/ /\ ~registered /\ "early" \in Faults
        /\ failures < MaxFailures
        /\ failures' = failures + 1
        /\ calm' = 0
  /\ UNCHANGED restarts

ReceiveInstall(h) ==
  /\ MayRequest
  /\ "reject" \in Faults \/ ~Refused(h)
  /\ "reinstall" \in Faults \/ h.name \notin uninstalled
  /\ Goto("check")
  /\ hap' = h
  /\ gone' = gone \ {h.name}
  /\ UNCHANGED <<memory, disk, tmpRecord, boot, acked, undone>>

ReceiveUninstall(x) ==
  /\ MayRequest
  /\ Goto("uninstall")
  /\ hap' = [hap EXCEPT !.name = x]
  /\ UNCHANGED <<memory, disk, tmpRecord, boot, acked, undone, gone>>

-----------------------------------------------------------------------------
(* Install and ProcessBundleInstall, in the order of their steps.          *)

(* The hap cannot be parsed, verified or extracted, which for one of the   *)
(* image is a fault; what was extracted is removed, nothing else touched.  *)
BadHap ==
  /\ pc = "check"
  /\ End
  /\ (phase = "ready" /\ WithoutFault) \/ (phase = "preinstall" /\ MayFail)
  /\ UNCHANGED <<memory, disk, boot, acked, undone, gone>>

RefuseTooMany ==
  /\ pc = "check" /\ TooMany(hap)
  /\ End
  /\ UNCHANGED <<memory, disk, boot, told, budget>>

RefuseAndRollBack ==   \* a bug: CHECK_PRO_ROLLBACK for CHECK_PRO_RESULT
  /\ pc = "check" /\ Refused(hap)
  /\ Goto("rollback")
  /\ UNCHANGED <<memory, disk, task, boot, told, budget>>

RefuseVersion ==
  /\ pc = "check" /\ Refused(hap)
  /\ End
  /\ UNCHANGED <<memory, disk, boot, told, budget>>

AcceptAny ==   \* a bug: the number of third-party bundles is not looked at
  /\ pc = "check" /\ ~Refused(hap)
  /\ Goto("renameDir")
  /\ UNCHANGED <<memory, disk, task, boot, told, budget>>

(* Up to ExtractHap, into a directory no scan looks at. *)
Accept ==
  /\ pc = "check" /\ ~TooMany(hap) /\ ~Refused(hap)
  /\ Goto("renameDir")
  /\ UNCHANGED <<memory, disk, task, boot, told, budget>>

(* RenameDir removes the code directory, then renames the new one. *)
RenameDirBegin ==
  /\ pc = "renameDir"
  /\ Goto("renamingDir")
  /\ \E rest \in Remains(code[bundle]) : code' = [code EXCEPT ![bundle] = rest]
  /\ UNCHANGED <<memory, data, record, lists, image, task, boot, told, budget>>

RenameDirEnd ==
  /\ pc = "renamingDir"
  /\ Goto("backUp")
  /\ code' = [code EXCEPT ![bundle] = hap.ver]
  /\ UNCHANGED <<memory, data, record, lists, image, task, boot, told, budget>>

BackUpInstallRecord ==
  /\ pc = "backUp"
  /\ Goto(IF Installed(bundle) THEN "publish" ELSE "removeData")
  /\ tmpRecord' = TRUE
  /\ UNCHANGED <<memory, disk, hap, boot, told, budget>>

RemoveData ==
  /\ pc = "removeData"
  /\ Goto("makeData")
  /\ data' = data \ {bundle}
  /\ UNCHANGED <<memory, code, record, lists, image, task, boot, told, budget>>

MakeData ==
  /\ pc = "makeData"
  /\ Goto("publish")
  /\ data' = data \cup {bundle}
  /\ UNCHANGED <<memory, code, record, lists, image, task, boot, told, budget>>

(* UpdateBundleInfo, after the raw files and the permissions. *)
UpdateBundleInfo ==
  /\ pc = "publish"
  /\ Goto("renameRecord")
  /\ bundleMap' = [bundleMap EXCEPT ![bundle] =
       [ver |-> hap.ver,
        sys |-> IF Installed(bundle) THEN bundleMap[bundle].sys
                                     ELSE hap.style = "SYSTEM"]]
  /\ UNCHANGED <<count, disk, task, boot, told, budget>>

(* A step fails whose error CHECK_PRO_ROLLBACK answers. *)
StepFails ==
  /\ pc \in {"renameDir", "renamingDir", "backUp", "removeData", "makeData", "publish"}
  /\ MayFail
  /\ Goto("rollback")
  /\ Undo
  /\ UNCHANGED <<memory, disk, task, boot, acked, gone>>

(* RenameJsonFile removes the old record before it renames the new one. *)
RenameRecordBegin ==
  /\ pc = "renameRecord"
  /\ Goto("renamingRecord")
  /\ record' = [record EXCEPT ![bundle] = None]
  /\ UNCHANGED <<memory, code, data, lists, image, task, boot, told, budget>>

RenameRecordEnd ==
  /\ pc = "renamingRecord"
  /\ Goto("thirdSystem")
  /\ record' = [record EXCEPT ![bundle] = hap.ver]
  /\ tmpRecord' = FALSE
  /\ UNCHANGED <<memory, code, data, lists, image, hap, boot, told, budget>>

(* CLEAR_INSTALL_ENV follows. *)
RenameRecordFails ==
  /\ pc \in {"renameRecord", "renamingRecord"}
  /\ MayFail
  /\ Goto("clear")
  /\ Undo
  /\ UNCHANGED <<memory, disk, task, boot, acked, gone>>

(* RecordThirdSystemBundle adds to the list, unless it is torn. *)
WithThirdSystem ==
  IF hap.style = "THIRD_SYSTEM" /\ thirdSystem # Torn
  THEN thirdSystem \cup {bundle} ELSE thirdSystem

(* Any install of a third-party hap counts, an update as well. *)
InstallDone ==
  /\ pc = "thirdSystem"
  /\ End
  /\ \/ thirdSystem' = WithThirdSystem /\ WithoutFault
     \/ WithThirdSystem # thirdSystem /\ MayFail /\ thirdSystem' \in Rewritten(thirdSystem)
  /\ IF hap.style = "THIRD" THEN AddNumOfThirdBundles ELSE UNCHANGED count
  /\ acked' = [acked EXCEPT ![bundle] = hap.ver]
  /\ undone' = undone \ {bundle}
  /\ UNCHANGED <<bundleMap, code, data, record, uninstalled, image, boot, gone>>

-----------------------------------------------------------------------------
(* CHECK_PRO_ROLLBACK and CLEAR_INSTALL_ENV remove the bundle, an earlier  *)
(* version of it too.                                                      *)

(* DeleteJsonFile removes the new record or, if there is none, the old. *)
Rollback ==
  /\ pc = "rollback"
  /\ Goto("rollbackDirs")
  /\ bundleMap' = [bundleMap EXCEPT ![bundle] = NoInfo]
  /\ record' = IF tmpRecord THEN record ELSE [record EXCEPT ![bundle] = None]
  /\ tmpRecord' = FALSE
  /\ UNCHANGED <<count, code, data, lists, image, hap, boot, told, budget>>

RemoveDirsBegin ==
  /\ pc \in {"rollbackDirs", "clear"}
  /\ Goto(IF pc = "clear" THEN "clearing" ELSE "rollingBack")
  /\ \E rest \in Remains(code[bundle]) : code' = [code EXCEPT ![bundle] = rest]
  /\ UNCHANGED <<memory, data, record, lists, image, task, boot, told, budget>>

(* CLEAR_INSTALL_ENV frees the entry while it is in the bundle map: later  *)
(* look-ups read freed memory and find what it held, or no such name.      *)
RemoveDirsEnd ==
  /\ pc \in {"rollingBack", "clearing"}
  /\ End
  /\ \/ /\ code' = [code EXCEPT ![bundle] = None]
        /\ data' = data \ {bundle}
        /\ WithoutFault
     \/ /\ MayFail
        /\ UNCHANGED code \/ code' = [code EXCEPT ![bundle] = None]
        /\ UNCHANGED data \/ data' = data \ {bundle}
  /\ \/ UNCHANGED bundleMap
     \/ pc = "clearing" /\ bundleMap' = [bundleMap EXCEPT ![bundle] = NoInfo]
  /\ UNCHANGED <<count, record, lists, image, boot, acked, undone, gone>>

-----------------------------------------------------------------------------
(* Uninstall, in the order of its steps.                                   *)

RefuseUninstall ==
  /\ pc = "uninstall"
  /\ ~Installed(bundle) \/ bundleMap[bundle].sys
  /\ End
  /\ UNCHANGED <<memory, disk, boot, told, budget>>

DeletePermissionsFails ==
  /\ pc = "uninstall"
  /\ MayFail
  /\ End
  /\ UNCHANGED <<memory, disk, boot, acked, undone, gone>>

UninstallDirsBegin ==
  /\ pc = "uninstall"
  /\ Installed(bundle) /\ ~bundleMap[bundle].sys
  /\ Goto("uninstalling")
  /\ \E rest \in Remains(code[bundle]) : code' = [code EXCEPT ![bundle] = rest]
  /\ Undo
  /\ UNCHANGED <<memory, data, record, lists, image, task, boot, acked, gone, calm,
                 budget>>

ReduceOnly ==   \* a bug: the bundle stays in the map
  /\ UNCHANGED bundleMap
  /\ IF IsThirdSystem(bundle) THEN UNCHANGED count ELSE ReduceNumOfThirdBundles

RemoveBundle ==
  /\ bundleMap' = [bundleMap EXCEPT ![bundle] = NoInfo]
  /\ IF IsThirdSystem(bundle) THEN UNCHANGED count ELSE ReduceNumOfThirdBundles

(* A failure of RemoveDir ends the uninstall, but the bundle is forgotten. *)
UninstallDirsEnd ==
  /\ pc = "uninstalling"
  /\ RemoveBundle
  /\ \/ /\ code' = [code EXCEPT ![bundle] = None]
        /\ data' = data \ {bundle}
        /\ Goto("unlink") /\ UNCHANGED task
        /\ WithoutFault
     \/ /\ MayFail /\ End
        /\ UNCHANGED code \/ code' = [code EXCEPT ![bundle] = None]
        /\ UNCHANGED data
  /\ UNCHANGED <<record, lists, image, boot, acked, undone, gone>>

Unlink ==
  /\ pc = "unlink"
  /\ \/ /\ record[bundle] # None
        /\ record' = [record EXCEPT ![bundle] = None]
        /\ Goto("recordUninstalled") /\ UNCHANGED task
        /\ WithoutFault
     \/ End /\ UNCHANGED record /\ ((record[bundle] = None /\ WithoutFault) \/ MayFail)
  /\ UNCHANGED <<memory, code, data, lists, image, boot, acked, undone, gone>>

SameUninstalled == uninstalled   \* a bug: the removal is not recorded

(* A vendor bundle is entered in the list of those that stay away. *)
WithUninstalled ==
  IF IsThirdSystem(bundle) /\ uninstalled # Torn
  THEN uninstalled \cup {bundle} ELSE uninstalled

UninstallDone ==
  /\ pc = "recordUninstalled"
  /\ End
  /\ \/ uninstalled' = WithUninstalled /\ WithoutFault
     \/ IsThirdSystem(bundle) /\ MayFail /\ uninstalled' \in Rewritten(uninstalled)
  /\ gone' = gone \cup {bundle}
  /\ UNCHANGED <<memory, code, data, record, thirdSystem, image, boot, acked, undone>>

-----------------------------------------------------------------------------
(* ScanPackages: the haps of the system and the vendors, then the code     *)
(* directories, each in any order.                                         *)

RecordThere(x) == record[x] # None   \* a bug: the code directory may be gone

(* CheckBundleJsonIsValid *)
ValidRecord(x) == record[x] # None /\ code[x] # None

(* ReloadBundleInfo: without a profile the directory is removed. *)
Reload(x, sys) ==
  IF code[x] \in Versions
  THEN /\ bundleMap' = IF Installed(x) THEN bundleMap
                       ELSE [bundleMap EXCEPT ![x] = [ver |-> code[x], sys |-> sys]]
       /\ UNCHANGED code /\ WithoutFault
  ELSE /\ \/ code' = [code EXCEPT ![x] = None] /\ WithoutFault
          \/ UNCHANGED code /\ MayFail
       /\ UNCHANGED bundleMap

TakeFrom(x, p) == pc = "idle" /\ phase = p /\ x \in toScan /\ toScan' = toScan \ {x}

SkippedSystemApp(x) == Home[x] = "THIRD_SYSTEM" /\ x \in uninstalled

SkipSystemApp(x) ==
  /\ TakeFrom(x, "system") /\ SkippedSystemApp(x)
  /\ UNCHANGED <<memory, disk, pc, task, phase, pending, updated, registered, told, budget>>

(* AddSystemAppPathList: not installed, or older than the image. *)
PostponeSystemApp(x) ==
  /\ TakeFrom(x, "system") /\ ~SkippedSystemApp(x)
  /\ ~ValidRecord(x) \/ record[x] < image[x]
  /\ pending' = pending \cup {x}
  /\ updated' = IF ValidRecord(x) THEN updated \cup {x} ELSE updated
  /\ UNCHANGED <<memory, disk, pc, task, phase, registered, told, budget>>

ReloadSystemApp(x) ==
  /\ TakeFrom(x, "system") /\ ~SkippedSystemApp(x)
  /\ ValidRecord(x) /\ record[x] >= image[x]
  /\ Reload(x, Home[x] = "SYSTEM")
  /\ UNCHANGED <<count, data, record, lists, image, pc, task, phase, pending,
                 updated, registered, acked, undone, gone>>

SkippedUnlessValid(x) ==   \* a bug: bundles to be updated are loaded too
  count >= MaxThird \/ Installed(x) \/ ~ValidRecord(x)

(* IsSystemBundleInstalledPath knows the path of those that are updated. *)
SkippedThirdApp(x) ==
  x \in updated \/ count >= MaxThird \/ Installed(x) \/ ~ValidRecord(x)

SkipThirdApp(x) ==
  /\ TakeFrom(x, "third") /\ SkippedThirdApp(x)
  /\ UNCHANGED <<memory, disk, pc, task, phase, pending, updated, registered, told, budget>>

ReloadThirdApp(x) ==
  /\ TakeFrom(x, "third") /\ ~SkippedThirdApp(x)
  /\ Reload(x, FALSE)
  /\ IF code[x] \in Versions THEN AddNumOfThirdBundles ELSE UNCHANGED count
  /\ UNCHANGED <<data, record, lists, image, pc, task, phase, pending,
                 updated, registered, acked, undone, gone>>

ScanDone ==
  /\ pc = "idle" /\ phase \in {"system", "third"} /\ toScan = {}
  /\ phase' = IF phase = "system" THEN "third" ELSE "ready"
  /\ toScan' = IF phase = "system" THEN {x \in Bundles : code[x] # None} ELSE {}
  /\ UNCHANGED <<memory, disk, pc, task, pending, updated, registered, told, budget>>

-----------------------------------------------------------------------------
(* RegisterInstallerCallback installs what the scan put off.  On a device  *)
(* without records that is every pre-installed hap, as in the branch that  *)
(* the code has for it.                                                    *)

RegisterInstallerCallback ==
  /\ Idle /\ ~registered
  /\ phase' = "preinstall"
  /\ registered' = TRUE
  /\ UNCHANGED <<memory, disk, pc, task, toScan, pending, updated, told, budget>>

ReloadNothing(x) == UNCHANGED <<bundleMap, code, calm, budget>>   \* a bug

(* An older version is loaded first, so that the install is an update. *)
ReloadIfUpdated(x) ==
  IF x \in updated THEN Reload(x, Home[x] = "SYSTEM")
  ELSE UNCHANGED <<bundleMap, code>> /\ WithoutFault

InstallSameAgain(x) ==   \* a bug: the loop does not leave its element
  /\ pc = "idle" /\ phase = "preinstall" /\ x \in pending
  /\ ReloadIfUpdated(x)
  /\ Goto("check")
  /\ hap' = PreInstalled(x)
  /\ UNCHANGED <<count, data, record, lists, image, tmpRecord, phase, toScan,
                 pending, updated, registered, acked, undone, gone>>

InstallPreBundle(x) ==
  /\ pc = "idle" /\ phase = "preinstall" /\ x \in pending
  /\ pending' = pending \ {x}
  /\ ReloadIfUpdated(x)
  /\ Goto("check")
  /\ hap' = PreInstalled(x)
  /\ UNCHANGED <<count, data, record, lists, image, tmpRecord, phase, toScan,
                 updated, registered, acked, undone, gone>>

InstallPreBundleDone ==
  /\ pc = "idle" /\ phase = "preinstall" /\ pending = {}
  /\ phase' = "ready"
  /\ updated' = {}
  /\ UNCHANGED <<memory, disk, pc, task, toScan, pending, registered, told, budget>>

-----------------------------------------------------------------------------
(* Restarts *)

PreInstalledBundles == {x \in Bundles : Home[x] # "THIRD"}

(* ScanPackages begins with removing uninstalled if it cannot read it. *)
Readable(list) == IF list = Torn THEN {} ELSE list

Start ==
  /\ bundleMap' = [x \in Bundles |-> NoInfo]
  /\ count' = 0
  /\ phase' = "system" /\ toScan' = PreInstalledBundles
  /\ pending' = {} /\ updated' = {} /\ registered' = FALSE
  /\ restarts < MaxRestarts /\ restarts' = restarts + 1
  /\ UNCHANGED <<requests, failures>>

(* The system image may have been updated meanwhile. *)
Reboot ==
  /\ "reboot" \in Faults /\ Idle
  /\ Start
  /\ calm' = IF registered /\ calm < 2 THEN calm + 1 ELSE calm
  /\ \/ UNCHANGED image
     \/ \E x \in PreInstalledBundles, v \in Versions :
          v > image[x] /\ image' = [image EXCEPT ![x] = v]
  /\ uninstalled' = Readable(uninstalled)
  /\ UNCHANGED <<code, data, record, thirdSystem, pc, task, acked, undone, gone>>

(* RenameDir or RenameJsonFile has removed what it replaces, or an older    *)
(* version has come, which nothing refuses while the bundle is not loaded. *)
LostByPower ==
  \/ pc \in {"renamingDir", "renamingRecord"}
  \/ /\ pc \in {"backUp", "removeData", "makeData", "publish", "renameRecord",
                "thirdSystem"}
     /\ hap.ver < acked[bundle]

PowerLoss ==
  /\ "power" \in Faults
  /\ Start
  /\ End
  /\ calm' = 0
  /\ thirdSystem' \in IF pc = "thirdSystem" /\ WithThirdSystem # thirdSystem
                      THEN Rewritten(thirdSystem) ELSE {thirdSystem}
  /\ uninstalled' \in IF pc = "recordUninstalled" /\ IsThirdSystem(bundle)
                      THEN {Readable(list) : list \in Rewritten(uninstalled)}
                      ELSE {Readable(uninstalled)}
  /\ IF LostByPower THEN Undo ELSE UNCHANGED undone
  /\ UNCHANGED <<code, data, record, image, acked, gone>>

-----------------------------------------------------------------------------
Init ==
  /\ bundleMap = [x \in Bundles |-> NoInfo]
  /\ count = 0
  /\ code = [x \in Bundles |-> None]
  /\ data = {}
  /\ record = [x \in Bundles |-> None]
  /\ thirdSystem = {} /\ uninstalled = {}
  /\ image \in [Bundles -> Versions]
  /\ \A x \in Bundles, v \in Versions : image[x] <= v
  /\ pc = "idle" /\ hap = NoHap /\ tmpRecord = FALSE
  /\ phase = "system" /\ toScan = PreInstalledBundles
  /\ pending = {} /\ updated = {} /\ registered = FALSE
  /\ acked = [x \in Bundles |-> None] /\ undone = {} /\ gone = {} /\ calm = 0
  /\ requests = 0 /\ restarts = 0 /\ failures = 0

(* A client may name any hap in the storage, and the pre-installed ones. *)
ClientHaps == {h \in Haps : h.style = "THIRD" \/ h = PreInstalled(h.name)}

Request ==
  \/ \E h \in ClientHaps : ReceiveInstall(h)
  \/ \E x \in Bundles : ReceiveUninstall(x)

Install ==
  \/ BadHap \/ RefuseTooMany \/ RefuseVersion \/ Accept
  \/ RenameDirBegin \/ RenameDirEnd \/ BackUpInstallRecord
  \/ RemoveData \/ MakeData \/ UpdateBundleInfo \/ StepFails
  \/ RenameRecordBegin \/ RenameRecordEnd \/ RenameRecordFails \/ InstallDone
  \/ Rollback \/ RemoveDirsBegin \/ RemoveDirsEnd

Uninstall ==
  \/ RefuseUninstall \/ DeletePermissionsFails
  \/ UninstallDirsBegin \/ UninstallDirsEnd \/ Unlink \/ UninstallDone

ScanPackages ==
  \/ ScanDone
  \/ \E x \in Bundles :
       \/ SkipSystemApp(x) \/ PostponeSystemApp(x) \/ ReloadSystemApp(x)
       \/ SkipThirdApp(x) \/ ReloadThirdApp(x)

PreInstall == InstallPreBundleDone \/ \E x \in Bundles : InstallPreBundle(x)

Work == Install \/ Uninstall \/ ScanPackages \/ PreInstall

Next == Request \/ Work \/ RegisterInstallerCallback \/ Reboot \/ PowerLoss

Spec == Init /\ [][Next]_vars

(* The task never stops inside a message, and the launcher registers.      *)
FairSpec == Spec /\ WF_vars(Work) /\ WF_vars(RegisterInstallerCallback)

-----------------------------------------------------------------------------
(* Properties *)

Infos == [ver : Versions \cup {None}, sys : BOOLEAN]

Steps == {
  "idle", "check", "renameDir", "renamingDir", "backUp", "removeData", "makeData",
  "publish", "renameRecord", "renamingRecord", "thirdSystem", "rollback",
  "rollbackDirs", "rollingBack", "clear", "clearing", "uninstall", "uninstalling",
  "unlink", "recordUninstalled" }

(* The variables have their types. *)
TypeOK ==
  /\ bundleMap \in [Bundles -> Infos]
  /\ count \in 0 .. CountModulus - 1
  /\ code \in [Bundles -> Versions \cup {Partial, None}]
  /\ data \subseteq Bundles
  /\ record \in [Bundles -> Versions \cup {None}]
  /\ thirdSystem \subseteq Bundles \/ thirdSystem = Torn
  /\ uninstalled \subseteq Bundles \/ uninstalled = Torn
  /\ image \in [Bundles -> Versions]
  /\ pc \in Steps /\ hap \in Haps /\ tmpRecord \in BOOLEAN
  /\ phase \in {"system", "third", "ready", "preinstall"}
  /\ toScan \subseteq Bundles /\ pending \subseteq Bundles /\ updated \subseteq Bundles
  /\ registered \in BOOLEAN
  /\ acked \in [Bundles -> Versions \cup {None}]
  /\ undone \subseteq Bundles /\ gone \subseteq Bundles
  /\ calm \in 0 .. 2
  /\ requests \in 0 .. MaxRequests /\ restarts \in 0 .. MaxRestarts
  /\ failures \in 0 .. MaxFailures

(* The bundles the limit is about: neither of the system nor of a vendor. *)
ThirdParty == {x \in Bundles : Installed(x) /\ ~bundleMap[x].sys /\ ~IsThirdSystem(x)}

(* There are never more third-party bundles than MAX_THIRD_BUNDLE_NUMBER,  *)
(* whatever is installed, updated, removed and reloaded.                   *)
LimitKept == pc = "idle" => Cardinality(ThirdParty) <= MaxThird

(* A third-party bundle is refused only when the limit is reached: "check  *)
(* number of current installed third bundles".                             *)
RefusedOnlyWhenFull == [][RefuseTooMany => Cardinality(ThirdParty) >= MaxThird]_vars

(* What was reported installed and not removed since is still there, in    *)
(* that version or a later, once the service is ready again.               *)
AckedSurvives ==
  Settled => \A x \in Bundles : acked[x] # None /\ x \notin undone =>
    Installed(x) /\ bundleMap[x].ver >= acked[x] /\ x \in data

(* What was reported installed stays on disk, record and code, also when   *)
(* it is not loaded: power losses, failures in the operations of other     *)
(* bundles, refused and early requests do not take it.  What does: the     *)
(* uninstall of the bundle, once it removes directories; an update of the  *)
(* bundle itself that fails, for CHECK_PRO_ROLLBACK and CLEAR_INSTALL_ENV  *)
(* remove the earlier version too; and a power loss in such an update,     *)
(* while RenameDir or RenameJsonFile has only removed what it replaces, or *)
(* when the bundle was not loaded and its update is an older version.      *)
AckedOnDisk ==
  Idle => \A x \in Bundles : acked[x] # None /\ x \notin undone =>
    record[x] >= acked[x] /\ code[x] >= acked[x]

(* A bundle whose removal was reported does not come back. *)
StaysRemoved == Settled => \A x \in gone : ~Installed(x)

(* The same for bundles no partition holds, at any time. *)
ThirdStaysRemoved == \A x \in gone : Home[x] = "THIRD" => ~Installed(x)

(* The data of a bundle with a record goes only when it is uninstalled: an *)
(* update of the bundle or of the system image keeps it.                   *)
DataKept ==
  [][\A x \in Bundles : x \in data \ data' => record[x] = None \/ pc = "uninstalling"]_vars

(* Whatever failed or was interrupted, the system bundles are back after   *)
(* two boots without a fault, and cannot be removed.                       *)
SystemAppsBack ==
  Settled /\ calm = 2 => \A x \in Bundles :
    Home[x] = "SYSTEM" => Installed(x) /\ bundleMap[x].sys

(* Every message is handled to its end, and the device becomes ready. *)
Answered == pc # "idle" ~> Settled
=============================================================================
