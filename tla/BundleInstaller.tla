--------------------------- MODULE BundleInstaller -------------------------
(***************************************************************************)
(* The bundle installer of the Bundle Manager Service, with the part of    *)
(* ManagerService that drives it: one service task takes install and       *)
(* uninstall requests from a queue, scans the device when it starts, and   *)
(* has the privileged daemon do every file operation, one at a time.       *)
(*                                                                         *)
(* The state is what the service keeps in memory (the bundle map and the   *)
(* uid maps), what it keeps on disk (code and data directories, the        *)
(* install records, the uid list, the two lists of third-system bundles)   *)
(* and the operation in progress.  A step is what happens between two      *)
(* points at which the process, the daemon or the device may fail.         *)
(***************************************************************************)
EXTENDS UidMap, SequencesExt

CONSTANTS
  Versions,     (* version codes, positive                                 *)
  AppIds,       (* application ids: signer and bundle name                 *)
  Home,         (* the partition that holds the bundle's pre-installed hap;*)
                (* "THIRD" for a bundle that has none                      *)
  Faults,       (* what may go wrong, see FaultKinds                       *)
  MaxRequests,  (* bound on the requests of a behaviour                    *)
  MaxRestarts,  (* bound on its restarts                                   *)
  MaxFailures,  (* bound on the daemon operations that fail                *)
  MaxFaults     (* bound on the two together                               *)

FaultKinds == {
  "reboot",     (* the service restarts between two requests               *)
  "crash",      (* its process dies between two daemon operations          *)
  "power",      (* the device stops, also inside a daemon operation        *)
  "reject",     (* a request is for an older version or another appId      *)
  "daemon" }    (* a daemon operation reports an error                     *)

None    == 0    (* no version *)
Partial == -1   (* a directory tree without a readable profile *)
NoApp   == ""
NoData  == -2   (* no data directory *)
Root    == 0    (* the owner of a directory nobody was given *)

ASSUME InstallerAssumption ==
  /\ Versions \subseteq Nat \ {0} /\ IsFiniteSet(Versions)
  /\ NoApp \notin AppIds \cup Bundles
  /\ Home \in [Bundles -> Styles]
  /\ Faults \subseteq FaultKinds
  /\ Bundles # {} /\ Versions # {} /\ AppIds # {}
  /\ {MaxRequests, MaxRestarts, MaxFailures, MaxFaults} \subseteq Nat

VARIABLES
  (* memory of the service *)
  bundleMap,    (* BundleMap: the installed bundles                        *)
  uidMap,       (* sysUidMap_, sysVendorUidMap_, appUidMap_                *)
  (* disk *)
  codeDir,      (* the bundles whose code directory exists                 *)
  code,         (* the module directory in it: a version, Partial or None  *)
  junk,         (* staging directories of earlier runs left beside it      *)
  data,         (* the owner of the data directory                         *)
  record,       (* <bundleName>.json                                       *)
  uidFile,      (* uid_gid_map.json; empty when absent or unreadable       *)
  thirdSystem,  (* third_system_bundle.json                                *)
  uninstalled,  (* uninstalled_delbundle.json                              *)
  image,        (* version of the pre-installed haps                       *)
  (* the operation in progress *)
  pc, hap, keepData,
  staged,       (* content of the staging directory moduleName + randStr   *)
  uid,          (* installRecord.uid                                       *)
  tmpRecord,    (* <bundleName> + randStr.json                             *)
  tmpUidFile,   (* uid_gid_map + randStr.json                              *)
  (* the scan at start-up *)
  phase, toScan,
  (* what the clients were told: history for the properties *)
  acked,        (* version and uid of the last install answered ERR_OK     *)
  undone,       (* what took that install away again                       *)
  gone,         (* bundles whose uninstall was answered ERR_OK             *)
  (* budgets *)
  requests, restarts, failures

memory == <<bundleMap, uidMap>>
codeDisk == <<codeDir, code, junk>>
jsonDisk == <<record, uidFile, thirdSystem, uninstalled>>
disk   == <<codeDisk, data, jsonDisk, image>>
task   == <<hap, keepData, staged, uid, tmpRecord, tmpUidFile>>
boot   == <<phase, toScan>>
told   == <<acked, undone, gone>>
budget == <<requests, restarts, failures>>
vars   == <<memory, disk, pc, task, boot, told, budget>>

-----------------------------------------------------------------------------
NoInfo   == [ver |-> None, uid |-> InvalidUid, app |-> NoApp, sys |-> FALSE]
NoRecord == [ver |-> None, uid |-> InvalidUid, app |-> NoApp]
NoAck    == [ver |-> None, uid |-> InvalidUid]

Haps == [name : Bundles, ver : Versions, app : AppIds, style : Styles]

NoHap == CHOOSE h \in Haps : TRUE

(* The bundle the operation in progress is about.                          *)
bundle == hap.name

(* QueryBundleInfo(x) != nullptr *)
Installed(x) == bundleMap[x].ver # None

(* The hap a partition holds for x, always signed for the same application.*)
FirstVersion == Min(Versions)

PreInstalledApp == CHOOSE a \in AppIds : TRUE

PreInstalled(x) ==
  [name |-> x, ver |-> image[x], app |-> PreInstalledApp, style |-> Home[x]]

(* Slip: isFound is never set.                                             *)
KeepEntry(entries, x) == entries

(* DeleteInnerUidInfoFromUidArray: the first entry of x, if there is one.  *)
DeleteEntry(entries, x) ==
  LET found == {k \in DOMAIN entries : entries[k].name = x}
  IN  IF found = {} THEN entries ELSE RemoveAt(entries, Min(found))

(* Slip: a new list is begun although there is one.                        *)
BeginUidList(entries, x, u) ==
  IF \E k \in DOMAIN entries : entries[k].name = x THEN entries
  ELSE <<[name |-> x, uid |-> u]>>

(* ConvertUidAndGidToJson: a bundle that is listed keeps its entry.        *)
ConvertUidAndGidToJson(entries, x, u) ==
  IF \E k \in DOMAIN entries : entries[k].name = x THEN entries
  ELSE Append(entries, [name |-> x, uid |-> u])

(* CheckVersionAndSignature refuses h over what is installed.              *)
Refused(h) ==
  /\ Installed(h.name)
  /\ \/ bundleMap[h.name].ver > h.ver
     \/ bundleMap[h.name].app # h.app

-----------------------------------------------------------------------------
Idle == pc = "idle" /\ phase = "ready"

Goto(l) == pc' = l

(* The operation ends, and with it its local variables.                    *)
End ==
  /\ pc' = "idle"
  /\ hap' = NoHap
  /\ keepData' = FALSE
  /\ staged' = None
  /\ uid' = InvalidUid
  /\ tmpRecord' = NoRecord
  /\ tmpUidFile' = <<>>

(* From here on the operation undoes the bundle, an earlier version too.   *)
Abandon(l) ==
  /\ Goto(l)
  /\ undone' = [undone EXCEPT ![bundle] = l]

MayFail ==
  /\ "daemon" \in Faults
  /\ failures < MaxFailures /\ restarts + failures < MaxFaults
  /\ failures' = failures + 1
  /\ UNCHANGED <<requests, restarts>>

(* Slip: staging directories are cleared away at start-up.                 *)
LeaveNothing(tree) == UNCHANGED junk

(* What is left of a directory while it is being removed: its profile may  *)
(* still be there, or only other files, or nothing.                        *)
Remains(v) == IF v = None THEN {None} ELSE {None, Partial, v}

RemainsOfAll(trees) == (UNION {Remains(v) : v \in trees}) \ {None}

(* A staging directory is left behind.  Until it is complete its profile   *)
(* may or may not be there.                                                *)
Leave(tree) ==
  \E v \in IF tree = Partial THEN {Partial, hap.ver} ELSE {tree} :
    junk' = [junk EXCEPT ![bundle] = @ \cup ({v} \ {None})]

DirsRemoval ==
  [uninstall |-> "uninstalling", rollbackDirs |-> "rollingBack", clear |-> "clearing"]

(* The staging directory when the operation stops, if its code directory   *)
(* is still there, and whole unless that is being removed.                 *)
LeaveStaged ==
  IF bundle \in codeDir
  THEN \E tree \in IF pc \in Range(DirsRemoval) THEN Remains(staged) ELSE {staged} :
         Leave(tree)
  ELSE UNCHANGED junk

(* Install's RecycleUid(installRecord.bundleName) after an error: the name *)
(* points into the BundleInfo that was freed on the way out, so the call   *)
(* finds the bundle's uid or some other text.                              *)
RecycleUidOfFreedName ==
  \/ uidMap' = RecycleUid(uidMap, bundle)
  \/ UNCHANGED uidMap

-----------------------------------------------------------------------------
(* Requests.  InstallThirdBundle parses the hap before it calls Install; a *)
(* hap the parser, the signature or the file checks refuse changes nothing *)
(* and is the action BadHap.                                               *)

ReceiveInstall(h) ==
  /\ Idle
  /\ requests < MaxRequests
  /\ "reject" \in Faults \/ ~Refused(h)
  /\ requests' = requests + 1
  /\ Goto("check")
  /\ hap' = h
  /\ gone' = gone \ {h.name}
  /\ UNCHANGED <<memory, disk, keepData, staged, uid, tmpRecord, tmpUidFile,
                 boot, acked, undone, restarts, failures>>

ReceiveUninstall(x, keep) ==
  /\ Idle
  /\ requests < MaxRequests
  /\ requests' = requests + 1
  /\ Goto("uninstall")
  /\ hap' = [hap EXCEPT !.name = x]
  /\ keepData' = keep
  /\ UNCHANGED <<memory, disk, staged, uid, tmpRecord, tmpUidFile,
                 boot, told, restarts, failures>>

-----------------------------------------------------------------------------
(* Install and ProcessBundleInstall, in the order of their steps.          *)

BadHap ==
  /\ pc = "check" /\ phase = "ready"
  /\ End
  /\ UNCHANGED <<memory, disk, boot, told, budget>>

(* An older version or another signer: the running bundle is left alone,   *)
(* but its name is handed to RecycleUid.                                   *)
Refuse ==
  /\ pc = "check"
  /\ Refused(hap)
  /\ End
  /\ RecycleUidOfFreedName
  /\ UNCHANGED <<bundleMap, disk, boot, told, budget>>

Accept ==
  /\ pc = "check"
  /\ ~Refused(hap)
  /\ Goto("extract")
  /\ UNCHANGED <<memory, disk, task, boot, told, budget>>

(* ExtractHap unzips into moduleName + randStr, inside the code directory. *)
ExtractBegin ==
  /\ pc = "extract"
  /\ Goto("extracting")
  /\ staged' = Partial
  /\ codeDir' = codeDir \cup {bundle}
  /\ UNCHANGED <<memory, code, junk, data, jsonDisk, image, hap, keepData, uid,
                 tmpRecord, tmpUidFile, boot, told, budget>>

ExtractEnd ==
  /\ pc = "extracting"
  /\ Goto("rename")
  /\ staged' = hap.ver
  /\ UNCHANGED <<memory, disk, hap, keepData, uid, tmpRecord, tmpUidFile, boot,
                 told, budget>>

(* CHECK_PRO_PART_ROLLBACK: the staging directory goes, if the daemon can, *)
(* and the code directory that was made for it stays.                      *)
ExtractFails ==
  /\ pc \in {"extract", "extracting"}
  /\ MayFail
  /\ End
  /\ \/ UNCHANGED junk
     \/ staged # None /\ Leave(staged)
  /\ RecycleUidOfFreedName
  /\ UNCHANGED <<bundleMap, codeDir, code, data, jsonDisk, image, boot, told>>

(* RenameFile removes the target before it renames.                        *)
RenameCodeBegin ==
  /\ pc = "rename"
  /\ Goto("renaming")
  /\ \E rest \in Remains(code[bundle]) : code' = [code EXCEPT ![bundle] = rest]
  /\ UNCHANGED <<memory, codeDir, junk, data, jsonDisk, image, task, boot, told, budget>>

RenameCodeEnd ==
  /\ pc = "renaming"
  /\ Goto("uid")
  /\ code' = [code EXCEPT ![bundle] = staged]
  /\ staged' = None
  /\ UNCHANGED <<memory, codeDir, junk, data, jsonDisk, image, hap, keepData, uid,
                 tmpRecord, tmpUidFile, boot, told, budget>>

(* The ability manager is not there, or the daemon could not rename and    *)
(* the staging directory is removed.                                       *)
RenameCodeFails ==
  /\ pc \in {"rename", "renaming"}
  /\ MayFail
  /\ Abandon("rollback")
  /\ staged' = IF pc = "renaming" THEN None ELSE staged
  /\ UNCHANGED <<memory, disk, hap, keepData, uid, tmpRecord, tmpUidFile, boot, acked, gone>>

(* Slip: only a new directory is given to its owner.                       *)
OwnNewData(u) ==
  data' = [data EXCEPT ![bundle] =
             IF @ # NoData THEN @ ELSE IF u # InvalidUid THEN u ELSE Root]

(* CreateDataDirectory makes the directory unless it is there, and gives   *)
(* it to a valid uid.                                                      *)
OwnData(u) ==
  data' = [data EXCEPT ![bundle] =
             IF u # InvalidUid THEN u ELSE IF @ = NoData THEN Root ELSE @]

(* Slip: an update takes a uid as a new install does.                      *)
AssignNewUid ==
  /\ pc = "uid"
  /\ Goto("record")
  /\ uid' = GenerateInnerUid(uidMap[hap.style], hap.style)
  /\ uidMap' = GenerateUid(uidMap, bundle, hap.style)
  /\ OwnData(uid')
  /\ UNCHANGED <<bundleMap, codeDisk, jsonDisk, image, hap, keepData, staged,
                 tmpRecord, tmpUidFile, boot, told, budget>>

AssignUid ==
  /\ pc = "uid"
  /\ Goto("record")
  /\ IF Installed(bundle)
     THEN /\ uid' = bundleMap[bundle].uid
          /\ UNCHANGED <<uidMap, data>>
     ELSE /\ uid' = GenerateInnerUid(uidMap[hap.style], hap.style)
          /\ uidMap' = GenerateUid(uidMap, bundle, hap.style)
          /\ OwnData(uid')
  /\ UNCHANGED <<bundleMap, codeDisk, jsonDisk, image, hap, keepData, staged,
                 tmpRecord, tmpUidFile, boot, told, budget>>

(* The uid is taken, and the directory may be made but keep its owner.     *)
CreateDataFails ==
  /\ pc = "uid"
  /\ ~Installed(bundle)
  /\ MayFail
  /\ Abandon("rollback")
  /\ uid' = GenerateInnerUid(uidMap[hap.style], hap.style)
  /\ uidMap' = GenerateUid(uidMap, bundle, hap.style)
  /\ UNCHANGED data \/ OwnData(InvalidUid)
  /\ UNCHANGED <<bundleMap, codeDisk, jsonDisk, image, hap, keepData, staged,
                 tmpRecord, tmpUidFile, boot, acked, gone>>

BackUpInstallRecord ==
  /\ pc = "record"
  /\ Goto("publish")
  /\ tmpRecord' = [ver |-> hap.ver, uid |-> uid, app |-> hap.app]
  /\ UNCHANGED <<memory, disk, hap, keepData, staged, uid, tmpUidFile, boot, told,
                 budget>>

BackUpRecordFails ==
  /\ pc = "record"
  /\ MayFail
  /\ Abandon("rollback")
  /\ UNCHANGED <<memory, disk, task, boot, acked, gone>>

(* StorePermissions, then UpdateBundleInfo: an update keeps isSystemApp.   *)
UpdateBundleInfo ==
  /\ pc = "publish"
  /\ Goto("uidTmp")
  /\ bundleMap' = [bundleMap EXCEPT ![bundle] =
       [ver |-> hap.ver, uid |-> uid, app |-> hap.app,
        sys |-> IF Installed(bundle) THEN bundleMap[bundle].sys
                                     ELSE hap.style = "SYSTEM"]]
  /\ UNCHANGED <<uidMap, disk, task, boot, told, budget>>

UpdateBundleInfoFails ==
  /\ pc = "publish"
  /\ MayFail
  /\ Abandon("rollback")
  /\ UNCHANGED <<memory, disk, task, boot, acked, gone>>

(* BackUpUidAndGidInfo: the uid list with the bundle in it, to a new file. *)
BackUpUidAndGidInfo ==
  /\ pc = "uidTmp"
  /\ Goto("uidRename")
  /\ tmpUidFile' = ConvertUidAndGidToJson(uidFile, bundle, uid)
  /\ UNCHANGED <<memory, disk, hap, keepData, staged, uid, tmpRecord, boot, told,
                 budget>>

(* RenameJsonFile on the uid list, then on the install record: the daemon  *)
(* removes the file that is there before it renames the new one.           *)
RenameUidFileBegin ==
  /\ pc = "uidRename"
  /\ Goto("uidRenaming")
  /\ uidFile' = <<>>
  /\ UNCHANGED <<memory, codeDisk, data, record, thirdSystem, uninstalled, image,
                 task, boot, told, budget>>

RenameUidFileEnd ==
  /\ pc = "uidRenaming"
  /\ Goto("recordRename")
  /\ uidFile' = tmpUidFile
  /\ UNCHANGED <<memory, codeDisk, data, record, thirdSystem, uninstalled, image,
                 task, boot, told, budget>>

RenameRecordBegin ==
  /\ pc = "recordRename"
  /\ Goto("recordRenaming")
  /\ record' = [record EXCEPT ![bundle] = NoRecord]
  /\ UNCHANGED <<memory, codeDisk, data, uidFile, thirdSystem, uninstalled, image,
                 task, boot, told, budget>>

RenameRecordEnd ==
  /\ pc = "recordRenaming"
  /\ Goto("thirdSystem")
  /\ record' = [record EXCEPT ![bundle] = tmpRecord]
  /\ UNCHANGED <<memory, codeDisk, data, uidFile, thirdSystem, uninstalled, image,
                 task, boot, told, budget>>

(* Slip: the install ends without CLEAR_INSTALL_ENV.                       *)
BackUpFailsOnly ==
  /\ pc \in {"uidTmp", "uidRename", "uidRenaming", "recordRename", "recordRenaming"}
  /\ MayFail
  /\ End
  /\ UNCHANGED <<memory, disk, boot, told>>

BackUpFails ==
  /\ pc \in {"uidTmp", "uidRename", "uidRenaming", "recordRename", "recordRenaming"}
  /\ MayFail
  /\ Abandon("clear")
  /\ UNCHANGED <<memory, disk, task, boot, acked, gone>>

(* RecordThirdSystemBundle on third_system_bundle.json.  A list that was    *)
(* torn stays so: the code neither reads nor replaces it.                  *)
Torn == {NoApp}

(* Slip: the new name is added to a list that could not be read.           *)
WithThirdSystemUnread ==
  IF hap.style = "THIRD_SYSTEM" THEN thirdSystem \cup {bundle} ELSE thirdSystem

WithThirdSystem ==
  IF hap.style = "THIRD_SYSTEM" /\ thirdSystem # Torn
  THEN thirdSystem \cup {bundle} ELSE thirdSystem

InstallDone ==
  /\ pc = "thirdSystem"
  /\ End
  /\ acked' = [acked EXCEPT ![bundle] = [ver |-> hap.ver, uid |-> uid]]
  /\ undone' = [undone EXCEPT ![bundle] = "no"]
  /\ \/ thirdSystem' = WithThirdSystem /\ UNCHANGED budget
     \/ WithThirdSystem # thirdSystem /\ MayFail /\ thirdSystem' = {}
  /\ UNCHANGED <<memory, codeDisk, data, record, uidFile, uninstalled, image, boot,
                 gone>>

-----------------------------------------------------------------------------
(* RemoveInstallDirectory, for an uninstall, a rollback (CHECK_PRO_ROLLBACK)*)
(* and CLEAR_INSTALL_ENV.  The client does not send keepData and the daemon *)
(* reads the flag uninitialised: the data directory goes or stays.         *)

CodeRemoved ==
  /\ codeDir' = codeDir \ {bundle}
  /\ code' = [code EXCEPT ![bundle] = None]
  /\ junk' = [junk EXCEPT ![bundle] = {}]

DataKeptOrNot ==
  \/ UNCHANGED data
  \/ data' = [data EXCEPT ![bundle] = NoData]

(* The code directory goes first, file by file, then the data directory.   *)
RemoveDirsBegin ==
  /\ pc \in DOMAIN DirsRemoval
  /\ pc = "uninstall" => Installed(bundle) /\ ~bundleMap[bundle].sys
  /\ Goto(DirsRemoval[pc])
  /\ \/ /\ \E rest \in Remains(code[bundle]) : code' = [code EXCEPT ![bundle] = rest]
        /\ \E rest \in SUBSET RemainsOfAll(junk[bundle]) :
             junk' = [junk EXCEPT ![bundle] = rest]
        /\ UNCHANGED <<codeDir, data>>
     \/ CodeRemoved /\ DataKeptOrNot
  /\ undone' = IF pc = "uninstall" THEN [undone EXCEPT ![bundle] = pc] ELSE undone
  /\ UNCHANGED <<memory, jsonDisk, image, task, boot, acked, gone, budget>>

DirsRemoved ==
  /\ CodeRemoved
  /\ DataKeptOrNot
  /\ UNCHANGED budget

(* The removal fails: of a file in the code directory, or later.           *)
DirsLeft ==
  /\ MayFail
  /\ \/ LeaveStaged /\ DataKeptOrNot /\ UNCHANGED <<codeDir, code>>
     \/ CodeRemoved /\ UNCHANGED data

(* Slip: the bundle stays in the map.                                      *)
KeepBundleInfo == UNCHANGED bundleMap

(* RemoveBundleInfo, which frees the entry of the map.                     *)
RemoveBundleInfo == bundleMap' = [bundleMap EXCEPT ![bundle] = NoInfo]

(* CHECK_PRO_ROLLBACK: the bundle leaves the map, an earlier version too,  *)
(* and DeleteJsonFile removes the new record or, for want of one, the old. *)
Rollback ==
  /\ pc = "rollback"
  /\ Goto("rollbackDirs")
  /\ RemoveBundleInfo
  /\ tmpRecord' = NoRecord
  /\ record' = IF tmpRecord = NoRecord THEN [record EXCEPT ![bundle] = NoRecord]
                ELSE record
  /\ UNCHANGED <<uidMap, codeDisk, data, uidFile, thirdSystem, uninstalled, image,
                 hap, keepData, staged, uid, tmpUidFile, boot, told, budget>>

RollbackDone ==
  /\ pc = "rollingBack"
  /\ End
  /\ DirsRemoved \/ DirsLeft
  /\ RecycleUidOfFreedName
  /\ UNCHANGED <<bundleMap, jsonDisk, image, boot, told>>

(* CLEAR_INSTALL_ENV frees the entry while it is in the bundle map: later  *)
(* look-ups read freed memory and find what it held, or no such name.      *)
ClearDone ==
  /\ pc = "clearing"
  /\ End
  /\ DirsRemoved \/ DirsLeft
  /\ RemoveBundleInfo \/ UNCHANGED bundleMap
  /\ UNCHANGED <<uidMap, jsonDisk, image, boot, told>>

-----------------------------------------------------------------------------
(* Uninstall, in the order of its steps.                                   *)

RefuseUninstall ==
  /\ pc = "uninstall"
  /\ ~Installed(bundle) \/ bundleMap[bundle].sys
  /\ End
  /\ UNCHANGED <<memory, disk, boot, told, budget>>

UninstallDirs ==
  /\ pc = "uninstalling"
  /\ RemoveBundleInfo
  /\ \/ DirsRemoved /\ Goto("permissions") /\ UNCHANGED task
     \/ DirsLeft /\ End
  /\ UNCHANGED <<uidMap, jsonDisk, image, boot, told>>

DeletePermissions ==
  /\ pc = "permissions"
  /\ Goto("dropEntry")
  /\ UNCHANGED <<memory, disk, task, boot, told, budget>>

(* Slip: without a uid list the removal is tried again.                    *)
NoUidFileYet ==
  /\ pc = "dropEntry"
  /\ uidFile = <<>>
  /\ Goto("permissions")
  /\ UNCHANGED <<memory, disk, task, boot, told, budget>>

(* DeleteUidInfoFromJson: without a uid list the uninstall ends with an    *)
(* error; the list is otherwise written over in place, and removed when    *)
(* nothing is left in it.                                                  *)
NoUidFile ==
  /\ pc = "dropEntry"
  /\ uidFile = <<>>
  /\ End
  /\ UNCHANGED <<memory, disk, boot, told, budget>>

DropEntryBegin ==
  /\ pc \in {"dropEntry", "purgeEntry"}
  /\ uidFile # <<>>
  /\ Goto(IF pc = "dropEntry" THEN "droppingEntry" ELSE "purgingEntry")
  /\ tmpUidFile' = DeleteEntry(uidFile, bundle)
  /\ uidFile' = IF tmpUidFile' = <<>> THEN uidFile ELSE <<>>
  /\ UNCHANGED <<memory, codeDisk, data, record, thirdSystem, uninstalled, image,
                 hap, keepData, staged, uid, tmpRecord, boot, told, budget>>

(* A failed store removes the list; the caller does not look.              *)
DropEntryEnd ==
  /\ pc \in {"droppingEntry", "purgingEntry"}
  /\ Goto(IF pc = "droppingEntry" THEN "dropRecord" ELSE "reloaded")
  /\ \/ uidFile' = tmpUidFile /\ UNCHANGED budget
     \/ MayFail /\ UNCHANGED uidFile
  /\ UNCHANGED <<memory, codeDisk, data, record, thirdSystem, uninstalled, image,
                 task, boot, told>>

DropRecord ==
  /\ pc = "dropRecord"
  /\ IF record[bundle] = NoRecord THEN End
     ELSE Goto("recordUninstalled") /\ UNCHANGED task
  /\ record' = [record EXCEPT ![bundle] = NoRecord]
  /\ UNCHANGED <<memory, codeDisk, data, uidFile, thirdSystem, uninstalled, image,
                 boot, told, budget>>

UninstallFails ==
  /\ pc \in {"permissions", "dropRecord"}
  /\ MayFail
  /\ End
  /\ UNCHANGED <<memory, disk, boot, told>>

(* A vendor bundle is entered in uninstalled_delbundle.json.  The caller,  *)
(* told ERR_OK, gives the uid back.                                        *)
WithUninstalled == uninstalled \cup (thirdSystem \cap {bundle})

UninstallDone ==
  /\ pc = "recordUninstalled"
  /\ End
  /\ \/ uninstalled' = WithUninstalled /\ UNCHANGED budget
     \/ bundle \in thirdSystem /\ MayFail /\ uninstalled' = {}
  /\ uidMap' = RecycleUid(uidMap, bundle)
  /\ gone' = gone \cup {bundle}
  /\ UNCHANGED <<bundleMap, codeDisk, data, record, uidFile, thirdSystem, image,
                 boot, acked, undone>>

-----------------------------------------------------------------------------
(* The scan at start-up: ScanPackages goes over the pre-installed haps of  *)
(* the system, those of the vendors, and the code directories of the rest, *)
(* each directory in any order.  On the first boot there is no record, and *)
(* its separate branch installs what the scan would.                       *)

InDirectory(style) ==
  IF style = "THIRD" THEN codeDir ELSE {x \in Bundles : Home[x] = style}

Scanning == pc = "idle" /\ phase \in Styles

NextPhase ==
  [SYSTEM |-> "THIRD_SYSTEM", THIRD_SYSTEM |-> "THIRD", THIRD |-> "ready"]

ScanDone ==
  /\ Scanning
  /\ toScan = {}
  /\ phase' = NextPhase[phase]
  /\ toScan' = IF phase' = "ready" THEN {} ELSE InDirectory(phase')
  /\ UNCHANGED <<memory, disk, pc, task, told, budget>>

(* CheckBundleJsonIsValid: a record, and the code directory it names.      *)
ValidRecord(x) == record[x] # NoRecord /\ x \in codeDir

(* Slip: the list of removed vendor bundles is not looked at.              *)
SkippedButRemoved(x) ==
  \/ Installed(x)
  \/ phase = "THIRD" /\ ~ValidRecord(x)

Skipped(x) ==
  \/ Installed(x)
  \/ phase = "THIRD_SYSTEM" /\ x \in uninstalled
  \/ phase = "THIRD" /\ ~ValidRecord(x)

Skip(x) ==
  /\ Scanning
  /\ x \in toScan
  /\ Skipped(x)
  /\ toScan' = toScan \ {x}
  /\ UNCHANGED <<memory, disk, pc, task, phase, told, budget>>

(* ReloadBundleInfo adds the first readable profile in the code directory  *)
(* and removes the directories that have none, with the uid entry.         *)
Profiles(x) == (junk[x] \cup {code[x]}) \ {None}

Unreadable(x) == Partial \in Profiles(x)

Reload(x) ==
  IF record[x].uid = InvalidUid \/ Profiles(x) \subseteq {Partial}
  THEN UNCHANGED bundleMap
  ELSE \E v \in Profiles(x) \ {Partial} :
         bundleMap' = [bundleMap EXCEPT ![x] =
           [ver |-> v, uid |-> record[x].uid, app |-> record[x].app,
            sys |-> phase = "SYSTEM"]]

(* ReloadEntireBundleInfo.                                                 *)
ScanBundle(x) ==
  /\ Scanning
  /\ x \in toScan
  /\ ~Skipped(x)
  /\ toScan' = toScan \ {x}
  /\ hap' = IF phase = "THIRD" THEN [hap EXCEPT !.name = x] ELSE PreInstalled(x)
  /\ IF ValidRecord(x)
     THEN /\ Reload(x)
          /\ Goto(IF record[x].uid # InvalidUid /\ Unreadable(x) THEN "purge"
                                                                 ELSE "reloaded")
     ELSE /\ Goto("check")
          /\ UNCHANGED bundleMap
  /\ UNCHANGED <<uidMap, disk, keepData, staged, uid, tmpRecord, tmpUidFile, phase,
                 told, budget>>

(* Slip: one unreadable directory condemns them all.                       *)
PurgeAll ==
  /\ pc = "purge"
  /\ Goto(IF uidFile = <<>> THEN "reloaded" ELSE "purgeEntry")
  /\ code' = [code EXCEPT ![bundle] = None]
  /\ junk' = [junk EXCEPT ![bundle] = {}]
  /\ UNCHANGED <<memory, codeDir, data, jsonDisk, image, task, boot, told, budget>>

Purge ==
  /\ pc = "purge"
  /\ Goto(IF uidFile = <<>> THEN "reloaded" ELSE "purgeEntry")
  /\ \/ /\ code' = [code EXCEPT ![bundle] = IF @ = Partial THEN None ELSE @]
        /\ junk' = [junk EXCEPT ![bundle] = @ \ {Partial}]
        /\ UNCHANGED budget
     \/ MayFail /\ UNCHANGED <<code, junk>>
  /\ UNCHANGED <<memory, codeDir, data, jsonDisk, image, task, boot, told>>

(* A pre-installed hap newer than the record is installed over it.         *)
Reloaded ==
  /\ pc = "reloaded"
  /\ IF phase # "THIRD" /\ hap.ver > record[bundle].ver
     THEN Goto("check") /\ UNCHANGED task
     ELSE End
  /\ UNCHANGED <<memory, disk, boot, told, budget>>

-----------------------------------------------------------------------------
(* Restarts.  The memory is lost; the uid maps are read back at once       *)
(* (RestoreUidAndGidMap) and the scan begins.                              *)

Start ==
  /\ bundleMap' = [x \in Bundles |-> NoInfo]
  /\ uidMap' = RestoreUidAndGidMap(uidFile)
  /\ phase' = "SYSTEM"
  /\ toScan' = InDirectory("SYSTEM")
  /\ restarts < MaxRestarts /\ restarts + failures < MaxFaults
  /\ restarts' = restarts + 1
  /\ UNCHANGED <<requests, failures>>

(* Between two requests; the system image may have been updated meanwhile. *)
Reboot ==
  /\ "reboot" \in Faults
  /\ Idle
  /\ Start
  /\ \/ UNCHANGED image
     \/ \E x \in {y \in Bundles : Home[y] # "THIRD"}, v \in Versions :
          v > image[x] /\ image' = [image EXCEPT ![x] = v]
  /\ UNCHANGED <<codeDisk, data, jsonDisk, pc, task, told>>

DaemonOperations ==
  {"extracting", "renaming", "uidRenaming", "recordRenaming", "droppingEntry",
   "purgingEntry"} \cup Range(DirsRemoval)

Crash ==
  /\ "crash" \in Faults
  /\ ~Idle
  /\ pc \notin DaemonOperations
  /\ Start
  /\ LeaveStaged
  /\ End
  /\ UNCHANGED <<codeDir, code, data, jsonDisk, image, told>>

(* The daemon may have removed the file RenameFile replaces: the module    *)
(* directory or the record of the bundle is then lost.                     *)
InRenameFile == {"renaming", "recordRenaming"}

PowerLoss ==
  /\ "power" \in Faults
  /\ ~Idle
  /\ Start
  /\ LeaveStaged
  /\ End
  /\ thirdSystem' \in {thirdSystem} \cup
       (IF pc = "thirdSystem" /\ WithThirdSystem # thirdSystem THEN {Torn} ELSE {})
  /\ uninstalled' \in {uninstalled} \cup
       (IF pc = "recordUninstalled" /\ bundle \in thirdSystem THEN {{}} ELSE {})
  /\ undone' = IF pc \in InRenameFile THEN [undone EXCEPT ![bundle] = "cut"]
                                     ELSE undone
  /\ UNCHANGED <<codeDir, code, data, record, uidFile, image, acked, gone>>

-----------------------------------------------------------------------------
Init ==
  /\ bundleMap = [x \in Bundles |-> NoInfo]
  /\ uidMap = [style \in Styles |-> EmptyMap]
  /\ codeDir = {}
  /\ code = [x \in Bundles |-> None]
  /\ junk = [x \in Bundles |-> {}]
  /\ data = [x \in Bundles |-> NoData]
  /\ record = [x \in Bundles |-> NoRecord]
  /\ uidFile = <<>>
  /\ thirdSystem = {}
  /\ uninstalled = {}
  /\ image = [x \in Bundles |-> FirstVersion]
  /\ pc = "idle"
  /\ hap = NoHap
  /\ keepData = FALSE
  /\ staged = None
  /\ uid = InvalidUid
  /\ tmpRecord = NoRecord
  /\ tmpUidFile = <<>>
  /\ phase = "SYSTEM"
  /\ toScan = InDirectory("SYSTEM")
  /\ acked = [x \in Bundles |-> NoAck]
  /\ undone = [x \in Bundles |-> "no"]
  /\ gone = {}
  /\ requests = 0 /\ restarts = 0 /\ failures = 0

(* A client may name any hap in the storage, and the pre-installed ones.   *)
ClientHaps ==
  {h \in Haps : h.style = "THIRD" \/ h = PreInstalled(h.name)}

Request ==
  \/ \E h \in ClientHaps : ReceiveInstall(h)
  \/ \E x \in Bundles, keep \in BOOLEAN : ReceiveUninstall(x, keep)

Install ==
  \/ BadHap \/ Refuse \/ Accept
  \/ ExtractBegin \/ ExtractEnd \/ ExtractFails
  \/ RenameCodeBegin \/ RenameCodeEnd \/ RenameCodeFails
  \/ AssignUid \/ CreateDataFails
  \/ BackUpInstallRecord \/ BackUpRecordFails
  \/ UpdateBundleInfo \/ UpdateBundleInfoFails
  \/ BackUpUidAndGidInfo \/ RenameUidFileBegin \/ RenameUidFileEnd
  \/ RenameRecordBegin \/ RenameRecordEnd \/ BackUpFails
  \/ InstallDone \/ Rollback \/ RollbackDone \/ ClearDone

Uninstall ==
  \/ RefuseUninstall \/ RemoveDirsBegin \/ UninstallDirs
  \/ DeletePermissions \/ NoUidFile \/ DropEntryBegin \/ DropEntryEnd
  \/ DropRecord \/ UninstallFails \/ UninstallDone

ScanPackages ==
  \/ ScanDone \/ Purge \/ Reloaded
  \/ \E x \in Bundles : Skip(x) \/ ScanBundle(x)

Restart == Reboot \/ Crash \/ PowerLoss

Next == Request \/ Install \/ Uninstall \/ ScanPackages \/ Restart

Spec == Init /\ [][Next]_vars

(* The service task never stops inside a request or the scan.              *)
FairSpec == Spec /\ WF_vars(Install \/ Uninstall \/ ScanPackages)

-----------------------------------------------------------------------------
Trees == Versions \cup {Partial}

Infos   == [ver : Versions \cup {None}, uid : Uids, app : AppIds \cup {NoApp},
            sys : BOOLEAN]
Records == [ver : Versions \cup {None}, uid : Uids, app : AppIds \cup {NoApp}]
Undoings == {"no", "rollback", "clear", "uninstall", "cut"}
Acks    == [ver : Versions \cup {None}, uid : Uids]
Steps == {
  "idle", "check", "extract", "extracting", "rename", "renaming", "uid", "record",
  "publish", "uidTmp", "uidRename", "uidRenaming", "recordRename",
  "recordRenaming", "thirdSystem", "rollback", "rollbackDirs", "rollingBack",
  "clear", "clearing", "uninstall", "uninstalling", "permissions", "dropEntry",
  "droppingEntry", "dropRecord", "recordUninstalled", "purge", "purgeEntry",
  "purgingEntry", "reloaded" }

(* The types, with what every operation leaves behind it.                  *)
TypeOK ==
  /\ bundleMap \in [Bundles -> Infos]
  /\ AreUidMaps(uidMap)
  /\ codeDir \subseteq Bundles
  /\ code \in [Bundles -> Trees \cup {None}]
  /\ junk \in [Bundles -> SUBSET Trees]
  /\ data \in [Bundles -> Nat \cup {NoData}]
  /\ record \in [Bundles -> Records]
  /\ uidFile \in UidLists
  /\ thirdSystem \subseteq Bundles \/ thirdSystem = Torn
  /\ uninstalled \subseteq Bundles
  /\ image \in [Bundles -> Versions]
  /\ pc \in Steps
  /\ hap \in Haps
  /\ keepData \in BOOLEAN
  /\ staged \in Trees \cup {None}
  /\ uid \in Uids
  /\ tmpRecord \in Records
  /\ tmpUidFile \in UidLists
  /\ phase \in Styles \cup {"ready"}
  /\ toScan \subseteq Bundles
  /\ acked \in [Bundles -> Acks]
  /\ undone \in [Bundles -> Undoings]
  /\ gone \subseteq Bundles
  /\ requests \in Nat /\ restarts \in Nat /\ failures \in Nat

-----------------------------------------------------------------------------
(* Two installed bundles never run under one uid: their data directories   *)
(* and processes would not be kept apart, and GetBundleNameForUid could    *)
(* not tell them.                                                          *)
UidUnique ==
  \A x, y \in Bundles :
    Installed(x) /\ Installed(y) /\ bundleMap[x].uid = bundleMap[y].uid => x = y

(* The uid of an installed bundle stays reserved for it, after a restart   *)
(* too: otherwise GenerateUid hands it to the next bundle.                 *)
UidReserved ==
  \A x \in Bundles :
    Installed(x) =>
      LET u     == bundleMap[x].uid
          style == StyleOfUid(u)
      IN  \E i \in DOMAIN uidMap[style] :
            u = Base(style) + i /\ uidMap[style][i] = x

(* The data directory of a bundle belongs to the uid it runs under, also   *)
(* when the directory outlived an earlier installation.                    *)
DataOwner ==
  \A x \in Bundles :
    Installed(x) /\ (pc = "idle" \/ bundle # x) => data[x] = bundleMap[x].uid

(* Between operations the bundle map, the install records, the uid list    *)
(* and the code directories tell the same.                                 *)
DiskAgrees ==
  Idle => \A x \in Bundles :
    LET entries == {k \in DOMAIN uidFile : uidFile[k].name = x} IN
    IF Installed(x)
    THEN /\ record[x].ver = bundleMap[x].ver
         /\ record[x].uid = bundleMap[x].uid
         /\ record[x].app = bundleMap[x].app
         /\ code[x] = bundleMap[x].ver
         /\ \E k \in DOMAIN uidFile : /\ entries = {k}
                                      /\ uidFile[k].uid = bundleMap[x].uid
    ELSE record[x] = NoRecord /\ entries = {} /\ code[x] = None

(* A bundle whose removal was confirmed does not come back, neither from   *)
(* what is left on disk nor from the partition it was pre-installed in.    *)
StaysUninstalled == phase = "ready" => \A x \in gone : ~Installed(x)

(* The same for bundles no partition holds, at any time.                   *)
ThirdStaysUninstalled ==
  \A x \in gone : Home[x] = "THIRD" => ~Installed(x)

(* What was answered ERR_OK survives crashes, power losses and failures in *)
(* the operations of other bundles, and refused requests: the bundle is    *)
(* there under the uid it was given, and the disk holds what the next scan *)
(* needs to find it.  Three things do end it: an uninstall that has begun   *)
(* to remove the directories; an update of the bundle itself that fails    *)
(* after the extraction, for CHECK_PRO_ROLLBACK and CLEAR_INSTALL_ENV      *)
(* remove the earlier version too; and a power loss while RenameFile       *)
(* replaces the bundle's own module directory or record.  A bundle for     *)
(* which no uid was left is answered ERR_OK and dropped by the next scan:  *)
(* it is not meant here.                                                   *)
AckedSurvives ==
  Idle => \A x \in Bundles : acked[x].uid # InvalidUid /\ undone[x] = "no" =>
    /\ Installed(x)
    /\ bundleMap[x].uid = acked[x].uid
    /\ ValidRecord(x)
    /\ record[x].uid = acked[x].uid
    /\ Profiles(x) \ {Partial} # {}

(* While the service runs, a bundle is never left at a version nobody was  *)
(* told of.  Until an operation of its own fails after the extraction, the *)
(* answered version is the one in memory, in the record and in the code    *)
(* directory, whatever fails for the others; an update that was rolled     *)
(* back, or an uninstall that failed half way, has taken the bundle out of *)
(* the list, the earlier version with it.  Only after CLEAR_INSTALL_ENV,   *)
(* which frees the entry but leaves it in the list, nothing is promised.   *)
AckedVersion ==
  Idle => \A x \in Bundles :
    /\ acked[x] # NoAck /\ undone[x] = "no" =>
         /\ bundleMap[x].ver = acked[x].ver
         /\ record[x].ver = acked[x].ver
         /\ code[x] = acked[x].ver
    /\ undone[x] \in {"rollback", "uninstall"} => ~Installed(x)

(* A service that is ready has every bundle of the system partition,       *)
(* however often its installation or update was interrupted, as long as no *)
(* operation of the daemon has failed.                                     *)
SystemAppsPresent ==
  Idle /\ failures = 0 => \A x \in Bundles : Home[x] = "SYSTEM" => Installed(x)

(* An uninstall that asks for the data to be kept keeps it.                *)
KeepDataHonoured ==
  [][keepData /\ pc \in {"uninstall", "uninstalling"} => data' = data]_vars

(* Between two crashes the records on disk are an AppStore: installs and    *)
(* updates take effect at once, when the record is replaced, uninstalls    *)
(* when it is removed, and reboots and scans change nothing but by the     *)
(* installs they make.                                                     *)
StoredRecord(x) ==
  IF pc = "recordRenaming" /\ bundle = x THEN tmpRecord ELSE record[x]

Store == INSTANCE AppStore WITH
  Fixed <- {x \in Bundles : Home[x] = "SYSTEM"},
  apps  <- [x \in Bundles |->
              [ver |-> StoredRecord(x).ver, uid |-> StoredRecord(x).uid]]

ImplementsStore == Store!Spec

(* Every request is answered, and every scan ends.                         *)
Answered == pc # "idle" ~> Idle
=============================================================================
