-------------------------- MODULE BundleRebootProofs ------------------------
(***************************************************************************)
(* Theorems about BundleInstaller as long as no daemon operation fails and *)
(* the service restarts between two requests only, for all bundles,        *)
(* versions, partitions, uid ranges that suffice and bounds: what clients, *)
(* the map in memory and the files on disk are told of a bundle agrees.    *)
(* RebootInv is the inductive invariant; its parts lean on each other:     *)
(* that no uid is held twice needs the records to match the map, a record  *)
(* that is never torn, the scan that reloads what is recorded and only     *)
(* that, and so on.                                                        *)
(***************************************************************************)
EXTENDS BundleInstallerProofs

(* The hypothesis of all theorems here: the daemon never fails, the        *)
(* service restarts between two requests at most, clients ask for no older *)
(* version, and the ranges have a uid for every bundle.                    *)
OnlyReboots == Faults \subseteq {"reboot"} /\ EnoughUids

-----------------------------------------------------------------------------
(* The bundle map, the records and the directories.                        *)

InstallSteps  == {"check", "extract"} \cup FromExtracting
BeforePublish == InstallSteps \ FromUidTmp
Uninstalling  == {"uninstalling", "permissions", "dropEntry", "droppingEntry", "dropRecord",
                  "recordUninstalled"}

Recorded(x) == record[x] # NoRecord

(* The map tells of x what the record does.                                *)
Matches(x) ==
  /\ bundleMap[x].ver = record[x].ver
  /\ bundleMap[x].uid = record[x].uid
  /\ bundleMap[x].app = record[x].app

(* The disk agrees on x; the map does unless the scan has yet to come.     *)
AtRest(x) ==
  /\ x \in codeDir <=> Recorded(x)
  /\ code[x] = record[x].ver
  /\ Recorded(x) => data[x] = record[x].uid
  /\ Matches(x) \/ (~Installed(x) /\ ToCome(x))

Rests(x) ==
  /\ junk[x] = {}
  /\ Recorded(x) => record[x].ver # None /\ record[x].uid # InvalidUid
  /\ ~Installed(x) => bundleMap[x] = NoInfo
  /\ (bundle = x /\ pc \in FromExtracting \cup Uninstalling) \/ AtRest(x)

(* Which steps there are when nothing fails, and in which phase.           *)
StepsInPhase ==
  /\ failures = 0
  /\ pc \in {"idle", "uninstall", "reloaded"} \cup InstallSteps \cup Uninstalling
  /\ pc = "reloaded" => phase \in Styles
  /\ pc \in {"uninstall"} \cup Uninstalling => phase = "ready"
  /\ pc \in InstallSteps => phase # "THIRD"
  /\ pc \in InstallSteps \cup {"reloaded"} /\ phase \in {"SYSTEM", "THIRD_SYSTEM"} =>
       hap.style = phase /\ Home[bundle] = phase

(* How far the operation in progress has come with the record of its       *)
(* bundle, which an install never replaces by an older one.                *)
OperationInStep ==
  /\ pc \in BeforePublish \cup {"reloaded", "uninstalling"} => Matches(bundle)
  /\ pc \in {"extracting", "rename"} => code[bundle] = record[bundle].ver
  /\ pc \in {"extracting", "rename", "renaming", "uid"} /\ Recorded(bundle) =>
       data[bundle] = record[bundle].uid
  /\ pc \in FromRecord => uid # InvalidUid /\ data[bundle] = uid
  /\ pc \in FromRecord /\ Recorded(bundle) => uid = record[bundle].uid
  /\ pc \in InstallSteps /\ Recorded(bundle) =>
       hap.ver >= record[bundle].ver /\ hap.app = record[bundle].app
  /\ pc \in FromUidTmp => bundleMap[bundle].app = hap.app
  /\ pc = "recordRenaming" => ~Recorded(bundle)
  /\ pc \in Uninstalling => (Recorded(bundle) <=> pc # "recordUninstalled")
  /\ pc \in Uninstalling \ {"uninstalling"} =>
       ~Installed(bundle) /\ code[bundle] = None /\ bundle \notin codeDir

Steady == StepsInPhase /\ OperationInStep /\ \A x \in Bundles : Rests(x)

-----------------------------------------------------------------------------
(* The uid maps and the uid list.                                          *)

(* The uid of x: that of its record, or the one its install has taken.     *)
OwnUid(x) == IF bundle = x /\ pc \in FromRecord THEN uid ELSE record[x].uid

(* A bundle that has a uid holds it in the maps, and no bundle holds       *)
(* another, but for the one that UninstallDone will give back.             *)
UidsHeld ==
  /\ \A s \in Styles : \A i \in DOMAIN uidMap[s] :
       /\ i \in Indexes
       /\ \/ OwnUid(uidMap[s][i]) = Base(s) + i
          \/ pc = "recordUninstalled" /\ bundle = uidMap[s][i]
  /\ \A s, t \in Styles : \A i \in DOMAIN uidMap[s], j \in DOMAIN uidMap[t] :
       uidMap[s][i] = uidMap[t][j] => s = t /\ i = j
  /\ \A x \in Bundles : OwnUid(x) # InvalidUid =>
       \E s \in Styles : \E i \in DOMAIN uidMap[s] :
         uidMap[s][i] = x /\ OwnUid(x) = Base(s) + i

(* The entries of x: one with uid u, or none when u is invalid.            *)
EntryIs(entries, x, u) ==
  /\ \A k \in DOMAIN entries :
       entries[k].name = x => entries[k].uid = u /\ u # InvalidUid
  /\ \A k, l \in DOMAIN entries : entries[k].name = x /\ entries[l].name = x => k = l
  /\ u # InvalidUid => \E k \in DOMAIN entries : entries[k].name = x

(* The uid list, which is on disk but while it is being replaced.          *)
UidList == IF pc \in {"uidRenaming", "droppingEntry"} THEN tmpUidFile ELSE uidFile

ListedUid(x) ==
  IF bundle = x /\ pc \in {"uidRenaming", "recordRename", "recordRenaming", "thirdSystem"}
    THEN uid
  ELSE IF bundle = x /\ pc \in {"droppingEntry", "dropRecord", "recordUninstalled"}
    THEN InvalidUid
  ELSE record[x].uid

UidsListed ==
  /\ \A x \in Bundles : EntryIs(UidList, x, ListedUid(x))
  /\ pc = "uidRename" => tmpUidFile = ConvertUidAndGidToJson(uidFile, bundle, uid)

-----------------------------------------------------------------------------
(* The two lists of vendor bundles.                                        *)

(* Only what InstallDone has entered in the one list is ever entered in    *)
(* the other, and a bundle of the system partition in neither.             *)
ListsNested ==
  /\ thirdSystem \subseteq Bundles /\ uninstalled \subseteq thirdSystem
  /\ \A x \in uninstalled : Home[x] # "SYSTEM"

(* A vendor bundle that is in neither list has not been installed yet, and *)
(* the scan sees to it; one that was uninstalled is in both.               *)
VendorListed(x) ==
  Home[x] = "THIRD_SYSTEM" =>
    /\ x \notin thirdSystem =>
         /\ \/ phase = "SYSTEM"
            \/ phase = "THIRD_SYSTEM" /\ x \in toScan
            \/ phase = "THIRD_SYSTEM" /\ bundle = x /\ pc \in InstallSteps
         /\ Recorded(x) \/ Installed(x) => bundle = x /\ pc \in FromUidTmp
    /\ x \in thirdSystem \ uninstalled =>
         Recorded(x) \/ (bundle = x /\ pc \in {"recordRenaming", "recordUninstalled"})

(* A bundle that was told to be removed is in no partition the scan would  *)
(* install it from, and has no record.                                     *)
GoneStays(x) ==
  x \in gone =>
    /\ Home[x] # "SYSTEM" /\ ~Recorded(x)
    /\ Home[x] = "THIRD_SYSTEM" => x \in uninstalled
    /\ bundle = x => pc \in {"idle", "uninstall"}

(* What a partition holds is signed for one application, and so is what is *)
(* installed, until an uninstall lets another signer in.                   *)
OneSigner(x) ==
  Home[x] # "THIRD" /\ x \notin uninstalled =>
    /\ Recorded(x) => record[x].app = PreInstalledApp
    /\ bundle = x /\ pc \in InstallSteps => hap.app = PreInstalledApp

ReloadedSigner ==
  pc = "reloaded" /\ phase # "THIRD" =>
    bundle \notin uninstalled /\ hap.app = PreInstalledApp

VendorsKept ==
  /\ ListsNested /\ ReloadedSigner
  /\ \A x \in Bundles : VendorListed(x) /\ GoneStays(x) /\ OneSigner(x)

-----------------------------------------------------------------------------
(* All of it, with what BundleInstallerProofs has of the system partition. *)
RebootInv == SystemKept /\ Steady /\ UidsHeld /\ UidsListed /\ VendorsKept

(* Between operations the map, once the scan is done, tells what the       *)
(* records do.                                                             *)
LEMMA RestAtReady ==
  ASSUME TypeOK, Steady, NEW x \in Bundles, phase = "ready",
         pc \in {"idle", "uninstall"} \/ bundle # x
  PROVE  AtRest(x) /\ Matches(x)
BY DEF Steady, Rests, AtRest, ToCome, FromExtracting, FromUid, FromRecord, FromPublish,
       FromUidTmp, Uninstalling

(* A bundle is installed exactly if it has a record, where the two match.  *)
LEMMA InstalledIsRecorded ==
  ASSUME TypeOK, NEW x \in Bundles, Rests(x), Matches(x)
  PROVE  /\ Installed(x) <=> Recorded(x)
         /\ ~Recorded(x) => record[x].uid = InvalidUid
BY DEF Rests, Matches, Recorded, Installed, NoRecord

(* Nothing is refused.                                                     *)
LEMMA NothingRefused ==
  ASSUME TypeOK, Steady, pc = "check"
  PROVE  ~Refused(hap)
<1>1. bundle \in Bundles /\ hap.ver \in Nat /\ record[bundle] \in Records
  BY InstallerAssumption DEF TypeOK, bundle, Haps
<1>2. Matches(bundle) /\ Rests(bundle)
  BY <1>1 DEF Steady, OperationInStep, BeforePublish, InstallSteps, FromUidTmp
<1>3. Recorded(bundle) => hap.ver >= record[bundle].ver /\ hap.app = record[bundle].app
  BY DEF Steady, OperationInStep, InstallSteps
<1>4. record[bundle].ver \in Nat
  <2>1. record[bundle].ver \in Versions \cup {None}
    BY <1>1 DEF Records
  <2>2. Versions \subseteq Nat /\ None \in Nat
    BY InstallerAssumption DEF None
  <2> QED
    BY <2>1, <2>2
<1>5. QED
  BY <1>1, <1>2, <1>3, <1>4, InstalledIsRecorded DEF Refused, Matches, bundle

-----------------------------------------------------------------------------
(* What the two functions that write the uid list do to it.                *)

(* ConvertUidAndGidToJson enters the uid of one bundle.                    *)
LEMMA ConvertEnters ==
  ASSUME NEW entries \in UidLists, NEW x \in Bundles, NEW u \in Nat, NEW v,
         EntryIs(entries, x, v), v \in {u, InvalidUid}
  PROVE  LET new == ConvertUidAndGidToJson(entries, x, u)
         IN  /\ EntryIs(new, x, u)
             /\ \A y \in Bundles \ {x} : \A w : EntryIs(entries, y, w) => EntryIs(new, y, w)
<1> DEFINE e == [name |-> x, uid |-> u]
           new == Append(entries, e)
<1>0. u # InvalidUid
  BY DEF InvalidUid
<1>1. CASE \E k \in DOMAIN entries : entries[k].name = x
  BY <1>1 DEF ConvertUidAndGidToJson, EntryIs
<1>2. CASE ~\E k \in DOMAIN entries : entries[k].name = x
  <2>1. ConvertUidAndGidToJson(entries, x, u) = new
    BY <1>2 DEF ConvertUidAndGidToJson
  <2>2. entries \in Seq([name : Bundles, uid : Uids]) /\ e \in [name : Bundles, uid : Uids]
    BY DEF UidLists, Uids
  <2>3. /\ DOMAIN new = 1 .. Len(entries) + 1 /\ DOMAIN entries = 1 .. Len(entries)
        /\ Len(entries) \in Nat
        /\ \A k \in DOMAIN entries : new[k] = entries[k]
        /\ new[Len(entries) + 1] = e
    BY <2>2, AppendProperties, LenProperties
  <2> HIDE DEF new
  <2>4. e.name = x /\ e.uid = u
    OBVIOUS
  <2> HIDE DEF e
  <2>5. EntryIs(new, x, u)
    BY <1>0, <1>2, <2>3, <2>4 DEF EntryIs
  <2>6. ASSUME NEW y \in Bundles \ {x}, NEW w, EntryIs(entries, y, w)
        PROVE  EntryIs(new, y, w)
    BY <2>3, <2>4, <2>6 DEF EntryIs
  <2> QED
    BY <2>1, <2>5, <2>6
<1>3. QED
  BY <1>1, <1>2

(* DeleteInnerUidInfoFromUidArray takes away the one entry of a bundle.    *)
LEMMA DeleteDrops ==
  ASSUME NEW entries \in UidLists, NEW x \in Bundles, NEW v, EntryIs(entries, x, v)
  PROVE  LET new == DeleteEntry(entries, x)
         IN  /\ EntryIs(new, x, InvalidUid)
             /\ \A y \in Bundles \ {x} : \A w : EntryIs(entries, y, w) => EntryIs(new, y, w)
<1> DEFINE found == {k \in DOMAIN entries : entries[k].name = x}
           new == RemoveAt(entries, Min(found))
<1>1. CASE found = {}
  BY <1>1 DEF DeleteEntry, EntryIs
<1>2. CASE found # {}
  <2>0. entries \in Seq([name : Bundles, uid : Uids])
    BY DEF UidLists
  <2>1. DOMAIN entries = 1 .. Len(entries) /\ Len(entries) \in Nat
    BY EntriesType
  <2>2. found \subseteq 1 .. Len(entries)
    BY <2>1
  <2>3. Min(found) \in found
    BY <1>2, <2>1, <2>2, FirstIndex
  <2>4. DeleteEntry(entries, x) = new
    BY <1>2 DEF DeleteEntry
  <2>5. PICK m \in 1 .. Len(entries) : m = Min(found) /\ entries[m].name = x
    BY <2>1, <2>3
  <2>6. /\ Len(new) = Len(entries) - 1
        /\ \A j \in 1 .. Len(entries) - 1 :
             new[j] = IF j < m THEN entries[j] ELSE entries[j + 1]
    BY <2>0, <2>5, RemoveAtItems
  <2>7. DOMAIN new = 1 .. Len(entries) - 1
    <3>1. new \in Seq([name : Bundles, uid : Uids])
      BY <2>0, <2>5, RemoveAtType
    <3> QED
      BY <2>6, <3>1, LenProperties
  <2> HIDE DEF new, found
  <2>8. \A j \in DOMAIN new : \E k \in DOMAIN entries :
          /\ k # m /\ new[j] = entries[k]
          /\ k = j \/ k = j + 1
          /\ k = j <=> j < m
    BY <2>1, <2>5, <2>6, <2>7
  <2>9. \A k \in DOMAIN entries : k # m => \E j \in DOMAIN new : new[j] = entries[k]
    <3> SUFFICES ASSUME NEW k \in DOMAIN entries, k # m
                 PROVE  \E j \in DOMAIN new : new[j] = entries[k]
      OBVIOUS
    <3>1. CASE k < m
      <4>1. k \in DOMAIN new /\ new[k] = entries[k]
        BY <2>1, <2>5, <2>6, <2>7, <3>1
      <4> QED
        BY <4>1
    <3>2. CASE k > m
      <4>1. k - 1 \in DOMAIN new /\ new[k - 1] = entries[k]
        BY <2>1, <2>5, <2>6, <2>7, <3>2
      <4> QED
        BY <4>1
    <3> QED
      BY <2>1, <2>5, <3>1, <3>2
  <2>10. EntryIs(new, x, InvalidUid)
    <3>1. \A j \in DOMAIN new : new[j].name # x
      BY <2>1, <2>5, <2>8 DEF EntryIs
    <3> QED
      BY <3>1 DEF EntryIs
  <2>11. ASSUME NEW y \in Bundles \ {x}, NEW w, EntryIs(entries, y, w)
         PROVE  EntryIs(new, y, w)
    <3>1. \A k \in DOMAIN new : new[k].name = y => new[k].uid = w /\ w # InvalidUid
      BY <2>8, <2>11 DEF EntryIs
    <3>2. ASSUME NEW k \in DOMAIN new, NEW l \in DOMAIN new, new[k].name = y, new[l].name = y
          PROVE  k = l
      <4>1. PICK p \in DOMAIN entries : /\ new[k] = entries[p] /\ (p = k \/ p = k + 1)
                                        /\ p = k <=> k < m
        BY <2>8
      <4>2. PICK q \in DOMAIN entries : /\ new[l] = entries[q] /\ (q = l \/ q = l + 1)
                                        /\ q = l <=> l < m
        BY <2>8
      <4>3. p = q
        BY <2>11, <3>2, <4>1, <4>2 DEF EntryIs
      <4> QED
        BY <2>1, <2>5, <2>7, <4>1, <4>2, <4>3
    <3>3. w # InvalidUid => \E k \in DOMAIN new : new[k].name = y
      BY <2>5, <2>9, <2>11 DEF EntryIs
    <3> QED
      BY <3>1, <3>2, <3>3 DEF EntryIs
  <2> QED
    BY <2>4, <2>10, <2>11
<1>3. QED
  BY <1>1, <1>2

-----------------------------------------------------------------------------
(* The map, the records and the directories stay in step.                  *)

(* A step of an operation on another bundle.                               *)
LEMMA RestsOther ==
  ASSUME NEW x \in Bundles, Rests(x), bundle # x, SameFor(x), UNCHANGED boot,
         bundle' = bundle \/ pc' = "idle"
  PROVE  Rests(x)'
BY DEF Rests, AtRest, Matches, Recorded, Installed, ToCome, SameFor, boot

(* No operation or reboot leads out of Steady.                             *)
LEMMA SteadyStep ==
  ASSUME OnlyReboots, TypeOK, TypeOK', InstallProgress, ScansOwnPartition, RebootInv, UidsLeft,
         [Next]_vars
  PROVE  Steady'
<1> USE NullTypes
    DEF Goto, memory, codeDisk, jsonDisk, disk, task, boot, told, budget,
        FromUidTmp, FromPublish, FromRecord, FromUid, FromExtracting, InstallSteps,
        BeforePublish, Uninstalling
<1>t. /\ bundle \in Bundles /\ hap \in Haps
      /\ code \in [Bundles -> Trees \cup {None}] /\ junk \in [Bundles -> SUBSET Trees]
      /\ data \in [Bundles -> Nat \cup {NoData}]
      /\ record \in [Bundles -> Records] /\ bundleMap \in [Bundles -> Infos]
      /\ codeDir \subseteq Bundles /\ hap.ver \in Versions
  BY DEF TypeOK, bundle, Haps
<1>v. Versions \subseteq Nat \ {0} /\ None = 0 /\ Partial = -1 /\ InvalidUid = -1
  BY InstallerAssumption DEF None, Partial, InvalidUid
<1>w. \A v \in Versions \cup {None} : v \in Nat
  BY InstallerAssumption DEF None
<1>m. ~MayFail /\ ~Crash /\ ~PowerLoss
  BY DEF OnlyReboots, MayFail, Crash, PowerLoss
<1>i. /\ Steady /\ \A x \in Bundles : Rests(x)
      /\ failures = 0
  BY DEF RebootInv, Steady, StepsInPhase
<1>s. pc \in {"idle", "uninstall", "reloaded"} \cup InstallSteps \cup Uninstalling
  BY <1>i DEF Steady, StepsInPhase
<1>r. pc = "check" => ~Refused(hap)
  BY <1>i, NothingRefused
<1>u. pc = "dropEntry" => uidFile # <<>>
  BY <1>i, <1>t
     DEF RebootInv, UidsListed, UidList, ListedUid, EntryIs, Steady, OperationInStep,
                    Rests
<1>0. CASE UNCHANGED vars
  BY <1>0, <1>i
     DEF vars, Rests, AtRest, Matches, Recorded, Installed, ToCome, StepsInPhase,
         OperationInStep, Steady, bundle
<1>2. ASSUME NEW z \in Bundles, Operation, z # bundle PROVE Rests(z)'
  BY <1>2, <1>i, OperationKeepsOthers, RestsOther
<1>3. ASSUME NEW z \in Bundles, Install, z = bundle
      PROVE  StepsInPhase' /\ OperationInStep' /\ Rests(z)'
  <2>1. CASE BadHap
    BY <1>t, <1>v, <1>m, <1>i, <1>3, <2>1
       DEF BadHap, End, Rests, AtRest, Matches, Recorded, Installed, ToCome, StepsInPhase,
           OperationInStep, Steady, bundle
  <2>2. CASE Refuse
    BY <1>r, <2>2 DEF Refuse
  <2>3. CASE Accept
    BY <1>t, <1>v, <1>m, <1>i, <1>3, <2>3
       DEF Accept, Rests, AtRest, Matches, Recorded, Installed, ToCome, StepsInPhase,
           OperationInStep, Steady, bundle
  <2>4. CASE ExtractBegin
    BY <1>t, <1>v, <1>m, <1>i, <1>3, <2>4
       DEF ExtractBegin, Rests, AtRest, Matches, Recorded, Installed, ToCome, StepsInPhase,
           OperationInStep, Steady, bundle
  <2>5. CASE ExtractEnd
    BY <1>t, <1>v, <1>m, <1>i, <1>3, <2>5
       DEF ExtractEnd, Rests, AtRest, Matches, Recorded, Installed, ToCome, StepsInPhase,
           OperationInStep, Steady, bundle
  <2>6. CASE ExtractFails
    BY <1>m, <2>6 DEF ExtractFails
  <2>7. CASE RenameCodeBegin
    BY <1>t, <1>v, <1>m, <1>i, <1>3, <2>7
       DEF RenameCodeBegin, Remains, Rests, AtRest, Matches, Recorded, Installed, ToCome,
           StepsInPhase, OperationInStep, Steady, bundle
  <2>8. CASE RenameCodeEnd
    BY <1>t, <1>v, <1>m, <1>i, <1>3, <2>8
       DEF RenameCodeEnd, Rests, AtRest, Matches, Recorded, Installed, ToCome,
           StepsInPhase, OperationInStep, Steady, bundle
  <2>9. CASE RenameCodeFails
    BY <1>m, <2>9 DEF RenameCodeFails
  <2>10. CASE AssignUid
    <3>0. /\ UNCHANGED <<bundleMap, record, codeDisk, hap, boot, failures>>
          /\ pc = "uid" /\ pc' = "record" /\ bundle' = bundle
      BY <2>10 DEF AssignUid, bundle
    <3>1. Matches(z) /\ Rests(z) /\ (Recorded(z) => data[z] = record[z].uid)
      BY <1>i, <1>3, <3>0 DEF Steady, OperationInStep
    <3>2. /\ uid' # InvalidUid /\ data'[z] = uid'
          /\ Recorded(z) => uid' = record[z].uid
      <4>1. CASE Installed(z)
        BY <1>3, <2>10, <3>1, <4>1, InstalledIsRecorded DEF AssignUid, Matches, Rests
      <4>2. CASE ~Installed(z)
        <5>1. uid' = Base(hap.style) + NewIndex(uidMap[hap.style])
          BY <1>3, <2>10, <4>2 DEF AssignUid, UidsLeft, GenerateInnerUid
        <5>2. hap.style \in Styles /\ IsIndexMap(uidMap[hap.style], Base(hap.style))
          BY <1>t DEF Haps, TypeOK, AreUidMaps
        <5>3. uid' \in Nat
          BY <5>1, <5>2, BaseType, NewIndexInRange
        <5>4. data'[z] = uid'
          BY <1>t, <1>v, <1>3, <2>10, <4>2, <5>3 DEF AssignUid, OwnData
        <5> QED
          BY <1>v, <3>1, <4>2, <5>3, <5>4, InstalledIsRecorded
      <4> QED
        BY <4>1, <4>2
    <3> QED
      BY <1>v, <1>i, <1>3, <3>0, <3>1, <3>2
         DEF Rests, AtRest, Matches, Recorded, Installed, ToCome, StepsInPhase,
             OperationInStep, Steady, bundle
  <2>11. CASE CreateDataFails
    BY <1>m, <2>11 DEF CreateDataFails
  <2>12. CASE BackUpInstallRecord
    BY <1>t, <1>v, <1>m, <1>i, <1>3, <2>12
       DEF BackUpInstallRecord, Rests, AtRest, Matches, Recorded, Installed, ToCome,
           StepsInPhase, OperationInStep, Steady, bundle
  <2>13. CASE BackUpRecordFails
    BY <1>m, <2>13 DEF BackUpRecordFails
  <2>14. CASE UpdateBundleInfo
    BY <1>t, <1>v, <1>m, <1>i, <1>3, <2>14
       DEF UpdateBundleInfo, InstallProgress, Rests, AtRest, Matches, Recorded, Installed,
           ToCome, StepsInPhase, OperationInStep, Steady, bundle
  <2>15. CASE UpdateBundleInfoFails
    BY <1>m, <2>15 DEF UpdateBundleInfoFails
  <2>16. CASE BackUpUidAndGidInfo
    BY <1>t, <1>v, <1>m, <1>i, <1>3, <2>16
       DEF BackUpUidAndGidInfo, Rests, AtRest, Matches, Recorded, Installed, ToCome,
           StepsInPhase, OperationInStep, Steady, bundle
  <2>17. CASE RenameUidFileBegin
    BY <1>t, <1>v, <1>m, <1>i, <1>3, <2>17
       DEF RenameUidFileBegin, Rests, AtRest, Matches, Recorded, Installed, ToCome,
           StepsInPhase, OperationInStep, Steady, bundle
  <2>18. CASE RenameUidFileEnd
    BY <1>t, <1>v, <1>m, <1>i, <1>3, <2>18
       DEF RenameUidFileEnd, Rests, AtRest, Matches, Recorded, Installed, ToCome,
           StepsInPhase, OperationInStep, Steady, bundle
  <2>19. CASE RenameRecordBegin
    BY <1>t, <1>v, <1>m, <1>i, <1>3, <2>19
       DEF RenameRecordBegin, Rests, AtRest, Matches, Recorded, Installed, ToCome,
           StepsInPhase, OperationInStep, Steady, bundle
  <2>20. CASE RenameRecordEnd
    <3>1. /\ tmpRecord = [ver |-> hap.ver, uid |-> uid, app |-> hap.app]
          /\ bundleMap[z].ver = hap.ver /\ bundleMap[z].uid = uid /\ bundleMap[z].app = hap.app
          /\ uid # InvalidUid /\ data[z] = uid /\ code[z] = hap.ver /\ z \in codeDir
      BY <1>i, <1>3, <2>20 DEF RenameRecordEnd, InstallProgress, Steady, OperationInStep
    <3>2. /\ record'[z] = tmpRecord /\ pc = "recordRenaming" /\ pc' = "thirdSystem"
          /\ bundle' = bundle
          /\ UNCHANGED <<bundleMap, codeDisk, data, hap, uid, boot, failures>>
      BY <1>t, <1>3, <2>20 DEF RenameRecordEnd, bundle
    <3>3. /\ record'[z].ver = hap.ver /\ record'[z].uid = uid /\ record'[z].app = hap.app
          /\ hap.ver \in Nat
      <4>1. record'[z] = [ver |-> hap.ver, uid |-> uid, app |-> hap.app]
        BY <3>1, <3>2
      <4>2. hap.ver \in Nat
        BY <1>t, <1>v
      <4> QED
        BY <4>1, <4>2
    <3>4. Rests(z) /\ pc' # "idle" /\ hap.ver # None
      BY <1>t, <1>v, <1>i, <1>3, <3>2
    <3>5. Rests(z)'
      BY <1>3, <3>1, <3>2, <3>3, <3>4 DEF Rests, Recorded, Installed
    <3>6. OperationInStep'
      BY <1>3, <3>1, <3>2, <3>3 DEF OperationInStep, Recorded
    <3> QED
      BY <1>i, <3>2, <3>5, <3>6 DEF StepsInPhase, Steady
  <2>21. CASE BackUpFails
    BY <1>m, <2>21 DEF BackUpFails
  <2>22. CASE InstallDone
    <3>1. /\ record[z] = [ver |-> hap.ver, uid |-> uid, app |-> hap.app]
          /\ bundleMap[z].ver = hap.ver /\ bundleMap[z].uid = uid /\ bundleMap[z].app = hap.app
          /\ uid # InvalidUid /\ data[z] = uid /\ code[z] = hap.ver /\ z \in codeDir
      BY <1>i, <1>3, <2>22 DEF InstallDone, InstallProgress, Steady, OperationInStep
    <3>2. /\ pc = "thirdSystem" /\ pc' = "idle"
          /\ UNCHANGED <<bundleMap, codeDisk, data, record, boot, failures>>
      BY <1>m, <2>22 DEF InstallDone, End
    <3>3. Matches(z) /\ Recorded(z) /\ Installed(z)
      BY <1>t, <1>v, <3>1 DEF Matches, Recorded, NoRecord, Installed
    <3>4. record[z].ver = hap.ver /\ record[z].uid = uid /\ hap.ver # None
      BY <1>t, <1>v, <3>1
    <3>5. AtRest(z)'
      BY <3>1, <3>2, <3>3, <3>4 DEF AtRest, Matches, Recorded
    <3> QED
      BY <1>v, <1>i, <1>3, <3>1, <3>2, <3>3, <3>4, <3>5
         DEF Rests, Installed, Recorded, StepsInPhase, OperationInStep, Steady
  <2>23. CASE Rollback
    BY <1>s, <2>23 DEF Rollback
  <2>24. CASE RollbackDone
    BY <1>s, <2>24 DEF RollbackDone
  <2>25. CASE ClearDone
    BY <1>s, <2>25 DEF ClearDone
  <2> QED
    BY <1>3, <2>1, <2>2, <2>3, <2>4, <2>5, <2>6, <2>7, <2>8, <2>9, <2>10, <2>11, <2>12,
       <2>13, <2>14, <2>15, <2>16, <2>17, <2>18, <2>19, <2>20, <2>21, <2>22, <2>23, <2>24,
       <2>25
       DEF Install
<1>4. ASSUME NEW z \in Bundles, Uninstall, z = bundle
      PROVE  StepsInPhase' /\ OperationInStep' /\ Rests(z)'
  <2>1. CASE RefuseUninstall
    BY <1>t, <1>v, <1>m, <1>i, <1>4, <2>1
       DEF RefuseUninstall, End, Rests, AtRest, Matches, Recorded, Installed, ToCome,
           StepsInPhase, OperationInStep, Steady, bundle
  <2>2. CASE RemoveDirsBegin
    <3>1. pc = "uninstall" /\ pc' = "uninstalling" /\ Installed(z) /\ phase = "ready"
      BY <1>s, <1>i, <1>4, <2>2 DEF RemoveDirsBegin, DirsRemoval, Steady, StepsInPhase
    <3>2. /\ UNCHANGED <<bundleMap, record, hap, boot, failures, bundle>>
      BY <2>2 DEF RemoveDirsBegin, bundle
    <3>3. Matches(z) /\ Rests(z) /\ Recorded(z)
      BY <1>i, <3>1, RestAtReady, InstalledIsRecorded
    <3>4. junk'[z] = {}
      BY <1>t, <1>4, <2>2, <3>3
         DEF RemoveDirsBegin, CodeRemoved, RemainsOfAll, Rests
    <3> QED
      BY <1>v, <1>i, <1>4, <3>1, <3>2, <3>3, <3>4
         DEF Rests, AtRest, Matches, Recorded, Installed, ToCome, StepsInPhase,
             OperationInStep, Steady, bundle
  <2>3. CASE UninstallDirs
    <3>1. /\ pc = "uninstalling" /\ pc' = "permissions" /\ bundleMap'[z] = NoInfo
          /\ UNCHANGED <<record, hap, boot, failures, bundle>>
          /\ code'[z] = None /\ junk'[z] = {} /\ z \notin codeDir'
      BY <1>t, <1>m, <1>4, <2>3
         DEF UninstallDirs, DirsRemoved, DirsLeft, CodeRemoved, RemoveBundleInfo, bundle
    <3>2. Recorded(z) /\ Rests(z) /\ phase = "ready"
      BY <1>i, <1>4, <3>1 DEF Steady, OperationInStep, StepsInPhase
    <3>3. NoInfo.ver = None
      BY DEF NoInfo
    <3> QED
      BY <1>v, <1>i, <1>4, <3>1, <3>2, <3>3
         DEF Rests, Recorded, Installed, StepsInPhase, OperationInStep
  <2>4. CASE DeletePermissions
    BY <1>t, <1>v, <1>m, <1>i, <1>4, <2>4
       DEF DeletePermissions, Rests, AtRest, Matches, Recorded, Installed, ToCome,
           StepsInPhase, OperationInStep, Steady, bundle
  <2>5. CASE NoUidFile
    BY <1>u, <2>5 DEF NoUidFile
  <2>6. CASE DropEntryBegin
    BY <1>t, <1>v, <1>m, <1>i, <1>4, <2>6
       DEF DropEntryBegin, Rests, AtRest, Matches, Recorded, Installed, ToCome,
           StepsInPhase, OperationInStep, Steady, bundle
  <2>7. CASE DropEntryEnd
    BY <1>t, <1>v, <1>m, <1>i, <1>4, <2>7
       DEF DropEntryEnd, Rests, AtRest, Matches, Recorded, Installed, ToCome, StepsInPhase,
           OperationInStep, Steady, bundle
  <2>8. CASE DropRecord
    BY <1>t, <1>v, <1>m, <1>i, <1>4, <2>8
       DEF DropRecord, End, Rests, AtRest, Matches, Recorded, Installed, ToCome,
           StepsInPhase, OperationInStep, Steady, bundle
  <2>9. CASE UninstallFails
    BY <1>m, <2>9 DEF UninstallFails
  <2>10. CASE UninstallDone
    <3>1. /\ pc = "recordUninstalled" /\ pc' = "idle"
          /\ UNCHANGED <<bundleMap, record, codeDisk, boot, failures>>
      BY <1>m, <2>10 DEF UninstallDone, End
    <3>2. /\ ~Recorded(z) /\ Rests(z) /\ ~Installed(z) /\ code[z] = None /\ z \notin codeDir
      BY <1>i, <1>4, <3>1 DEF Steady, OperationInStep
    <3>3. AtRest(z)'
      BY <3>1, <3>2 DEF AtRest, Matches, Recorded, Rests, NoInfo, NoRecord
    <3> QED
      BY <1>v, <1>i, <3>1, <3>2, <3>3
         DEF Rests, Recorded, Installed, StepsInPhase, OperationInStep, Steady
  <2> QED
    BY <1>4, <2>1, <2>2, <2>3, <2>4, <2>5, <2>6, <2>7, <2>8, <2>9, <2>10 DEF Uninstall
<1>10. CASE Reboot
  BY <1>10, <1>t, <1>i
     DEF Reboot, Start, Idle, Rests, AtRest, Matches, Recorded, Installed, ToCome,
         StepsInPhase, OperationInStep, Steady, bundle, NoInfo
<1>5. ASSUME NEW z \in Bundles, Reloaded, z = bundle
      PROVE  StepsInPhase' /\ OperationInStep' /\ Rests(z)'
  <2>1. /\ Rests(z) /\ Matches(z) /\ AtRest(z) /\ pc = "reloaded"
        /\ UNCHANGED <<bundleMap, record, codeDisk, data, boot, failures>>
    BY <1>i, <1>5 DEF Reloaded, Steady, OperationInStep, Rests
  <2>2. CASE phase # "THIRD" /\ hap.ver > record[z].ver
    <3>1. pc' = "check" /\ hap' = hap /\ bundle' = bundle
      BY <1>5, <2>2 DEF Reloaded, bundle
    <3>2. Recorded(z) => hap.app = record[z].app
      BY <1>5, <2>1, <2>2
         DEF RebootInv, VendorsKept, ReloadedSigner, OneSigner, Steady, StepsInPhase,
             Styles
    <3>3. hap.ver >= record[z].ver
      <4>1. record[z].ver \in Versions \cup {None}
        BY <1>t DEF Records
      <4> QED
        BY <1>t, <1>w, <2>2, <4>1
    <3>4. Rests(z)'
      BY <2>1, <3>1 DEF Rests, AtRest, Matches, Recorded, Installed, ToCome
    <3>5. OperationInStep'
      BY <1>5, <2>1, <3>1, <3>2, <3>3 DEF OperationInStep, Matches, Recorded
    <3> QED
      BY <1>i, <1>5, <2>1, <2>2, <3>1, <3>4, <3>5 DEF StepsInPhase, Steady
  <2>3. CASE ~(phase # "THIRD" /\ hap.ver > record[z].ver)
    <3>1. pc' = "idle"
      BY <1>5, <2>3 DEF Reloaded, End
    <3> QED
      BY <1>v, <1>i, <2>1, <3>1
         DEF Rests, AtRest, Matches, Recorded, Installed, ToCome, StepsInPhase,
             OperationInStep, Steady, bundle
  <2> QED
    BY <2>2, <2>3
<1>6. ~Purge
  BY <1>s DEF Purge
<1>7. CASE ScanDone
  <2>1. /\ pc = "idle" /\ pc' = "idle" /\ phase \in Styles /\ toScan = {}
        /\ UNCHANGED <<bundleMap, record, codeDisk, data, failures>>
        /\ phase' = NextPhase[phase]
        /\ phase' = "THIRD" => toScan' = codeDir
    BY <1>7 DEF ScanDone, Scanning, InDirectory
  <2>2. ASSUME NEW x \in Bundles PROVE Rests(x)'
    <3>1. Rests(x) /\ AtRest(x)
      BY <1>i, <2>1 DEF Rests
    <3>2. ~Recorded(x) /\ ~Installed(x) => Matches(x)
      BY <3>1 DEF Rests, Recorded, Matches, NoInfo, NoRecord
    <3>3. AtRest(x)'
      BY <2>1, <3>1, <3>2
         DEF AtRest, Matches, Recorded, Installed, ToCome, NextPhase, Styles
    <3> QED
      BY <2>1, <3>1, <3>3 DEF Rests, Recorded, Installed
  <2> QED
    BY <1>i, <2>1, <2>2 DEF StepsInPhase, OperationInStep, Steady
<1>8. ASSUME NEW y \in Bundles, Skip(y) PROVE Steady'
  <2>1. /\ pc = "idle" /\ pc' = "idle" /\ phase' = phase /\ toScan' = toScan \ {y}
        /\ UNCHANGED <<bundleMap, record, codeDisk, data, failures>>
    BY <1>8 DEF Skip, Scanning
  <2>2. ASSUME NEW x \in Bundles PROVE Rests(x)'
    <3>1. Rests(x) /\ AtRest(x)
      BY <1>i, <2>1 DEF Rests
    <3>2. ~Recorded(x) /\ ~Installed(x) => Matches(x)
      BY <3>1 DEF Rests, Recorded, Matches, NoInfo, NoRecord
    <3>3. x = y /\ phase = "THIRD" => Installed(x) \/ ~Recorded(x)
      BY <1>8, <3>1 DEF Skip, Skipped, ValidRecord, AtRest, Recorded
    <3>4. AtRest(x)'
      BY <2>1, <3>1, <3>2, <3>3 DEF AtRest, Matches, Recorded, Installed, ToCome
    <3> QED
      BY <2>1, <3>1, <3>4 DEF Rests, Recorded, Installed
  <2> QED
    BY <1>i, <2>1, <2>2 DEF StepsInPhase, OperationInStep, Steady
<1>9. ASSUME NEW y \in Bundles, ScanBundle(y) PROVE Steady'
  <2>1. /\ pc = "idle" /\ phase' = phase /\ phase \in Styles /\ toScan' = toScan \ {y}
        /\ UNCHANGED <<record, codeDisk, data, failures>> /\ y \in toScan
        /\ ~Installed(y) /\ bundle' = y
        /\ phase # "THIRD" => hap' = PreInstalled(y) /\ Home[y] = phase
        /\ phase = "THIRD" => ValidRecord(y)
    BY <1>9, <1>t
       DEF ScanBundle, Scanning, Skipped, PreInstalled, ScansOwnPartition, bundle, Haps, Styles
  <2>2. /\ \A x \in Bundles \ {y} : bundleMap'[x] = bundleMap[x]
        /\ bundleMap' \in [Bundles -> Infos]
    BY <1>9, <1>t DEF ScanBundle, Reload, TypeOK
  <2>3. \A x \in Bundles : Rests(x) /\ AtRest(x)
    BY <1>i, <2>1 DEF Rests
  <2>4. ASSUME NEW x \in Bundles \ {y} PROVE Rests(x)'
    BY <2>1, <2>2, <2>3 DEF Rests, AtRest, Matches, Recorded, Installed, ToCome
  <2>5. ValidRecord(y) <=> Recorded(y)
    BY <2>3 DEF ValidRecord, Recorded, AtRest
  <2>6. CASE Recorded(y)
    <3>1. Profiles(y) = {record[y].ver} /\ record[y].ver \in Versions
      BY <1>t, <1>v, <2>3, <2>6 DEF Rests, AtRest, Profiles, Recorded, Records
    <3>2. ~Unreadable(y) /\ Reload(y) /\ pc' = "reloaded"
      BY <1>9, <1>v, <2>5, <2>6, <3>1 DEF ScanBundle, Unreadable
    <3>3. bundleMap' = [bundleMap EXCEPT ![y] =
            [ver |-> record[y].ver, uid |-> record[y].uid, app |-> record[y].app,
             sys |-> phase = "SYSTEM"]]
      BY <1>v, <2>3, <2>6, <3>1, <3>2 DEF Reload, Rests
    <3>4. /\ bundleMap'[y].ver = record[y].ver /\ bundleMap'[y].uid = record[y].uid
          /\ bundleMap'[y].app = record[y].app
      BY <1>t, <3>3
    <3>5. Matches(y)' /\ Installed(y)'
      BY <1>v, <2>1, <3>1, <3>4 DEF Matches, Installed
    <3>6. Rests(y)'
      BY <2>1, <2>3, <3>2, <3>5 DEF Rests, AtRest, Matches, Recorded, Installed
    <3>7. phase # "THIRD" => hap'.style = phase
      BY <2>1 DEF PreInstalled
    <3> QED
      BY <1>i, <2>1, <2>4, <3>2, <3>5, <3>6, <3>7 DEF StepsInPhase, OperationInStep, Steady
  <2>7. CASE ~Recorded(y)
    <3>1. pc' = "check" /\ UNCHANGED bundleMap /\ phase # "THIRD"
      BY <1>9, <2>1, <2>5, <2>7 DEF ScanBundle
    <3>2. Matches(y)' /\ Recorded(y)' = Recorded(y)
      BY <2>1, <2>3, <2>7, <3>1 DEF Rests, Recorded, Matches, NoInfo, NoRecord
    <3>3. Rests(y)'
      BY <2>1, <2>3, <3>1, <3>2 DEF Rests, AtRest, Matches, Recorded, Installed
    <3>4. hap'.style = phase /\ Home[bundle'] = phase
      BY <2>1, <3>1 DEF PreInstalled
    <3> QED
      BY <1>i, <2>1, <2>4, <2>7, <3>1, <3>2, <3>3, <3>4
         DEF StepsInPhase, OperationInStep, Steady
  <2> QED
    BY <2>6, <2>7
<1>11. ASSUME NEW h \in ClientHaps, ReceiveInstall(h) PROVE Steady'
  <2>1. /\ pc = "idle" /\ phase = "ready" /\ pc' = "check" /\ hap' = h
        /\ bundle' = h.name /\ ~Refused(h) /\ h.name \in Bundles /\ h \in Haps
        /\ UNCHANGED <<bundleMap, record, codeDisk, data, boot, failures>>
    BY <1>11 DEF OnlyReboots, ReceiveInstall, Idle, ClientHaps, Haps, bundle
  <2>2. \A x \in Bundles : Rests(x) /\ AtRest(x) /\ Matches(x)
    BY <1>i, <2>1, RestAtReady
  <2>3. ASSUME NEW x \in Bundles PROVE Rests(x)'
    BY <2>1, <2>2 DEF Rests, AtRest, Matches, Recorded, Installed, ToCome
  <2>4. Recorded(h.name) => /\ h.ver >= record[h.name].ver
                            /\ h.app = record[h.name].app
    <3>1. h.ver \in Nat /\ record[h.name].ver \in Nat
      <4>1. h.ver \in Versions /\ record[h.name].ver \in Versions \cup {None}
        BY <1>t, <2>1 DEF Haps, Records
      <4> QED
        BY <1>w, <4>1
    <3>2. Recorded(h.name) => Installed(h.name)
      BY <2>1, <2>2, InstalledIsRecorded
    <3> QED
      BY <2>1, <2>2, <3>1, <3>2 DEF Refused, Matches
  <2> QED
    BY <1>i, <2>1, <2>2, <2>3, <2>4
       DEF StepsInPhase, OperationInStep, Steady, Matches, Recorded
<1>12. ASSUME NEW x \in Bundles, NEW keep \in BOOLEAN, ReceiveUninstall(x, keep) PROVE Steady'
  <2>1. /\ pc = "idle" /\ phase = "ready" /\ pc' = "uninstall"
        /\ UNCHANGED <<bundleMap, record, codeDisk, data, boot, failures>>
    BY <1>12 DEF ReceiveUninstall, Idle
  <2>2. \A y \in Bundles : Rests(y) /\ AtRest(y) /\ Matches(y)
    BY <1>i, <2>1, RestAtReady
  <2>3. ASSUME NEW y \in Bundles PROVE Rests(y)'
    BY <2>1, <2>2 DEF Rests, AtRest, Matches, Recorded, Installed, ToCome
  <2> QED
    BY <1>i, <2>1, <2>3 DEF StepsInPhase, OperationInStep, Steady
<1>13. CASE Operation
  <2>1. PICK z \in Bundles : z = bundle
    BY <1>t
  <2>2. StepsInPhase' /\ OperationInStep' /\ Rests(z)'
    BY <1>3, <1>4, <1>5, <1>6, <1>13, <2>1 DEF Operation
  <2> QED
    BY <1>2, <1>13, <2>1, <2>2 DEF Steady
<1>14. QED
  BY <1>m, <1>0, <1>7, <1>8, <1>9, <1>10, <1>11, <1>12, <1>13
     DEF Next, Operation, Request, ScanPackages, Restart

-----------------------------------------------------------------------------
(* The uids.                                                               *)

(* The steps that neither give or take a uid nor rewrite the list.         *)
LEMMA UidsUnmoved ==
  ASSUME OnlyReboots, TypeOK, InstallProgress, RebootInv, Operation, NEW z \in Bundles,
         ~AssignUid, ~BackUpUidAndGidInfo, ~RenameUidFileBegin, ~DropEntryBegin, ~DropRecord,
         ~UninstallDone
  PROVE  /\ UNCHANGED uidMap /\ UidList' = UidList /\ pc' # "uidRename"
         /\ OwnUid(z)' = OwnUid(z) /\ ListedUid(z)' = ListedUid(z)
<1> USE NullTypes
    DEF Goto, memory, codeDisk, jsonDisk, disk, task, boot, told, budget,
        FromUidTmp, FromPublish, FromRecord, FromUid, FromExtracting, InstallSteps,
        BeforePublish, Uninstalling
<1>t. /\ bundle \in Bundles /\ hap \in Haps
      /\ code \in [Bundles -> Trees \cup {None}] /\ junk \in [Bundles -> SUBSET Trees]
      /\ data \in [Bundles -> Nat \cup {NoData}]
      /\ record \in [Bundles -> Records] /\ bundleMap \in [Bundles -> Infos]
      /\ codeDir \subseteq Bundles /\ hap.ver \in Versions
  BY DEF TypeOK, bundle, Haps
<1>v. Versions \subseteq Nat \ {0} /\ None = 0 /\ Partial = -1 /\ InvalidUid = -1
  BY InstallerAssumption DEF None, Partial, InvalidUid
<1>w. \A v \in Versions \cup {None} : v \in Nat
  BY InstallerAssumption DEF None
<1>m. ~MayFail /\ ~Crash /\ ~PowerLoss
  BY DEF OnlyReboots, MayFail, Crash, PowerLoss
<1>i. Steady /\ UidsListed /\ (\A x \in Bundles : Rests(x)) /\ StepsInPhase /\ OperationInStep
  BY DEF RebootInv, Steady
<1>s. pc \in {"idle", "uninstall", "reloaded"} \cup InstallSteps \cup Uninstalling
  BY <1>i DEF StepsInPhase
<1>r. pc = "check" => ~Refused(hap)
  BY <1>i, NothingRefused
<1>u. pc = "dropEntry" => uidFile # <<>>
  BY <1>i, <1>t DEF UidsListed, UidList, ListedUid, EntryIs, OperationInStep, Rests
<1>2. ASSUME z # bundle
      PROVE  OwnUid(z)' = OwnUid(z) /\ ListedUid(z)' = ListedUid(z)
  BY <1>2, OperationKeepsOthers DEF SameFor, OwnUid, ListedUid
<1> DEFINE Same == OwnUid(z)' = OwnUid(z) /\ ListedUid(z)' = ListedUid(z)
<1>3. ASSUME Install
      PROVE  /\ UNCHANGED uidMap /\ UidList' = UidList /\ pc' # "uidRename"
             /\ z = bundle => Same
  <2>1. CASE BadHap
    BY <1>t, <1>m, <1>i, <1>3, <2>1 DEF BadHap, End, OwnUid, UidList, ListedUid, bundle
  <2>2. CASE Refuse
    BY <1>r, <2>2 DEF Refuse
  <2>3. CASE Accept
    BY <1>t, <1>m, <1>i, <1>3, <2>3 DEF Accept, OwnUid, UidList, ListedUid, bundle
  <2>4. CASE ExtractBegin
    BY <1>t, <1>m, <1>i, <1>3, <2>4 DEF ExtractBegin, OwnUid, UidList, ListedUid, bundle
  <2>5. CASE ExtractEnd
    BY <1>t, <1>m, <1>i, <1>3, <2>5 DEF ExtractEnd, OwnUid, UidList, ListedUid, bundle
  <2>6. CASE ExtractFails
    BY <1>m, <2>6 DEF ExtractFails
  <2>7. CASE RenameCodeBegin
    BY <1>t, <1>m, <1>i, <1>3, <2>7 DEF RenameCodeBegin, OwnUid, UidList, ListedUid, bundle
  <2>8. CASE RenameCodeEnd
    BY <1>t, <1>m, <1>i, <1>3, <2>8 DEF RenameCodeEnd, OwnUid, UidList, ListedUid, bundle
  <2>9. CASE RenameCodeFails
    BY <1>m, <2>9 DEF RenameCodeFails
  <2>10. CASE AssignUid
    BY <2>10
  <2>11. CASE CreateDataFails
    BY <1>m, <2>11 DEF CreateDataFails
  <2>12. CASE BackUpInstallRecord
    BY <1>t, <1>m, <1>i, <1>3, <2>12
       DEF BackUpInstallRecord, OwnUid, UidList, ListedUid, bundle
  <2>13. CASE BackUpRecordFails
    BY <1>m, <2>13 DEF BackUpRecordFails
  <2>14. CASE UpdateBundleInfo
    BY <1>t, <1>m, <1>i, <1>3, <2>14
       DEF UpdateBundleInfo, OwnUid, UidList, ListedUid, bundle
  <2>15. CASE UpdateBundleInfoFails
    BY <1>m, <2>15 DEF UpdateBundleInfoFails
  <2>16. CASE BackUpUidAndGidInfo
    BY <2>16
  <2>17. CASE RenameUidFileBegin
    BY <2>17
  <2>18. CASE RenameUidFileEnd
    BY <1>t, <1>m, <1>i, <1>3, <2>18
       DEF RenameUidFileEnd, OwnUid, UidList, ListedUid, bundle
  <2>19. CASE RenameRecordBegin
    BY <1>t, <1>m, <1>i, <1>3, <2>19
       DEF RenameRecordBegin, OwnUid, UidList, ListedUid, bundle
  <2>20. CASE RenameRecordEnd
    BY <1>t, <1>m, <1>i, <1>3, <2>20
       DEF RenameRecordEnd, InstallProgress, OwnUid, UidList, ListedUid, bundle
  <2>21. CASE BackUpFails
    BY <1>m, <2>21 DEF BackUpFails
  <2>22. CASE InstallDone
    BY <1>t, <1>m, <1>i, <1>3, <2>22
       DEF InstallDone, End, InstallProgress, OwnUid, UidList, ListedUid, bundle
  <2>23. CASE Rollback
    BY <1>s, <2>23 DEF Rollback
  <2>24. CASE RollbackDone
    BY <1>s, <2>24 DEF RollbackDone
  <2>25. CASE ClearDone
    BY <1>s, <2>25 DEF ClearDone
  <2> QED
    BY <1>3, <2>1, <2>2, <2>3, <2>4, <2>5, <2>6, <2>7, <2>8, <2>9, <2>10, <2>11, <2>12,
       <2>13, <2>14, <2>15, <2>16, <2>17, <2>18, <2>19, <2>20, <2>21, <2>22, <2>23, <2>24,
       <2>25
       DEF Install
<1>4. ASSUME Uninstall
      PROVE  /\ UNCHANGED uidMap /\ UidList' = UidList /\ pc' # "uidRename"
             /\ z = bundle => Same
  <2>1. CASE RefuseUninstall
    BY <1>t, <1>m, <1>i, <1>4, <2>1
       DEF RefuseUninstall, End, OwnUid, UidList, ListedUid, bundle
  <2>2. CASE RemoveDirsBegin
    BY <1>t, <1>m, <1>i, <1>4, <2>2
       DEF RemoveDirsBegin, DirsRemoval, OwnUid, UidList, ListedUid, bundle
  <2>3. CASE UninstallDirs
    BY <1>t, <1>m, <1>i, <1>4, <2>3
       DEF UninstallDirs, End, OwnUid, UidList, ListedUid, bundle
  <2>4. CASE DeletePermissions
    BY <1>t, <1>m, <1>i, <1>4, <2>4
       DEF DeletePermissions, OwnUid, UidList, ListedUid, bundle
  <2>5. CASE NoUidFile
    BY <1>u, <2>5 DEF NoUidFile
  <2>6. CASE DropEntryBegin
    BY <2>6
  <2>7. CASE DropEntryEnd
    BY <1>s, <1>m, <2>7 DEF DropEntryEnd, OwnUid, UidList, ListedUid, bundle
  <2>8. CASE DropRecord
    BY <2>8
  <2>9. CASE UninstallFails
    BY <1>m, <2>9 DEF UninstallFails
  <2>10. CASE UninstallDone
    BY <2>10
  <2> QED
    BY <1>4, <2>1, <2>2, <2>3, <2>4, <2>5, <2>6, <2>7, <2>8, <2>9, <2>10 DEF Uninstall
<1>5. CASE Reloaded
  BY <1>5 DEF Reloaded, End, OwnUid, UidList, ListedUid, bundle
<1>6. ~Purge
  BY <1>s DEF Purge
<1>7. QED
  BY <1>2, <1>3, <1>4, <1>5, <1>6 DEF Operation

(* A new bundle finds a uid in its range.                                  *)
LEMMA UidForNew ==
  ASSUME OnlyReboots, TypeOK, RebootInv, pc = "uid", ~Installed(bundle)
  PROVE  /\ ~Recorded(bundle) /\ record[bundle].uid = InvalidUid
         /\ \A s \in Styles : \A i \in DOMAIN uidMap[s] : uidMap[s][i] # bundle
         /\ NewIndex(uidMap[hap.style]) \in Indexes
         /\ ~Exhausted(uidMap[hap.style], hap.style)
<1>1. bundle \in Bundles /\ hap.style \in Styles
  BY DEF TypeOK, Haps, bundle
<1>2. Matches(bundle) /\ Rests(bundle)
  BY <1>1
     DEF RebootInv, Steady, OperationInStep, BeforePublish, InstallSteps, FromExtracting,
              FromUid, FromRecord, FromPublish, FromUidTmp
<1>3. ~Recorded(bundle) /\ record[bundle].uid = InvalidUid
  BY <1>1, <1>2, InstalledIsRecorded
<1>4. OwnUid(bundle) = InvalidUid
  BY <1>3 DEF OwnUid, FromRecord, FromPublish, FromUidTmp
<1>5. ASSUME NEW s \in Styles, NEW i \in DOMAIN uidMap[s], uidMap[s][i] = bundle PROVE FALSE
  <2>1. i \in Indexes /\ InvalidUid = Base(s) + i
    BY <1>4, <1>5 DEF RebootInv, UidsHeld
  <2>2. Base(s) \in Nat /\ Indexes \subseteq Nat
    BY BaseType, FS_CardinalityType DEF Indexes, OnlyReboots, EnoughUids
  <2> QED
    BY <2>1, <2>2 DEF InvalidUid
<1>6. /\ IsIndexMap(uidMap[hap.style], Base(hap.style))
      /\ DOMAIN uidMap[hap.style] \subseteq Indexes
      /\ \A i, j \in DOMAIN uidMap[hap.style] :
           uidMap[hap.style][i] = uidMap[hap.style][j] => i = j
  BY <1>1 DEF RebootInv, UidsHeld, TypeOK, AreUidMaps
<1>7. QED
  BY <1>1, <1>3, <1>5, <1>6, NewIndexSuffices DEF OnlyReboots

(* No range runs out.                                                      *)
LEMMA UidsAreLeft ==
  ASSUME OnlyReboots, TypeOK, RebootInv
  PROVE  UidsLeft
BY UidForNew DEF UidsLeft

(* Two bundles never have one uid.                                         *)
LEMMA OwnUidsDiffer ==
  ASSUME OnlyReboots, TypeOK, UidsHeld, NEW x \in Bundles, NEW y \in Bundles,
         OwnUid(x) = OwnUid(y), OwnUid(x) # InvalidUid
  PROVE  x = y
<1>1. PICK s \in Styles : \E i \in DOMAIN uidMap[s] :
             uidMap[s][i] = x /\ OwnUid(x) = Base(s) + i
  BY DEF UidsHeld
<1>2. PICK i \in DOMAIN uidMap[s] : uidMap[s][i] = x /\ OwnUid(x) = Base(s) + i
  BY <1>1
<1>3. PICK t \in Styles : \E j \in DOMAIN uidMap[t] :
             uidMap[t][j] = y /\ OwnUid(y) = Base(t) + j
  BY DEF UidsHeld
<1>4. PICK j \in DOMAIN uidMap[t] : uidMap[t][j] = y /\ OwnUid(y) = Base(t) + j
  BY <1>3
<1>5. i \in Indexes /\ j \in Indexes
  BY DEF UidsHeld
<1>6. StyleOfUid(Base(s) + i) = s /\ StyleOfUid(Base(t) + j) = t
  BY <1>5, StyleOfIndex DEF OnlyReboots
<1>7. s = t
  BY <1>2, <1>4, <1>6
<1>8. Base(s) \in Nat /\ i \in Int /\ j \in Int
  BY <1>5, BaseType DEF Indexes
<1>9. i = j
  <2>1. Base(s) + i = Base(s) + j
    BY <1>2, <1>4, <1>7
  <2> QED
    BY <1>8, <2>1
<1>10. QED
  BY <1>2, <1>4, <1>7, <1>9

(* What the uids depend on does not change.                                *)
LEMMA HeldAsBefore ==
  ASSUME TypeOK, UidsHeld, UNCHANGED uidMap, pc # "recordUninstalled",
         \A x \in Bundles : OwnUid(x)' = OwnUid(x)
  PROVE  UidsHeld'
<1>1. \A s \in Styles : \A i \in DOMAIN uidMap[s] : uidMap[s][i] \in Bundles
  BY DEF TypeOK, AreUidMaps, IsIndexMap
<1>2. QED
  BY <1>1 DEF UidsHeld

(* What the list depends on does not change.                               *)
LEMMA ListedAsBefore ==
  ASSUME UidsListed, UidList' = UidList, pc' # "uidRename",
         \A x \in Bundles : ListedUid(x)' = ListedUid(x)
  PROVE  UidsListed'
BY DEF UidsListed

(* A scan step or a request leaves the uids alone.                         *)
LEMMA BetweenOperations ==
  ASSUME OnlyReboots, TypeOK, RebootInv, UNCHANGED <<uidMap, uidFile, record>>, pc = "idle",
         pc' \in {"idle", "check", "uninstall", "reloaded", "purge"}
  PROVE  UidsHeld' /\ UidsListed'
<1>1. \A x \in Bundles : OwnUid(x)' = OwnUid(x) /\ ListedUid(x)' = ListedUid(x)
  BY DEF OwnUid, ListedUid, FromRecord, FromPublish, FromUidTmp
<1>2. UidList' = UidList
  BY DEF UidList
<1>3. QED
  BY <1>1, <1>2, HeldAsBefore, ListedAsBefore DEF RebootInv

(* A reboot reads back the maps it lost.                                   *)
LEMMA RebootRestores ==
  ASSUME OnlyReboots, TypeOK, RebootInv, Reboot
  PROVE  UidsHeld' /\ UidsListed'
<1>1. /\ pc = "idle" /\ pc' = "idle" /\ UNCHANGED <<uidFile, record>>
      /\ uidMap' = RestoreUidAndGidMap(uidFile)
  BY DEF Reboot, Idle, Start, jsonDisk
<1>2. \A x \in Bundles : /\ OwnUid(x) = record[x].uid /\ OwnUid(x)' = OwnUid(x)
                         /\ ListedUid(x) = record[x].uid /\ ListedUid(x)' = ListedUid(x)
  BY <1>1 DEF OwnUid, ListedUid, FromRecord, FromPublish, FromUidTmp
<1>3. UidList' = UidList /\ UidList = uidFile
  BY <1>1 DEF UidList
<1>4. /\ UidsHeld /\ UidsListed /\ AreUidMaps(uidMap) /\ uidFile \in UidLists
      /\ \A k \in DOMAIN uidFile : uidFile[k].name \in Bundles
      /\ \A s \in Styles : \A i \in DOMAIN uidMap[s] : uidMap[s][i] \in Bundles
  BY EntriesType DEF RebootInv, TypeOK, AreUidMaps, IsIndexMap
<1>5. \A s \in Styles : \A i \in DOMAIN uidMap[s] :
        i \in Indexes /\ OwnUid(uidMap[s][i]) = Base(s) + i
  BY <1>1, <1>4 DEF UidsHeld
<1>6. ASSUME NEW k \in DOMAIN uidFile
      PROVE  \E s \in Styles : \E i \in DOMAIN uidMap[s] :
               uidMap[s][i] = uidFile[k].name /\ uidFile[k].uid = Base(s) + i
  <2> DEFINE x == uidFile[k].name
  <2>1. uidFile[k].uid = OwnUid(x) /\ OwnUid(x) # InvalidUid /\ x \in Bundles
    BY <1>2, <1>3, <1>4 DEF UidsListed, EntryIs
  <2> QED
    BY <1>4, <2>1 DEF UidsHeld
<1>7. ASSUME NEW s \in Styles, NEW i \in DOMAIN uidMap[s]
      PROVE  \E k \in DOMAIN uidFile :
               uidMap[s][i] = uidFile[k].name /\ uidFile[k].uid = Base(s) + i
  <2> DEFINE x == uidMap[s][i]
  <2>1. x \in Bundles /\ OwnUid(x) = Base(s) + i
    BY <1>4, <1>5
  <2>2. OwnUid(x) # InvalidUid
    BY <1>5, <2>1, StyleOfIndex, UidRangesAssumption DEF InvalidUid, OnlyReboots
  <2> QED
    BY <1>2, <1>3, <1>4, <2>1, <2>2 DEF UidsListed, EntryIs
<1>8. \A s \in Styles : /\ DOMAIN uidMap'[s] = DOMAIN uidMap[s]
                        /\ \A i \in DOMAIN uidMap[s] : uidMap'[s][i] = uidMap[s][i]
  <2>1. \A s \in Styles : DOMAIN uidMap[s] \subseteq Indexes
    BY <1>5
  <2> QED
    BY <1>1, <1>4, <1>6, <1>7, <2>1, RestoreReadsBack DEF OnlyReboots
<1>9. UidsHeld'
  <2>1. ASSUME NEW s \in Styles, NEW i \in DOMAIN uidMap'[s], NEW x, x = uidMap'[s][i]
        PROVE  i \in Indexes /\ x \in Bundles /\ OwnUid(x)' = Base(s) + i
    BY <1>2, <1>4, <1>5, <1>8, <2>1
  <2>2. \A s, t \in Styles : \A i \in DOMAIN uidMap'[s], j \in DOMAIN uidMap'[t] :
          uidMap'[s][i] = uidMap'[t][j] => s = t /\ i = j
    BY <1>4, <1>8 DEF UidsHeld
  <2>3. \A x \in Bundles : OwnUid(x)' # InvalidUid =>
          \E s \in Styles : \E i \in DOMAIN uidMap'[s] :
            uidMap'[s][i] = x /\ OwnUid(x)' = Base(s) + i
    BY <1>2, <1>4, <1>8 DEF UidsHeld
  <2> QED
    BY <2>1, <2>2, <2>3 DEF UidsHeld
<1>10. UidsListed'
  BY <1>1, <1>2, <1>3, <1>4, ListedAsBefore
<1>11. QED
  BY <1>9, <1>10

(* An update keeps the uid, and a new bundle holds the one it takes.       *)
LEMMA AssignHolds ==
  ASSUME OnlyReboots, TypeOK, RebootInv, AssignUid
  PROVE  UidsHeld' /\ UidsListed'
<1> USE DEF Goto, memory, codeDisk, jsonDisk, disk, task, boot, told, budget,
            FromUidTmp, FromPublish, FromRecord
<1>t. /\ bundle \in Bundles /\ record \in [Bundles -> Records] /\ AreUidMaps(uidMap)
      /\ uidFile \in UidLists /\ uid \in Uids /\ hap.style \in Styles
      /\ \A s \in Styles : \A i \in DOMAIN uidMap[s] : uidMap[s][i] \in Bundles
  BY DEF TypeOK, bundle, Haps, AreUidMaps, IsIndexMap
<1>i. /\ Steady /\ UidsHeld /\ UidsListed /\ OperationInStep
      /\ \A x \in Bundles : Rests(x)
  BY DEF RebootInv, Steady
<1>1. pc = "uid" /\ pc' = "record" /\ UNCHANGED <<record, uidFile, tmpUidFile, bundle>>
  BY DEF AssignUid, bundle
<1>2. \A x \in Bundles : /\ OwnUid(x) = record[x].uid /\ ListedUid(x)' = ListedUid(x)
                         /\ OwnUid(x)' = IF x = bundle THEN uid' ELSE OwnUid(x)
  BY <1>1 DEF OwnUid, ListedUid
<1>3. UidsListed'
  <2>1. UidList' = UidList
    BY <1>1 DEF UidList
  <2> QED
    BY <1>1, <1>2, <1>i, <2>1, ListedAsBefore
<1>4. CASE Installed(bundle)
  <2>1. uid' = bundleMap[bundle].uid /\ UNCHANGED uidMap
    BY <1>4 DEF AssignUid
  <2>2. Matches(bundle)
    BY <1>1, <1>i DEF OperationInStep, BeforePublish, InstallSteps, FromExtracting, FromUid
  <2> QED
    BY <1>1, <1>2, <1>3, <1>i, <2>1, <2>2, HeldAsBefore DEF Matches
<1>5. CASE ~Installed(bundle)
  <2> DEFINE style == hap.style
             new   == NewIndex(uidMap[style])
  <2>1. /\ uid' = GenerateInnerUid(uidMap[style], style)
        /\ uidMap' = GenerateUid(uidMap, bundle, style)
    BY <1>5 DEF AssignUid
  <2>2. /\ \A s \in Styles : \A i \in DOMAIN uidMap[s] : uidMap[s][i] # bundle
        /\ new \in Indexes /\ ~Exhausted(uidMap[style], style)
    BY <1>1, <1>5, UidForNew
  <2>3. /\ uid' = Base(style) + new /\ new \notin DOMAIN uidMap[style]
        /\ DOMAIN uidMap'[style] = DOMAIN uidMap[style] \cup {new}
        /\ uidMap'[style][new] = bundle
        /\ \A s \in Styles : s # style => uidMap'[s] = uidMap[s]
        /\ \A j \in DOMAIN uidMap[style] : uidMap'[style][j] = uidMap[style][j]
    BY <1>t, <2>1, <2>2, GenerateUidAdds
  <2>4. style \in Styles
    BY <1>t
  <2> HIDE DEF style, new
  <2>5. ASSUME NEW s \in Styles, NEW i \in DOMAIN uidMap'[s]
        PROVE  \/ s = style /\ i = new /\ uidMap'[s][i] = bundle
               \/ /\ i \in DOMAIN uidMap[s] /\ uidMap'[s][i] = uidMap[s][i]
                  /\ uidMap[s][i] # bundle
    BY <2>2, <2>3, <2>4
  <2>6. ASSUME NEW s \in Styles, NEW i \in DOMAIN uidMap[s]
        PROVE  i \in DOMAIN uidMap'[s] /\ uidMap'[s][i] = uidMap[s][i]
    BY <2>3, <2>4
  <2>7. ASSUME NEW s \in Styles, NEW i \in DOMAIN uidMap'[s], NEW x, x = uidMap'[s][i]
        PROVE  i \in Indexes /\ x \in Bundles /\ OwnUid(x)' = Base(s) + i
    <3>1. CASE s = style /\ i = new /\ uidMap'[s][i] = bundle
      BY <1>t, <1>2, <2>2, <2>3, <2>7, <3>1
    <3>2. CASE i \in DOMAIN uidMap[s] /\ uidMap'[s][i] = uidMap[s][i] /\ uidMap[s][i] # bundle
      <4>1. i \in Indexes /\ x \in Bundles /\ x # bundle /\ OwnUid(x) = Base(s) + i
        BY <1>t, <1>1, <1>i, <2>7, <3>2 DEF UidsHeld
      <4> QED
        BY <1>2, <4>1
    <3> QED
      BY <2>5, <3>1, <3>2
  <2>8. \A s, u \in Styles : \A i \in DOMAIN uidMap'[s], j \in DOMAIN uidMap'[u] :
          uidMap'[s][i] = uidMap'[u][j] => s = u /\ i = j
    BY <1>i, <2>5 DEF UidsHeld
  <2>9. ASSUME NEW x \in Bundles, OwnUid(x)' # InvalidUid
        PROVE  \E s \in Styles : \E i \in DOMAIN uidMap'[s] :
                 uidMap'[s][i] = x /\ OwnUid(x)' = Base(s) + i
    <3>1. CASE x = bundle
      BY <1>2, <2>3, <2>4, <3>1
    <3>2. CASE x # bundle
      BY <1>2, <1>i, <2>6, <2>9, <3>2 DEF UidsHeld
    <3> QED
      BY <3>1, <3>2
  <2>10. UidsHeld'
    BY <2>7, <2>8, <2>9 DEF UidsHeld
  <2> QED
    BY <1>3, <2>10
<1>6. QED
  BY <1>4, <1>5

(* The uid list is written anew with the bundle in it.                     *)
LEMMA BackUpLists ==
  ASSUME OnlyReboots, TypeOK, RebootInv, BackUpUidAndGidInfo \/ RenameUidFileBegin
  PROVE  UidsHeld' /\ UidsListed'
<1> USE DEF Goto, memory, codeDisk, jsonDisk, disk, task, boot, told, budget,
            FromUidTmp, FromPublish, FromRecord
<1>t. /\ bundle \in Bundles /\ record \in [Bundles -> Records] /\ AreUidMaps(uidMap)
      /\ uidFile \in UidLists /\ uid \in Uids /\ hap.style \in Styles
      /\ \A s \in Styles : \A i \in DOMAIN uidMap[s] : uidMap[s][i] \in Bundles
  BY DEF TypeOK, bundle, Haps, AreUidMaps, IsIndexMap
<1>i. /\ Steady /\ UidsHeld /\ UidsListed /\ OperationInStep
      /\ \A x \in Bundles : Rests(x)
  BY DEF RebootInv, Steady
<1>1. /\ UNCHANGED <<uidMap, record, uid, bundle>>
      /\ \/ pc = "uidTmp" /\ pc' = "uidRename" /\ uidFile' = uidFile
         \/ pc = "uidRename" /\ pc' = "uidRenaming" /\ tmpUidFile' = tmpUidFile
  BY DEF BackUpUidAndGidInfo, RenameUidFileBegin, bundle
<1>2. UidsHeld'
  <2>1. \A x \in Bundles : OwnUid(x)' = OwnUid(x)
    BY <1>1 DEF OwnUid
  <2> QED
    BY <1>1, <1>i, <2>1, HeldAsBefore
<1>3. CASE BackUpUidAndGidInfo
  <2>1. /\ pc = "uidTmp" /\ pc' = "uidRename" /\ uidFile' = uidFile
        /\ tmpUidFile' = ConvertUidAndGidToJson(uidFile, bundle, uid)
    BY <1>3 DEF BackUpUidAndGidInfo
  <2>2. UidList' = UidList /\ \A x \in Bundles : ListedUid(x)' = ListedUid(x)
    BY <1>1, <2>1 DEF UidList, ListedUid
  <2>3. UidsListed'
    BY <1>1, <1>i, <2>1, <2>2 DEF UidsListed
  <2> QED
    BY <1>2, <2>3
<1>4. CASE RenameUidFileBegin
  <2>1. pc = "uidRename" /\ pc' = "uidRenaming" /\ tmpUidFile' = tmpUidFile
    BY <1>4 DEF RenameUidFileBegin
  <2>2. /\ UidList = uidFile /\ UidList' = ConvertUidAndGidToJson(uidFile, bundle, uid)
    BY <1>i, <2>1 DEF UidList, UidsListed
  <2>3. /\ ListedUid(bundle) = record[bundle].uid
        /\ \A x \in Bundles : ListedUid(x)' = IF x = bundle THEN uid ELSE ListedUid(x)
    BY <1>1, <2>1 DEF ListedUid
  <2>4. uid \in Nat /\ record[bundle].uid \in {uid, InvalidUid}
    <3>1. uid # InvalidUid /\ (Recorded(bundle) => uid = record[bundle].uid)
      BY <1>i, <2>1 DEF OperationInStep
    <3> QED
      BY <1>t, <3>1 DEF Recorded, NoRecord, Uids
  <2>5. /\ EntryIs(UidList', bundle, uid)
        /\ \A y \in Bundles \ {bundle} : \A w :
             EntryIs(UidList, y, w) => EntryIs(UidList', y, w)
    <3>1. EntryIs(uidFile, bundle, record[bundle].uid)
      BY <1>t, <1>i, <2>2, <2>3 DEF UidsListed
    <3> QED
      BY <1>t, <2>2, <2>4, <3>1, ConvertEnters
  <2>6. ASSUME NEW x \in Bundles
        PROVE  EntryIs(UidList', x, ListedUid(x)')
    <3>1. CASE x = bundle
      BY <2>3, <2>5, <3>1
    <3>2. CASE x # bundle
      <4>1. EntryIs(UidList, x, ListedUid(x)) /\ ListedUid(x)' = ListedUid(x)
        BY <1>i, <2>3, <3>2 DEF UidsListed
      <4>2. EntryIs(UidList', x, ListedUid(x))
        BY <2>5, <3>2, <4>1
      <4> QED
        BY <4>1, <4>2
    <3> QED
      BY <3>1, <3>2
  <2>7. UidsListed'
    BY <2>1, <2>6 DEF UidsListed
  <2> QED
    BY <1>2, <2>7
<1>5. QED
  BY <1>3, <1>4

(* An uninstall takes the bundle off the list, then removes its record.    *)
LEMMA DropUnlists ==
  ASSUME OnlyReboots, TypeOK, RebootInv, DropEntryBegin \/ DropRecord
  PROVE  UidsHeld' /\ UidsListed'
<1> USE DEF Goto, memory, codeDisk, jsonDisk, disk, task, boot, told, budget,
            FromUidTmp, FromPublish, FromRecord
<1>t. /\ bundle \in Bundles /\ record \in [Bundles -> Records] /\ AreUidMaps(uidMap)
      /\ uidFile \in UidLists /\ uid \in Uids /\ hap.style \in Styles
      /\ \A s \in Styles : \A i \in DOMAIN uidMap[s] : uidMap[s][i] \in Bundles
  BY DEF TypeOK, bundle, Haps, AreUidMaps, IsIndexMap
<1>i. /\ Steady /\ UidsHeld /\ UidsListed /\ OperationInStep
      /\ \A x \in Bundles : Rests(x)
  BY DEF RebootInv, Steady
<1>m. pc # "purgeEntry"
  BY <1>i DEF Steady, StepsInPhase, InstallSteps, Uninstalling, FromExtracting, FromUid
<1>1. CASE DropEntryBegin
  <2>1. /\ pc = "dropEntry" /\ pc' = "droppingEntry"
        /\ UNCHANGED <<uidMap, record, bundle>>
        /\ tmpUidFile' = DeleteEntry(uidFile, bundle)
    BY <1>1, <1>m DEF DropEntryBegin, bundle
  <2>2. /\ \A x \in Bundles : OwnUid(x)' = OwnUid(x) /\ ListedUid(x) = record[x].uid
        /\ \A x \in Bundles :
             ListedUid(x)' = IF x = bundle THEN InvalidUid ELSE ListedUid(x)
    BY <2>1 DEF OwnUid, ListedUid
  <2>3. UidList = uidFile /\ UidList' = DeleteEntry(uidFile, bundle)
    BY <2>1 DEF UidList
  <2>4. /\ EntryIs(UidList', bundle, InvalidUid)
        /\ \A y \in Bundles \ {bundle} : \A w :
             EntryIs(UidList, y, w) => EntryIs(UidList', y, w)
    <3>1. EntryIs(uidFile, bundle, ListedUid(bundle))
      BY <1>t, <1>i, <2>3 DEF UidsListed
    <3> QED
      BY <1>t, <2>3, <3>1, DeleteDrops
  <2>5. ASSUME NEW x \in Bundles
        PROVE  EntryIs(UidList', x, ListedUid(x)')
    <3>1. CASE x = bundle
      BY <2>2, <2>4, <3>1
    <3>2. CASE x # bundle
      <4>1. EntryIs(UidList, x, ListedUid(x)) /\ ListedUid(x)' = ListedUid(x)
        BY <1>i, <2>2, <3>2 DEF UidsListed
      <4>2. EntryIs(UidList', x, ListedUid(x))
        BY <2>4, <3>2, <4>1
      <4> QED
        BY <4>1, <4>2
    <3> QED
      BY <3>1, <3>2
  <2>6. UidsListed'
    BY <2>1, <2>5 DEF UidsListed
  <2> QED
    BY <1>i, <2>1, <2>2, <2>6, HeldAsBefore
<1>2. CASE DropRecord
  <2>1. /\ pc = "dropRecord" /\ pc' = "recordUninstalled"
        /\ UNCHANGED <<uidMap, uidFile, bundle>>
        /\ record' = [record EXCEPT ![bundle] = NoRecord]
    BY <1>2, <1>i DEF DropRecord, OperationInStep, Uninstalling, Recorded, bundle
  <2>2. /\ \A x \in Bundles : OwnUid(x)' = IF x = bundle THEN InvalidUid ELSE OwnUid(x)
        /\ \A x \in Bundles : ListedUid(x)' = ListedUid(x)
    BY <1>t, <2>1 DEF OwnUid, ListedUid, NoRecord
  <2>3. UidList' = UidList
    BY <2>1 DEF UidList
  <2>4. ASSUME NEW s \in Styles, NEW i \in DOMAIN uidMap[s], NEW x, x = uidMap[s][i]
        PROVE  i \in Indexes /\ (x = bundle \/ OwnUid(x)' = Base(s) + i)
    BY <1>t, <1>i, <2>1, <2>2, <2>4 DEF UidsHeld
  <2>5. \A x \in Bundles : OwnUid(x)' # InvalidUid =>
          \E s \in Styles : \E i \in DOMAIN uidMap[s] :
            uidMap[s][i] = x /\ OwnUid(x)' = Base(s) + i
    BY <1>i, <2>2 DEF UidsHeld
  <2>6. UidsHeld'
    BY <1>i, <2>1, <2>4, <2>5 DEF UidsHeld
  <2> QED
    BY <1>i, <2>1, <2>2, <2>3, <2>6, ListedAsBefore
<1>3. QED
  BY <1>1, <1>2

(* The uid of a bundle that has been uninstalled is free again.            *)
LEMMA UninstallFrees ==
  ASSUME OnlyReboots, TypeOK, RebootInv, UninstallDone
  PROVE  UidsHeld' /\ UidsListed'
<1> USE DEF Goto, memory, codeDisk, jsonDisk, disk, task, boot, told, budget,
            FromUidTmp, FromPublish, FromRecord
<1>t. /\ bundle \in Bundles /\ record \in [Bundles -> Records] /\ AreUidMaps(uidMap)
      /\ uidFile \in UidLists /\ uid \in Uids /\ hap.style \in Styles
      /\ \A s \in Styles : \A i \in DOMAIN uidMap[s] : uidMap[s][i] \in Bundles
  BY DEF TypeOK, bundle, Haps, AreUidMaps, IsIndexMap
<1>i. /\ Steady /\ UidsHeld /\ UidsListed /\ OperationInStep
      /\ \A x \in Bundles : Rests(x)
  BY DEF RebootInv, Steady
<1>1. /\ pc = "recordUninstalled" /\ pc' = "idle" /\ UNCHANGED <<record, uidFile>>
      /\ uidMap' = RecycleUid(uidMap, bundle)
  BY DEF UninstallDone, End
<1>2. record[bundle].uid = InvalidUid
  BY <1>1, <1>i DEF OperationInStep, Uninstalling, Recorded, NoRecord
<1>3. \A x \in Bundles : /\ OwnUid(x) = record[x].uid /\ OwnUid(x)' = OwnUid(x)
                         /\ ListedUid(x)' = ListedUid(x)
  BY <1>1, <1>2 DEF OwnUid, ListedUid
<1>4. UidsListed'
  <2>1. UidList' = UidList
    BY <1>1 DEF UidList
  <2> QED
    BY <1>1, <1>3, <1>i, <2>1, ListedAsBefore
<1>5. \A s \in Styles :
        /\ DOMAIN uidMap'[s] = {i \in DOMAIN uidMap[s] : uidMap[s][i] # bundle}
        /\ \A i \in DOMAIN uidMap'[s] : uidMap'[s][i] = uidMap[s][i]
  <2>1. \A s, u \in Styles : \A i \in DOMAIN uidMap[s], j \in DOMAIN uidMap[u] :
          uidMap[s][i] = bundle /\ uidMap[u][j] = bundle => s = u /\ i = j
    BY <1>i DEF UidsHeld
  <2> QED
    BY <1>1, <1>t, <2>1, RecycleUidFrees
<1>6. ASSUME NEW s \in Styles, NEW i \in DOMAIN uidMap'[s], NEW x, x = uidMap'[s][i]
      PROVE  i \in Indexes /\ x \in Bundles /\ OwnUid(x)' = Base(s) + i
  <2>1. i \in DOMAIN uidMap[s] /\ x = uidMap[s][i] /\ x # bundle
    BY <1>5, <1>6
  <2>2. i \in Indexes /\ x \in Bundles /\ OwnUid(x) = Base(s) + i
    BY <1>t, <1>i, <2>1 DEF UidsHeld
  <2> QED
    BY <1>3, <2>2
<1>7. \A s, u \in Styles : \A i \in DOMAIN uidMap'[s], j \in DOMAIN uidMap'[u] :
        uidMap'[s][i] = uidMap'[u][j] => s = u /\ i = j
  BY <1>i, <1>5 DEF UidsHeld
<1>8. ASSUME NEW x \in Bundles, OwnUid(x)' # InvalidUid
      PROVE  \E s \in Styles : \E i \in DOMAIN uidMap'[s] :
               uidMap'[s][i] = x /\ OwnUid(x)' = Base(s) + i
  <2>1. x # bundle /\ OwnUid(x)' = OwnUid(x)
    BY <1>2, <1>3, <1>8
  <2>2. PICK s \in Styles : \E i \in DOMAIN uidMap[s] :
          uidMap[s][i] = x /\ OwnUid(x) = Base(s) + i
    BY <1>i, <1>8, <2>1 DEF UidsHeld
  <2> QED
    BY <1>5, <2>1, <2>2
<1>9. UidsHeld'
  BY <1>6, <1>7, <1>8 DEF UidsHeld
<1>10. QED
  BY <1>4, <1>9

(* No step, and no reboot, loses or gives away a uid.                      *)
LEMMA UidsStep ==
  ASSUME OnlyReboots, TypeOK, InstallProgress, RebootInv, [Next]_vars
  PROVE  UidsHeld' /\ UidsListed'
<1>i. /\ UidsHeld /\ UidsListed
      /\ pc \in {"idle", "uninstall", "reloaded"} \cup InstallSteps \cup Uninstalling
  BY DEF RebootInv, Steady, StepsInPhase
<1>m. ~MayFail /\ ~Crash /\ ~PowerLoss
  BY DEF OnlyReboots, MayFail, Crash, PowerLoss
<1>0. CASE UNCHANGED vars
  <2>1. \A x \in Bundles : OwnUid(x)' = OwnUid(x) /\ ListedUid(x)' = ListedUid(x)
    BY <1>0 DEF OwnUid, ListedUid, vars, disk, jsonDisk, task, bundle
  <2>2. UidList' = UidList
    BY <1>0 DEF UidList, vars, disk, jsonDisk, task
  <2>3. \A s \in Styles : \A i \in DOMAIN uidMap[s] : uidMap[s][i] \in Bundles
    BY DEF TypeOK, AreUidMaps, IsIndexMap
  <2>4. UNCHANGED <<uidMap, uidFile, tmpUidFile, uid, pc, bundle>>
    BY <1>0 DEF vars, memory, disk, jsonDisk, task, bundle
  <2>5. UidsHeld'
    BY <1>i, <2>1, <2>3, <2>4 DEF UidsHeld
  <2>6. UidsListed'
    BY <1>i, <2>1, <2>2, <2>4 DEF UidsListed
  <2> QED
    BY <2>5, <2>6
<1>1. CASE AssignUid \/ BackUpUidAndGidInfo \/ RenameUidFileBegin
             \/ DropEntryBegin \/ DropRecord \/ UninstallDone
  BY <1>1, AssignHolds, BackUpLists, DropUnlists, UninstallFrees
<1>2. ASSUME Operation, ~AssignUid, ~BackUpUidAndGidInfo, ~RenameUidFileBegin,
             ~DropEntryBegin, ~DropRecord, ~UninstallDone
      PROVE  UidsHeld' /\ UidsListed'
  <2>1. pc # "recordUninstalled"
    <3> SUFFICES ASSUME pc = "recordUninstalled" PROVE FALSE
      OBVIOUS
    <3>1. ~Install
      BY DEF Install, BadHap, Refuse, Accept, ExtractBegin, ExtractEnd, ExtractFails,
             RenameCodeBegin, RenameCodeEnd, RenameCodeFails, AssignUid, CreateDataFails,
             BackUpInstallRecord, BackUpRecordFails, UpdateBundleInfo, UpdateBundleInfoFails,
             BackUpUidAndGidInfo, RenameUidFileBegin, RenameUidFileEnd, RenameRecordBegin,
             RenameRecordEnd, BackUpFails, InstallDone, Rollback, RollbackDone, ClearDone
    <3>2. ~Uninstall
      BY <1>2 DEF Uninstall, RefuseUninstall, RemoveDirsBegin, UninstallDirs,
             DeletePermissions, NoUidFile, DropEntryBegin, DropEntryEnd, DropRecord,
             UninstallFails, DirsRemoval
    <3>3. ~Purge /\ ~Reloaded
      BY DEF Purge, Reloaded
    <3> QED
      BY <1>2, <3>1, <3>2, <3>3 DEF Operation
  <2>2. /\ UNCHANGED uidMap /\ UidList' = UidList /\ pc' # "uidRename"
        /\ \A x \in Bundles : OwnUid(x)' = OwnUid(x) /\ ListedUid(x)' = ListedUid(x)
    <3>1. Bundles # {}
      BY InstallerAssumption
    <3> QED
      BY <1>2, <3>1, UidsUnmoved
  <2> QED
    BY <1>i, <2>1, <2>2, HeldAsBefore, ListedAsBefore
<1>3. CASE Request
  <2>1. pc = "idle" /\ pc' \in {"check", "uninstall"} /\ UNCHANGED <<uidMap, uidFile, record>>
    BY <1>3
       DEF Request, ReceiveInstall, ReceiveUninstall, Idle, Goto, memory, disk, jsonDisk
  <2> QED
    BY <2>1, BetweenOperations
<1>4. CASE ScanDone \/ \E x \in Bundles : Skip(x) \/ ScanBundle(x)
  <2>1. /\ pc = "idle" /\ UNCHANGED <<uidMap, uidFile, record>>
        /\ pc' \in {"idle", "check", "reloaded", "purge"}
    BY <1>4 DEF ScanDone, Skip, ScanBundle, Scanning, Goto, memory, disk, jsonDisk
  <2> QED
    BY <2>1, BetweenOperations
<1>5. CASE Reboot
  BY <1>5, RebootRestores
<1>6. QED
  BY <1>0, <1>1, <1>2, <1>3, <1>4, <1>5, <1>m DEF Next, Operation, ScanPackages, Restart

-----------------------------------------------------------------------------
(* The vendors' lists.                                                     *)

(* An operation changes the two lists, and what was told to be removed, at *)
(* most for its own bundle.                                                *)
LEMMA ListsOnlyOf ==
  ASSUME OnlyReboots, TypeOK, RebootInv, Operation, NEW z \in Bundles, z # bundle
  PROVE  /\ z \in thirdSystem <=> z \in thirdSystem'
         /\ z \in uninstalled <=> z \in uninstalled'
         /\ z \in gone <=> z \in gone'
<1> USE NullTypes
    DEF Goto, memory, codeDisk, jsonDisk, disk, task, boot, told, budget,
        FromUidTmp, FromPublish, FromRecord, FromUid, FromExtracting, InstallSteps,
        BeforePublish, Uninstalling
<1>t. /\ bundle \in Bundles /\ hap \in Haps
      /\ code \in [Bundles -> Trees \cup {None}] /\ junk \in [Bundles -> SUBSET Trees]
      /\ data \in [Bundles -> Nat \cup {NoData}]
      /\ record \in [Bundles -> Records] /\ bundleMap \in [Bundles -> Infos]
      /\ codeDir \subseteq Bundles /\ hap.ver \in Versions
  BY DEF TypeOK, bundle, Haps
<1>v. Versions \subseteq Nat \ {0} /\ None = 0 /\ Partial = -1 /\ InvalidUid = -1
  BY InstallerAssumption DEF None, Partial, InvalidUid
<1>w. \A v \in Versions \cup {None} : v \in Nat
  BY InstallerAssumption DEF None
<1>m. ~MayFail /\ ~Crash /\ ~PowerLoss
  BY DEF OnlyReboots, MayFail, Crash, PowerLoss
<1>s. pc \in {"idle", "uninstall", "reloaded"} \cup InstallSteps \cup Uninstalling
  BY DEF RebootInv, Steady, StepsInPhase
<1> DEFINE Same == /\ z \in thirdSystem <=> z \in thirdSystem'
                   /\ z \in uninstalled <=> z \in uninstalled'
                   /\ z \in gone <=> z \in gone'
<1>1. CASE InstallDone
  BY <1>m, <1>1 DEF InstallDone, WithThirdSystem
<1>2. CASE UninstallDone
  BY <1>m, <1>2 DEF UninstallDone, WithUninstalled
<1>3. CASE Purge \/ Reloaded
  BY <1>3 DEF Purge, Reloaded
<1>4. ASSUME Install, ~InstallDone PROVE Same
  BY <1>m, <1>4
     DEF Install, BadHap, Refuse, Accept, ExtractBegin, ExtractEnd, ExtractFails,
         RenameCodeBegin, RenameCodeEnd, RenameCodeFails, AssignUid, CreateDataFails,
         BackUpInstallRecord, BackUpRecordFails, UpdateBundleInfo, UpdateBundleInfoFails,
         BackUpUidAndGidInfo, RenameUidFileBegin, RenameUidFileEnd, RenameRecordBegin,
         RenameRecordEnd, BackUpFails, Rollback, RollbackDone, ClearDone
<1>5. ASSUME Uninstall, ~UninstallDone PROVE Same
  BY <1>m, <1>5
     DEF Uninstall, RefuseUninstall, RemoveDirsBegin, UninstallDirs, DeletePermissions,
         NoUidFile, DropEntryBegin, DropEntryEnd, DropRecord, UninstallFails
<1>6. QED
  BY <1>1, <1>2, <1>3, <1>4, <1>5 DEF Operation

(* A step of an operation on another bundle.                               *)
LEMMA VendorsOther ==
  ASSUME NEW x \in Bundles, VendorListed(x), GoneStays(x), OneSigner(x), bundle # x, SameFor(x),
         UNCHANGED boot, bundle' = bundle \/ pc' = "idle",
         x \in thirdSystem <=> x \in thirdSystem', x \in uninstalled <=> x \in uninstalled',
         x \in gone <=> x \in gone'
  PROVE  VendorListed(x)' /\ GoneStays(x)' /\ OneSigner(x)'
<1>1. VendorListed(x)'
  BY DEF VendorListed, Recorded, Installed, SameFor, boot
<1>2. GoneStays(x)'
  BY DEF GoneStays, Recorded, SameFor
<1>3. OneSigner(x)'
  BY DEF OneSigner, Recorded, SameFor, InstallSteps, FromExtracting, FromUid, FromRecord,
         FromPublish, FromUidTmp
<1>4. QED
  BY <1>1, <1>2, <1>3

(* An operation, for the bundle it is about.                               *)
LEMMA VendorsOfOperation ==
  ASSUME OnlyReboots, TypeOK, TypeOK', InstallProgress, RebootInv, Operation,
         NEW z \in Bundles, z = bundle
  PROVE  /\ ListsNested' /\ ReloadedSigner'
         /\ VendorListed(z)' /\ GoneStays(z)' /\ OneSigner(z)'
<1> USE NullTypes
    DEF Goto, memory, codeDisk, jsonDisk, disk, task, boot, told, budget,
        FromUidTmp, FromPublish, FromRecord, FromUid, FromExtracting, InstallSteps,
        BeforePublish, Uninstalling
<1>t. /\ bundle \in Bundles /\ hap \in Haps
      /\ code \in [Bundles -> Trees \cup {None}] /\ junk \in [Bundles -> SUBSET Trees]
      /\ data \in [Bundles -> Nat \cup {NoData}]
      /\ record \in [Bundles -> Records] /\ bundleMap \in [Bundles -> Infos]
      /\ codeDir \subseteq Bundles /\ hap.ver \in Versions
  BY DEF TypeOK, bundle, Haps
<1>v. Versions \subseteq Nat \ {0} /\ None = 0 /\ Partial = -1 /\ InvalidUid = -1
  BY InstallerAssumption DEF None, Partial, InvalidUid
<1>w. \A v \in Versions \cup {None} : v \in Nat
  BY InstallerAssumption DEF None
<1>m. ~MayFail /\ ~Crash /\ ~PowerLoss
  BY DEF OnlyReboots, MayFail, Crash, PowerLoss
<1>i. /\ Steady /\ (\A x \in Bundles : Rests(x)) /\ StepsInPhase /\ OperationInStep
      /\ ListsNested /\ ReloadedSigner /\ VendorListed(bundle) /\ GoneStays(bundle)
      /\ OneSigner(bundle)
  BY <1>t DEF RebootInv, Steady, VendorsKept
<1>s. pc \in {"idle", "uninstall", "reloaded"} \cup InstallSteps \cup Uninstalling
  BY <1>i DEF StepsInPhase
<1>r. pc = "check" => ~Refused(hap)
  BY <1>i, NothingRefused
<1>u. pc = "dropEntry" => uidFile # <<>>
  BY <1>i, <1>t
     DEF RebootInv, UidsListed, UidList, ListedUid, EntryIs, OperationInStep, Rests
<1>k. thirdSystem # Torn
  BY <1>i, InstallerAssumption DEF ListsNested, Torn
<1>3. ASSUME Install
      PROVE  /\ ListsNested' /\ ReloadedSigner'
             /\ VendorListed(z)' /\ GoneStays(z)' /\ OneSigner(z)'
  <2>1. CASE BadHap
    BY <1>t, <1>m, <1>i, <1>3, <2>1
       DEF BadHap, End, ListsNested, ReloadedSigner, VendorListed, GoneStays, OneSigner,
           Recorded, Installed, bundle
  <2>2. CASE Refuse
    BY <1>r, <2>2 DEF Refuse
  <2>3. CASE Accept
    BY <1>t, <1>m, <1>i, <1>3, <2>3
       DEF Accept, ListsNested, ReloadedSigner, VendorListed, GoneStays, OneSigner,
           Recorded, Installed, bundle
  <2>4. CASE ExtractBegin
    BY <1>t, <1>m, <1>i, <1>3, <2>4
       DEF ExtractBegin, ListsNested, ReloadedSigner, VendorListed, GoneStays, OneSigner,
           Recorded, Installed, bundle
  <2>5. CASE ExtractEnd
    BY <1>t, <1>m, <1>i, <1>3, <2>5
       DEF ExtractEnd, ListsNested, ReloadedSigner, VendorListed, GoneStays, OneSigner,
           Recorded, Installed, bundle
  <2>6. CASE ExtractFails
    BY <1>m, <2>6 DEF ExtractFails
  <2>7. CASE RenameCodeBegin
    BY <1>t, <1>m, <1>i, <1>3, <2>7
       DEF RenameCodeBegin, ListsNested, ReloadedSigner, VendorListed, GoneStays,
           OneSigner, Recorded, Installed, bundle
  <2>8. CASE RenameCodeEnd
    BY <1>t, <1>m, <1>i, <1>3, <2>8
       DEF RenameCodeEnd, ListsNested, ReloadedSigner, VendorListed, GoneStays, OneSigner,
           Recorded, Installed, bundle
  <2>9. CASE RenameCodeFails
    BY <1>m, <2>9 DEF RenameCodeFails
  <2>10. CASE AssignUid
    BY <1>t, <1>m, <1>i, <1>3, <2>10
       DEF AssignUid, ListsNested, ReloadedSigner, VendorListed, GoneStays, OneSigner,
           Recorded, Installed, bundle
  <2>11. CASE CreateDataFails
    BY <1>m, <2>11 DEF CreateDataFails
  <2>12. CASE BackUpInstallRecord
    BY <1>t, <1>m, <1>i, <1>3, <2>12
       DEF BackUpInstallRecord, ListsNested, ReloadedSigner, VendorListed, GoneStays,
           OneSigner, Recorded, Installed, bundle
  <2>13. CASE BackUpRecordFails
    BY <1>m, <2>13 DEF BackUpRecordFails
  <2>14. CASE UpdateBundleInfo
    BY <1>t, <1>m, <1>i, <1>3, <2>14
       DEF UpdateBundleInfo, ListsNested, ReloadedSigner, VendorListed, GoneStays,
           OneSigner, Recorded, Installed, bundle
  <2>15. CASE UpdateBundleInfoFails
    BY <1>m, <2>15 DEF UpdateBundleInfoFails
  <2>16. CASE BackUpUidAndGidInfo
    BY <1>t, <1>m, <1>i, <1>3, <2>16
       DEF BackUpUidAndGidInfo, ListsNested, ReloadedSigner, VendorListed, GoneStays,
           OneSigner, Recorded, Installed, bundle
  <2>17. CASE RenameUidFileBegin
    BY <1>t, <1>m, <1>i, <1>3, <2>17
       DEF RenameUidFileBegin, ListsNested, ReloadedSigner, VendorListed, GoneStays,
           OneSigner, Recorded, Installed, bundle
  <2>18. CASE RenameUidFileEnd
    BY <1>t, <1>m, <1>i, <1>3, <2>18
       DEF RenameUidFileEnd, ListsNested, ReloadedSigner, VendorListed, GoneStays,
           OneSigner, Recorded, Installed, bundle
  <2>19. CASE RenameRecordBegin
    BY <1>t, <1>m, <1>i, <1>3, <2>19
       DEF RenameRecordBegin, ListsNested, ReloadedSigner, VendorListed, GoneStays,
           OneSigner, Recorded, Installed, bundle
  <2>20. CASE RenameRecordEnd
    <3>1. /\ pc = "recordRenaming" /\ pc' = "thirdSystem" /\ record'[z] = tmpRecord
          /\ UNCHANGED <<bundleMap, thirdSystem, uninstalled, gone, boot, hap, bundle>>
      BY <1>t, <1>3, <2>20 DEF RenameRecordEnd, bundle
    <3>2. tmpRecord = [ver |-> hap.ver, uid |-> uid, app |-> hap.app]
      BY <3>1 DEF InstallProgress
    <3>3. record'[z] # NoRecord /\ record'[z].app = hap.app
      BY <1>t, <1>v, <3>1, <3>2 DEF NoRecord
    <3> QED
      BY <1>i, <1>3, <3>1, <3>3
         DEF ListsNested, ReloadedSigner, VendorListed, GoneStays, OneSigner, Recorded, Installed
  <2>21. CASE BackUpFails
    BY <1>m, <2>21 DEF BackUpFails
  <2>22. CASE InstallDone
    <3>1. /\ pc = "thirdSystem" /\ pc' = "idle" /\ thirdSystem' = WithThirdSystem
          /\ UNCHANGED <<bundleMap, record, uninstalled, gone, boot>>
      BY <1>m, <2>22 DEF InstallDone, End
    <3>2. record[z] = [ver |-> hap.ver, uid |-> uid, app |-> hap.app]
      BY <1>3, <3>1 DEF InstallProgress
    <3>3. Recorded(z)
      BY <1>t, <1>v, <3>2 DEF Recorded, NoRecord
    <3>4. Home[z] = "THIRD_SYSTEM" => z \in thirdSystem'
      BY <1>i, <1>k, <1>3, <3>1 DEF VendorListed, StepsInPhase, WithThirdSystem
    <3>5. ListsNested'
      BY <1>i, <1>t, <3>1 DEF ListsNested, WithThirdSystem
    <3> QED
      BY <1>i, <1>3, <3>1, <3>3, <3>4, <3>5
         DEF ReloadedSigner, VendorListed, GoneStays, OneSigner, Recorded, Installed
  <2>23. CASE Rollback
    BY <1>s, <2>23 DEF Rollback
  <2>24. CASE RollbackDone
    BY <1>s, <2>24 DEF RollbackDone
  <2>25. CASE ClearDone
    BY <1>s, <2>25 DEF ClearDone
  <2> QED
    BY <1>3, <2>1, <2>2, <2>3, <2>4, <2>5, <2>6, <2>7, <2>8, <2>9, <2>10, <2>11, <2>12,
       <2>13, <2>14, <2>15, <2>16, <2>17, <2>18, <2>19, <2>20, <2>21, <2>22, <2>23, <2>24,
       <2>25
       DEF Install
<1>4. ASSUME Uninstall
      PROVE  /\ ListsNested' /\ ReloadedSigner'
             /\ VendorListed(z)' /\ GoneStays(z)' /\ OneSigner(z)'
  <2>1. CASE RefuseUninstall
    BY <1>t, <1>m, <1>i, <1>4, <2>1
       DEF RefuseUninstall, End, ListsNested, ReloadedSigner, VendorListed, GoneStays,
           OneSigner, Recorded, Installed, bundle
  <2>2. CASE RemoveDirsBegin
    <3>1. /\ pc = "uninstall" /\ pc' = "uninstalling" /\ phase = "ready" /\ Installed(z)
          /\ UNCHANGED <<bundleMap, record, thirdSystem, uninstalled, gone, boot, hap, bundle>>
      BY <1>i, <1>s, <1>4, <2>2 DEF RemoveDirsBegin, DirsRemoval, StepsInPhase, bundle
    <3>2. Recorded(z)
      BY <1>i, <3>1, RestAtReady, InstalledIsRecorded
    <3> QED
      BY <1>i, <1>4, <3>1, <3>2
         DEF ListsNested, ReloadedSigner, VendorListed, GoneStays, OneSigner, Recorded, Installed
  <2>3. CASE UninstallDirs
    <3>1. /\ pc = "uninstalling" /\ pc' = "permissions" /\ bundleMap'[z] = NoInfo
          /\ UNCHANGED <<record, thirdSystem, uninstalled, gone, boot, hap, bundle>>
      BY <1>t, <1>m, <1>4, <2>3 DEF UninstallDirs, DirsLeft, RemoveBundleInfo, bundle
    <3> QED
      BY <1>i, <1>4, <3>1
         DEF ListsNested, ReloadedSigner, VendorListed, GoneStays, OneSigner, Recorded, Installed,
             NoInfo, StepsInPhase
  <2>4. CASE DeletePermissions
    BY <1>t, <1>m, <1>i, <1>4, <2>4
       DEF DeletePermissions, ListsNested, ReloadedSigner, VendorListed, GoneStays,
           OneSigner, Recorded, Installed, bundle
  <2>5. CASE NoUidFile
    BY <1>u, <2>5 DEF NoUidFile
  <2>6. CASE DropEntryBegin
    BY <1>t, <1>m, <1>i, <1>4, <2>6
       DEF DropEntryBegin, ListsNested, ReloadedSigner, VendorListed, GoneStays, OneSigner,
           Recorded, Installed, bundle
  <2>7. CASE DropEntryEnd
    BY <1>t, <1>s, <1>m, <1>i, <1>4, <2>7
       DEF DropEntryEnd, ListsNested, ReloadedSigner, VendorListed, GoneStays, OneSigner,
           Recorded, Installed, bundle
  <2>8. CASE DropRecord
    BY <1>t, <1>m, <1>i, <1>4, <2>8
       DEF DropRecord, End, ListsNested, ReloadedSigner, VendorListed, GoneStays,
           OneSigner, Recorded, Installed, bundle
  <2>9. CASE UninstallFails
    BY <1>m, <2>9 DEF UninstallFails
  <2>10. CASE UninstallDone
    <3>1. /\ pc = "recordUninstalled" /\ pc' = "idle" /\ phase = "ready" /\ gone' = gone \cup {z}
          /\ uninstalled' = uninstalled \cup (thirdSystem \cap {z})
          /\ UNCHANGED <<bundleMap, record, thirdSystem, boot>>
      BY <1>i, <1>m, <1>4, <2>10 DEF UninstallDone, End, WithUninstalled, StepsInPhase
    <3>2. ~Recorded(z) /\ ~Installed(z)
      BY <1>i, <1>4, <3>1 DEF OperationInStep
    <3>3. Home[z] # "SYSTEM"
      BY <1>i, <1>4, <3>1 DEF RebootInv, SystemKept, KeptSystem, Undoing, StepsInPhase
    <3>4. Home[z] = "THIRD_SYSTEM" => z \in uninstalled'
      BY <1>i, <3>1 DEF VendorListed
    <3>5. ListsNested'
      BY <1>i, <3>1, <3>3 DEF ListsNested
    <3> QED
      BY <1>i, <1>4, <3>1, <3>2, <3>3, <3>4, <3>5
         DEF ReloadedSigner, VendorListed, GoneStays, OneSigner, Recorded, Installed
  <2> QED
    BY <1>4, <2>1, <2>2, <2>3, <2>4, <2>5, <2>6, <2>7, <2>8, <2>9, <2>10 DEF Uninstall
<1>5. CASE Reloaded
  BY <1>5, <1>i, <1>t
     DEF Reloaded, End, StepsInPhase, ListsNested, ReloadedSigner, VendorListed, GoneStays,
         OneSigner, Recorded, Installed, bundle
<1>6. ~Purge
  BY <1>s DEF Purge
<1>7. QED
  BY <1>3, <1>4, <1>5, <1>6 DEF Operation

(* No operation, scan step, request or reboot leads out of VendorsKept.    *)
LEMMA VendorsStep ==
  ASSUME OnlyReboots, TypeOK, TypeOK', InstallProgress, ScansOwnPartition, RebootInv, [Next]_vars
  PROVE  VendorsKept'
<1> USE DEF Goto, memory, codeDisk, jsonDisk, disk, task, boot, told, budget,
            FromUidTmp, FromPublish, FromRecord, FromUid, FromExtracting, InstallSteps
<1>t. /\ bundle \in Bundles /\ record \in [Bundles -> Records] /\ bundleMap \in [Bundles -> Infos]
      /\ uninstalled \subseteq Bundles /\ toScan \subseteq Bundles
  BY DEF TypeOK, Haps, bundle
<1>i. /\ Steady /\ (\A x \in Bundles : Rests(x)) /\ StepsInPhase /\ OperationInStep
      /\ VendorsKept /\ ListsNested /\ ReloadedSigner
      /\ \A x \in Bundles : VendorListed(x) /\ GoneStays(x) /\ OneSigner(x)
  BY DEF RebootInv, Steady, VendorsKept
<1>m. ~Crash /\ ~PowerLoss /\ "reject" \notin Faults
  BY DEF OnlyReboots, Crash, PowerLoss
<1>0. CASE UNCHANGED vars
  BY <1>0, <1>i DEF vars, VendorsKept, ListsNested, ReloadedSigner, VendorListed, GoneStays,
                    OneSigner, Recorded, Installed, bundle
<1>1. CASE Operation
  <2>1. ASSUME NEW z \in Bundles, z # bundle
        PROVE  VendorListed(z)' /\ GoneStays(z)' /\ OneSigner(z)'
    BY <1>1, <1>i, <2>1, OperationKeepsOthers, ListsOnlyOf, VendorsOther
  <2>2. ASSUME NEW z \in Bundles, z = bundle
        PROVE  /\ ListsNested' /\ ReloadedSigner'
               /\ VendorListed(z)' /\ GoneStays(z)' /\ OneSigner(z)'
    BY <1>1, <2>2, VendorsOfOperation
  <2> QED
    BY <1>t, <2>1, <2>2 DEF VendorsKept
<1>2. ASSUME NEW h \in Haps, ReceiveInstall(h)
      PROVE  VendorsKept'
  <2>1. /\ pc = "idle" /\ pc' = "check" /\ phase = "ready" /\ hap' = h /\ bundle' = h.name
        /\ UNCHANGED <<bundleMap, record, thirdSystem, uninstalled, boot>>
        /\ gone' = gone \ {h.name} /\ ~Refused(h) /\ h.name \in Bundles
    BY <1>2, <1>m DEF ReceiveInstall, Idle, bundle, Haps
  <2>2. ASSUME NEW x \in Bundles, x = h.name, Home[x] # "THIRD", x \notin uninstalled
        PROVE  h.app = PreInstalledApp
    <3>1. Matches(x) /\ Rests(x)
      BY <1>i, <2>1, RestAtReady
    <3>2. Recorded(x)
      <4>1. CASE Home[x] = "SYSTEM"
        <5>1. Installed(x)
          BY <1>i, <2>1, <4>1 DEF RebootInv, SystemKept, KeptSystem, StepsInPhase
        <5> QED
          BY <3>1, <5>1, InstalledIsRecorded
      <4>2. CASE Home[x] = "THIRD_SYSTEM"
        BY <1>i, <2>1, <2>2, <4>2 DEF VendorListed
      <4> QED
        BY <2>2, <4>1, <4>2, InstallerAssumption DEF Styles
    <3>3. record[x].app = PreInstalledApp /\ Installed(x)
      BY <1>i, <2>2, <3>1, <3>2, InstalledIsRecorded DEF OneSigner
    <3> QED
      BY <2>1, <2>2, <3>1, <3>3 DEF Refused, Matches
  <2>3. ASSUME NEW x \in Bundles PROVE VendorListed(x)' /\ GoneStays(x)' /\ OneSigner(x)'
    <3>1. VendorListed(x)'
      BY <1>i, <2>1 DEF VendorListed, Recorded, Installed
    <3>2. GoneStays(x)'
      BY <1>i, <2>1 DEF GoneStays, Recorded
    <3>3. OneSigner(x)'
      BY <1>i, <2>1, <2>2 DEF OneSigner, Recorded
    <3> QED
      BY <3>1, <3>2, <3>3
  <2> QED
    BY <1>i, <2>1, <2>3 DEF VendorsKept, ListsNested, ReloadedSigner
<1>3. ASSUME NEW y \in Bundles, NEW keep \in BOOLEAN, ReceiveUninstall(y, keep)
      PROVE  VendorsKept'
  <2>1. /\ pc = "idle" /\ pc' = "uninstall" /\ phase = "ready"
        /\ UNCHANGED <<bundleMap, record, thirdSystem, uninstalled, boot, gone>>
    BY <1>3 DEF ReceiveUninstall, Idle
  <2> QED
    BY <1>i, <2>1 DEF VendorsKept, ListsNested, ReloadedSigner, VendorListed, GoneStays,
                      OneSigner, Recorded, Installed
<1>4. CASE ScanDone
  <2>1. /\ pc = "idle" /\ pc' = "idle" /\ phase \in Styles /\ toScan = {}
        /\ UNCHANGED <<bundleMap, record, thirdSystem, uninstalled, gone, bundle>>
        /\ phase' = NextPhase[phase]
        /\ phase' = "THIRD_SYSTEM" => toScan' = {x \in Bundles : Home[x] = "THIRD_SYSTEM"}
    BY <1>4 DEF ScanDone, Scanning, InDirectory, bundle
  <2>2. ASSUME NEW x \in Bundles PROVE VendorListed(x)' /\ GoneStays(x)' /\ OneSigner(x)'
    <3>1. VendorListed(x)'
      BY <1>i, <2>1 DEF VendorListed, Recorded, Installed, NextPhase, Styles
    <3>2. GoneStays(x)' /\ OneSigner(x)'
      BY <1>i, <2>1 DEF GoneStays, OneSigner, Recorded
    <3> QED
      BY <3>1, <3>2
  <2> QED
    BY <1>i, <2>1, <2>2 DEF VendorsKept, ListsNested, ReloadedSigner
<1>5. ASSUME NEW y \in Bundles, Skip(y)
      PROVE  VendorsKept'
  <2>1. /\ pc = "idle" /\ pc' = "idle" /\ phase' = phase /\ toScan' = toScan \ {y} /\ Skipped(y)
        /\ UNCHANGED <<bundleMap, record, thirdSystem, uninstalled, gone, bundle>>
    BY <1>5 DEF Skip, Scanning, bundle
  <2>2. ASSUME NEW x \in Bundles PROVE VendorListed(x)' /\ GoneStays(x)' /\ OneSigner(x)'
    <3>1. VendorListed(x)'
      BY <1>i, <2>1 DEF VendorListed, Recorded, Installed, Skipped, ListsNested
    <3>2. GoneStays(x)' /\ OneSigner(x)'
      BY <1>i, <2>1 DEF GoneStays, OneSigner, Recorded
    <3> QED
      BY <3>1, <3>2
  <2> QED
    BY <1>i, <2>1, <2>2 DEF VendorsKept, ListsNested, ReloadedSigner
<1>6. ASSUME NEW y \in Bundles, ScanBundle(y)
      PROVE  VendorsKept'
  <2>1. /\ pc = "idle" /\ phase' = phase /\ phase \in Styles /\ y \in toScan
        /\ toScan' = toScan \ {y} /\ ~Skipped(y) /\ bundle' = y
        /\ phase # "THIRD" => hap' = PreInstalled(y)
        /\ UNCHANGED <<record, thirdSystem, uninstalled, gone>>
    BY <1>6, <1>t DEF ScanBundle, Scanning, bundle, PreInstalled, TypeOK, Haps
  <2>2. /\ \A x \in Bundles \ {y} : bundleMap'[x] = bundleMap[x]
        /\ IF ValidRecord(y) THEN pc' # "check"
           ELSE pc' = "check" /\ bundleMap' = bundleMap
        /\ pc' \in {"check", "purge", "reloaded"}
    BY <1>6, <1>t DEF ScanBundle, Reload
  <2>3. Rests(y) /\ AtRest(y)
    BY <1>i, <2>1 DEF Rests, Uninstalling
  <2>4. Recorded(y) <=> ValidRecord(y)
    BY <2>3 DEF AtRest, ValidRecord, Recorded
  <2>5. phase \in {"SYSTEM", "THIRD_SYSTEM"} => Home[y] = phase
    BY <2>1 DEF ScansOwnPartition
  <2>6. y \notin gone
    BY <1>i, <2>1, <2>4, <2>5 DEF GoneStays, Skipped, Styles
  <2>7. pc' = "check" => phase # "THIRD"
    BY <2>1, <2>2 DEF Skipped
  <2>8. phase # "THIRD" => hap'.app = PreInstalledApp /\ y \notin uninstalled
    BY <1>i, <2>1, <2>5 DEF PreInstalled, Skipped, ListsNested, Styles
  <2>9. ASSUME NEW x \in Bundles PROVE VendorListed(x)' /\ GoneStays(x)' /\ OneSigner(x)'
    <3>1. VendorListed(x)'
      <4>1. CASE x = y
        BY <1>i, <2>1, <2>2, <2>4, <2>5, <2>7, <4>1
           DEF VendorListed, Recorded, Installed, Styles
      <4>2. CASE x # y
        BY <1>i, <2>1, <2>2, <4>2 DEF VendorListed, Recorded, Installed
      <4> QED
        BY <4>1, <4>2
    <3>2. GoneStays(x)'
      BY <1>i, <2>1, <2>6 DEF GoneStays, Recorded
    <3>3. OneSigner(x)'
      BY <1>i, <2>1, <2>2, <2>7, <2>8 DEF OneSigner, Recorded
    <3> QED
      BY <3>1, <3>2, <3>3
  <2>10. ReloadedSigner'
    BY <2>1, <2>8 DEF ReloadedSigner
  <2> QED
    BY <1>i, <2>1, <2>9, <2>10 DEF VendorsKept, ListsNested
<1>7. CASE Reboot
  <2>1. /\ pc = "idle" /\ pc' = "idle" /\ phase = "ready" /\ phase' = "SYSTEM"
        /\ bundleMap' = [x \in Bundles |-> NoInfo]
        /\ UNCHANGED <<record, thirdSystem, uninstalled, gone, bundle>>
    BY <1>7 DEF Reboot, Start, Idle, bundle
  <2>2. ASSUME NEW x \in Bundles PROVE VendorListed(x)' /\ GoneStays(x)' /\ OneSigner(x)'
    <3>1. VendorListed(x)'
      BY <1>i, <2>1 DEF VendorListed, Recorded, Installed, NoInfo
    <3>2. GoneStays(x)' /\ OneSigner(x)'
      BY <1>i, <2>1 DEF GoneStays, OneSigner, Recorded
    <3> QED
      BY <3>1, <3>2
  <2> QED
    BY <1>i, <2>1, <2>2 DEF VendorsKept, ListsNested, ReloadedSigner
<1>8. ClientHaps \subseteq Haps
  BY DEF ClientHaps
<1>9. QED
  BY <1>0, <1>1, <1>2, <1>3, <1>4, <1>5, <1>6, <1>7, <1>8, <1>m
     DEF Next, Request, Operation, ScanPackages, Restart

-----------------------------------------------------------------------------
(* The invariant and what follows from it.                                 *)

(* None of this is ever left, whatever the clients do and however often    *)
(* the service restarts.                                                   *)
LEMMA RebootIsInv ==
  ASSUME OnlyReboots
  PROVE  Spec => []RebootInv
<1>1. Init => RebootInv
  <2> SUFFICES ASSUME Init PROVE RebootInv
    OBVIOUS
  <2> USE DEF FromUidTmp, FromPublish, FromRecord, FromUid, FromExtracting, InstallSteps,
              BeforePublish, Uninstalling
  <2>1. SystemKept
    BY DEF Init, SystemKept, KeptSystem, Installed, NoInfo, NoRecord, InDirectory, Undoing
  <2>2. Steady
    BY DEF Init, Steady, StepsInPhase, OperationInStep, Rests, AtRest, Matches, Recorded,
           Installed, NoInfo, NoRecord
  <2>3. UidsHeld
    BY DEF Init, UidsHeld, OwnUid, NoRecord, EmptyMap
  <2>4. UidsListed
    BY DEF Init, UidsListed, UidList, ListedUid, EntryIs, NoRecord
  <2>5. VendorsKept
    BY
       DEF Init, VendorsKept, ListsNested, ReloadedSigner, VendorListed, GoneStays,
           OneSigner,
           Recorded, Installed, NoInfo
  <2> QED
    BY <2>1, <2>2, <2>3, <2>4, <2>5 DEF RebootInv
<1>2. TypeOK /\ TypeOK' /\ AckedInv /\ RemovedInv /\ RebootInv /\ [Next]_vars => RebootInv'
  <2> SUFFICES ASSUME TypeOK, TypeOK', InstallProgress, ScansOwnPartition, RebootInv, [Next]_vars
               PROVE  RebootInv'
    BY DEF AckedInv, RemovedInv
  <2>1. UidsLeft
    BY UidsAreLeft
  <2>2. SystemKept'
    BY <2>1, SystemStep DEF RebootInv
  <2>3. Steady'
    BY <2>1, SteadyStep
  <2>4. UidsHeld' /\ UidsListed'
    BY UidsStep
  <2>5. VendorsKept'
    BY VendorsStep
  <2> QED
    BY <2>2, <2>3, <2>4, <2>5 DEF RebootInv
<1>3. QED
  BY <1>1, <1>2, TypeCorrect, AckedIsInv, RemovedIsInv, PTL DEF Spec

(* What is installed runs under a valid uid that is its own.               *)
LEMMA RunsUnderOwnUid ==
  ASSUME TypeOK, InstallProgress, Steady, NEW x \in Bundles, Installed(x)
  PROVE  bundleMap[x].uid = OwnUid(x) /\ OwnUid(x) # InvalidUid
<1> USE DEF FromUidTmp, FromPublish, FromRecord, FromUid, FromExtracting, InstallSteps,
            BeforePublish, Uninstalling
<1>1. Rests(x) /\ OperationInStep
  BY DEF Steady
<1>2. CASE bundle = x /\ pc \in FromRecord
  BY <1>1, <1>2 DEF InstallProgress, OwnUid, OperationInStep
<1>3. CASE ~(bundle = x /\ pc \in FromRecord)
  <2>1. Matches(x)
    BY <1>1, <1>3 DEF Rests, AtRest, OperationInStep
  <2> QED
    BY <1>1, <1>3, <2>1, InstalledIsRecorded DEF OwnUid, Matches, Rests
<1>4. QED
  BY <1>2, <1>3

(* The uid of an installed bundle stays reserved for it, however often the *)
(* service restarts: what RestoreUidAndGidMap reads back is what           *)
(* GenerateUid gave, and RecycleUid takes it away only after the bundle.   *)
THEOREM UidStaysReserved ==
  ASSUME OnlyReboots
  PROVE  Spec => []UidReserved
<1>1. TypeOK /\ InstallProgress /\ RebootInv => UidReserved
  <2> SUFFICES ASSUME TypeOK, InstallProgress, RebootInv, NEW x \in Bundles, Installed(x)
               PROVE  \E i \in DOMAIN uidMap[StyleOfUid(bundleMap[x].uid)] :
                        /\ bundleMap[x].uid = Base(StyleOfUid(bundleMap[x].uid)) + i
                        /\ uidMap[StyleOfUid(bundleMap[x].uid)][i] = x
    BY DEF UidReserved
  <2>1. bundleMap[x].uid = OwnUid(x) /\ OwnUid(x) # InvalidUid
    BY RunsUnderOwnUid DEF RebootInv
  <2>2. PICK s \in Styles : \E i \in DOMAIN uidMap[s] :
               uidMap[s][i] = x /\ OwnUid(x) = Base(s) + i
    BY <2>1 DEF RebootInv, UidsHeld
  <2>3. PICK i \in DOMAIN uidMap[s] : uidMap[s][i] = x /\ OwnUid(x) = Base(s) + i
    BY <2>2
  <2>4. StyleOfUid(bundleMap[x].uid) = s
    BY <2>1, <2>3, StyleOfIndex DEF RebootInv, UidsHeld, OnlyReboots
  <2> QED
    BY <2>1, <2>3, <2>4
<1>2. QED
  BY <1>1, RebootIsInv, TypeCorrect, AckedIsInv, PTL DEF AckedInv

(* The data directory belongs to the uid the bundle runs under, also where *)
(* an earlier installation left it to another: CreateDataDirectory gives   *)
(* it to the new uid.                                                      *)
THEOREM DataBelongsToOwner ==
  ASSUME OnlyReboots
  PROVE  Spec => []DataOwner
<1>1. TypeOK /\ RebootInv => DataOwner
  <2> SUFFICES ASSUME TypeOK, RebootInv, NEW x \in Bundles, Installed(x),
                      pc = "idle" \/ bundle # x
               PROVE  data[x] = bundleMap[x].uid
    BY DEF DataOwner
  <2>1. Rests(x) /\ AtRest(x) /\ Matches(x)
    BY
       DEF RebootInv, Steady, Rests, AtRest, FromExtracting, FromUid, FromRecord,
           FromPublish,
           FromUidTmp, Uninstalling
  <2> QED
    BY <2>1, InstalledIsRecorded DEF AtRest, Matches
<1>2. QED
  BY <1>1, RebootIsInv, TypeCorrect, PTL

(* Between two requests the bundle map, the records, the uid list and the  *)
(* code directories tell the same, although each request writes them one   *)
(* after the other and a restart rebuilds the first from the rest.         *)
THEOREM DiskTellsTheSame ==
  ASSUME OnlyReboots
  PROVE  Spec => []DiskAgrees
<1>1. TypeOK /\ RebootInv => DiskAgrees
  <2> SUFFICES ASSUME TypeOK, RebootInv, Idle PROVE DiskAgrees
    BY DEF DiskAgrees
  <2>1. UidList = uidFile /\ \A x \in Bundles : ListedUid(x) = record[x].uid
    BY DEF Idle, UidList, ListedUid
  <2>2. ASSUME NEW x \in Bundles
        PROVE  LET entries == {k \in DOMAIN uidFile : uidFile[k].name = x} IN
               IF Installed(x)
               THEN /\ record[x].ver = bundleMap[x].ver
                    /\ record[x].uid = bundleMap[x].uid
                    /\ record[x].app = bundleMap[x].app
                    /\ code[x] = bundleMap[x].ver
                    /\ \E k \in DOMAIN uidFile : /\ entries = {k}
                                                 /\ uidFile[k].uid = bundleMap[x].uid
               ELSE record[x] = NoRecord /\ entries = {} /\ code[x] = None
    <3>1. AtRest(x) /\ Matches(x) /\ Rests(x)
      BY RestAtReady DEF Idle, RebootInv, Steady
    <3>2. EntryIs(uidFile, x, record[x].uid)
      BY <2>1 DEF RebootInv, UidsListed
    <3>3. (Installed(x) <=> Recorded(x)) /\ (~Recorded(x) => record[x].uid = InvalidUid)
      BY <3>1, InstalledIsRecorded
    <3>4. CASE Installed(x)
      BY <3>1, <3>2, <3>3, <3>4 DEF AtRest, Matches, Rests, EntryIs
    <3>5. CASE ~Installed(x)
      BY <3>1, <3>2, <3>3, <3>5 DEF AtRest, Recorded, EntryIs, NoRecord
    <3> QED
      BY <3>4, <3>5
  <2> QED
    BY <2>2 DEF DiskAgrees
<1>2. QED
  BY <1>1, RebootIsInv, TypeCorrect, PTL

(* A bundle whose removal was confirmed does not come back, a vendor's     *)
(* neither: uninstalled_delbundle.json keeps the scan from it, and no      *)
(* record is left that the last scan would follow.                         *)
THEOREM RemovedStayUninstalled ==
  ASSUME OnlyReboots
  PROVE  Spec => []StaysUninstalled
<1>1. TypeOK /\ RebootInv => StaysUninstalled
  <2> SUFFICES ASSUME TypeOK, RebootInv, phase = "ready", NEW x \in Bundles, x \in gone
               PROVE  ~Installed(x)
    BY DEF StaysUninstalled, TypeOK
  <2>1. ~Recorded(x) /\ (bundle = x => pc \in {"idle", "uninstall"})
    BY DEF RebootInv, VendorsKept, GoneStays
  <2>2. Matches(x) /\ Rests(x)
    BY <2>1, RestAtReady DEF RebootInv, Steady
  <2> QED
    BY <2>1, <2>2, InstalledIsRecorded
<1>2. QED
  BY <1>1, RebootIsInv, TypeCorrect, PTL

-----------------------------------------------------------------------------
(* The records on disk are an AppStore.                                    *)

(* Only two steps change what is stored, each for its own bundle.          *)
LEMMA StoredChanges ==
  ASSUME OnlyReboots, TypeOK, InstallProgress, RebootInv, [Next]_vars,
         ~RenameRecordBegin, ~DropRecord
  PROVE  \A x \in Bundles : StoredRecord(x)' = StoredRecord(x)
<1> USE DEF Goto, memory, codeDisk, jsonDisk, disk, task, boot, told, budget
<1>t. record \in [Bundles -> Records] /\ bundle \in Bundles
  BY DEF TypeOK, bundle, Haps
<1>m. ~MayFail /\ ~Crash /\ ~PowerLoss
  BY DEF OnlyReboots, MayFail, Crash, PowerLoss
<1>s. pc \notin {"rollback", "purge"}
  BY
     DEF RebootInv, Steady, StepsInPhase, InstallSteps, Uninstalling, FromExtracting,
         FromUid,
         FromRecord, FromPublish, FromUidTmp
<1> DEFINE Same == UNCHANGED record /\ pc # "recordRenaming" /\ pc' # "recordRenaming"
<1>1. CASE RenameRecordEnd
  <2>1. /\ pc = "recordRenaming" /\ pc' = "thirdSystem" /\ UNCHANGED bundle
        /\ record' = [record EXCEPT ![bundle] = tmpRecord]
    BY <1>1 DEF RenameRecordEnd, bundle
  <2> QED
    BY <1>t, <2>1 DEF StoredRecord
<1>2. CASE UNCHANGED vars
  BY <1>2 DEF vars, StoredRecord, bundle
<1>3. ASSUME Install, ~RenameRecordEnd PROVE Same
  BY <1>m, <1>s, <1>3
     DEF Install, BadHap, Refuse, Accept, ExtractBegin, ExtractEnd, ExtractFails,
         RenameCodeBegin, RenameCodeEnd, RenameCodeFails, AssignUid, CreateDataFails,
         BackUpInstallRecord, BackUpRecordFails, UpdateBundleInfo, UpdateBundleInfoFails,
         BackUpUidAndGidInfo, RenameUidFileBegin, RenameUidFileEnd, BackUpFails, InstallDone,
         Rollback, RollbackDone, ClearDone, End
<1>4. ASSUME Uninstall PROVE Same
  BY <1>m, <1>4
     DEF Uninstall, RefuseUninstall, RemoveDirsBegin, DirsRemoval, UninstallDirs,
         DeletePermissions, NoUidFile, DropEntryBegin, DropEntryEnd, UninstallFails,
         UninstallDone, End
<1>5. ASSUME ScanPackages PROVE Same
  BY <1>s, <1>5
     DEF ScanPackages, ScanDone, Purge, Reloaded, Skip, ScanBundle, Scanning, End
<1>6. ASSUME Request \/ Reboot PROVE Same
  BY <1>6 DEF Request, ReceiveInstall, ReceiveUninstall, Reboot, Idle, Start
<1>7. ASSUME Same PROVE \A x \in Bundles : StoredRecord(x)' = StoredRecord(x)
  BY <1>7 DEF StoredRecord
<1>8. QED
  BY <1>1, <1>2, <1>3, <1>4, <1>5, <1>6, <1>7, <1>m DEF Next, Restart

(* What the store keeps of a bundle.                                       *)
App(x) == [ver |-> StoredRecord(x).ver, uid |-> StoredRecord(x).uid]

(* A bundle has an entry with a version exactly if it has a record.        *)
LEMMA StoredBefore ==
  ASSUME OnlyReboots, TypeOK, RebootInv, pc # "recordRenaming", NEW x \in Bundles
  PROVE  /\ App(x).ver = record[x].ver /\ App(x).uid = record[x].uid
         /\ Recorded(x) <=> App(x).ver # None
BY DEF App, StoredRecord, RebootInv, Steady, Rests, Recorded, NoRecord

(* An install or update takes effect when the record is replaced.          *)
LEMMA RecordReplaced ==
  ASSUME OnlyReboots, TypeOK, InstallProgress, RebootInv, RenameRecordBegin,
         NEW x \in Bundles, x = bundle
  PROVE  /\ \A y \in Bundles \ {x} : App(y)' = App(y)
         /\ App(x)'.ver # None
         /\ App(x).ver # None => App(x)'.ver >= App(x).ver /\ App(x)'.uid = App(x).uid
         /\ \A y \in Bundles \ {x} : App(y).ver # None => App(y).uid # App(x)'.uid
<1>1. /\ pc = "recordRename" /\ pc' = "recordRenaming" /\ UNCHANGED <<tmpRecord, hap, bundle>>
      /\ record' = [record EXCEPT ![bundle] = NoRecord]
  BY DEF RenameRecordBegin, Goto, task, bundle
<1>2. tmpRecord = [ver |-> hap.ver, uid |-> uid, app |-> hap.app]
  BY <1>1 DEF InstallProgress, FromPublish, FromUidTmp
<1>3. \A y \in Bundles : StoredRecord(y)' = IF y = x THEN tmpRecord ELSE record[y]
  BY <1>1 DEF StoredRecord, TypeOK
<1>4. \A y \in Bundles \ {x} : App(y)' = App(y)
  BY <1>1, <1>3 DEF App, StoredRecord
<1>5. App(x)'.ver = hap.ver /\ App(x)'.uid = uid
  BY <1>2, <1>3 DEF App
<1>6. hap.ver # None
  BY InstallerAssumption DEF TypeOK, Haps, None
<1>7. uid # InvalidUid /\ (Recorded(x) => hap.ver >= record[x].ver /\ uid = record[x].uid)
  BY <1>1 DEF RebootInv, Steady, OperationInStep, InstallSteps, FromExtracting, FromUid,
              FromRecord, FromPublish, FromUidTmp
<1>8. ASSUME NEW y \in Bundles \ {x}, App(y).ver # None
      PROVE  App(y).uid # uid
  <2>1. App(y).uid = OwnUid(y) /\ OwnUid(x) = uid
    BY <1>1, <1>8, StoredBefore DEF OwnUid, FromRecord, FromPublish, FromUidTmp
  <2> QED
    BY <1>7, <2>1, OwnUidsDiffer DEF RebootInv
<1>9. QED
  BY <1>1, <1>4, <1>5, <1>6, <1>7, <1>8, StoredBefore

(* An uninstall takes effect when the record is removed, and never of a    *)
(* bundle of the system partition.                                         *)
LEMMA RecordDropped ==
  ASSUME OnlyReboots, TypeOK, RebootInv, DropRecord, NEW x \in Bundles, x = bundle
  PROVE  /\ \A y \in Bundles \ {x} : App(y)' = App(y)
         /\ App(x).ver # None /\ App(x)'.ver = None
         /\ Home[x] # "SYSTEM"
<1>1. OperationInStep /\ StepsInPhase
  BY DEF RebootInv, Steady
<1>2. /\ pc = "dropRecord" /\ Recorded(x) /\ pc' = "recordUninstalled"
      /\ record' = [record EXCEPT ![x] = NoRecord]
  BY <1>1 DEF DropRecord, Goto, OperationInStep, Uninstalling, Recorded
<1>3. \A y \in Bundles : StoredRecord(y)' = IF y = x THEN NoRecord ELSE record[y]
  BY <1>2 DEF StoredRecord, TypeOK
<1>4. \A y \in Bundles \ {x} : App(y)' = App(y)
  BY <1>2, <1>3 DEF App, StoredRecord
<1>5. App(x)'.ver = None
  BY <1>3 DEF App, NoRecord
<1>6. Home[x] # "SYSTEM"
  BY <1>1, <1>2 DEF RebootInv, SystemKept, KeptSystem, Undoing, StepsInPhase
<1>7. QED
  BY <1>2, <1>4, <1>5, <1>6, StoredBefore

(* The installer implements the store: an install or an update happens at  *)
(* once where RenameJsonFile replaces the record, an uninstall where it is *)
(* removed, and every other step, a scan and a restart of the service too, *)
(* is a stutter but for the installs and updates a scan makes.             *)
THEOREM StoreImplemented ==
  ASSUME OnlyReboots
  PROVE  Spec => ImplementsStore
<1> DEFINE apps == [x \in Bundles |-> App(x)]
<1>1. Init => Store!Init
  BY DEF Init, Store!Init, Store!Present, StoredRecord, NoRecord, None
<1>2. TypeOK /\ AckedInv /\ RebootInv /\ [Next]_vars => [Store!Next]_apps
  <2> SUFFICES ASSUME TypeOK, InstallProgress, RebootInv, [Next]_vars
               PROVE  Store!Next \/ UNCHANGED apps
    BY DEF AckedInv
  <2>0. bundle \in Bundles /\ None = 0
    BY DEF TypeOK, bundle, Haps, None
  <2>1. CASE RenameRecordBegin
    <3>1. PICK x \in Bundles : x = bundle
      BY <2>0
    <3>2. /\ \A y \in Bundles \ {x} : App(y)' = App(y)
          /\ App(x)'.ver # None
          /\ App(x).ver # None => App(x)'.ver >= App(x).ver /\ App(x)'.uid = App(x).uid
          /\ \A y \in Bundles \ {x} : App(y).ver # None => App(y).uid # App(x)'.uid
      BY <2>1, <3>1, RecordReplaced
    <3>3. Store!Install(x) \/ Store!Update(x)
      BY <2>0, <3>2 DEF Store!Install, Store!Update, Store!Present, App
    <3> QED
      BY <3>2, <3>3 DEF Store!Next, App
  <2>2. CASE DropRecord
    <3>1. PICK x \in Bundles : x = bundle
      BY <2>0
    <3>2. /\ \A y \in Bundles \ {x} : App(y)' = App(y)
          /\ App(x).ver # None /\ App(x)'.ver = None
          /\ Home[x] # "SYSTEM"
      BY <2>2, <3>1, RecordDropped
    <3>3. Store!Uninstall(x)
      BY <2>0, <3>2 DEF Store!Uninstall, Store!Present, App
    <3> QED
      BY <3>2, <3>3 DEF Store!Next, App
  <2>3. CASE ~RenameRecordBegin /\ ~DropRecord
    <3>1. \A x \in Bundles : StoredRecord(x)' = StoredRecord(x)
      BY <2>3, StoredChanges
    <3> QED
      BY <3>1 DEF App
  <2> QED
    BY <2>1, <2>2, <2>3
<1>3. QED
  BY <1>1, <1>2, TypeCorrect, AckedIsInv, RebootIsInv, PTL
     DEF Spec, ImplementsStore, Store!Spec, App
=============================================================================
