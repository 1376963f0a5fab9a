---------------------------- MODULE BundleProfile ----------------------------
(***************************************************************************)
(* From config.json to BundleInfo: which profiles BundleParser accepts and *)
(* what BundleInfoCreator, BundleResTransform and their two callers make   *)
(* of one, the installer of a hap and the scan of the installed            *)
(* directories at boot.  There is no state: BundleQueries holds the infos. *)
(*                                                                         *)
(* An object of the profile is a record that says which members it `has`,  *)
(* which of those are `wrong` (of a type or form the parser does not       *)
(* take), which are too `long`, and for a text that refers to a resource   *)
(* ("$string:", "$media:") what its id is: `ref` is a function on the      *)
(* members that do.  The text of a member is abstracted to its name, so    *)
(* that a text put in another's place is seen.                             *)
(***************************************************************************)
EXTENDS Integers, Sequences, FiniteSets, Functions

CONSTANTS
  DeviceTypeSize,   \* DEVICE_TYPE_SIZE
  MetaDataSize,     \* METADATA_SIZE
  DefaultDevice,    \* DEFAULT_DEVICE_TYPE, which a profile must name
  SystemCaps        \* what GetSystemAvailableCapabilities of samgr returns

ASSUME ProfileAssumption ==
  DeviceTypeSize \in Nat \ {0} /\ MetaDataSize \in Nat \ {0}

Null == "null"      (* nullptr *)

-----------------------------------------------------------------------------
(* Members of a JSON object.                                               *)

(* CHECK_NULL of ParseValue: there and of the right type.                  *)
Holds(object, members) == members \subseteq object.has \ object.wrong

(* A member that may be absent, but not of another type.                   *)
RightType(object, members) == members \cap object.wrong = {}

InLength(object, members) == members \cap object.long = {}

IsReference(object, member) == member \in DOMAIN object.ref

(* A reference needs the number of its resource beside it.                 *)
HasId(object, member) == object.ref[member] # "noId"

(* A reference is not bounded in length: its text is replaced.             *)
ReferenceOrShort(object, member) ==
  IF IsReference(object, member) THEN HasId(object, member)
                                 ELSE InLength(object, {member})

-----------------------------------------------------------------------------
(* BundleParser.                                                           *)

AppAccepted(p) ==
  /\ Holds(p, {"bundleName", "versionName", "versionCode", "apiVersion"})
  /\ RightType(p, {"vendor", "target"})
  /\ InLength(p, {"bundleName", "versionName", "vendor"})
  /\ p.versionCode >= 0 /\ p.minApiVersion >= 0
  /\ "target" \in p.has => p.maxApiVersion >= p.minApiVersion

DeviceConfigAccepted(p) ==
  RightType(p, {"deviceConfig", "default", "smartVision", "keepAlive"})

(* The entry of the own device type outweighs the default one.             *)
IsKeepAlive(p) ==
  IF DOMAIN p.keepAlive = {} THEN FALSE
  ELSE p.keepAlive[IF "smartVision" \in DOMAIN p.keepAlive THEN "smartVision" ELSE "default"]

DescriptionAccepted(object) ==
  RightType(object, {"description"}) /\ ReferenceOrShort(object, "description")

(* Slip: the device types need not name the device.                        *)
DeviceTypeUnchecked(p) ==                                          \* a bug
  Holds(p, {"deviceType"}) /\ Len(p.deviceType) <= DeviceTypeSize

(* Slip: the device types are not counted.                                 *)
DeviceTypeUncounted(p) ==                                          \* a bug
  Holds(p, {"deviceType"}) /\ DefaultDevice \in Range(p.deviceType)

DeviceTypeAccepted(p) ==
  /\ Holds(p, {"deviceType"})
  /\ Len(p.deviceType) <= DeviceTypeSize
  /\ DefaultDevice \in Range(p.deviceType)

MetaDataAccepted(p) ==
  /\ RightType(p, {"customizeData"})
  /\ Len(p.metaData) <= MetaDataSize
  /\ \A i \in DOMAIN p.metaData :
       /\ RightType(p.metaData[i], {"name", "value", "extra"})
       /\ InLength(p.metaData[i], {"name", "value"})

CheckAbilityCapIsValid(a) == a.deviceCap \subseteq SystemCaps

(* An unknown type is accepted as UNKNOWN, and any launch type.            *)
AbilityAccepted(a) ==
  /\ Holds(a, {"name", "type"}) /\ InLength(a, {"name"})
  /\ DescriptionAccepted(a)
  /\ RightType(a, {"icon"}) /\ (IsReference(a, "icon") => HasId(a, "icon"))
  /\ RightType(a, {"label"}) /\ ReferenceOrShort(a, "label")
  /\ RightType(a, {"launchType", "visible", "deviceCapability"})
  /\ CheckAbilityCapIsValid(a)

(* The label of the first ability is the label of the bundle.              *)
AbilitiesAccepted(p) ==
  /\ Holds(p, {"abilities"})
  /\ p.abilities # <<>> => InLength(Head(p.abilities), {"label"})
  /\ \A i \in DOMAIN p.abilities : AbilityAccepted(p.abilities[i])

ModuleAccepted(p) ==
  /\ RightType(p, {"name"}) /\ InLength(p, {"name"})
  /\ DescriptionAccepted(p)
  /\ DeviceTypeAccepted(p)
  /\ Holds(p, {"distro", "deliveryWithInstall", "moduleName", "moduleType"})
  /\ InLength(p, {"moduleName"})
  /\ MetaDataAccepted(p)
  /\ AbilitiesAccepted(p)

(* No "js", or an empty one.                                               *)
IsNativeApp(p) == ~Holds(p, {"js"})

ParseJsonInfo(p) == AppAccepted(p) /\ DeviceConfigAccepted(p) /\ ModuleAccepted(p)

ParsePermissions(p) == RightType(p, {"reqPermissions"})

-----------------------------------------------------------------------------
(* BundleInfoCreator and BundleResTransform.                               *)

(* An icon in the package is a path, which has a bound, below codePath.    *)
IconPathsFit(p) ==
  \A i \in DOMAIN p.abilities :
    IsReference(p.abilities[i], "icon") \/ InLength(p.abilities[i], {"icon"})

(* Resources are looked up only for the abilities of an app with "js".     *)
HasResources(p) == p.abilities # <<>> /\ ~IsNativeApp(p)

ResourcesFound(p) ==
  HasResources(p) =>
    \A object \in Range(p.abilities) \cup {p} : "unknownId" \notin Range(object.ref)

(* A reference leaves no text until its resource is found; id 0 is none.   *)
TextOf(p, object, member) ==
  CASE member \notin object.has -> Null
    [] member \in object.has /\ ~IsReference(object, member) -> member
    [] OTHER -> IF HasResources(p) /\ object.ref[member] = "knownId" THEN "resource" ELSE Null

FirstText(p, member) ==
  IF p.abilities = <<>> THEN Null ELSE TextOf(p, Head(p.abilities), member)

NoMetaData == [used |-> FALSE, name |-> Null, value |-> Null, extra |-> Null]

MetaData(item) ==
  [used  |-> TRUE,
   name  |-> IF "name" \in item.has THEN item.name ELSE Null,
   value |-> IF "value" \in item.has THEN "value" ELSE Null,
   extra |-> IF "extra" \in item.has THEN "extra" ELSE Null]

SetModuleInfos(p) ==
  <<[text |-> [moduleName  |-> "moduleName",
               moduleType  |-> "moduleType",
               name        |-> IF "name" \in p.has THEN "name" ELSE Null,
               description |-> TextOf(p, p, "description")],
     isDeliveryInstall |-> p.deliveryWithInstall,
     deviceType |-> p.deviceType,
     metaData   |-> [i \in 1 .. MetaDataSize |->
                       IF i <= Len(p.metaData) THEN MetaData(p.metaData[i]) ELSE NoMetaData]]>>

(* ParseAbilityLauchMode looks the launch type up and then sets SINGLETON. *)
SetAbilityInfo(p, a) ==
  [text |-> [bundleName  |-> p.bundleName,
             moduleName  |-> "moduleName",
             name        |-> a.name,
             description |-> TextOf(p, a, "description"),
             iconPath    |-> TextOf(p, a, "icon"),
             label       |-> TextOf(p, a, "label"),
             deviceId    |-> Null],
   isVisible   |-> a.visible,
   abilityType |-> IF a.type \in {"page", "service"} THEN a.type ELSE "unknown",
   launchMode  |-> "singleton"]

(* The info of a profile whose bundle lies in `place`; the caller sets the *)
(* rest.  isKeepAlive and isNativeApp come from the profile.               *)
SetBundleInfo(p, place) ==
  [text |-> [bundleName  |-> p.bundleName,
             versionName |-> "versionName",
             codePath    |-> place,
             dataPath    |-> place,
             appId       |-> Null,
             label       |-> FirstText(p, "label"),
             bigIconPath |-> FirstText(p, "icon"),
             vendor      |-> IF "vendor" \in p.has THEN "vendor" ELSE Null],
   versionCode   |-> p.versionCode,
   compatibleApi |-> p.minApiVersion,
   targetApi     |-> IF p.maxApiVersion = 0 THEN p.minApiVersion ELSE p.maxApiVersion,
   isKeepAlive   |-> IsKeepAlive(p),
   isNativeApp   |-> IsNativeApp(p),
   isSystemApp   |-> FALSE,
   uid           |-> Null,
   modules       |-> SetModuleInfos(p),
   numOfModule   |-> 1,
   abilities     |-> [i \in DOMAIN p.abilities |-> SetAbilityInfo(p, p.abilities[i])],
   numOfAbility  |-> Len(p.abilities)]

Owned(info, uid, isSystemApp) ==
  [info EXCEPT !.text.appId = "appId", !.uid = uid, !.isSystemApp = isSystemApp]

-----------------------------------------------------------------------------
(* The two ways to an info.                                                *)

(* ParseHapProfile of a hap, and its part of ProcessBundleInstall.         *)
Installable(p) ==
  ParseJsonInfo(p) /\ ParsePermissions(p) /\ IconPathsFit(p) /\ ResourcesFound(p)

InstalledInfo(p, place, uid, isSystemApp) == Owned(SetBundleInfo(p, place), uid, isSystemApp)

(* ParseHapProfile of an installed directory, and ReloadBundleInfo.        *)
Reloadable(p) == ParseJsonInfo(p) /\ IconPathsFit(p) /\ ResourcesFound(p)

(* Slip: the target version is not read again.                             *)
ReloadedAsOld(p, place, uid, isSystemApp) ==                       \* a bug
  Owned(SetBundleInfo([p EXCEPT !.maxApiVersion = 0], place), uid, isSystemApp)

ReloadedInfo(p, place, uid, isSystemApp) == Owned(SetBundleInfo(p, place), uid, isSystemApp)
=============================================================================
