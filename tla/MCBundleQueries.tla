--------------------------- MODULE MCBundleQueries ---------------------------
(***************************************************************************)
(* An instance of BundleQueries for TLC: one client and two bundles, a     *)
(* system bundle in two versions and a third-party one without abilities.  *)
(* The profiles that are refused differ from those each in one thing.      *)
(***************************************************************************)
EXTENDS BundleQueries

AppMembers == {"bundleName", "versionName", "versionCode", "apiVersion"}
ModuleMembers == {"deviceType", "distro", "deliveryWithInstall", "moduleName", "moduleType", "abilities"}

NoMembers == [x \in {} |-> "noId"]

Ability ==
  [has |-> {"name", "type", "label", "icon", "description"}, wrong |-> {}, long |-> {},
   ref |-> ("label" :> "knownId") @@ ("description" :> "zeroId"),
   name |-> "main", type |-> "page", visible |-> TRUE, deviceCap |-> {}]

Item == [has |-> {"name", "value"}, wrong |-> {}, long |-> {}, name |-> "key"]

Nameless == [Item EXCEPT !.has = {"value"}]

(* A native third-party app with what a profile must have.                 *)
Small ==
  [bundleName |-> "b", versionCode |-> 1, minApiVersion |-> 3, maxApiVersion |-> 0,
   has |-> AppMembers \cup ModuleMembers, wrong |-> {}, long |-> {}, ref |-> NoMembers,
   keepAlive |-> [x \in {} |-> FALSE], deviceType |-> <<"default">>,
   deliveryWithInstall |-> TRUE, metaData |-> <<Nameless>>, abilities |-> <<>>]

Full ==
  [Small EXCEPT !.bundleName = "a", !.maxApiVersion = 4,
     !.has = @ \cup {"vendor", "target", "deviceConfig", "customizeData", "description", "js"},
     !.keepAlive = ("default" :> FALSE) @@ ("smartVision" :> TRUE),
     !.metaData = <<Item>>, !.abilities = <<Ability>>]

(* The next version, native: nothing replaces its references.              *)
Next_ == [Full EXCEPT !.versionCode = 2, !.has = @ \ {"js", "vendor"}]

TheProfiles ==
  ("small" :> Small) @@ ("full" :> Full) @@ ("next" :> Next_)
  @@ ("noDevice" :> [Full EXCEPT !.deviceType = <<>>])
  @@ ("manyDevices" :> [Full EXCEPT !.deviceType = <<"default", "tv", "car">>])
  @@ ("noModule" :> [Full EXCEPT !.has = @ \ {"moduleName"}])
  @@ ("wrongVersion" :> [Full EXCEPT !.versionCode = -1])
  @@ ("oldTarget" :> [Full EXCEPT !.maxApiVersion = 1])
  @@ ("twoItems" :> [Full EXCEPT !.metaData = <<Item, Item, Item>>])
  @@ ("noResource" :> [Full EXCEPT !.abilities[1].ref["label"] = "unknownId"])
  @@ ("noId" :> [Full EXCEPT !.abilities[1].ref["label"] = "noId"])
  @@ ("noCap" :> [Full EXCEPT !.abilities[1].deviceCap = {"camera"}])
  @@ ("longIcon" :> [Full EXCEPT !.abilities[1].long = {"icon"}])

Question(kind, bundle, key, flag) == [kind |-> kind, bundle |-> bundle, key |-> key, flag |-> flag]

TheQuestions ==
  {Question("info", "a", Null, 0), Question("info", "a", Null, 1), Question("info", "b", Null, 1),
   Question("ability", "a", "main", 0), Question("ability", "b", "main", 0),
   Question("size", "a", Null, 0), Question("list", Null, Null, 0), Question("list", Null, Null, 1),
   Question("keepAlive", Null, Null, 0), Question("metaData", Null, "key", 0),
   Question("uid", Null, "uidA", 0), Question("uid", Null, "noUid", 0)}

TheUids == ("a" :> {"uidA"}) @@ ("b" :> {"uidB", "noUid"})

On(profile, place) == [profile |-> profile, place |-> place]

(* A new device, and one with both bundles.                                *)
TheDisks ==
  {[code   |-> [b \in {"a", "b"} |-> NoCode],
    record |-> [b \in {"a", "b"} |-> None]],
   [code   |-> ("a" :> On("full", "internal")) @@ ("b" :> On("small", "external")),
    record |-> ("a" :> "uidA") @@ ("b" :> "uidB")]}
=============================================================================
