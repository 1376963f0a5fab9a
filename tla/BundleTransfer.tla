--------------------------- MODULE BundleTransfer ---------------------------
(***************************************************************************)
(* A BundleInfo on its way to a client: the copies CopyBundleInfo makes of *)
(* it in the service and in the client, and its form as a JSON string in   *)
(* between (ConvertUtils).                                                 *)
(*                                                                         *)
(* CopyBundleInfo looks at the result of no allocation, so a copy made     *)
(* when memory is short lacks what did not fit and is used all the same.   *)
(***************************************************************************)
EXTENDS BundleProfile, SequencesExt

CONSTANT
  IpcLimit      \* MAX_IPC_STRING_LENGTH, in the unit of Weight; only __LINUX__ has it

ASSUME TransferAssumption == IpcLimit \in Nat

(* The items of a sequence that are in a set, in their order.              *)
Only(s, S) ==
  LET only[k \in 0 .. Len(s)] ==
        IF k = 0 THEN <<>>
        ELSE IF s[k] \in S THEN Append(only[k - 1], s[k]) ELSE only[k - 1]
  IN  only[Len(s)]

-----------------------------------------------------------------------------
(* Copies.  The destination was zeroed.                                    *)

(* Slip: the flag of the caller is not looked at.                          *)
CopiedWhole(info, flag) ==                                         \* a bug
  [info EXCEPT !.numOfModule = IF info.modules = <<>> THEN 0 ELSE @]

(* An array the source lacks is not counted either.                        *)
Copied(info, flag) ==
  [info EXCEPT
     !.numOfModule  = IF info.modules = <<>> THEN 0 ELSE @,
     !.abilities    = IF flag = 1 THEN @ ELSE <<>>,
     !.numOfAbility = IF flag = 1 /\ info.abilities # <<>> THEN @ ELSE 0]

(* What one failed Strdup leaves of an object with texts.                  *)
TextLost(object) ==
  {[object EXCEPT !.text[f] = Null] : f \in {g \in DOMAIN object.text : object.text[g] # Null}}

(* The slots before the one that failed are cleared, that one is kept.     *)
MetaDataLost(slots) ==
  UNION {LET slot == slots[k]
             kept == {NoMetaData} \cup
                     {[slot EXCEPT ![f] = Null] :
                        f \in {g \in {"name", "value", "extra"} : slot[g] # Null}}
         IN  {[i \in DOMAIN slots |-> IF i = k THEN s ELSE NoMetaData] : s \in kept}
         : k \in {i \in DOMAIN slots : slots[i].used}}

ModuleLost(module) ==
  TextLost(module)
    \cup (IF module.deviceType = <<>> THEN {} ELSE {[module EXCEPT !.deviceType = <<>>]})
    \cup {[module EXCEPT !.metaData = slots] : slots \in MetaDataLost(module.metaData)}

AbilityLost(ability) == TextLost(ability)

(* An array that was not allocated is counted.                             *)
ArrayLost(info) ==
  (IF info.modules = <<>> THEN {} ELSE {[info EXCEPT !.modules = <<>>]})
    \cup (IF info.abilities = <<>> THEN {} ELSE {[info EXCEPT !.abilities = <<>>]})

(* The copies in which one allocation failed.                              *)
Thinned(info, flag) ==
  LET copy == Copied(info, flag)
  IN  TextLost(copy) \cup ArrayLost(copy)
        \cup (UNION {{[copy EXCEPT !.modules[k] = m] : m \in ModuleLost(copy.modules[k])}
                       : k \in DOMAIN copy.modules})
        \cup UNION {{[copy EXCEPT !.abilities[k] = a] : a \in AbilityLost(copy.abilities[k])}
                      : k \in DOMAIN copy.abilities}

-----------------------------------------------------------------------------
(* To a string.  A member that is null fails where the JSON must have it.  *)

HasTexts(object, members) == \A f \in members : object.text[f] # Null

InfoTexts    == {"versionName", "bundleName", "codePath", "dataPath", "appId"}
ModuleTexts  == {"moduleName", "moduleType"}
AbilityTexts == {"bundleName", "moduleName", "name"}

ModuleWritten(module) == HasTexts(module, ModuleTexts) /\ module.deviceType # <<>>

ModulesWritten(info) ==
  /\ info.numOfModule > 0 /\ info.modules # <<>>
  /\ \A k \in DOMAIN info.modules : ModuleWritten(info.modules[k])

AbilityWritten(ability) == HasTexts(ability, AbilityTexts)

(* GetJsonBundleInfo.  Only the array of the modules is checked for null.  *)
Serialized(info) ==
  CASE ~HasTexts(info, InfoTexts) \/ ~ModulesWritten(info) -> "failed"
    [] HasTexts(info, InfoTexts) /\ ModulesWritten(info) ->
         CASE info.numOfAbility = 0 -> "ok"
           [] info.numOfAbility > 0 /\ info.abilities = <<>> -> "crash"
           [] OTHER -> IF \A k \in DOMAIN info.abilities : AbilityWritten(info.abilities[k])
                       THEN "ok" ELSE "failed"

(* GetJsonBundleInfos stops at the first info that is not written.         *)
SerializedAll(infos) ==
  LET first == SelectInSeq(infos, LAMBDA info : Serialized(info) # "ok")
  IN  IF first = 0 THEN "ok" ELSE Serialized(infos[first])

Weight(info) == 1 + Len(info.abilities)

TooLong(infos) == FoldLeft(LAMBDA sum, info : sum + Weight(info), 0, infos) > IpcLimit

(* An ability that is sent alone weighs what it adds to an info.           *)
AbilityTooLong == 1 > IpcLimit

(* The array of metadata ends at the first slot that is empty.             *)
JsonMetaData(slots) ==
  LET empty == SelectInSeq(slots, LAMBDA slot : ~slot.used)
  IN  IF empty = 0 THEN slots ELSE SubSeq(slots, 1, empty - 1)

(* The objects of the JSON are records with the members of the structs.    *)
JsonModule(module) == [module EXCEPT !.metaData = JsonMetaData(@)]

Json(info) == [info EXCEPT !.modules = [k \in DOMAIN @ |-> JsonModule(@[k])]]

-----------------------------------------------------------------------------
(* And back.                                                               *)

JsonModuleAccepted(module) ==
  /\ HasTexts(module, ModuleTexts)
  /\ Len(module.metaData) <= MetaDataSize /\ Len(module.deviceType) <= DeviceTypeSize

(* ConvertJsonToBundleInfo.                                                *)
JsonAccepted(json) ==
  /\ HasTexts(json, InfoTexts)
  /\ json.numOfModule > 0 =>
       /\ Len(json.modules) = json.numOfModule
       /\ \A k \in DOMAIN json.modules : JsonModuleAccepted(json.modules[k])
  /\ json.numOfAbility > 0 =>
       /\ Len(json.abilities) = json.numOfAbility
       /\ \A k \in DOMAIN json.abilities : AbilityWritten(json.abilities[k])

MetaDataSlots(items) ==
  [i \in 1 .. MetaDataSize |-> IF i <= Len(items) THEN items[i] ELSE NoMetaData]

FromJsonModule(module) == [module EXCEPT !.metaData = MetaDataSlots(@)]

ZeroedModule(module) ==
  [module EXCEPT !.text = [f \in DOMAIN @ |-> Null], !.isDeliveryInstall = FALSE,
                 !.deviceType = <<>>, !.metaData = MetaDataSlots(<<>>)]

(* ConvertJsonToModuleInfo never advances its index: each module is read   *)
(* into the first slot, over the one before, and the other slots stay      *)
(* zeroed.  An info of SetModuleInfos has one module.                      *)
FromJson(json) ==
  [json EXCEPT !.modules =
     [k \in DOMAIN @ |-> IF k = 1 THEN FromJsonModule(@[Len(@)]) ELSE ZeroedModule(@[k])]]
=============================================================================
