------------------------------- MODULE UidMap -------------------------------
(***************************************************************************)
(* The uid allocator of ManagerService: three std::map<int, std::string>   *)
(* (sysUidMap_, sysVendorUidMap_ and appUidMap_), each from an index to    *)
(* the bundle that holds the uid  base + index.  A map is modelled as a    *)
(* function whose domain is the finite set of the indexes in use.          *)
(***************************************************************************)
EXTENDS Integers, Sequences, FiniteSets, FiniteSetsExt

CONSTANTS
  Bundles,       (* bundle names                                           *)
  BaseSysUid,    (* BASE_SYS_UID, 100 in the code                          *)
  BaseSysVenUid, (* BASE_SYS_VEN_UID, 1000                                 *)
  MaxSysVenUid,  (* MAX_SYS_VEN_UID, 9999                                  *)
  BaseAppUid     (* BASE_APP_UID, 10000                                    *)

ASSUME UidRangesAssumption ==
  /\ {BaseSysUid, BaseSysVenUid, MaxSysVenUid, BaseAppUid} \subseteq Nat
  /\ 0 < BaseSysUid
  /\ BaseSysUid < BaseSysVenUid
  /\ BaseSysVenUid <= MaxSysVenUid
  /\ BaseAppUid = MaxSysVenUid + 1

(* Where a hap comes from: /system/internal, /system/external or elsewhere *)
(* (SYSTEM_APP_FLAG, THIRD_SYSTEM_APP_FLAG, THIRD_APP_FLAG).               *)
Styles == {"SYSTEM", "THIRD_SYSTEM", "THIRD"}

InvalidUid == -1

Base(style) ==
  CASE style = "SYSTEM"       -> BaseSysUid
    [] style = "THIRD_SYSTEM" -> BaseSysVenUid
    [] style = "THIRD"        -> BaseAppUid

EmptyMap == [i \in {} |-> ""]

Gaps(m) == (0 .. Max(DOMAIN m)) \ DOMAIN m

(* The largest index at which GenerateInnerUid refuses to grow the map.    *)
(* The code compares the index with the limit of the uid, not of the index.*)
LastIndex(style) ==
  IF style = "SYSTEM" THEN BaseSysVenUid - 1 ELSE MaxSysVenUid

Exhausted(m, style) ==
  /\ DOMAIN m # {}
  /\ Gaps(m) = {}
  /\ style # "THIRD"
  /\ Max(DOMAIN m) = LastIndex(style)

(* The index GenerateInnerUid takes: 0 for an empty map, else the first    *)
(* gap below the largest index, else the index after the largest.          *)
NewIndex(m) ==
  IF DOMAIN m = {} THEN 0
  ELSE IF Gaps(m) # {} THEN Min(Gaps(m))
  ELSE Max(DOMAIN m) + 1

-----------------------------------------------------------------------------
(* GenerateInnerUid: the map and the uid it returns.                       *)

Reserve(m, i, b) == [j \in DOMAIN m \cup {i} |-> IF j = i THEN b ELSE m[j]]

GenerateInnerMap(m, b, style) ==
  IF Exhausted(m, style) THEN m ELSE Reserve(m, NewIndex(m), b)

GenerateInnerUid(m, style) ==
  IF Exhausted(m, style) THEN InvalidUid ELSE Base(style) + NewIndex(m)

(* GenerateUid on the three maps, a function from Styles.                  *)
GenerateUid(maps, b, style) ==
  [maps EXCEPT ![style] = GenerateInnerMap(@, b, style)]

-----------------------------------------------------------------------------
(* RecycleUid: the first entry of the bundle, in the application map, else *)
(* in the vendor map, else in the system map.                              *)

Held(m, b) == {i \in DOMAIN m : m[i] = b}

RecycleInnerUid(m, b) ==
  [i \in DOMAIN m \ {Min(Held(m, b))} |-> m[i]]

RecycleUid(maps, b) ==
  IF Held(maps["THIRD"], b) # {}
    THEN [maps EXCEPT !["THIRD"] = RecycleInnerUid(@, b)]
  ELSE IF Held(maps["THIRD_SYSTEM"], b) # {}
    THEN [maps EXCEPT !["THIRD_SYSTEM"] = RecycleInnerUid(@, b)]
  ELSE IF Held(maps["SYSTEM"], b) # {}
    THEN [maps EXCEPT !["SYSTEM"] = RecycleInnerUid(@, b)]
  ELSE maps

-----------------------------------------------------------------------------
(* RestoreUidAndGidMap: the maps read back from the entries of             *)
(* uid_gid_map.json.  The range of the uid decides the map, and of two     *)
(* entries with one uid the later one stays.  The uid is read as uint32_t, *)
(* so that a stored INVALID_UID is above every range: it lands in the      *)
(* application map, at the negative index  -1 - BASE_APP_UID.              *)

StyleOfUid(u) ==
  IF u < 0 \/ u > MaxSysVenUid THEN "THIRD"
  ELSE IF u < BaseSysVenUid THEN "SYSTEM"
  ELSE "THIRD_SYSTEM"

RestoredIndexes(entries, style) ==
  {entries[k].uid - Base(style) :
     k \in {n \in DOMAIN entries : /\ entries[n].uid \notin 0 .. BaseSysUid - 1
                                   /\ StyleOfUid(entries[n].uid) = style}}

RestoredMap(entries, style) ==
  [i \in RestoredIndexes(entries, style) |->
     entries[Max({k \in DOMAIN entries :
                         entries[k].uid = i + Base(style)})].name]

RestoreUidAndGidMap(entries) == [style \in Styles |-> RestoredMap(entries, style)]

-----------------------------------------------------------------------------
(* The types.  A negative index is possible: that of a stored INVALID_UID. *)

Uids == Nat \cup {InvalidUid}

UidLists == Seq([name : Bundles, uid : Uids])

IsIndexMap(m, base) ==
  /\ IsFiniteSet(DOMAIN m)
  /\ \A i \in DOMAIN m : i \in Int /\ base + i >= InvalidUid /\ m[i] \in Bundles

AreUidMaps(maps) ==
  /\ maps = [style \in Styles |-> maps[style]]
  /\ \A style \in Styles : IsIndexMap(maps[style], Base(style))
=============================================================================
