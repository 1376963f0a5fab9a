------------------------- MODULE BundleInstallerProofs ----------------------
(***************************************************************************)
(* Theorems about BundleInstaller and the uid allocator it uses, for all   *)
(* bundles, versions, uid ranges, faults and bounds.                       *)
(***************************************************************************)
EXTENDS BundleInstaller, ListLemmas

-----------------------------------------------------------------------------
(* The uid allocator (UidMap), for all uid ranges and all bundles.         *)

(***************************************************************************)
(* GenerateInnerUid                                                        *)
(***************************************************************************)

LEMMA GapsAreFinite ==
  ASSUME NEW m, IsFiniteSet(DOMAIN m), DOMAIN m \subseteq Int, DOMAIN m # {}
  PROVE  /\ Max(DOMAIN m) \in DOMAIN m
         /\ \A i \in DOMAIN m : Max(DOMAIN m) >= i
         /\ Gaps(m) \subseteq Int
         /\ IsFiniteSet(Gaps(m))
<1> DEFINE top == Max(DOMAIN m)
<1>1. top \in DOMAIN m /\ \A i \in DOMAIN m : top >= i
  BY MaxOfFinite
<1>2. IsFiniteSet(0 .. top)
  BY <1>1, FS_Interval
<1>3. Gaps(m) \in SUBSET (0 .. top)
  BY DEF Gaps
<1>4. IsFiniteSet(Gaps(m))
  BY <1>2, <1>3, FS_Subset
<1>5. QED
  BY <1>1, <1>3, <1>4

(* The index GenerateInnerUid takes is not in use, and every smaller one   *)
(* is: no uid is handed out twice, and none is left out.                   *)
THEOREM NewIndexIsLeastFree ==
  ASSUME NEW m, IsFiniteSet(DOMAIN m), DOMAIN m \subseteq Int
  PROVE  /\ NewIndex(m) \in Int
         /\ NewIndex(m) \notin DOMAIN m
         /\ \A i \in Nat : i < NewIndex(m) => i \in DOMAIN m
         /\ NewIndex(m) \in Nat \/ NewIndex(m) - 1 \in DOMAIN m
<1>1. CASE DOMAIN m = {}
  BY <1>1 DEF NewIndex
<1>2. CASE DOMAIN m # {} /\ Gaps(m) # {}
  <2>1. /\ Min(Gaps(m)) \in Gaps(m)
        /\ \A i \in Gaps(m) : Min(Gaps(m)) <= i
    BY <1>2, GapsAreFinite, MinOfFinite
  <2>2. NewIndex(m) = Min(Gaps(m))
    BY <1>2 DEF NewIndex
  <2>3. Max(DOMAIN m) \in Int
    BY <1>2, GapsAreFinite
  <2>4. NewIndex(m) \in 0 .. Max(DOMAIN m) /\ NewIndex(m) \notin DOMAIN m
    BY <2>1, <2>2 DEF Gaps
  <2>5. ASSUME NEW i \in Nat, i < NewIndex(m) PROVE i \in DOMAIN m
    <3>1. i \in 0 .. Max(DOMAIN m) /\ i \notin Gaps(m)
      BY <2>1, <2>2, <2>3, <2>4, <2>5
    <3> QED
      BY <3>1 DEF Gaps
  <2> QED
    BY <2>3, <2>4, <2>5
<1>3. CASE DOMAIN m # {} /\ Gaps(m) = {}
  <2>1. NewIndex(m) = Max(DOMAIN m) + 1
    BY <1>3 DEF NewIndex
  <2>2. Max(DOMAIN m) \in DOMAIN m /\ \A i \in DOMAIN m : Max(DOMAIN m) >= i
    BY <1>3, GapsAreFinite
  <2>3. NewIndex(m) \notin DOMAIN m
    BY <2>1, <2>2
  <2>4. ASSUME NEW i \in Nat, i < NewIndex(m) PROVE i \in DOMAIN m
    <3>1. i \in 0 .. Max(DOMAIN m)
      BY <2>1, <2>2, <2>4
    <3> QED
      BY <1>3, <3>1 DEF Gaps
  <2> QED
    BY <2>1, <2>2, <2>3, <2>4
<1>4. QED
  BY <1>1, <1>2, <1>3

LEMMA NewIndexInRange ==
  ASSUME NEW base \in Nat, NEW m, IsIndexMap(m, base)
  PROVE  base + NewIndex(m) \in Nat
<1>1. IsFiniteSet(DOMAIN m) /\ DOMAIN m \subseteq Int
  BY DEF IsIndexMap
<1>2. CASE NewIndex(m) \in Nat
  BY <1>2
<1>3. CASE NewIndex(m) - 1 \in DOMAIN m
  <2>1. base + (NewIndex(m) - 1) >= -1
    BY <1>3 DEF IsIndexMap, InvalidUid
  <2>2. NewIndex(m) \in Int
    BY <1>1, NewIndexIsLeastFree
  <2> QED
    BY <2>1, <2>2
<1>4. QED
  BY <1>1, <1>2, <1>3, NewIndexIsLeastFree

LEMMA BaseType ==
  ASSUME NEW style \in Styles
  PROVE  Base(style) \in Nat
BY UidRangesAssumption DEF Base, Styles

LEMMA ReserveType ==
  ASSUME NEW base \in Nat, NEW m, IsIndexMap(m, base), NEW b \in Bundles
  PROVE  IsIndexMap(Reserve(m, NewIndex(m), b), base)
<1> DEFINE r == Reserve(m, NewIndex(m), b)
<1>1. DOMAIN r = DOMAIN m \cup {NewIndex(m)}
  BY DEF Reserve
<1>2. IsFiniteSet(DOMAIN r)
  BY <1>1, FS_AddElement DEF IsIndexMap
<1>3. base + NewIndex(m) \in Nat /\ NewIndex(m) \in Int
  BY NewIndexInRange, NewIndexIsLeastFree DEF IsIndexMap
<1>4. ASSUME NEW i \in DOMAIN r
      PROVE  i \in Int /\ base + i >= InvalidUid /\ r[i] \in Bundles
  <2>1. CASE i = NewIndex(m)
    BY <2>1, <1>3 DEF Reserve, InvalidUid
  <2>2. CASE i # NewIndex(m)
    <3>1. i \in DOMAIN m /\ r[i] = m[i]
      BY <2>2, <1>1 DEF Reserve
    <3> QED
      BY <3>1 DEF IsIndexMap
  <2> QED
    BY <2>1, <2>2
<1>5. QED
  BY <1>2, <1>4 DEF IsIndexMap

(* GenerateUid returns a uid or INVALID_UID and leaves proper maps.        *)
LEMMA GenerateUidType ==
  ASSUME NEW maps, AreUidMaps(maps), NEW b \in Bundles, NEW style \in Styles
  PROVE  /\ AreUidMaps(GenerateUid(maps, b, style))
         /\ GenerateInnerUid(maps[style], style) \in Uids
<1>1. IsIndexMap(maps[style], Base(style)) /\ Base(style) \in Nat
  BY BaseType DEF AreUidMaps
<1>2. IsIndexMap(GenerateInnerMap(maps[style], b, style), Base(style))
  BY <1>1, ReserveType DEF GenerateInnerMap
<1>3. AreUidMaps(GenerateUid(maps, b, style))
  BY <1>2 DEF AreUidMaps, GenerateUid
<1>4. GenerateInnerUid(maps[style], style) \in Uids
  BY <1>1, NewIndexInRange DEF GenerateInnerUid, Uids
<1>5. QED
  BY <1>3, <1>4

(* The uid GenerateUid returns belonged to no bundle, belongs to b from    *)
(* then on, and the uids of the others stay with them.                     *)
THEOREM GeneratedUidIsFresh ==
  ASSUME NEW maps, AreUidMaps(maps), NEW b \in Bundles, NEW style \in Styles,
         GenerateInnerUid(maps[style], style) # InvalidUid
  PROVE  LET new == GenerateUid(maps, b, style)
             i   == GenerateInnerUid(maps[style], style) - Base(style)
         IN  /\ i \notin DOMAIN maps[style]
             /\ i \in DOMAIN new[style] /\ new[style][i] = b
             /\ \A s \in Styles : \A j \in DOMAIN maps[s] :
                  j \in DOMAIN new[s] /\ new[s][j] = maps[s][j]
<1> DEFINE m == maps[style]
           new == GenerateUid(maps, b, style)
<1>1. IsIndexMap(m, Base(style)) /\ Base(style) \in Nat
  BY BaseType DEF AreUidMaps
<1>2. NewIndex(m) \in Int /\ NewIndex(m) \notin DOMAIN m
  BY <1>1, NewIndexIsLeastFree DEF IsIndexMap
<1>3. GenerateInnerUid(m, style) - Base(style) = NewIndex(m)
  BY <1>1, <1>2 DEF GenerateInnerUid
<1>4. new[style] = Reserve(m, NewIndex(m), b)
  BY DEF GenerateUid, GenerateInnerMap, GenerateInnerUid, AreUidMaps
<1>5. \A s \in Styles \ {style} : new[s] = maps[s]
  BY DEF GenerateUid, AreUidMaps
<1>6. QED
  BY <1>2, <1>3, <1>4, <1>5 DEF Reserve

(***************************************************************************)
(* RecycleUid                                                              *)
(***************************************************************************)

LEMMA HeldMin ==
  ASSUME NEW base \in Nat, NEW m, IsIndexMap(m, base), NEW b, Held(m, b) # {}
  PROVE  Min(Held(m, b)) \in DOMAIN m /\ m[Min(Held(m, b))] = b
<1>1. Held(m, b) \in SUBSET DOMAIN m /\ Held(m, b) \subseteq Int
  BY DEF Held, IsIndexMap
<1>2. IsFiniteSet(Held(m, b))
  BY <1>1, FS_Subset DEF IsIndexMap
<1>3. Min(Held(m, b)) \in Held(m, b)
  BY <1>1, <1>2, MinOfFinite
<1>4. QED
  BY <1>3 DEF Held

LEMMA RecycleInnerType ==
  ASSUME NEW base \in Nat, NEW m, IsIndexMap(m, base), NEW b
  PROVE  IsIndexMap(RecycleInnerUid(m, b), base)
<1> DEFINE r == RecycleInnerUid(m, b)
<1>1. DOMAIN r \in SUBSET DOMAIN m /\ \A i \in DOMAIN r : r[i] = m[i]
  BY DEF RecycleInnerUid
<1>2. IsFiniteSet(DOMAIN r)
  BY <1>1, FS_Subset DEF IsIndexMap
<1>3. QED
  BY <1>1, <1>2 DEF IsIndexMap

LEMMA RecycleUidType ==
  ASSUME NEW maps, AreUidMaps(maps), NEW b
  PROVE  AreUidMaps(RecycleUid(maps, b))
<1>1. \A style \in Styles : /\ IsIndexMap(maps[style], Base(style))
                            /\ IsIndexMap(RecycleInnerUid(maps[style], b), Base(style))
  BY BaseType, RecycleInnerType DEF AreUidMaps
<1>2. Styles = {"SYSTEM", "THIRD_SYSTEM", "THIRD"}
  BY DEF Styles
<1>3. ASSUME NEW s \in Styles
      PROVE  AreUidMaps([maps EXCEPT ![s] = RecycleInnerUid(@, b)])
  BY <1>1, <1>3 DEF AreUidMaps
<1>4. QED
  BY <1>2, <1>3 DEF RecycleUid

(* RecycleUid takes no uid from another bundle.                            *)
THEOREM RecycleKeepsOthers ==
  ASSUME NEW maps, AreUidMaps(maps), NEW b
  PROVE  \A s \in Styles : \A j \in DOMAIN maps[s] :
           maps[s][j] # b => /\ j \in DOMAIN RecycleUid(maps, b)[s]
                             /\ RecycleUid(maps, b)[s][j] = maps[s][j]
<1>1. ASSUME NEW s \in Styles, Held(maps[s], b) # {}
      PROVE  LET new == [maps EXCEPT ![s] = RecycleInnerUid(@, b)]
             IN  \A t \in Styles : \A j \in DOMAIN maps[t] :
                   maps[t][j] # b => j \in DOMAIN new[t] /\ new[t][j] = maps[t][j]
  <2>1. maps[s][Min(Held(maps[s], b))] = b
    BY <1>1, BaseType, HeldMin DEF AreUidMaps
  <2>2. \A j \in DOMAIN maps[s] : maps[s][j] # b =>
          /\ j \in DOMAIN RecycleInnerUid(maps[s], b)
          /\ RecycleInnerUid(maps[s], b)[j] = maps[s][j]
    BY <2>1 DEF RecycleInnerUid
  <2> QED
    BY <2>2 DEF AreUidMaps
<1>2. Styles = {"SYSTEM", "THIRD_SYSTEM", "THIRD"}
  BY DEF Styles
<1>3. QED
  BY <1>1, <1>2 DEF RecycleUid

(***************************************************************************)
(* RestoreUidAndGidMap                                                     *)
(***************************************************************************)

LEMMA EntriesType ==
  ASSUME NEW entries \in UidLists
  PROVE  /\ DOMAIN entries = 1 .. Len(entries) /\ Len(entries) \in Nat
         /\ \A k \in DOMAIN entries : /\ entries[k].uid \in Int
                                       /\ entries[k].uid >= InvalidUid
                                       /\ entries[k].name \in Bundles
<1>1. entries \in Seq([name : Bundles, uid : Uids])
  BY DEF UidLists
<1>2. DOMAIN entries = 1 .. Len(entries) /\ Len(entries) \in Nat
  BY <1>1
<1>3. \A k \in 1 .. Len(entries) : entries[k] \in [name : Bundles, uid : Uids]
  BY <1>1, ElementOfSeq
<1>4. \A u \in Uids : u \in Int /\ u >= InvalidUid
  BY DEF Uids, InvalidUid
<1>5. QED
  BY <1>2, <1>3, <1>4

LEMMA RestoreType ==
  ASSUME NEW entries \in UidLists
  PROVE  AreUidMaps(RestoreUidAndGidMap(entries))
<1>1. ASSUME NEW style \in Styles
      PROVE  IsIndexMap(RestoredMap(entries, style), Base(style))
  <2> DEFINE keys == {n \in DOMAIN entries :
                        /\ entries[n].uid \notin 0 .. BaseSysUid - 1
                        /\ StyleOfUid(entries[n].uid) = style}
             index == [k \in keys |-> entries[k].uid - Base(style)]
             indexes == RestoredIndexes(entries, style)
  <2>0. /\ DOMAIN entries = 1 .. Len(entries) /\ Len(entries) \in Nat
        /\ \A k \in DOMAIN entries : /\ entries[k].uid \in Int
                                      /\ entries[k].uid >= InvalidUid
                                      /\ entries[k].name \in Bundles
    BY EntriesType
  <2>1. indexes = {index[k] : k \in keys}
    BY DEF RestoredIndexes
  <2>2. index \in Surjection(keys, indexes)
    BY <2>1 DEF Surjection
  <2>3. IsFiniteSet(keys)
    <3>1. IsFiniteSet(1 .. Len(entries))
      BY <2>0, FS_Interval
    <3>2. keys \in SUBSET (1 .. Len(entries))
      BY <2>0
    <3> QED
      BY <3>1, <3>2, FS_Subset
  <2>4. IsFiniteSet(indexes)
    BY <2>2, <2>3, FS_Surjection
  <2>5. DOMAIN RestoredMap(entries, style) = indexes
    BY DEF RestoredMap
  <2>6. ASSUME NEW i \in indexes
        PROVE  /\ i \in Int /\ Base(style) + i >= InvalidUid
               /\ RestoredMap(entries, style)[i] \in Bundles
    <3> DEFINE same == {k \in DOMAIN entries : entries[k].uid = i + Base(style)}
    <3>1. PICK k \in DOMAIN entries : i = entries[k].uid - Base(style)
      BY <2>1, <2>6
    <3>2. Base(style) \in Nat
      BY BaseType
    <3>3. i \in Int /\ Base(style) + i >= InvalidUid /\ k \in same
      BY <2>0, <3>1, <3>2 DEF InvalidUid
    <3>4. same \in SUBSET (1 .. Len(entries)) /\ same # {}
      BY <2>0, <3>3
    <3>5. IsFiniteSet(same) /\ same \subseteq Int
      <4>1. IsFiniteSet(1 .. Len(entries))
        BY <2>0, FS_Interval
      <4> HIDE DEF same
      <4>2. IsFiniteSet(same)
        BY <4>1, <3>4, FS_Subset
      <4> QED
        BY <4>2, <3>4, <2>0
    <3>6. Max(same) \in DOMAIN entries
      BY <2>0, <3>4, <3>5, MaxOfFinite
    <3>7. RestoredMap(entries, style)[i] = entries[Max(same)].name
      BY <2>6 DEF RestoredMap
    <3> QED
      BY <2>0, <3>3, <3>6, <3>7
  <2> QED
    BY <2>4, <2>5, <2>6 DEF IsIndexMap
<1>2. QED
  BY <1>1 DEF AreUidMaps, RestoreUidAndGidMap

(***************************************************************************)
(* Ranges that suffice for the bundles there are                           *)
(***************************************************************************)

(* Every bundle could have a uid of the system range, and of the vendors'. *)
EnoughUids ==
  /\ IsFiniteSet(Bundles)
  /\ Cardinality(Bundles) <= BaseSysVenUid - BaseSysUid
  /\ Cardinality(Bundles) <= BaseAppUid - BaseSysVenUid

(* The indexes in use when no bundle has two uids.                         *)
Indexes == 0 .. Cardinality(Bundles) - 1

(* An index below the number of bundles keeps the uid in its range.        *)
LEMMA StyleOfIndex ==
  ASSUME EnoughUids, NEW s \in Styles, NEW i \in Indexes
  PROVE  StyleOfUid(Base(s) + i) = s /\ Base(s) + i >= BaseSysUid
<1>1. Cardinality(Bundles) \in Nat
  BY FS_CardinalityType DEF EnoughUids
<1>2. i \in Nat /\ i < BaseSysVenUid - BaseSysUid /\ i < BaseAppUid - BaseSysVenUid
  BY <1>1, UidRangesAssumption DEF EnoughUids, Indexes
<1>3. /\ BaseSysUid \in Nat /\ BaseSysVenUid \in Nat /\ MaxSysVenUid \in Nat
      /\ BaseAppUid = MaxSysVenUid + 1 /\ BaseSysUid < BaseSysVenUid
      /\ BaseSysVenUid <= MaxSysVenUid
  BY UidRangesAssumption
<1>4. CASE s = "SYSTEM"
  BY <1>2, <1>3, <1>4 DEF Base, StyleOfUid
<1>5. CASE s = "THIRD_SYSTEM"
  BY <1>2, <1>3, <1>5 DEF Base, StyleOfUid
<1>6. CASE s = "THIRD"
  BY <1>2, <1>3, <1>6 DEF Base, StyleOfUid
<1>7. QED
  BY <1>4, <1>5, <1>6 DEF Styles

(* GenerateInnerUid takes such an index for a bundle that has none, if the *)
(* others have one each, and does not refuse.                              *)
LEMMA NewIndexSuffices ==
  ASSUME EnoughUids, NEW s \in Styles, NEW m, NEW b \in Bundles,
         IsIndexMap(m, Base(s)), DOMAIN m \subseteq Indexes,
         \A i \in DOMAIN m : m[i] # b,
         \A i, j \in DOMAIN m : m[i] = m[j] => i = j
  PROVE  NewIndex(m) \in Indexes /\ ~Exhausted(m, s)
<1> DEFINE n == Cardinality(Bundles)
           f == [i \in DOMAIN m |-> m[i]]
<1>1. n \in Nat /\ IsFiniteSet(Bundles)
  BY FS_CardinalityType DEF EnoughUids
<1>2. IsFiniteSet(Bundles \ {b}) /\ Cardinality(Bundles \ {b}) = n - 1
  BY <1>1, FS_RemoveElement
<1>3. f \in Injection(DOMAIN m, Bundles \ {b})
  BY DEF Injection, IsInjective, IsIndexMap
<1>4. IsFiniteSet(DOMAIN m) /\ Cardinality(DOMAIN m) <= n - 1
  BY <1>2, <1>3, FS_Injection
<1>5. NewIndex(m) \in Indexes
  <2>1. DOMAIN m \subseteq Nat /\ DOMAIN m \subseteq Int
    BY <1>1 DEF Indexes
  <2>2. NewIndex(m) \in Nat /\ \A i \in Nat : i < NewIndex(m) => i \in DOMAIN m
    BY <1>4, <2>1, NewIndexIsLeastFree
  <2>3. ASSUME NewIndex(m) >= n PROVE FALSE
    <3>1. Indexes \in SUBSET DOMAIN m
      BY <1>1, <2>2, <2>3 DEF Indexes
    <3>2. Cardinality(Indexes) = n
      BY <1>1, FS_Interval DEF Indexes
    <3>3. Cardinality(Indexes) <= Cardinality(DOMAIN m)
      BY <1>4, <3>1, FS_Subset
    <3>4. Cardinality(DOMAIN m) \in Nat
      BY <1>4, FS_CardinalityType
    <3> QED
      BY <1>1, <1>4, <3>2, <3>3, <3>4
  <2> QED
    BY <1>1, <2>2, <2>3 DEF Indexes
<1>6. ~Exhausted(m, s)
  <2> SUFFICES ASSUME Exhausted(m, s) PROVE FALSE
    OBVIOUS
  <2>1. DOMAIN m # {} /\ DOMAIN m \in SUBSET Int
    BY <1>1 DEF Exhausted, Indexes
  <2>2. Max(DOMAIN m) \in DOMAIN m
    BY <1>4, <2>1, MaxOfFinite
  <2>3. LastIndex(s) \in Indexes
    BY <2>2 DEF Exhausted
  <2>4. LastIndex(s) >= n
    BY <1>1, UidRangesAssumption DEF EnoughUids, LastIndex
  <2> QED
    BY <1>1, <2>3, <2>4 DEF Indexes
<1>7. QED
  BY <1>5, <1>6

(* What GenerateUid adds to the maps, and nothing else.                    *)
LEMMA GenerateUidAdds ==
  ASSUME NEW maps, AreUidMaps(maps), NEW b \in Bundles, NEW style \in Styles,
         ~Exhausted(maps[style], style)
  PROVE  LET new == GenerateUid(maps, b, style)
         IN  /\ GenerateInnerUid(maps[style], style) = Base(style) + NewIndex(maps[style])
             /\ NewIndex(maps[style]) \notin DOMAIN maps[style]
             /\ DOMAIN new[style] = DOMAIN maps[style] \cup {NewIndex(maps[style])}
             /\ new[style][NewIndex(maps[style])] = b
             /\ \A s \in Styles : s # style => new[s] = maps[s]
             /\ \A j \in DOMAIN maps[style] : new[style][j] = maps[style][j]
<1>1. IsFiniteSet(DOMAIN maps[style]) /\ DOMAIN maps[style] \subseteq Int
  BY DEF AreUidMaps, IsIndexMap
<1>2. NewIndex(maps[style]) \notin DOMAIN maps[style]
  BY <1>1, NewIndexIsLeastFree
<1>3. /\ GenerateUid(maps, b, style)[style]
           = Reserve(maps[style], NewIndex(maps[style]), b)
      /\ \A s \in Styles : s # style => GenerateUid(maps, b, style)[s] = maps[s]
  BY DEF GenerateUid, GenerateInnerMap, AreUidMaps
<1>4. QED
  BY <1>2, <1>3 DEF GenerateInnerUid, Reserve

(* RecycleUid takes away the one uid of the bundle, and nothing else.      *)
LEMMA RecycleUidFrees ==
  ASSUME NEW maps, AreUidMaps(maps), NEW b,
         \A s, t \in Styles : \A i \in DOMAIN maps[s], j \in DOMAIN maps[t] :
           maps[s][i] = b /\ maps[t][j] = b => s = t /\ i = j
  PROVE  \A s \in Styles :
           /\ DOMAIN RecycleUid(maps, b)[s] = {i \in DOMAIN maps[s] : maps[s][i] # b}
           /\ \A i \in DOMAIN RecycleUid(maps, b)[s] :
                RecycleUid(maps, b)[s][i] = maps[s][i]
<1>1. ASSUME NEW s \in Styles, Held(maps[s], b) # {}
      PROVE  LET new == [maps EXCEPT ![s] = RecycleInnerUid(@, b)]
             IN  \A t \in Styles :
                   /\ DOMAIN new[t] = {i \in DOMAIN maps[t] : maps[t][i] # b}
                   /\ \A i \in DOMAIN new[t] : new[t][i] = maps[t][i]
  <2> DEFINE new == [maps EXCEPT ![s] = RecycleInnerUid(@, b)]
  <2>1. Min(Held(maps[s], b)) \in DOMAIN maps[s] /\ maps[s][Min(Held(maps[s], b))] = b
    BY <1>1, BaseType, HeldMin DEF AreUidMaps
  <2>2. new[s] = [i \in DOMAIN maps[s] \ {Min(Held(maps[s], b))} |-> maps[s][i]]
    BY DEF AreUidMaps, RecycleInnerUid
  <2>3. DOMAIN new[s] = {i \in DOMAIN maps[s] : maps[s][i] # b}
    BY <2>1, <2>2
  <2>4. ASSUME NEW t \in Styles, t # s
        PROVE  new[t] = maps[t] /\ \A i \in DOMAIN maps[t] : maps[t][i] # b
    <3>1. new[t] = maps[t]
      BY <2>4 DEF AreUidMaps
    <3> QED
      BY <2>1, <2>4, <3>1
  <2>5. ASSUME NEW t \in Styles
        PROVE  /\ DOMAIN new[t] = {i \in DOMAIN maps[t] : maps[t][i] # b}
               /\ \A i \in DOMAIN new[t] : new[t][i] = maps[t][i]
    <3> HIDE DEF new
    <3>1. CASE t = s
      <4>1. \A i \in DOMAIN new[s] : new[s][i] = maps[s][i]
        BY <2>2, <2>3
      <4> QED
        BY <2>3, <3>1, <4>1
    <3>2. CASE t # s
      BY <2>4, <3>2
    <3> QED
      BY <3>1, <3>2
  <2> QED
    BY <2>5
<1>2. CASE \A s \in Styles : Held(maps[s], b) = {}
  <2>1. RecycleUid(maps, b) = maps
    BY <1>2 DEF RecycleUid, Styles
  <2> QED
    BY <1>2, <2>1 DEF Held
<1>3. {"THIRD", "THIRD_SYSTEM", "SYSTEM"} = Styles
  BY DEF Styles
<1>4. CASE \E s \in Styles : Held(maps[s], b) # {}
  BY <1>1, <1>3, <1>4 DEF RecycleUid
<1>5. QED
  BY <1>2, <1>4

(* RestoreUidAndGidMap reads back the maps the list was written from, if   *)
(* every uid in them is in its range and the list holds each once.         *)
THEOREM RestoreReadsBack ==
  ASSUME NEW maps, AreUidMaps(maps), NEW entries \in UidLists, EnoughUids,
         \A s \in Styles : DOMAIN maps[s] \subseteq Indexes,
         \A k \in DOMAIN entries : \E s \in Styles : \E i \in DOMAIN maps[s] :
           maps[s][i] = entries[k].name /\ entries[k].uid = Base(s) + i,
         \A s \in Styles : \A i \in DOMAIN maps[s] : \E k \in DOMAIN entries :
           maps[s][i] = entries[k].name /\ entries[k].uid = Base(s) + i
  PROVE  \A s \in Styles :
           /\ DOMAIN RestoreUidAndGidMap(entries)[s] = DOMAIN maps[s]
           /\ \A i \in DOMAIN maps[s] : RestoreUidAndGidMap(entries)[s][i] = maps[s][i]
<1> SUFFICES ASSUME NEW s \in Styles
             PROVE  /\ DOMAIN RestoredMap(entries, s) = DOMAIN maps[s]
                    /\ \A i \in DOMAIN maps[s] : RestoredMap(entries, s)[i] = maps[s][i]
  BY DEF RestoreUidAndGidMap
<1>0. Base(s) \in Nat /\ BaseSysUid \in Nat /\ Indexes \subseteq Int
  BY BaseType, UidRangesAssumption DEF Indexes
<1>1. ASSUME NEW k \in DOMAIN entries, StyleOfUid(entries[k].uid) = s
      PROVE  entries[k].uid - Base(s) \in DOMAIN maps[s]
  <2>1. PICK t \in Styles : \E i \in DOMAIN maps[t] : entries[k].uid = Base(t) + i
    OBVIOUS
  <2>3. PICK i \in DOMAIN maps[t] : entries[k].uid = Base(t) + i
    BY <2>1
  <2>2. StyleOfUid(Base(t) + i) = t /\ i \in Int
    BY <1>0, StyleOfIndex
  <2> QED
    BY <1>0, <1>1, <2>2, <2>3
<1>2. ASSUME NEW i \in DOMAIN maps[s]
      PROVE  /\ i \in RestoredIndexes(entries, s)
             /\ entries[Max({k \in DOMAIN entries : entries[k].uid = i + Base(s)})].name
                  = maps[s][i]
  <2> DEFINE K == {k \in DOMAIN entries : entries[k].uid = i + Base(s)}
  <2>1. i \in Indexes /\ i \in Int
    BY <1>0
  <2>2. StyleOfUid(Base(s) + i) = s /\ Base(s) + i >= BaseSysUid
    BY <2>1, StyleOfIndex
  <2>3. PICK k \in DOMAIN entries : entries[k].uid = Base(s) + i
    OBVIOUS
  <2>4. K # {} /\ K \in SUBSET (1 .. Len(entries)) /\ IsFiniteSet(1 .. Len(entries))
    <3>1. k \in K
      BY <1>0, <2>1, <2>3
    <3>2. DOMAIN entries = 1 .. Len(entries) /\ Len(entries) \in Nat
      BY EntriesType
    <3>3. IsFiniteSet(1 .. Len(entries))
      BY <3>2, FS_Interval
    <3> QED
      BY <3>1, <3>2, <3>3
  <2>5. IsFiniteSet(K) /\ K \subseteq Int
    BY <2>4, FS_Subset
  <2>6. Max(K) \in K
    BY <2>4, <2>5, MaxOfFinite
  <2>7. PICK t \in Styles : \E j \in DOMAIN maps[t] :
               maps[t][j] = entries[Max(K)].name /\ entries[Max(K)].uid = Base(t) + j
    BY <2>6
  <2>12. PICK j \in DOMAIN maps[t] :
               maps[t][j] = entries[Max(K)].name /\ entries[Max(K)].uid = Base(t) + j
    BY <2>7
  <2>8. entries[Max(K)].uid = Base(s) + i
    BY <1>0, <2>1, <2>6
  <2>9. StyleOfUid(Base(t) + j) = t /\ j \in Int
    BY <1>0, StyleOfIndex
  <2>10. t = s /\ j = i
    <3>1. t = s
      BY <2>2, <2>12, <2>8, <2>9
    <3> QED
      BY <1>0, <2>1, <2>12, <2>8, <2>9, <3>1
  <2>11. i \in RestoredIndexes(entries, s)
    <3>1. entries[k].uid \notin 0 .. BaseSysUid - 1 /\ StyleOfUid(entries[k].uid) = s
      BY <1>0, <2>1, <2>2, <2>3
    <3>2. entries[k].uid - Base(s) = i
      BY <1>0, <2>1, <2>3
    <3> QED
      BY <3>1, <3>2 DEF RestoredIndexes
  <2> QED
    BY <2>10, <2>11, <2>12
<1>3. RestoredIndexes(entries, s) = DOMAIN maps[s]
  BY <1>1, <1>2 DEF RestoredIndexes
<1>4. QED
  BY <1>2, <1>3 DEF RestoredMap

-----------------------------------------------------------------------------
(* The installer.                                                          *)

LEMMA NullTypes ==
  /\ NoHap \in Haps /\ NoInfo \in Infos /\ NoRecord \in Records /\ NoAck \in Acks
  /\ PreInstalledApp \in AppIds /\ FirstVersion \in Versions
  /\ None \notin Versions
  /\ <<>> \in UidLists
<1>1. NoHap \in Haps
  <2>1. PICK x \in Bundles, v \in Versions, a \in AppIds : TRUE
    BY InstallerAssumption
  <2>2. [name |-> x, ver |-> v, app |-> a, style |-> "THIRD"] \in Haps
    BY DEF Haps, Styles
  <2> QED
    BY <2>2 DEF NoHap
<1>2. NoInfo \in Infos /\ NoRecord \in Records /\ NoAck \in Acks
  BY DEF NoInfo, Infos, NoRecord, Records, NoAck, Acks, Uids
<1>3. PreInstalledApp \in AppIds
  BY InstallerAssumption DEF PreInstalledApp
<1>4. FirstVersion \in Versions
  BY InstallerAssumption, MinOfFinite DEF FirstVersion
<1>5. None \notin Versions
  BY InstallerAssumption DEF None
<1>6. <<>> \in UidLists
  BY DEF UidLists
<1>7. QED
  BY <1>1, <1>2, <1>3, <1>4, <1>5, <1>6

LEMMA DeleteEntryType ==
  ASSUME NEW entries \in UidLists, NEW x
  PROVE  DeleteEntry(entries, x) \in UidLists
<1> DEFINE found == {k \in DOMAIN entries : entries[k].name = x}
           Entry == [name : Bundles, uid : Uids]
<1>1. /\ entries \in Seq(Entry) /\ Len(entries) \in Nat
      /\ DOMAIN entries = 1 .. Len(entries)
      /\ \A k \in 1 .. Len(entries) : entries[k] \in Entry
  BY ElementOfSeq, EntriesType DEF UidLists
<1>2. CASE found = {}
  BY <1>2 DEF DeleteEntry
<1>3. CASE found # {}
  <2>1. found \in SUBSET (1 .. Len(entries)) /\ IsFiniteSet(1 .. Len(entries))
    BY <1>1, FS_Interval
  <2>2. IsFiniteSet(found) /\ found \subseteq Int
    BY <2>1, FS_Subset
  <2>3. Min(found) \in 1 .. Len(entries)
    BY <1>3, <2>1, <2>2, MinOfFinite
  <2> QED
    BY <1>1, <1>3, <2>3, RemoveAtType DEF DeleteEntry, UidLists
<1>4. QED
  BY <1>2, <1>3

LEMMA ConvertUidAndGidType ==
  ASSUME NEW entries \in UidLists, NEW x \in Bundles, NEW u \in Uids
  PROVE  ConvertUidAndGidToJson(entries, x, u) \in UidLists
BY AppendProperties DEF ConvertUidAndGidToJson, UidLists

-----------------------------------------------------------------------------
(* Type correctness.                                                       *)

(* What an operation leaves when it ends, in types.                        *)
LEMMA EndType ==
  ASSUME End
  PROVE  /\ pc' \in Steps /\ hap' \in Haps /\ keepData' \in BOOLEAN
         /\ staged' \in Trees \cup {None} /\ uid' \in Uids
         /\ tmpRecord' \in Records /\ tmpUidFile' \in UidLists
BY NullTypes DEF End, Steps, Uids

LEMMA LeaveType ==
  ASSUME TypeOK, NEW tree \in Trees \cup {None}, Leave(tree)
  PROVE  junk' \in [Bundles -> SUBSET Trees]
BY DEF Leave, TypeOK, bundle, Haps, Trees

LEMMA RemainsType ==
  ASSUME NEW tree \in Trees \cup {None}
  PROVE  Remains(tree) \subseteq Trees \cup {None}
BY DEF Remains, Trees

LEMMA LeaveStagedType ==
  ASSUME TypeOK, LeaveStaged
  PROVE  junk' \in [Bundles -> SUBSET Trees]
<1>1. \A tree \in Remains(staged) \cup {staged} : tree \in Trees \cup {None}
  BY RemainsType DEF TypeOK
<1>2. QED
  BY <1>1, LeaveType DEF LeaveStaged, TypeOK

LEMMA CodeRemovedType ==
  ASSUME TypeOK, CodeRemoved
  PROVE  /\ codeDir' \subseteq Bundles
         /\ code' \in [Bundles -> Trees \cup {None}]
         /\ junk' \in [Bundles -> SUBSET Trees]
BY DEF CodeRemoved, TypeOK

LEMMA DataType ==
  ASSUME TypeOK, DataKeptOrNot \/ OwnData(InvalidUid)
  PROVE  data' \in [Bundles -> Nat \cup {NoData}]
BY DEF DataKeptOrNot, OwnData, TypeOK, Root

(* The removal of the directories, done or not.                            *)
LEMMA DirsType ==
  ASSUME TypeOK, DirsRemoved \/ DirsLeft
  PROVE  /\ codeDir' \subseteq Bundles
         /\ code' \in [Bundles -> Trees \cup {None}]
         /\ junk' \in [Bundles -> SUBSET Trees]
         /\ data' \in [Bundles -> Nat \cup {NoData}]
         /\ requests' \in Nat /\ restarts' \in Nat /\ failures' \in Nat
<1>1. data' \in [Bundles -> Nat \cup {NoData}]
  BY DataType DEF DirsRemoved, DirsLeft, TypeOK
<1>2. requests' \in Nat /\ restarts' \in Nat /\ failures' \in Nat
  BY DEF DirsRemoved, DirsLeft, MayFail, TypeOK, budget
<1>3. /\ codeDir' \subseteq Bundles
      /\ code' \in [Bundles -> Trees \cup {None}]
      /\ junk' \in [Bundles -> SUBSET Trees]
  BY CodeRemovedType, LeaveStagedType DEF DirsRemoved, DirsLeft, TypeOK
<1>4. QED
  BY <1>1, <1>2, <1>3

LEMMA FreedNameType ==
  ASSUME TypeOK, RecycleUidOfFreedName
  PROVE  AreUidMaps(uidMap')
BY RecycleUidType DEF RecycleUidOfFreedName, TypeOK

(* The start after a restart.                                              *)
LEMMA StartType ==
  ASSUME TypeOK, Start
  PROVE  /\ bundleMap' \in [Bundles -> Infos]
         /\ AreUidMaps(uidMap')
         /\ phase' \in Styles \cup {"ready"} /\ toScan' \subseteq Bundles
         /\ requests' \in Nat /\ restarts' \in Nat /\ failures' \in Nat
BY NullTypes, RestoreType DEF Start, TypeOK, InDirectory, Styles

(* The types, action by action: nothing an operation, a failure or a       *)
(* restart does takes the state out of TypeOK.                             *)
LEMMA TypeStep ==
  ASSUME TypeOK, [Next]_vars
  PROVE  TypeOK'
<1> USE NullTypes DEF TypeOK, Steps, Undoings, Goto, memory, codeDisk, jsonDisk, disk, task,
                      boot, told, budget
<1>0. CASE UNCHANGED vars
  BY <1>0 DEF vars
<1>1. ASSUME NEW h \in ClientHaps, ReceiveInstall(h) PROVE TypeOK'
  BY <1>1 DEF ReceiveInstall, ClientHaps
<1>2. ASSUME NEW x \in Bundles, NEW keep \in BOOLEAN, ReceiveUninstall(x, keep) PROVE TypeOK'
  BY <1>2 DEF ReceiveUninstall, Haps
<1>3. CASE BadHap
  BY <1>3, EndType DEF BadHap
<1>4. CASE Refuse
  BY <1>4, FreedNameType, EndType DEF Refuse
<1>5. CASE Accept
  BY <1>5 DEF Accept
<1>6. CASE ExtractBegin
  BY <1>6 DEF ExtractBegin, bundle, Haps, Trees
<1>7. CASE ExtractEnd
  BY <1>7 DEF ExtractEnd, Haps, Trees
<1>8. CASE ExtractFails
  BY <1>8, FreedNameType, LeaveType, EndType DEF ExtractFails, MayFail
<1>9. CASE RenameCodeBegin
  BY <1>9 DEF RenameCodeBegin, Remains, bundle, Haps, Trees
<1>10. CASE RenameCodeEnd
  BY <1>10 DEF RenameCodeEnd, bundle, Haps
<1>11. CASE RenameCodeFails
  BY <1>11 DEF RenameCodeFails, bundle, Haps, Abandon, MayFail
<1>12. CASE AssignUid
  <2>1. hap.style \in Styles /\ bundle \in Bundles
    BY DEF Haps, bundle
  <2>2. uid' \in Uids /\ AreUidMaps(uidMap')
    BY <1>12, <2>1, GenerateUidType DEF AssignUid, Infos
  <2>3. data' \in [Bundles -> Nat \cup {NoData}]
    BY <1>12, <2>2 DEF AssignUid, OwnData, Uids, Root
  <2> QED
    BY <1>12, <2>2, <2>3 DEF AssignUid
<1>13. CASE CreateDataFails
  <2>1. bundle \in Bundles /\ hap.style \in Styles
    BY DEF bundle, Haps
  <2>2. uid' \in Uids /\ AreUidMaps(uidMap')
    BY <1>13, <2>1, GenerateUidType DEF CreateDataFails
  <2>3. data' \in [Bundles -> Nat \cup {NoData}]
    BY <1>13, DataType DEF CreateDataFails
  <2> QED
    <3>1. undone' \in [Bundles -> Undoings] /\ pc' \in Steps
      <4>1. Abandon("rollback")
        BY <1>13 DEF CreateDataFails
      <4> QED
        BY <4>1, <2>1 DEF Abandon
    <3>2. failures' \in Nat
      BY <1>13 DEF CreateDataFails, MayFail
    <3> QED
      BY <1>13, <2>2, <2>3, <3>1, <3>2 DEF CreateDataFails, MayFail
<1>14. CASE BackUpInstallRecord
  BY <1>14 DEF BackUpInstallRecord, Records, Haps
<1>15. CASE BackUpRecordFails
  BY <1>15 DEF BackUpRecordFails, bundle, Haps, Abandon, MayFail
<1>16. CASE UpdateBundleInfo
  BY <1>16 DEF UpdateBundleInfo, Infos, bundle, Haps, Styles
<1>17. CASE UpdateBundleInfoFails
  BY <1>17 DEF UpdateBundleInfoFails, bundle, Haps, Abandon, MayFail
<1>18. CASE BackUpUidAndGidInfo
  BY <1>18, ConvertUidAndGidType DEF BackUpUidAndGidInfo, bundle, Haps
<1>19. CASE RenameUidFileBegin
  BY <1>19 DEF RenameUidFileBegin
<1>20. CASE RenameUidFileEnd
  BY <1>20 DEF RenameUidFileEnd
<1>21. CASE RenameRecordBegin
  BY <1>21 DEF RenameRecordBegin, bundle, Haps
<1>22. CASE RenameRecordEnd
  BY <1>22 DEF RenameRecordEnd, bundle, Haps
<1>23. CASE BackUpFails
  BY <1>23 DEF BackUpFails, bundle, Haps, Abandon, MayFail
<1>24. CASE InstallDone
  BY <1>24, EndType DEF InstallDone, bundle, Haps, Acks, WithThirdSystem, MayFail
<1>25. CASE Rollback
  BY <1>25 DEF Rollback, bundle, Haps, RemoveBundleInfo
<1>26. CASE RollbackDone
  BY <1>26, FreedNameType, DirsType, EndType DEF RollbackDone
<1>27. CASE ClearDone
  BY <1>27, DirsType, EndType DEF ClearDone, RemoveBundleInfo
<1>28. CASE RefuseUninstall
  BY <1>28, EndType DEF RefuseUninstall
<1>29. CASE RemoveDirsBegin
  <2>1. pc' \in Steps
    BY <1>29 DEF RemoveDirsBegin, DirsRemoval
  <2>2. /\ codeDir' \subseteq Bundles
        /\ code' \in [Bundles -> Trees \cup {None}]
        /\ junk' \in [Bundles -> SUBSET Trees]
        /\ data' \in [Bundles -> Nat \cup {NoData}]
    <3>1. CASE CodeRemoved /\ DataKeptOrNot
      BY <3>1, CodeRemovedType, DataType
    <3>2. CASE /\ \E rest \in Remains(code[bundle]) : code' = [code EXCEPT ![bundle] = rest]
               /\ \E rest \in SUBSET RemainsOfAll(junk[bundle]) :
                    junk' = [junk EXCEPT ![bundle] = rest]
               /\ UNCHANGED <<codeDir, data>>
      <4>1. bundle \in Bundles
        BY DEF bundle, Haps
      <4>2. RemainsOfAll(junk[bundle]) \subseteq Trees
        BY <4>1 DEF RemainsOfAll, Remains, Trees
      <4>3. Remains(code[bundle]) \subseteq Trees \cup {None}
        BY <4>1, RemainsType
      <4>4. code' \in [Bundles -> Trees \cup {None}]
        BY <3>2, <4>3
      <4>5. junk' \in [Bundles -> SUBSET Trees]
        BY <3>2, <4>2
      <4> QED
        BY <3>2, <4>4, <4>5
    <3> QED
      BY <1>29, <3>1, <3>2 DEF RemoveDirsBegin
  <2>3. undone' \in [Bundles -> Undoings]
    BY <1>29 DEF RemoveDirsBegin
  <2> QED
    BY <1>29, <2>1, <2>2, <2>3 DEF RemoveDirsBegin
<1>30. CASE UninstallDirs
  BY <1>30, DirsType, EndType DEF UninstallDirs, RemoveBundleInfo
<1>31. CASE DeletePermissions
  BY <1>31 DEF DeletePermissions
<1>32. CASE NoUidFile
  BY <1>32, EndType DEF NoUidFile
<1>33. CASE DropEntryBegin
  BY <1>33, DeleteEntryType DEF DropEntryBegin, bundle
<1>34. CASE DropEntryEnd
  BY <1>34 DEF DropEntryEnd, MayFail
<1>35. CASE DropRecord
  BY <1>35, EndType DEF DropRecord, bundle, Haps
<1>36. CASE UninstallFails
  BY <1>36, EndType DEF UninstallFails, MayFail
<1>37. CASE UninstallDone
  BY <1>37, RecycleUidType, EndType
     DEF UninstallDone, WithUninstalled, bundle, Haps, MayFail
<1>38. CASE ScanDone
  <2>1. phase' \in Styles \cup {"ready"}
    BY <1>38 DEF ScanDone, Scanning, NextPhase, Styles
  <2> QED
    BY <1>38, <2>1 DEF ScanDone, InDirectory
<1>39. CASE Purge
  BY <1>39 DEF Purge, bundle, Haps, MayFail
<1>40. CASE Reloaded
  BY <1>40, EndType DEF Reloaded
<1>41. ASSUME NEW x \in Bundles, Skip(x) PROVE TypeOK'
  BY <1>41 DEF Skip
<1>42. ASSUME NEW x \in Bundles, ScanBundle(x) PROVE TypeOK'
  <2>1. hap' \in Haps
    BY <1>42, InstallerAssumption DEF ScanBundle, PreInstalled, Scanning, Haps
  <2>2. bundleMap' \in [Bundles -> Infos]
    <3>1. CASE UNCHANGED bundleMap
      BY <3>1
    <3>2. CASE Reload(x) /\ ~UNCHANGED bundleMap
      <4>1. PICK v \in Profiles(x) \ {Partial} :
              bundleMap' = [bundleMap EXCEPT ![x] =
                [ver |-> v, uid |-> record[x].uid, app |-> record[x].app,
                 sys |-> phase = "SYSTEM"]]
        BY <3>2 DEF Reload
      <4>2. v \in Versions \cup {None}
        BY <4>1 DEF Profiles, Trees
      <4>3. record[x].uid \in Uids /\ record[x].app \in AppIds \cup {NoApp}
        BY DEF Records
      <4>4. [ver |-> v, uid |-> record[x].uid, app |-> record[x].app,
             sys |-> phase = "SYSTEM"] \in Infos
        BY <4>2, <4>3 DEF Infos
      <4> QED
        BY <4>1, <4>4
    <3> QED
      BY <1>42, <3>1, <3>2 DEF ScanBundle
  <2> QED
    BY <1>42, <2>1, <2>2 DEF ScanBundle, Scanning
<1>43. CASE Reboot
  BY <1>43, StartType DEF Reboot
<1>44. CASE Crash
  BY <1>44, StartType, LeaveStagedType, EndType DEF Crash
<1>45. CASE PowerLoss
  BY <1>45, StartType, LeaveStagedType, EndType DEF PowerLoss, WithThirdSystem
<1>46. QED
  BY <1>0, <1>1, <1>2, <1>3, <1>4, <1>5, <1>6, <1>7, <1>8, <1>9, <1>10, <1>11, <1>12,
     <1>13, <1>14, <1>15, <1>16, <1>17, <1>18, <1>19, <1>20, <1>21, <1>22, <1>23,
     <1>24, <1>25, <1>26, <1>27, <1>28, <1>29, <1>30, <1>31, <1>32, <1>33, <1>34,
     <1>35, <1>36, <1>37, <1>38, <1>39, <1>40, <1>41, <1>42, <1>43, <1>44, <1>45
     DEF Next, Request, Install, Uninstall, ScanPackages, Restart

(* The memory, the disk and the operation in progress always have their    *)
(* types: no step of the installer, failed or interrupted, leaves a uid,   *)
(* a record or a map no other step can take up.                            *)
THEOREM TypeCorrect == Spec => []TypeOK
<1>1. Init => TypeOK
  <2>1. AreUidMaps([style \in Styles |-> EmptyMap])
    BY FS_EmptySet DEF AreUidMaps, IsIndexMap, EmptyMap
  <2>2. "SYSTEM" \in Styles
    BY DEF Styles
  <2>3. SUFFICES ASSUME Init PROVE TypeOK
    OBVIOUS
  <2>4. bundleMap \in [Bundles -> Infos] /\ AreUidMaps(uidMap)
    BY <2>1, <2>3, NullTypes DEF Init
  <2>5. /\ codeDir \subseteq Bundles /\ code \in [Bundles -> Trees \cup {None}]
        /\ junk \in [Bundles -> SUBSET Trees]
        /\ data \in [Bundles -> Nat \cup {NoData}]
        /\ record \in [Bundles -> Records] /\ uidFile \in UidLists
        /\ thirdSystem \subseteq Bundles /\ uninstalled \subseteq Bundles
        /\ image \in [Bundles -> Versions]
    BY <2>3, NullTypes DEF Init
  <2>6. /\ pc \in Steps /\ hap \in Haps /\ keepData \in BOOLEAN
        /\ staged \in Trees \cup {None} /\ uid \in Uids
        /\ tmpRecord \in Records /\ tmpUidFile \in UidLists
    BY <2>3, NullTypes DEF Init, Steps, Uids
  <2>7. /\ phase \in Styles \cup {"ready"} /\ toScan \subseteq Bundles
        /\ acked \in [Bundles -> Acks] /\ undone \in [Bundles -> Undoings]
        /\ gone \subseteq Bundles
        /\ requests \in Nat /\ restarts \in Nat /\ failures \in Nat
    BY <2>2, <2>3, NullTypes DEF Init, InDirectory, Undoings
  <2> QED
    BY <2>4, <2>5, <2>6, <2>7 DEF TypeOK
<1>2. TypeOK /\ [Next]_vars => TypeOK'
  BY TypeStep
<1>3. QED
  BY <1>1, <1>2, PTL DEF Spec

-----------------------------------------------------------------------------
(* A bundle that no partition holds stays uninstalled.                     *)

(* Nothing of a removed bundle is left that a scan or a request could      *)
(* find, and no operation is about it but an uninstall yet to be refused.  *)
RemovedLeavesNoTrace ==
  \A x \in gone : Home[x] = "THIRD" =>
    /\ ~Installed(x)
    /\ record[x] = NoRecord
    /\ pc \in {"idle", "uninstall"} \/ bundle # x

(* The pre-installed haps of a partition are scanned in its phase only.    *)
ScansOwnPartition ==
  phase \in {"SYSTEM", "THIRD_SYSTEM"} => \A x \in toScan : Home[x] = phase

(* How far an uninstall has come.                                          *)
UninstallProgress ==
  /\ pc \in {"permissions", "dropEntry", "droppingEntry", "dropRecord",
             "recordUninstalled"} => ~Installed(bundle)
  /\ pc = "recordUninstalled" => record[bundle] = NoRecord

RemovedInv == RemovedLeavesNoTrace /\ ScansOwnPartition /\ UninstallProgress

(* A step of the operation in progress changes the map and the records at  *)
(* most where it is about, and does not touch the scan.                    *)
LEMMA OperationStep ==
  ASSUME TypeOK, TypeOK', RemovedInv,
         pc \notin {"idle", "uninstall"},
         \/ pc' = "idle"
         \/ bundle' = bundle /\ pc' # "uninstall" /\ UninstallProgress',
         \A x \in Bundles \ {bundle} : bundleMap'[x] = bundleMap[x] /\ record'[x] = record[x],
         UNCHANGED <<boot, gone>>
  PROVE  RemovedInv'
<1>1. RemovedLeavesNoTrace'
  BY DEF RemovedInv, RemovedLeavesNoTrace, Installed, TypeOK
<1>2. ScansOwnPartition'
  BY DEF RemovedInv, ScansOwnPartition, boot
<1>3. UninstallProgress'
  BY DEF UninstallProgress
<1>4. QED
  BY <1>1, <1>2, <1>3 DEF RemovedInv

(* A restart empties the bundle map and begins the scan.                   *)
LEMMA RestartStep ==
  ASSUME TypeOK, RemovedInv, Start, pc' = "idle", UNCHANGED <<record, gone>>
  PROVE  RemovedInv'
<1>1. RemovedLeavesNoTrace'
  <2>1. \A x \in gone : Home[x] = "THIRD" => ~Installed(x)'
    BY DEF Start, Installed, NoInfo, TypeOK
  <2> QED
    BY <2>1 DEF RemovedInv, RemovedLeavesNoTrace
<1>2. ScansOwnPartition'
  BY DEF Start, ScansOwnPartition, InDirectory
<1>3. UninstallProgress'
  BY DEF UninstallProgress
<1>4. QED
  BY <1>1, <1>2, <1>3 DEF RemovedInv

(* No operation, failure or restart leads out of RemovedInv.               *)
LEMMA RemovedStep ==
  ASSUME TypeOK, TypeOK', RemovedInv, [Next]_vars
  PROVE  RemovedInv'
<1> USE NullTypes, InstallerAssumption
    DEF RemovedInv, Goto, memory, codeDisk, jsonDisk, disk, task, boot, told, budget
<1>0. CASE UNCHANGED vars
  BY <1>0
     DEF vars, RemovedLeavesNoTrace, ScansOwnPartition, UninstallProgress, Installed,
         bundle
<1>1. ASSUME NEW h \in ClientHaps, ReceiveInstall(h) PROVE RemovedInv'
  BY <1>1
     DEF ReceiveInstall, RemovedLeavesNoTrace, ScansOwnPartition, UninstallProgress,
         Installed, bundle
<1>2. ASSUME NEW x \in Bundles, NEW keep \in BOOLEAN, ReceiveUninstall(x, keep) PROVE RemovedInv'
  BY <1>2
     DEF ReceiveUninstall, RemovedLeavesNoTrace, ScansOwnPartition,
         UninstallProgress, Installed, bundle
<1>3. CASE BadHap
  BY <1>3
     DEF BadHap, End, RemovedLeavesNoTrace, ScansOwnPartition, UninstallProgress,
         Installed, bundle
<1>4. CASE Refuse
  BY <1>4
     DEF Refuse, End, RemovedLeavesNoTrace, ScansOwnPartition, UninstallProgress,
         Installed, bundle
<1>5. CASE Accept
  BY <1>5
     DEF Accept, RemovedLeavesNoTrace, ScansOwnPartition, UninstallProgress,
         Installed, bundle
<1>6. CASE ExtractBegin
  BY <1>6
     DEF ExtractBegin, RemovedLeavesNoTrace, ScansOwnPartition, UninstallProgress,
         Installed, bundle
<1>7. CASE ExtractEnd
  BY <1>7
     DEF ExtractEnd, RemovedLeavesNoTrace, ScansOwnPartition, UninstallProgress,
         Installed, bundle
<1>8. CASE ExtractFails
  BY <1>8, OperationStep DEF ExtractFails, End, bundle
<1>9. CASE RenameCodeBegin
  BY <1>9
     DEF RenameCodeBegin, RemovedLeavesNoTrace, ScansOwnPartition, UninstallProgress,
         Installed, bundle
<1>10. CASE RenameCodeEnd
  BY <1>10
     DEF RenameCodeEnd, RemovedLeavesNoTrace, ScansOwnPartition, UninstallProgress,
         Installed, bundle
<1>11. CASE RenameCodeFails
  BY <1>11
     DEF RenameCodeFails, Abandon, RemovedLeavesNoTrace, ScansOwnPartition,
         UninstallProgress, Installed, bundle
<1>12. CASE AssignUid
  BY <1>12
     DEF AssignUid, RemovedLeavesNoTrace, ScansOwnPartition, UninstallProgress,
         Installed, bundle
<1>13. CASE CreateDataFails
  BY <1>13
     DEF CreateDataFails, Abandon, RemovedLeavesNoTrace, ScansOwnPartition,
         UninstallProgress, Installed, bundle
<1>14. CASE BackUpInstallRecord
  BY <1>14
     DEF BackUpInstallRecord, RemovedLeavesNoTrace, ScansOwnPartition,
         UninstallProgress, Installed, bundle
<1>15. CASE BackUpRecordFails
  BY <1>15
     DEF BackUpRecordFails, Abandon, RemovedLeavesNoTrace, ScansOwnPartition,
         UninstallProgress, Installed, bundle
<1>16. CASE UpdateBundleInfo
  BY <1>16
     DEF UpdateBundleInfo, RemovedLeavesNoTrace, ScansOwnPartition,
         UninstallProgress, Installed, bundle
<1>17. CASE UpdateBundleInfoFails
  BY <1>17
     DEF UpdateBundleInfoFails, Abandon, RemovedLeavesNoTrace, ScansOwnPartition,
         UninstallProgress, Installed, bundle
<1>18. CASE BackUpUidAndGidInfo
  BY <1>18
     DEF BackUpUidAndGidInfo, RemovedLeavesNoTrace, ScansOwnPartition,
         UninstallProgress, Installed, bundle
<1>19. CASE RenameUidFileBegin
  BY <1>19
     DEF RenameUidFileBegin, RemovedLeavesNoTrace, ScansOwnPartition,
         UninstallProgress, Installed, bundle
<1>20. CASE RenameUidFileEnd
  BY <1>20
     DEF RenameUidFileEnd, RemovedLeavesNoTrace, ScansOwnPartition,
         UninstallProgress, Installed, bundle
<1>21. CASE RenameRecordBegin
  BY <1>21
     DEF RenameRecordBegin, RemovedLeavesNoTrace, ScansOwnPartition,
         UninstallProgress, Installed, bundle
<1>22. CASE RenameRecordEnd
  BY <1>22
     DEF RenameRecordEnd, RemovedLeavesNoTrace, ScansOwnPartition, UninstallProgress,
         Installed, bundle
<1>23. CASE BackUpFails
  BY <1>23
     DEF BackUpFails, Abandon, RemovedLeavesNoTrace, ScansOwnPartition,
         UninstallProgress, Installed, bundle
<1>24. CASE InstallDone
  BY <1>24, OperationStep DEF InstallDone, End
<1>25. CASE Rollback
  BY <1>25, OperationStep
     DEF Rollback, RemoveBundleInfo, bundle, UninstallProgress, TypeOK
<1>26. CASE RollbackDone
  BY <1>26, OperationStep DEF RollbackDone, End, RemoveBundleInfo, TypeOK
<1>27. CASE ClearDone
  BY <1>27, OperationStep DEF ClearDone, End, RemoveBundleInfo, TypeOK
<1>28. CASE RefuseUninstall
  BY <1>28
     DEF RefuseUninstall, End, RemovedLeavesNoTrace, ScansOwnPartition,
         UninstallProgress, Installed, bundle
<1>29. CASE RemoveDirsBegin
  <2>1. CASE pc = "uninstall"
    <3>1. bundle \notin gone \/ Home[bundle] # "THIRD"
      BY <1>29, <2>1 DEF RemoveDirsBegin, RemovedLeavesNoTrace
    <3>2. pc' = "uninstalling"
      BY <1>29, <2>1 DEF RemoveDirsBegin, DirsRemoval
    <3> QED
      BY <1>29, <3>1, <3>2
         DEF RemoveDirsBegin, RemovedLeavesNoTrace, ScansOwnPartition, UninstallProgress,
             Installed, bundle
  <2>2. CASE pc \in {"rollbackDirs", "clear"}
    <3>1. pc' \in {"rollingBack", "clearing"}
      BY <1>29, <2>2 DEF RemoveDirsBegin, DirsRemoval
    <3> QED
      BY <1>29, <2>2, <3>1, OperationStep DEF RemoveDirsBegin, UninstallProgress, bundle
  <2> QED
    BY <1>29, <2>1, <2>2 DEF RemoveDirsBegin, DirsRemoval
<1>30. CASE UninstallDirs
  <2>1. CASE DirsRemoved /\ pc' = "permissions" /\ UNCHANGED task
    BY <1>30, <2>1, OperationStep
       DEF UninstallDirs, RemoveBundleInfo, UninstallProgress, Installed, bundle, NoInfo, TypeOK
  <2>2. CASE DirsLeft /\ End
    BY <1>30, <2>2, OperationStep DEF UninstallDirs, RemoveBundleInfo, End, TypeOK
  <2> QED
    BY <1>30, <2>1, <2>2 DEF UninstallDirs
<1>31. CASE DeletePermissions
  BY <1>31
     DEF DeletePermissions, RemovedLeavesNoTrace, ScansOwnPartition,
         UninstallProgress, Installed, bundle
<1>32. CASE NoUidFile
  BY <1>32
     DEF NoUidFile, End, RemovedLeavesNoTrace, ScansOwnPartition, UninstallProgress,
         Installed, bundle
<1>33. CASE DropEntryBegin
  BY <1>33
     DEF DropEntryBegin, RemovedLeavesNoTrace, ScansOwnPartition, UninstallProgress,
         Installed, bundle
<1>34. CASE DropEntryEnd
  BY <1>34
     DEF DropEntryEnd, RemovedLeavesNoTrace, ScansOwnPartition, UninstallProgress,
         Installed, bundle
<1>35. CASE DropRecord
  <2>1. CASE End
    BY <1>35, <2>1, OperationStep DEF DropRecord, End, TypeOK
  <2>2. CASE pc' = "recordUninstalled" /\ UNCHANGED task
    BY <1>35, <2>2, OperationStep
       DEF DropRecord, UninstallProgress, Installed, bundle, TypeOK
  <2> QED
    BY <1>35, <2>1, <2>2 DEF DropRecord
<1>36. CASE UninstallFails
  BY <1>36
     DEF UninstallFails, End, RemovedLeavesNoTrace, ScansOwnPartition,
         UninstallProgress, Installed, bundle
<1>37. CASE UninstallDone
  <2>1. RemovedLeavesNoTrace'
    BY <1>37 DEF UninstallDone, End, RemovedLeavesNoTrace, UninstallProgress, Installed,
                 bundle
  <2> QED
    BY <1>37, <2>1 DEF UninstallDone, End, ScansOwnPartition, UninstallProgress
<1>38. CASE ScanDone
  <2>1. ScansOwnPartition'
    BY <1>38 DEF ScanDone, Scanning, NextPhase, InDirectory, ScansOwnPartition, Styles
  <2> QED
    BY <1>38, <2>1
       DEF ScanDone, RemovedLeavesNoTrace, UninstallProgress, Installed, bundle
<1>39. CASE Purge
  BY <1>39
     DEF Purge, RemovedLeavesNoTrace, ScansOwnPartition, UninstallProgress,
         Installed, bundle
<1>40. CASE Reloaded
  <2>1. CASE End
    BY <1>40, <2>1, OperationStep DEF Reloaded, End
  <2>2. CASE pc' = "check" /\ UNCHANGED task
    BY <1>40, <2>2, OperationStep DEF Reloaded, UninstallProgress, bundle
  <2> QED
    BY <1>40, <2>1, <2>2 DEF Reloaded
<1>41. ASSUME NEW x \in Bundles, Skip(x) PROVE RemovedInv'
  BY <1>41
     DEF Skip, RemovedLeavesNoTrace, ScansOwnPartition, UninstallProgress, Installed,
         bundle
<1>42. ASSUME NEW x \in Bundles, ScanBundle(x) PROVE RemovedInv'
  <2>1. /\ bundle' = x /\ pc' \in {"purge", "reloaded", "check"}
        /\ UNCHANGED <<record, gone, phase>> /\ toScan' = toScan \ {x}
        /\ \A y \in Bundles \ {x} : bundleMap'[y] = bundleMap[y]
    BY <1>42 DEF ScanBundle, Reload, PreInstalled, bundle, TypeOK, Haps
  <2>2. x \notin gone \/ Home[x] # "THIRD"
    <3>1. CASE phase = "THIRD"
      BY <1>42, <3>1 DEF ScanBundle, Skipped, ValidRecord, RemovedLeavesNoTrace
    <3>2. CASE phase \in {"SYSTEM", "THIRD_SYSTEM"}
      BY <1>42, <3>2 DEF ScanBundle, ScansOwnPartition
    <3> QED
      BY <1>42, <3>1, <3>2 DEF ScanBundle, Scanning, Styles
  <2> QED
    BY <2>1, <2>2
       DEF RemovedLeavesNoTrace, ScansOwnPartition, UninstallProgress, Installed, TypeOK
<1>43. CASE Reboot
  BY <1>43, RestartStep DEF Reboot, Idle
<1>44. CASE Crash
  BY <1>44, RestartStep DEF Crash, End
<1>45. CASE PowerLoss
  BY <1>45, RestartStep DEF PowerLoss, End
<1>46. QED
  BY <1>0, <1>1, <1>2, <1>3, <1>4, <1>5, <1>6, <1>7, <1>8, <1>9, <1>10, <1>11, <1>12,
     <1>13, <1>14, <1>15, <1>16, <1>17, <1>18, <1>19, <1>20, <1>21, <1>22, <1>23,
     <1>24, <1>25, <1>26, <1>27, <1>28, <1>29, <1>30, <1>31, <1>32, <1>33, <1>34,
     <1>35, <1>36, <1>37, <1>38, <1>39, <1>40, <1>41, <1>42, <1>43, <1>44, <1>45
     DEF Next, Request, Install, Uninstall, ScanPackages, Restart

(* RemovedInv is an invariant.                                             *)
LEMMA RemovedIsInv == Spec => []RemovedInv
<1>1. Init => RemovedInv
  BY DEF Init, RemovedInv, RemovedLeavesNoTrace, ScansOwnPartition, UninstallProgress,
         InDirectory
<1>2. TypeOK /\ TypeOK' /\ RemovedInv /\ [Next]_vars => RemovedInv'
  BY RemovedStep
<1>3. QED
  BY <1>1, <1>2, TypeCorrect, PTL DEF Spec

(* A bundle no partition holds that a client was told is uninstalled never *)
(* comes back: not in the window before the scan, not from a record, a     *)
(* code directory or a uid entry left by a crash, a power loss or a failed *)
(* daemon operation.  The disk is no part of the argument but for the      *)
(* record: it is gone before ERR_OK is sent, and only an install for which *)
(* a client asked anew writes it.                                          *)
THEOREM ThirdRemovedStays == Spec => []ThirdStaysUninstalled
<1>1. RemovedInv => ThirdStaysUninstalled
  BY DEF RemovedInv, RemovedLeavesNoTrace, ThirdStaysUninstalled
<1>2. QED
  BY <1>1, RemovedIsInv, PTL

-----------------------------------------------------------------------------
(* What an operation on one bundle leaves alone of the others.             *)

(* The steps of the operation in progress.                                 *)
Operation == Install \/ Uninstall \/ Purge \/ Reloaded

(* A step changes nothing of a bundle.                                     *)
SameFor(x) ==
  /\ UNCHANGED <<code[x], junk[x], data[x], record[x], bundleMap[x], acked[x], undone[x]>>
  /\ x \in codeDir <=> x \in codeDir'

(* A staging directory that is left behind takes nothing away.             *)
LEMMA LeaveKeeps ==
  ASSUME TypeOK, LeaveStaged \/ \E tree \in Trees \cup {None} : Leave(tree)
  PROVE  /\ \A x \in Bundles : junk[x] \subseteq junk'[x]
         /\ \A x \in Bundles \ {bundle} : junk'[x] = junk[x]
<1>1. ASSUME NEW tree, Leave(tree)
      PROVE  /\ \A x \in Bundles : junk[x] \subseteq junk'[x]
             /\ \A x \in Bundles \ {bundle} : junk'[x] = junk[x]
  BY <1>1 DEF Leave, TypeOK
<1>2. QED
  BY <1>1 DEF LeaveStaged

(* The removal of the directories of a bundle touches no other.            *)
LEMMA DirsOnlyOf ==
  ASSUME TypeOK, DirsRemoved \/ DirsLeft
  PROVE  \A x \in Bundles \ {bundle} :
           /\ UNCHANGED <<code[x], junk[x], data[x]>>
           /\ x \in codeDir <=> x \in codeDir'
BY LeaveKeeps DEF DirsRemoved, DirsLeft, CodeRemoved, DataKeptOrNot, TypeOK

(* An operation changes nothing but for the bundle it is about, and does   *)
(* not touch the scan.                                                     *)
LEMMA OperationKeepsOthers ==
  ASSUME TypeOK, Operation
  PROVE  /\ \A x \in Bundles \ {bundle} : SameFor(x)
         /\ bundle' = bundle \/ pc' = "idle"
         /\ UNCHANGED boot
<1> USE DEF Goto, memory, codeDisk, jsonDisk, disk, task, boot, told, budget
<1>t. /\ bundle \in Bundles /\ hap \in Haps
      /\ code \in [Bundles -> Trees \cup {None}] /\ junk \in [Bundles -> SUBSET Trees]
      /\ data \in [Bundles -> Nat \cup {NoData}] /\ staged \in Trees \cup {None}
      /\ record \in [Bundles -> Records] /\ bundleMap \in [Bundles -> Infos]
      /\ acked \in [Bundles -> Acks] /\ undone \in [Bundles -> Undoings]
      /\ codeDir \subseteq Bundles
  BY DEF TypeOK, bundle, Haps
<1>1. CASE Install
  <2>1. CASE BadHap
    BY <1>t, <2>1 DEF BadHap, End, SameFor, bundle
  <2>2. CASE Refuse
    BY <1>t, <2>2 DEF Refuse, End, SameFor, bundle
  <2>3. CASE Accept
    BY <1>t, <2>3 DEF Accept, SameFor, bundle
  <2>4. CASE ExtractBegin
    BY <1>t, <2>4 DEF ExtractBegin, SameFor, bundle
  <2>5. CASE ExtractEnd
    BY <1>t, <2>5 DEF ExtractEnd, SameFor, bundle
  <2>6. CASE ExtractFails
    BY <1>t, <2>6, LeaveKeeps DEF ExtractFails, End, SameFor, bundle
  <2>7. CASE RenameCodeBegin
    BY <1>t, <2>7 DEF RenameCodeBegin, Remains, SameFor, bundle
  <2>8. CASE RenameCodeEnd
    BY <1>t, <2>8 DEF RenameCodeEnd, SameFor, bundle
  <2>9. CASE RenameCodeFails
    BY <1>t, <2>9 DEF RenameCodeFails, Abandon, SameFor, bundle
  <2>10. CASE AssignUid
    BY <1>t, <2>10 DEF AssignUid, OwnData, SameFor, bundle
  <2>11. CASE CreateDataFails
    BY <1>t, <2>11 DEF CreateDataFails, Abandon, OwnData, SameFor, bundle
  <2>12. CASE BackUpInstallRecord
    BY <1>t, <2>12 DEF BackUpInstallRecord, SameFor, bundle
  <2>13. CASE BackUpRecordFails
    BY <1>t, <2>13 DEF BackUpRecordFails, Abandon, SameFor, bundle
  <2>14. CASE UpdateBundleInfo
    BY <1>t, <2>14 DEF UpdateBundleInfo, SameFor, bundle
  <2>15. CASE UpdateBundleInfoFails
    BY <1>t, <2>15 DEF UpdateBundleInfoFails, Abandon, SameFor, bundle
  <2>16. CASE BackUpUidAndGidInfo
    BY <1>t, <2>16 DEF BackUpUidAndGidInfo, SameFor, bundle
  <2>17. CASE RenameUidFileBegin
    BY <1>t, <2>17 DEF RenameUidFileBegin, SameFor, bundle
  <2>18. CASE RenameUidFileEnd
    BY <1>t, <2>18 DEF RenameUidFileEnd, SameFor, bundle
  <2>19. CASE RenameRecordBegin
    BY <1>t, <2>19 DEF RenameRecordBegin, SameFor, bundle
  <2>20. CASE RenameRecordEnd
    BY <1>t, <2>20 DEF RenameRecordEnd, SameFor, bundle
  <2>21. CASE BackUpFails
    BY <1>t, <2>21 DEF BackUpFails, Abandon, SameFor, bundle
  <2>22. CASE InstallDone
    BY <1>t, <2>22 DEF InstallDone, End, SameFor, bundle
  <2>23. CASE Rollback
    BY <1>t, <2>23 DEF Rollback, RemoveBundleInfo, SameFor, bundle
  <2>24. CASE RollbackDone
    BY <1>t, <2>24, DirsOnlyOf DEF RollbackDone, End, SameFor, bundle
  <2>25. CASE ClearDone
    BY <1>t, <2>25, DirsOnlyOf DEF ClearDone, End, RemoveBundleInfo, SameFor, bundle
  <2> QED
    BY <1>1, <2>1, <2>2, <2>3, <2>4, <2>5, <2>6, <2>7, <2>8, <2>9, <2>10, <2>11, <2>12,
       <2>13, <2>14, <2>15, <2>16, <2>17, <2>18, <2>19, <2>20, <2>21, <2>22, <2>23, <2>24,
       <2>25
       DEF Install
<1>2. CASE Uninstall
  <2>1. CASE RefuseUninstall
    BY <1>t, <2>1 DEF RefuseUninstall, End, SameFor, bundle
  <2>2. CASE RemoveDirsBegin
    BY <1>t, <2>2 DEF RemoveDirsBegin, CodeRemoved, DataKeptOrNot, SameFor, bundle
  <2>3. CASE UninstallDirs
    BY <1>t, <2>3, DirsOnlyOf DEF UninstallDirs, End, RemoveBundleInfo, SameFor, bundle
  <2>4. CASE DeletePermissions
    BY <1>t, <2>4 DEF DeletePermissions, SameFor, bundle
  <2>5. CASE NoUidFile
    BY <1>t, <2>5 DEF NoUidFile, End, SameFor, bundle
  <2>6. CASE DropEntryBegin
    BY <1>t, <2>6 DEF DropEntryBegin, SameFor, bundle
  <2>7. CASE DropEntryEnd
    BY <1>t, <2>7 DEF DropEntryEnd, SameFor, bundle
  <2>8. CASE DropRecord
    BY <1>t, <2>8 DEF DropRecord, End, SameFor, bundle
  <2>9. CASE UninstallFails
    BY <1>t, <2>9 DEF UninstallFails, End, SameFor, bundle
  <2>10. CASE UninstallDone
    BY <1>t, <2>10 DEF UninstallDone, End, SameFor, bundle
  <2> QED
    BY <1>2, <2>1, <2>2, <2>3, <2>4, <2>5, <2>6, <2>7, <2>8, <2>9, <2>10 DEF Uninstall
<1>3. CASE Purge
  BY <1>t, <1>3 DEF Purge, SameFor, bundle
<1>4. CASE Reloaded
  BY <1>t, <1>4 DEF Reloaded, End, SameFor, bundle
<1>5. QED
  BY <1>1, <1>2, <1>3, <1>4 DEF Operation

-----------------------------------------------------------------------------
(* What was answered ERR_OK survives.                                      *)

(* The steps of an install from a point on.                                *)
FromUidTmp == {"uidTmp", "uidRename", "uidRenaming", "recordRename", "recordRenaming",
               "thirdSystem"}
FromPublish    == {"publish"} \cup FromUidTmp
FromRecord     == {"record"} \cup FromPublish
FromUid        == {"uid"} \cup FromRecord
FromExtracting == {"extracting", "rename", "renaming"} \cup FromUid

(* The steps that take a bundle away.                                      *)
Undoing ==
  {"rollback", "rollbackDirs", "rollingBack", "clear", "clearing", "uninstalling",
   "permissions", "dropEntry", "droppingEntry", "dropRecord", "recordUninstalled"}

(* How far an install has come.                                            *)
InstallProgress ==
  /\ pc \in FromExtracting => bundle \in codeDir
  /\ pc \in {"rename", "renaming"} => staged = hap.ver
  /\ pc \in FromUid => code[bundle] = hap.ver
  /\ pc \in {"record", "publish"} /\ Installed(bundle) => uid = bundleMap[bundle].uid
  /\ pc \in FromPublish => tmpRecord = [ver |-> hap.ver, uid |-> uid, app |-> hap.app]
  /\ pc \in FromUidTmp => bundleMap[bundle].ver = hap.ver /\ bundleMap[bundle].uid = uid
  /\ pc = "thirdSystem" => record[bundle] = tmpRecord

(* A scan finds a profile of x.                                            *)
Readable(x) == Profiles(x) \ {Partial} # {}

(* The scan that is going on has yet to come to the code directory of x.   *)
ToCome(x) == phase \in {"SYSTEM", "THIRD_SYSTEM"} \/ (phase = "THIRD" /\ x \in toScan)

(* Until an operation undoes x: the disk holds its record, with the uid    *)
(* that was answered, and a profile, which RenameFile may replace; the map *)
(* holds x, or the scan will, and no operation takes it away.              *)
Kept(x) ==
  acked[x].uid # InvalidUid /\ undone[x] = "no" =>
    /\ x \in codeDir
    /\ StoredRecord(x).uid = acked[x].uid
    /\ Readable(x) \/ (pc = "renaming" /\ bundle = x)
    /\ IF Installed(x) THEN bundleMap[x].uid = acked[x].uid ELSE ToCome(x)
    /\ bundle = x => pc \notin Undoing /\ (pc # "idle" => Installed(x))

AckedKept == \A x \in Bundles : Kept(x)

AckedInv == InstallProgress /\ AckedKept

(* No operation, failure or restart leads out of InstallProgress.          *)
LEMMA InstallProgressStep ==
  ASSUME TypeOK, TypeOK', InstallProgress, [Next]_vars
  PROVE  InstallProgress'
<1> USE NullTypes, InstallerAssumption
    DEF Goto, memory, codeDisk, jsonDisk, disk, task, boot, told, budget,
        FromUidTmp, FromPublish, FromRecord, FromUid, FromExtracting, Undoing
<1>t. /\ bundle \in Bundles /\ hap \in Haps
      /\ code \in [Bundles -> Trees \cup {None}] /\ junk \in [Bundles -> SUBSET Trees]
      /\ record \in [Bundles -> Records] /\ bundleMap \in [Bundles -> Infos]
      /\ acked \in [Bundles -> Acks] /\ undone \in [Bundles -> Undoings]
      /\ codeDir \subseteq Bundles
  BY DEF TypeOK, bundle, Haps
<1>0. CASE UNCHANGED vars
  BY <1>0 DEF vars, InstallProgress, Installed, bundle
<1>1. CASE Request
  BY <1>1 DEF Request, ReceiveInstall, ReceiveUninstall, InstallProgress
<1>2. CASE Install
  <2>1. CASE BadHap
    BY <1>t, <2>1 DEF BadHap, End, InstallProgress, Installed, bundle
  <2>2. CASE Refuse
    BY <1>t, <2>2 DEF Refuse, End, InstallProgress, Installed, bundle
  <2>3. CASE Accept
    BY <1>t, <2>3 DEF Accept, InstallProgress, Installed, bundle
  <2>4. CASE ExtractBegin
    BY <1>t, <2>4 DEF ExtractBegin, InstallProgress, Installed, bundle
  <2>5. CASE ExtractEnd
    BY <1>t, <2>5 DEF ExtractEnd, InstallProgress, Installed, bundle
  <2>6. CASE ExtractFails
    BY <1>t, <2>6 DEF ExtractFails, End, Leave, InstallProgress, Installed, bundle
  <2>7. CASE RenameCodeBegin
    BY <1>t, <2>7 DEF RenameCodeBegin, Remains, InstallProgress, Installed, bundle
  <2>8. CASE RenameCodeEnd
    BY <1>t, <2>8 DEF RenameCodeEnd, InstallProgress, Installed, bundle
  <2>9. CASE RenameCodeFails
    BY <1>t, <2>9 DEF RenameCodeFails, Abandon, InstallProgress, Installed, bundle
  <2>10. CASE AssignUid
    BY <1>t, <2>10 DEF AssignUid, InstallProgress, Installed, bundle
  <2>11. CASE CreateDataFails
    BY <1>t, <2>11 DEF CreateDataFails, Abandon, InstallProgress, Installed, bundle
  <2>12. CASE BackUpInstallRecord
    BY <1>t, <2>12 DEF BackUpInstallRecord, InstallProgress, Installed, bundle
  <2>13. CASE BackUpRecordFails
    BY <1>t, <2>13 DEF BackUpRecordFails, Abandon, InstallProgress, Installed, bundle
  <2>14. CASE UpdateBundleInfo
    BY <1>t, <2>14 DEF UpdateBundleInfo, InstallProgress, Installed, bundle
  <2>15. CASE UpdateBundleInfoFails
    BY <1>t, <2>15 DEF UpdateBundleInfoFails, Abandon, InstallProgress, Installed, bundle
  <2>16. CASE BackUpUidAndGidInfo
    BY <1>t, <2>16 DEF BackUpUidAndGidInfo, InstallProgress, Installed, bundle
  <2>17. CASE RenameUidFileBegin
    BY <1>t, <2>17 DEF RenameUidFileBegin, InstallProgress, Installed, bundle
  <2>18. CASE RenameUidFileEnd
    BY <1>t, <2>18 DEF RenameUidFileEnd, InstallProgress, Installed, bundle
  <2>19. CASE RenameRecordBegin
    BY <1>t, <2>19 DEF RenameRecordBegin, InstallProgress, Installed, bundle
  <2>20. CASE RenameRecordEnd
    BY <1>t, <2>20 DEF RenameRecordEnd, InstallProgress, Installed, bundle
  <2>21. CASE BackUpFails
    BY <1>t, <2>21 DEF BackUpFails, Abandon, InstallProgress, Installed, bundle
  <2>22. CASE InstallDone
    BY <1>t, <2>22 DEF InstallDone, End, InstallProgress, Installed, bundle
  <2>23. CASE Rollback
    BY <1>t, <2>23 DEF Rollback, RemoveBundleInfo, InstallProgress, Installed, bundle
  <2>24. CASE RollbackDone
    BY <1>t, <2>24 DEF RollbackDone, End, InstallProgress, Installed, bundle
  <2>25. CASE ClearDone
    BY <1>t, <2>25 DEF ClearDone, End, RemoveBundleInfo, InstallProgress, Installed, bundle
  <2> QED
    BY <1>2, <2>1, <2>2, <2>3, <2>4, <2>5, <2>6, <2>7, <2>8, <2>9, <2>10, <2>11, <2>12,
       <2>13, <2>14, <2>15, <2>16, <2>17, <2>18, <2>19, <2>20, <2>21, <2>22, <2>23, <2>24,
       <2>25
       DEF Install
<1>3. CASE Uninstall
  <2>1. CASE RefuseUninstall
    BY <1>t, <2>1 DEF RefuseUninstall, End, InstallProgress, Installed, bundle
  <2>2. CASE RemoveDirsBegin
    BY <1>t, <2>2 DEF RemoveDirsBegin, DirsRemoval, InstallProgress, Installed, bundle
  <2>3. CASE UninstallDirs
    BY <1>t, <2>3
       DEF UninstallDirs, End, RemoveBundleInfo, InstallProgress, Installed, bundle
  <2>4. CASE DeletePermissions
    BY <1>t, <2>4 DEF DeletePermissions, InstallProgress, Installed, bundle
  <2>5. CASE NoUidFile
    BY <1>t, <2>5 DEF NoUidFile, End, InstallProgress, Installed, bundle
  <2>6. CASE DropEntryBegin
    BY <1>t, <2>6 DEF DropEntryBegin, InstallProgress, Installed, bundle
  <2>7. CASE DropEntryEnd
    BY <1>t, <2>7 DEF DropEntryEnd, InstallProgress, Installed, bundle
  <2>8. CASE DropRecord
    BY <1>t, <2>8 DEF DropRecord, End, InstallProgress, Installed, bundle
  <2>9. CASE UninstallFails
    BY <1>t, <2>9 DEF UninstallFails, End, InstallProgress, Installed, bundle
  <2>10. CASE UninstallDone
    BY <1>t, <2>10 DEF UninstallDone, End, InstallProgress, Installed, bundle
  <2> QED
    BY <1>3, <2>1, <2>2, <2>3, <2>4, <2>5, <2>6, <2>7, <2>8, <2>9, <2>10 DEF Uninstall
<1>4. CASE ScanPackages
  BY <1>4
     DEF ScanPackages, ScanDone, Scanning, Purge, Reloaded, End, Skip, ScanBundle,
         InstallProgress
<1>5. CASE Restart
  BY <1>5 DEF Restart, Reboot, Crash, PowerLoss, Idle, End, InstallProgress
<1>6. QED
  BY <1>0, <1>1, <1>2, <1>3, <1>4, <1>5 DEF Next

(* Nothing is promised of a bundle that is being taken away.               *)
LEMMA KeptUndone ==
  ASSUME NEW x \in Bundles, Kept(x),
         \/ undone'[x] # "no"
         \/ bundle = x /\ pc \in Undoing /\ UNCHANGED <<acked[x], undone[x]>>
  PROVE  Kept(x)'
BY DEF Kept

(* A scan begins for what the disk holds between two operations.           *)
LEMMA RestartKept ==
  ASSUME TypeOK, NEW x \in Bundles, Kept(x), Start, pc' = "idle",
         ~(pc \in {"renaming", "recordRenaming"} /\ bundle = x),
         junk[x] \subseteq junk'[x], UNCHANGED <<acked[x], undone[x]>>,
         UNCHANGED <<record, code, codeDir>>
  PROVE  Kept(x)'
<1>1. phase' = "SYSTEM" /\ bundleMap'[x] = NoInfo
  BY DEF Start
<1>2. Readable(x) => Readable(x)'
  BY DEF Readable, Profiles
<1>3. StoredRecord(x)' = record[x] /\ StoredRecord(x) = record[x]
  BY DEF StoredRecord
<1>4. QED
  BY <1>1, <1>2, <1>3 DEF Kept, Installed, NoInfo, ToCome, Undoing

(* A step of an operation on another bundle.                               *)
LEMMA KeptOther ==
  ASSUME NEW x \in Bundles, Kept(x), bundle # x, SameFor(x), UNCHANGED boot,
         bundle' = bundle \/ pc' = "idle"
  PROVE  Kept(x)'
BY DEF Kept, SameFor, StoredRecord, Readable, Profiles, Installed, ToCome, boot, Undoing

(* No operation, failure or restart leads out of AckedKept.                *)
LEMMA AckedStep ==
  ASSUME TypeOK, TypeOK', InstallProgress, AckedKept, [Next]_vars
  PROVE  AckedKept'
<1> USE NullTypes, InstallerAssumption
    DEF Goto, memory, codeDisk, jsonDisk, disk, task, boot, told, budget,
        FromUidTmp, FromPublish, FromRecord, FromUid, FromExtracting, Undoing
<1>t. /\ bundle \in Bundles /\ hap \in Haps
      /\ code \in [Bundles -> Trees \cup {None}] /\ junk \in [Bundles -> SUBSET Trees]
      /\ record \in [Bundles -> Records] /\ bundleMap \in [Bundles -> Infos]
      /\ acked \in [Bundles -> Acks] /\ undone \in [Bundles -> Undoings]
      /\ codeDir \subseteq Bundles
  BY DEF TypeOK, bundle, Haps
<1>0. CASE UNCHANGED vars
  BY <1>0
     DEF vars, AckedKept, Kept, Readable, Profiles, ToCome, StoredRecord, Installed, bundle
<1>1. CASE Request
  BY <1>1 DEF Request, ReceiveInstall, ReceiveUninstall, Idle, AckedKept, Kept, Readable,
              Profiles, ToCome, StoredRecord, Installed, bundle
<1>2. ASSUME NEW z \in Bundles, Operation, z # bundle PROVE Kept(z)'
  BY <1>2, OperationKeepsOthers, KeptOther DEF AckedKept
<1>3. ASSUME NEW z \in Bundles, Install, z = bundle PROVE Kept(z)'
  <2>1. CASE BadHap
    BY <1>3, <2>1
       DEF BadHap, End, AckedKept, Kept, Readable, Profiles, ToCome, StoredRecord,
           Installed, bundle
  <2>2. CASE Refuse
    BY <1>3, <2>2
       DEF Refuse, End, AckedKept, Kept, Readable, Profiles, ToCome, StoredRecord,
           Installed, bundle
  <2>3. CASE Accept
    BY <1>3, <2>3
       DEF Accept, AckedKept, Kept, Readable, Profiles, ToCome, StoredRecord, Installed,
           bundle
  <2>4. CASE ExtractBegin
    BY <1>3, <2>4
       DEF ExtractBegin, AckedKept, Kept, Readable, Profiles, ToCome, StoredRecord,
           Installed, bundle
  <2>5. CASE ExtractEnd
    BY <1>3, <2>5
       DEF ExtractEnd, AckedKept, Kept, Readable, Profiles, ToCome, StoredRecord,
           Installed, bundle
  <2>6. CASE ExtractFails
    <3>1. junk[z] \subseteq junk'[z]
      BY <1>t, <2>6, LeaveKeeps DEF ExtractFails, TypeOK
    <3> QED
      BY <1>3, <2>6, <3>1
         DEF ExtractFails, End, AckedKept, Kept, Readable, Profiles, ToCome,
                            StoredRecord, Installed, bundle
  <2>7. CASE RenameCodeBegin
    BY <1>3, <2>7
       DEF RenameCodeBegin, Remains, AckedKept, Kept, Readable, Profiles, ToCome,
           StoredRecord, Installed, bundle
  <2>8. CASE RenameCodeEnd
    <3>1. hap.ver \in Versions /\ code'[z] = hap.ver
      BY <2>8, <1>3, <1>t DEF RenameCodeEnd, InstallProgress, Haps
    <3>2. Readable(z)'
      <4>1. hap.ver \notin {None, Partial}
        BY <3>1 DEF None, Partial
      <4>2. hap.ver \in Profiles(z)'
        BY <3>1, <4>1 DEF Profiles
      <4> QED
        BY <4>1, <4>2 DEF Readable
    <3> QED
      BY <2>8, <1>3, <3>2
         DEF RenameCodeEnd, AckedKept, Kept, StoredRecord, Installed, ToCome, bundle
  <2>9. CASE RenameCodeFails
    BY <1>t, <1>3, <2>9, KeptUndone DEF RenameCodeFails, Abandon, AckedKept
  <2>10. CASE AssignUid
    BY <1>3, <2>10
       DEF AssignUid, AckedKept, Kept, Readable, Profiles, ToCome, StoredRecord, Installed,
           bundle
  <2>11. CASE CreateDataFails
    BY <1>t, <1>3, <2>11, KeptUndone DEF CreateDataFails, Abandon, AckedKept
  <2>12. CASE BackUpInstallRecord
    BY <1>3, <2>12
       DEF BackUpInstallRecord, AckedKept, Kept, Readable, Profiles, ToCome, StoredRecord,
           Installed, bundle
  <2>13. CASE BackUpRecordFails
    BY <1>t, <1>3, <2>13, KeptUndone DEF BackUpRecordFails, Abandon, AckedKept
  <2>14. CASE UpdateBundleInfo
    <3>1. /\ bundleMap'[z].ver = hap.ver /\ bundleMap'[z].uid = uid
          /\ hap.ver \in Versions
      BY <2>14, <1>3, <1>t DEF UpdateBundleInfo, Haps
    <3>2. Installed(z)' /\ Readable(z)' = Readable(z)
      BY <2>14, <3>1 DEF UpdateBundleInfo, Installed, Readable, Profiles
    <3> QED
      BY <2>14, <1>3, <3>1, <3>2
         DEF UpdateBundleInfo, InstallProgress, AckedKept, Kept, StoredRecord, bundle
  <2>15. CASE UpdateBundleInfoFails
    BY <1>t, <1>3, <2>15, KeptUndone DEF UpdateBundleInfoFails, Abandon, AckedKept
  <2>16. CASE BackUpUidAndGidInfo
    BY <1>3, <2>16
       DEF BackUpUidAndGidInfo, AckedKept, Kept, Readable, Profiles, ToCome, StoredRecord,
           Installed, bundle
  <2>17. CASE RenameUidFileBegin
    BY <1>3, <2>17
       DEF RenameUidFileBegin, AckedKept, Kept, Readable, Profiles, ToCome, StoredRecord,
           Installed, bundle
  <2>18. CASE RenameUidFileEnd
    BY <1>3, <2>18
       DEF RenameUidFileEnd, AckedKept, Kept, Readable, Profiles, ToCome, StoredRecord,
           Installed, bundle
  <2>19. CASE RenameRecordBegin
    <3>1. StoredRecord(z)'.uid = uid
      BY <2>19, <1>3 DEF RenameRecordBegin, InstallProgress, StoredRecord, bundle
    <3>2. UNCHANGED <<Installed(z), Readable(z), ToCome(z)>>
      BY <2>19 DEF RenameRecordBegin, Installed, Readable, Profiles, ToCome
    <3> QED
      BY <2>19, <1>3, <3>1, <3>2
         DEF RenameRecordBegin, InstallProgress, AckedKept, Kept, bundle
  <2>20. CASE RenameRecordEnd
    <3>1. record'[z] = tmpRecord /\ tmpRecord.uid = uid /\ bundleMap[z].uid = uid /\ Installed(z)
      BY <1>t, <1>3, <2>20 DEF RenameRecordEnd, InstallProgress, Installed, Haps
    <3> QED
      BY <1>3, <2>20, <3>1 DEF RenameRecordEnd, AckedKept, Kept, Readable, Profiles, ToCome,
                            StoredRecord, Installed, bundle
  <2>21. CASE BackUpFails
    BY <1>t, <1>3, <2>21, KeptUndone DEF BackUpFails, Abandon, AckedKept
  <2>22. CASE InstallDone
    <3>1. acked'[z].uid = uid /\ pc' = "idle"
      BY <2>22, <1>3, <1>t DEF InstallDone, End
    <3>2. StoredRecord(z)'.uid = uid
      BY <2>22, <1>3, <3>1 DEF InstallDone, InstallProgress, StoredRecord
    <3>3. Installed(z)' /\ bundleMap'[z].uid = uid
      BY <2>22, <1>3, <1>t DEF InstallDone, InstallProgress, Installed, Haps
    <3>4. code'[z] = hap.ver /\ hap.ver \in Versions /\ z \in codeDir'
      BY <2>22, <1>3, <1>t DEF InstallDone, InstallProgress, Haps
    <3>5. Readable(z)'
      <4>1. hap.ver \notin {None, Partial}
        BY <3>4 DEF None, Partial
      <4>2. hap.ver \in Profiles(z)'
        BY <3>4, <4>1 DEF Profiles
      <4> QED
        BY <4>1, <4>2 DEF Readable
    <3> QED
      BY <3>1, <3>2, <3>3, <3>4, <3>5 DEF Kept
  <2>23. CASE Rollback
    BY <1>t, <1>3, <2>23, KeptUndone DEF Rollback, AckedKept
  <2>24. CASE RollbackDone
    BY <1>t, <1>3, <2>24, KeptUndone DEF RollbackDone, AckedKept
  <2>25. CASE ClearDone
    BY <1>t, <1>3, <2>25, KeptUndone DEF ClearDone, AckedKept
  <2> QED
    BY <1>3, <2>1, <2>2, <2>3, <2>4, <2>5, <2>6, <2>7, <2>8, <2>9, <2>10, <2>11, <2>12,
       <2>13, <2>14, <2>15, <2>16, <2>17, <2>18, <2>19, <2>20, <2>21, <2>22, <2>23, <2>24,
       <2>25
       DEF Install
<1>4. ASSUME NEW z \in Bundles, Uninstall, z = bundle PROVE Kept(z)'
  <2>1. CASE RefuseUninstall
    BY <1>4, <2>1
       DEF RefuseUninstall, End, AckedKept, Kept, Readable, Profiles, ToCome, StoredRecord,
           Installed, bundle
  <2>2. CASE RemoveDirsBegin
    <3>1. CASE pc = "uninstall"
      BY <1>t, <1>4, <2>2, <3>1, KeptUndone DEF RemoveDirsBegin, AckedKept
    <3>2. CASE pc # "uninstall"
      BY <1>t, <1>4, <2>2, <3>2, KeptUndone DEF RemoveDirsBegin, DirsRemoval, AckedKept
    <3> QED
      BY <3>1, <3>2
  <2>3. CASE UninstallDirs
    BY <1>t, <1>4, <2>3, KeptUndone DEF UninstallDirs, AckedKept
  <2>4. CASE DeletePermissions
    BY <1>4, <2>4
       DEF DeletePermissions, AckedKept, Kept, Readable, Profiles, ToCome, StoredRecord,
           Installed, bundle
  <2>5. CASE NoUidFile
    BY <1>4, <2>5
       DEF NoUidFile, End, AckedKept, Kept, Readable, Profiles, ToCome, StoredRecord,
           Installed, bundle
  <2>6. CASE DropEntryBegin
    BY <1>4, <2>6
       DEF DropEntryBegin, AckedKept, Kept, Readable, Profiles, ToCome, StoredRecord,
           Installed, bundle
  <2>7. CASE DropEntryEnd
    BY <1>4, <2>7
       DEF DropEntryEnd, AckedKept, Kept, Readable, Profiles, ToCome, StoredRecord,
           Installed, bundle
  <2>8. CASE DropRecord
    BY <1>t, <1>4, <2>8, KeptUndone DEF DropRecord, AckedKept
  <2>9. CASE UninstallFails
    BY <1>4, <2>9
       DEF UninstallFails, End, AckedKept, Kept, Readable, Profiles, ToCome, StoredRecord,
           Installed, bundle
  <2>10. CASE UninstallDone
    BY <1>t, <1>4, <2>10, KeptUndone DEF UninstallDone, AckedKept
  <2> QED
    BY <1>4, <2>1, <2>2, <2>3, <2>4, <2>5, <2>6, <2>7, <2>8, <2>9, <2>10 DEF Uninstall
<1>5. ASSUME NEW z \in Bundles, Purge, z = bundle PROVE Kept(z)'
  <2>1. CASE acked[z].uid # InvalidUid /\ undone[z] = "no"
    <3>1. Readable(z)'
      <4>1. PICK v \in Profiles(z) : v # Partial
        BY <1>5, <2>1 DEF Purge, AckedKept, Kept, Readable
      <4>2. v \in Profiles(z)'
        BY <1>5, <2>1, <1>t, <4>1 DEF Purge, Profiles
      <4> QED
        BY <4>1, <4>2 DEF Readable
    <3> QED
      BY <1>5, <2>1, <3>1
         DEF Purge, AckedKept, Kept, StoredRecord, Installed, ToCome, bundle
  <2>2. CASE ~(acked[z].uid # InvalidUid /\ undone[z] = "no")
    BY <1>5, <2>2 DEF Purge, Kept
  <2> QED
    BY <2>1, <2>2
<1>6. ASSUME NEW z \in Bundles, Reloaded, z = bundle PROVE Kept(z)'
  BY <1>6 DEF Reloaded, End, AckedKept, Kept, Readable, Profiles, ToCome, StoredRecord,
              Installed, bundle
<1>7. CASE ScanDone
  <2>1. ASSUME NEW z \in Bundles, z \in codeDir, ToCome(z) PROVE ToCome(z)'
    BY <1>7, <2>1 DEF ScanDone, Scanning, NextPhase, InDirectory, Styles, ToCome
  <2>2. ASSUME NEW z \in Bundles PROVE Kept(z)'
    BY <1>7, <2>1
       DEF ScanDone, AckedKept, Kept, Readable, Profiles, StoredRecord, Installed,
                      bundle
  <2> QED
    BY <2>2 DEF AckedKept
<1>8. ASSUME NEW x \in Bundles, Skip(x) PROVE AckedKept'
  <2> SUFFICES ASSUME NEW z \in Bundles, acked[z].uid # InvalidUid, undone[z] = "no"
               PROVE  Kept(z)'
    BY <1>8 DEF Skip, AckedKept, Kept
  <2>1. pc = "idle" /\ ValidRecord(z) /\ UNCHANGED <<Installed(z), Readable(z), StoredRecord(z)>>
    BY <1>8
       DEF Skip, Scanning, AckedKept, Kept, ValidRecord, StoredRecord, NoRecord, Installed,
           Readable, Profiles, bundle
  <2>2. Installed(z) \/ ToCome(z)'
    BY <1>8, <2>1 DEF Skip, Skipped, AckedKept, Kept, ToCome
  <2> QED
    BY <1>8, <2>1, <2>2 DEF Skip, AckedKept, Kept, bundle
<1>9. ASSUME NEW x \in Bundles, ScanBundle(x) PROVE AckedKept'
  <2> SUFFICES ASSUME NEW z \in Bundles, acked[z].uid # InvalidUid, undone[z] = "no"
               PROVE  Kept(z)'
    BY <1>9 DEF ScanBundle, AckedKept, Kept
  <2>1. /\ pc = "idle" /\ UNCHANGED <<record, code, junk, codeDir, phase, acked, undone>>
        /\ toScan' = toScan \ {x} /\ pc' \in {"purge", "reloaded", "check"}
    BY <1>9 DEF ScanBundle, Scanning
  <2>5. /\ ValidRecord(z) /\ record[z].uid = acked[z].uid /\ Readable(z)
    BY <2>1 DEF AckedKept, Kept, ValidRecord, StoredRecord, NoRecord
  <2>6. Readable(z)' /\ StoredRecord(z)'.uid = acked[z].uid /\ z \in codeDir
    BY <2>1, <2>5 DEF Readable, Profiles, StoredRecord, ValidRecord
  <2>2. bundle' = x /\ pc' \in {"purge", "reloaded", "check"}
    BY <1>9, <1>t DEF ScanBundle, PreInstalled, bundle, Haps
  <2>3. CASE z # x
    <3>1. bundleMap'[z] = bundleMap[z]
      BY <1>9, <2>3, <1>t DEF ScanBundle, Reload
    <3> QED
      BY <2>1, <2>2, <2>3, <2>6, <3>1 DEF AckedKept, Kept, Installed, ToCome
  <2>4. CASE z = x
    <3>1. Reload(x) /\ ~(Profiles(x) \subseteq {Partial}) /\ record[x].uid # InvalidUid
      BY <1>9, <2>5, <2>4 DEF ScanBundle, Readable
    <3>2. bundleMap'[x].ver # None /\ bundleMap'[x].uid = record[x].uid
      BY <3>1, <1>t DEF Reload, Profiles
    <3> QED
      BY <2>1, <2>2, <2>4, <2>5, <2>6, <3>2 DEF Kept, Installed
  <2> QED
    BY <2>3, <2>4
<1>10. CASE Reboot
  BY <1>10, RestartKept DEF Reboot, Idle, AckedKept
<1>11. CASE Crash
  <2>1. /\ pc \notin {"renaming", "recordRenaming"} /\ Start /\ pc' = "idle"
        /\ UNCHANGED <<record, code, codeDir, acked, undone>>
    BY <1>11 DEF Crash, DaemonOperations, End
  <2>2. \A z \in Bundles : junk[z] \subseteq junk'[z]
    BY <1>11, LeaveKeeps DEF Crash
  <2> QED
    BY <2>1, <2>2, RestartKept DEF AckedKept
<1>12. CASE PowerLoss
  <2>1. Start /\ pc' = "idle" /\ UNCHANGED <<record, code, codeDir>>
    BY <1>12 DEF PowerLoss, End
  <2>2. \A z \in Bundles : junk[z] \subseteq junk'[z]
    BY <1>12, LeaveKeeps DEF PowerLoss
  <2>3. ASSUME NEW z \in Bundles, ~(pc \in InRenameFile /\ z = bundle) PROVE Kept(z)'
    BY <1>12, <1>t, <2>1, <2>2, <2>3, RestartKept DEF PowerLoss, InRenameFile, AckedKept
  <2>4. ASSUME NEW z \in Bundles, pc \in InRenameFile, z = bundle PROVE Kept(z)'
    BY <1>12, <1>t, <2>4, KeptUndone DEF PowerLoss, AckedKept
  <2> QED
    BY <2>3, <2>4 DEF AckedKept
<1>13. CASE Operation
  BY <1>2, <1>3, <1>4, <1>5, <1>6, <1>13 DEF Operation, AckedKept
<1>14. QED
  BY <1>0, <1>1, <1>7, <1>8, <1>9, <1>10, <1>11, <1>12, <1>13
     DEF Next, Operation, ScanPackages, Restart

(* Both are invariants.                                                    *)
LEMMA AckedIsInv == Spec => []AckedInv
<1>1. Init => AckedInv
  BY DEF Init, AckedInv, InstallProgress, AckedKept, Kept, NoAck, FromUidTmp, FromPublish,
         FromRecord, FromUid, FromExtracting
<1>2. TypeOK /\ TypeOK' /\ AckedInv /\ [Next]_vars => AckedInv'
  BY InstallProgressStep, AckedStep DEF AckedInv
<1>3. QED
  BY <1>1, <1>2, TypeCorrect, PTL DEF Spec

(* What a client was told ERR_OK about survives every crash, power loss,   *)
(* failed daemon operation and refused request, in the operations of       *)
(* others and, while its own update runs, in the process itself: the       *)
(* bundle is there, under the uid it was given, and the next scan will     *)
(* find its record and a profile.  What ends it is named in `undone': an   *)
(* uninstall that has begun, an update of the bundle itself that failed    *)
(* after the extraction, a power loss in its own RenameFile.  An update is *)
(* the delicate part: it replaces the module directory, the uid list and   *)
(* the record one after the other, and what is missing at each point is    *)
(* still held by the staging directory, by the bundle map or by the        *)
(* temporary record.                                                       *)
THEOREM AnsweredSurvives == Spec => []AckedSurvives
<1>1. AckedInv => AckedSurvives
  <2> SUFFICES ASSUME AckedInv, Idle, NEW x \in Bundles, acked[x].uid # InvalidUid,
                      undone[x] = "no"
               PROVE  /\ Installed(x) /\ bundleMap[x].uid = acked[x].uid
                      /\ ValidRecord(x) /\ record[x].uid = acked[x].uid
                      /\ Profiles(x) \ {Partial} # {}
    BY DEF AckedSurvives
  <2>1. ~ToCome(x) /\ StoredRecord(x) = record[x] /\ pc = "idle"
    BY DEF Idle, ToCome, StoredRecord
  <2>2. record[x] # NoRecord
    BY <2>1 DEF AckedInv, AckedKept, Kept, NoRecord
  <2> QED
    BY <2>1, <2>2 DEF AckedInv, AckedKept, Kept, ValidRecord, Readable
<1>2. QED
  BY <1>1, AckedIsInv, PTL

-----------------------------------------------------------------------------
(* While the service runs, the answered version is the one everywhere.     *)

(* Nobody restarts: the answered version is the one everywhere, but where  *)
(* an update of the bundle has come; and a bundle that was rolled back or  *)
(* uninstalled is out of the map, until an install adds it again.          *)
KeptVersion(x) ==
  /\ acked[x] # NoAck /\ undone[x] = "no" =>
       /\ acked[x].ver # None
       /\ bundle = x =>
            pc \notin Undoing \cup {"purge", "purgeEntry", "purgingEntry", "reloaded"}
       /\ (bundle = x /\ pc \in FromUidTmp) \/ bundleMap[x].ver = acked[x].ver
       /\ \/ bundle = x /\ pc \in {"recordRenaming", "thirdSystem"}
          \/ record[x].ver = acked[x].ver
       /\ \/ bundle = x /\ pc \in {"renaming"} \cup FromUid
          \/ code[x] = acked[x].ver
  /\ undone[x] \in {"rollback", "uninstall"} =>
       \/ bundleMap[x].ver = None
       \/ bundle = x /\ pc \in {"rollback", "uninstalling"} \cup FromUidTmp

VersionKept == \A x \in Bundles : KeptVersion(x)

(* The scan of the first start: nobody uninstalls, and a bundle that has a *)
(* record was installed by the scan and is in the map.                     *)
FirstScan ==
  phase # "ready" =>
    /\ pc \in {"idle", "check", "extract", "rollback", "rollbackDirs", "rollingBack",
               "clear", "clearing"} \cup FromExtracting
    /\ pc \notin {"idle", "thirdSystem"} => record[bundle] = NoRecord
    /\ \A x \in Bundles : record[x] # NoRecord => Installed(x)

(* No operation or failure leads out of FirstScan.                         *)
LEMMA FirstScanStep ==
  ASSUME TypeOK, TypeOK', InstallProgress, FirstScan, [Next]_vars,
         Faults \cap {"reboot", "crash", "power"} = {}
  PROVE  FirstScan'
<1> USE NullTypes, InstallerAssumption
    DEF Goto, memory, codeDisk, jsonDisk, disk, task, boot, told, budget,
        FromUidTmp, FromPublish, FromRecord, FromUid, FromExtracting
<1>t. /\ bundle \in Bundles /\ hap \in Haps
      /\ record \in [Bundles -> Records] /\ bundleMap \in [Bundles -> Infos]
  BY DEF TypeOK, bundle, Haps
<1>0. CASE UNCHANGED vars
  BY <1>0 DEF vars, FirstScan, Installed, bundle
<1>1. CASE Request
  BY <1>1 DEF Request, ReceiveInstall, ReceiveUninstall, Idle, FirstScan
<1>2. CASE Install
  <2>1. CASE BadHap
    BY <1>t, <2>1 DEF BadHap, End, FirstScan, Installed, bundle
  <2>2. CASE Refuse
    BY <1>t, <2>2 DEF Refuse, End, FirstScan, Installed, bundle
  <2>3. CASE Accept
    BY <1>t, <2>3 DEF Accept, FirstScan, Installed, bundle
  <2>4. CASE ExtractBegin
    BY <1>t, <2>4 DEF ExtractBegin, FirstScan, Installed, bundle
  <2>5. CASE ExtractEnd
    BY <1>t, <2>5 DEF ExtractEnd, FirstScan, Installed, bundle
  <2>6. CASE ExtractFails
    BY <1>t, <2>6 DEF ExtractFails, End, FirstScan, Installed, bundle
  <2>7. CASE RenameCodeBegin
    BY <1>t, <2>7 DEF RenameCodeBegin, FirstScan, Installed, bundle
  <2>8. CASE RenameCodeEnd
    BY <1>t, <2>8 DEF RenameCodeEnd, FirstScan, Installed, bundle
  <2>9. CASE RenameCodeFails
    BY <1>t, <2>9 DEF RenameCodeFails, Abandon, FirstScan, Installed, bundle
  <2>10. CASE AssignUid
    BY <1>t, <2>10 DEF AssignUid, FirstScan, Installed, bundle
  <2>11. CASE CreateDataFails
    BY <1>t, <2>11 DEF CreateDataFails, Abandon, FirstScan, Installed, bundle
  <2>12. CASE BackUpInstallRecord
    BY <1>t, <2>12 DEF BackUpInstallRecord, FirstScan, Installed, bundle
  <2>13. CASE BackUpRecordFails
    BY <1>t, <2>13 DEF BackUpRecordFails, Abandon, FirstScan, Installed, bundle
  <2>14. CASE UpdateBundleInfo
    BY <1>t, <2>14 DEF UpdateBundleInfo, Haps, FirstScan, Installed, bundle
  <2>15. CASE UpdateBundleInfoFails
    BY <1>t, <2>15 DEF UpdateBundleInfoFails, Abandon, FirstScan, Installed, bundle
  <2>16. CASE BackUpUidAndGidInfo
    BY <1>t, <2>16 DEF BackUpUidAndGidInfo, FirstScan, Installed, bundle
  <2>17. CASE RenameUidFileBegin
    BY <1>t, <2>17 DEF RenameUidFileBegin, FirstScan, Installed, bundle
  <2>18. CASE RenameUidFileEnd
    BY <1>t, <2>18 DEF RenameUidFileEnd, FirstScan, Installed, bundle
  <2>19. CASE RenameRecordBegin
    BY <1>t, <2>19 DEF RenameRecordBegin, FirstScan, Installed, bundle
  <2>20. CASE RenameRecordEnd
    BY <1>t, <2>20 DEF RenameRecordEnd, InstallProgress, FirstScan, Installed, bundle, Haps
  <2>21. CASE BackUpFails
    BY <1>t, <2>21 DEF BackUpFails, Abandon, FirstScan, Installed, bundle
  <2>22. CASE InstallDone
    BY <1>t, <2>22 DEF InstallDone, End, InstallProgress, FirstScan, Installed, bundle
  <2>23. CASE Rollback
    BY <1>t, <2>23 DEF Rollback, RemoveBundleInfo, FirstScan, Installed, bundle
  <2>24. CASE RollbackDone
    BY <1>t, <2>24 DEF RollbackDone, End, FirstScan, Installed, bundle
  <2>25. CASE ClearDone
    BY <1>t, <2>25 DEF ClearDone, End, RemoveBundleInfo, FirstScan, Installed, bundle
  <2> QED
    BY <1>2, <2>1, <2>2, <2>3, <2>4, <2>5, <2>6, <2>7, <2>8, <2>9, <2>10, <2>11, <2>12,
       <2>13, <2>14, <2>15, <2>16, <2>17, <2>18, <2>19, <2>20, <2>21, <2>22, <2>23, <2>24,
       <2>25
       DEF Install
<1>3. CASE Uninstall
  <2>1. CASE RefuseUninstall
    BY <1>t, <2>1 DEF RefuseUninstall, FirstScan, Installed, bundle
  <2>2. CASE RemoveDirsBegin
    BY <1>t, <2>2 DEF RemoveDirsBegin, DirsRemoval, FirstScan, Installed, bundle
  <2>3. CASE UninstallDirs
    BY <1>t, <2>3 DEF UninstallDirs, FirstScan, Installed, bundle
  <2>4. CASE DeletePermissions
    BY <1>t, <2>4 DEF DeletePermissions, FirstScan, Installed, bundle
  <2>5. CASE NoUidFile
    BY <1>t, <2>5 DEF NoUidFile, FirstScan, Installed, bundle
  <2>6. CASE DropEntryBegin
    BY <1>t, <2>6 DEF DropEntryBegin, FirstScan, Installed, bundle
  <2>7. CASE DropEntryEnd
    BY <1>t, <2>7 DEF DropEntryEnd, FirstScan, Installed, bundle
  <2>8. CASE DropRecord
    BY <1>t, <2>8 DEF DropRecord, FirstScan, Installed, bundle
  <2>9. CASE UninstallFails
    BY <1>t, <2>9 DEF UninstallFails, FirstScan, Installed, bundle
  <2>10. CASE UninstallDone
    BY <1>t, <2>10 DEF UninstallDone, FirstScan, Installed, bundle
  <2> QED
    BY <1>3, <2>1, <2>2, <2>3, <2>4, <2>5, <2>6, <2>7, <2>8, <2>9, <2>10 DEF Uninstall
<1>4. CASE Purge \/ Reloaded
  BY <1>4 DEF Purge, Reloaded, FirstScan
<1>5. CASE ScanDone
  BY <1>5 DEF ScanDone, Scanning, Styles, FirstScan, Installed, bundle
<1>6. ASSUME NEW x \in Bundles, Skip(x) PROVE FirstScan'
  BY <1>6 DEF Skip, FirstScan, Installed, bundle
<1>7. ASSUME NEW x \in Bundles, ScanBundle(x) PROVE FirstScan'
  <2>1. ~Installed(x) /\ phase \in Styles /\ pc = "idle"
    BY <1>7 DEF ScanBundle, Scanning, Skipped
  <2>2. record[x] = NoRecord
    BY <2>1 DEF FirstScan, Styles
  <2>3. pc' = "check" /\ UNCHANGED <<bundleMap, record, phase>>
    BY <1>7, <2>2 DEF ScanBundle, ValidRecord
  <2>4. bundle' = x
    BY <1>7, <1>t DEF ScanBundle, PreInstalled, bundle, Haps
  <2> QED
    BY <2>1, <2>2, <2>3, <2>4 DEF FirstScan, Installed
<1>8. CASE Restart
  BY <1>8 DEF Restart, Reboot, Crash, PowerLoss
<1>9. QED
  BY <1>0, <1>1, <1>2, <1>3, <1>4, <1>5, <1>6, <1>7, <1>8 DEF Next, ScanPackages

(* A step of an operation on another bundle.                               *)
LEMMA VersionOther ==
  ASSUME NEW x \in Bundles, KeptVersion(x), bundle # x, SameFor(x),
         bundle' = bundle \/ pc' = "idle"
  PROVE  KeptVersion(x)'
BY DEF KeptVersion, SameFor, Undoing

(* No operation or failure leads out of VersionKept.                       *)
LEMMA VersionStep ==
  ASSUME TypeOK, TypeOK', InstallProgress, FirstScan, VersionKept, [Next]_vars,
         Faults \cap {"reboot", "crash", "power"} = {}
  PROVE  VersionKept'
<1> USE NullTypes, InstallerAssumption
    DEF Goto, memory, codeDisk, jsonDisk, disk, task, boot, told, budget,
        FromUidTmp, FromPublish, FromRecord, FromUid, FromExtracting, Undoing
<1>t. /\ bundle \in Bundles /\ hap \in Haps
      /\ code \in [Bundles -> Trees \cup {None}] /\ junk \in [Bundles -> SUBSET Trees]
      /\ record \in [Bundles -> Records] /\ bundleMap \in [Bundles -> Infos]
      /\ acked \in [Bundles -> Acks] /\ undone \in [Bundles -> Undoings]
      /\ codeDir \subseteq Bundles
  BY DEF TypeOK, bundle, Haps
<1>0. CASE UNCHANGED vars
  BY <1>0 DEF vars, VersionKept, KeptVersion, bundle
<1>1. CASE Request
  BY <1>1
     DEF Request, ReceiveInstall, ReceiveUninstall, Idle, VersionKept, KeptVersion, bundle
<1>2. ASSUME NEW z \in Bundles, Operation, z # bundle PROVE KeptVersion(z)'
  BY <1>2, OperationKeepsOthers, VersionOther DEF VersionKept
<1>3. ASSUME NEW z \in Bundles, Install, z = bundle PROVE KeptVersion(z)'
  <2>1. CASE BadHap
    BY <1>3, <2>1 DEF BadHap, End, VersionKept, KeptVersion, Installed, bundle
  <2>2. CASE Refuse
    BY <1>3, <2>2 DEF Refuse, End, VersionKept, KeptVersion, Installed, bundle
  <2>3. CASE Accept
    BY <1>3, <2>3 DEF Accept, VersionKept, KeptVersion, Installed, bundle
  <2>4. CASE ExtractBegin
    BY <1>3, <2>4 DEF ExtractBegin, VersionKept, KeptVersion, Installed, bundle
  <2>5. CASE ExtractEnd
    BY <1>3, <2>5 DEF ExtractEnd, VersionKept, KeptVersion, Installed, bundle
  <2>6. CASE ExtractFails
    BY <1>3, <2>6 DEF ExtractFails, End, Leave, VersionKept, KeptVersion, Installed, bundle
  <2>7. CASE RenameCodeBegin
    BY <1>3, <2>7 DEF RenameCodeBegin, Remains, VersionKept, KeptVersion, Installed, bundle
  <2>8. CASE RenameCodeEnd
    BY <1>t, <1>3, <2>8
       DEF RenameCodeEnd, VersionKept, KeptVersion, Installed, bundle, InstallProgress,
           NoAck, Haps
  <2>9. CASE RenameCodeFails
    BY <1>t, <1>3, <2>9 DEF RenameCodeFails, Abandon, KeptVersion, bundle
  <2>10. CASE AssignUid
    BY <1>t, <1>3, <2>10
       DEF AssignUid, VersionKept, KeptVersion, Installed, bundle, InstallProgress, NoAck,
           Haps
  <2>11. CASE CreateDataFails
    BY <1>t, <1>3, <2>11 DEF CreateDataFails, Abandon, KeptVersion, bundle
  <2>12. CASE BackUpInstallRecord
    BY <1>3, <2>12 DEF BackUpInstallRecord, VersionKept, KeptVersion, Installed, bundle
  <2>13. CASE BackUpRecordFails
    BY <1>t, <1>3, <2>13 DEF BackUpRecordFails, Abandon, KeptVersion, bundle
  <2>14. CASE UpdateBundleInfo
    BY <1>t, <1>3, <2>14
       DEF UpdateBundleInfo, VersionKept, KeptVersion, Installed, bundle, InstallProgress,
           NoAck, Haps
  <2>15. CASE UpdateBundleInfoFails
    BY <1>t, <1>3, <2>15 DEF UpdateBundleInfoFails, Abandon, KeptVersion, bundle
  <2>16. CASE BackUpUidAndGidInfo
    BY <1>3, <2>16 DEF BackUpUidAndGidInfo, VersionKept, KeptVersion, Installed, bundle
  <2>17. CASE RenameUidFileBegin
    BY <1>3, <2>17 DEF RenameUidFileBegin, VersionKept, KeptVersion, Installed, bundle
  <2>18. CASE RenameUidFileEnd
    BY <1>3, <2>18 DEF RenameUidFileEnd, VersionKept, KeptVersion, Installed, bundle
  <2>19. CASE RenameRecordBegin
    BY <1>3, <2>19 DEF RenameRecordBegin, VersionKept, KeptVersion, Installed, bundle
  <2>20. CASE RenameRecordEnd
    BY <1>t, <1>3, <2>20
       DEF RenameRecordEnd, VersionKept, KeptVersion, Installed, bundle, InstallProgress,
           NoAck, Haps
  <2>21. CASE BackUpFails
    BY <1>t, <1>3, <2>21 DEF BackUpFails, Abandon, KeptVersion, bundle
  <2>22. CASE InstallDone
    BY <1>t, <1>3, <2>22
       DEF InstallDone, End, VersionKept, KeptVersion, Installed, bundle, InstallProgress,
           NoAck, Haps
  <2>23. CASE Rollback
    BY <1>t, <1>3, <2>23
       DEF Rollback, RemoveBundleInfo, NoInfo, VersionKept, KeptVersion, Installed, bundle
  <2>24. CASE RollbackDone
    BY <1>3, <2>24 DEF RollbackDone, End, VersionKept, KeptVersion, Installed, bundle
  <2>25. CASE ClearDone
    BY <1>t, <1>3, <2>25
       DEF ClearDone, End, RemoveBundleInfo, NoInfo, VersionKept, KeptVersion, Installed, bundle
  <2> QED
    BY <1>3, <2>1, <2>2, <2>3, <2>4, <2>5, <2>6, <2>7, <2>8, <2>9, <2>10, <2>11, <2>12,
       <2>13, <2>14, <2>15, <2>16, <2>17, <2>18, <2>19, <2>20, <2>21, <2>22, <2>23, <2>24,
       <2>25
       DEF Install
<1>4. ASSUME NEW z \in Bundles, Uninstall, z = bundle PROVE KeptVersion(z)'
  <2>1. CASE RefuseUninstall
    BY <1>4, <2>1 DEF RefuseUninstall, End, VersionKept, KeptVersion, Installed, bundle
  <2>2. CASE RemoveDirsBegin
    BY <1>t, <1>4, <2>2 DEF RemoveDirsBegin, DirsRemoval, VersionKept, KeptVersion, bundle
  <2>3. CASE UninstallDirs
    BY <1>t, <1>4, <2>3
       DEF UninstallDirs, End, RemoveBundleInfo, NoInfo, VersionKept, KeptVersion, Installed,
           bundle
  <2>4. CASE DeletePermissions
    BY <1>4, <2>4 DEF DeletePermissions, VersionKept, KeptVersion, Installed, bundle
  <2>5. CASE NoUidFile
    BY <1>4, <2>5 DEF NoUidFile, End, VersionKept, KeptVersion, Installed, bundle
  <2>6. CASE DropEntryBegin
    BY <1>4, <2>6 DEF DropEntryBegin, VersionKept, KeptVersion, Installed, bundle
  <2>7. CASE DropEntryEnd
    BY <1>4, <2>7 DEF DropEntryEnd, VersionKept, KeptVersion, Installed, bundle
  <2>8. CASE DropRecord
    BY <1>4, <2>8 DEF DropRecord, End, VersionKept, KeptVersion, Installed, bundle
  <2>9. CASE UninstallFails
    BY <1>4, <2>9 DEF UninstallFails, End, VersionKept, KeptVersion, Installed, bundle
  <2>10. CASE UninstallDone
    BY <1>4, <2>10 DEF UninstallDone, End, VersionKept, KeptVersion, Installed, bundle
  <2> QED
    BY <1>4, <2>1, <2>2, <2>3, <2>4, <2>5, <2>6, <2>7, <2>8, <2>9, <2>10 DEF Uninstall
<1>5. ASSUME NEW z \in Bundles, Purge \/ Reloaded, z = bundle PROVE KeptVersion(z)'
  BY <1>5 DEF Purge, Reloaded, VersionKept, KeptVersion, Installed, bundle
<1>6. CASE Operation
  BY <1>2, <1>3, <1>4, <1>5, <1>6 DEF Operation, VersionKept
<1>7. CASE ScanDone
  BY <1>7 DEF ScanDone, VersionKept, KeptVersion, bundle
<1>8. ASSUME NEW x \in Bundles, Skip(x) PROVE VersionKept'
  BY <1>8 DEF Skip, VersionKept, KeptVersion, bundle
<1>9. ASSUME NEW x \in Bundles, ScanBundle(x) PROVE VersionKept'
  <2>1. ~Installed(x) /\ pc = "idle" /\ phase \in Styles
    BY <1>9 DEF ScanBundle, Scanning, Skipped
  <2>2. record[x] = NoRecord
    BY <2>1 DEF FirstScan, Styles
  <2>3. pc' = "check" /\ UNCHANGED <<bundleMap, record, code, acked, undone>>
    BY <1>9, <2>2 DEF ScanBundle, ValidRecord
  <2> QED
    BY <2>1, <2>3 DEF VersionKept, KeptVersion
<1>10. CASE Restart
  BY <1>10 DEF Restart, Reboot, Crash, PowerLoss
<1>11. QED
  BY <1>0, <1>1, <1>6, <1>7, <1>8, <1>9, <1>10 DEF Next, Operation, ScanPackages

(* However the operations of the daemon fail, as long as the service runs: *)
(* a bundle whose own operations did not fail after the extraction has the *)
(* answered version in memory, in the record and in the code directory;    *)
(* one whose update was rolled back, or whose uninstall failed half way,   *)
(* is not in the list, so no version is left that nobody was told of.      *)
(* After CLEAR_INSTALL_ENV nothing is claimed.                             *)
THEOREM AnsweredVersionStays ==
  ASSUME Faults \cap {"reboot", "crash", "power"} = {}
  PROVE  Spec => []AckedVersion
<1>1. Init => FirstScan /\ VersionKept
  BY DEF Init, FirstScan, VersionKept, KeptVersion
<1>2. TypeOK /\ TypeOK' /\ AckedInv /\ FirstScan /\ VersionKept /\ [Next]_vars
      => FirstScan' /\ VersionKept'
  BY FirstScanStep, VersionStep DEF AckedInv
<1>3. VersionKept => AckedVersion
  BY DEF VersionKept, KeptVersion, AckedVersion, Installed, Idle, FromUidTmp, FromPublish,
         FromRecord, FromUid
<1>4. QED
  BY <1>1, <1>2, <1>3, TypeCorrect, AckedIsInv, PTL DEF Spec

-----------------------------------------------------------------------------
(* The bundles of the system partition are back after every restart.       *)

(* A step of an operation in which nothing fails.                          *)
LEMMA NoFailureStep ==
  ASSUME Operation, ~MayFail
  PROVE  UNCHANGED budget
BY DEF Operation, Purge, Reloaded, Install, Uninstall, DirsRemoved, DirsLeft, budget,
       BadHap, Refuse, Accept, ExtractBegin, ExtractEnd, RenameCodeBegin, RenameCodeEnd,
       AssignUid, BackUpInstallRecord, UpdateBundleInfo, BackUpUidAndGidInfo,
       RenameUidFileBegin, RenameUidFileEnd, RenameRecordBegin, RenameRecordEnd,
       InstallDone, Rollback, RollbackDone, ClearDone, RefuseUninstall, RemoveDirsBegin,
       UninstallDirs, DeletePermissions, NoUidFile, DropEntryBegin, DropEntryEnd,
       DropRecord, UninstallDone,
       ExtractFails, RenameCodeFails, CreateDataFails, BackUpRecordFails,
       UpdateBundleInfoFails, BackUpFails, UninstallFails

(* A bundle of the system partition is in the map, or the scan has yet to  *)
(* come to it, or it is being installed as one.                            *)
KeptSystem(x) ==
  failures = 0 /\ Home[x] = "SYSTEM" =>
    /\ Installed(x) => bundleMap[x].sys /\ bundleMap[x].uid # InvalidUid
    /\ record[x] # NoRecord =>
         /\ record[x].uid # InvalidUid
         /\ Readable(x) \/ (pc = "renaming" /\ bundle = x)
    /\ bundle = x => pc \notin Undoing
    /\ bundle = x /\ pc \in FromRecord => uid # InvalidUid
    /\ \/ Installed(x)
       \/ phase = "SYSTEM" /\ x \in toScan /\ (pc = "idle" \/ bundle # x)
       \/ /\ phase = "SYSTEM" /\ bundle = x /\ hap.style = "SYSTEM"
          /\ pc \in {"check", "extract", "extracting", "rename", "renaming", "uid",
                     "record", "publish"}

SystemKept == \A x \in Bundles : KeptSystem(x)

(* A range never runs out: GenerateUid has a uid for every new bundle.      *)
UidsLeft ==
  pc = "uid" /\ ~Installed(bundle) => ~Exhausted(uidMap[hap.style], hap.style)

(* A step of an operation on another bundle.                               *)
LEMMA SystemOther ==
  ASSUME NEW x \in Bundles, KeptSystem(x), bundle # x, SameFor(x), UNCHANGED <<boot, failures>>,
         bundle' = bundle \/ pc' = "idle"
  PROVE  KeptSystem(x)'
BY
   DEF KeptSystem, SameFor, Undoing, FromRecord, FromPublish, FromUidTmp, Installed,
       Readable,
       Profiles, boot

(* A restart: the scan will come to the bundle.                            *)
LEMMA RestartSystem ==
  ASSUME TypeOK, NEW x \in Bundles, KeptSystem(x), Start, pc' = "idle", UNCHANGED record,
         Readable(x) => Readable(x)',
         pc = "renaming" /\ bundle = x => Readable(x)'
  PROVE  KeptSystem(x)'
<1>1. /\ phase' = "SYSTEM" /\ bundleMap'[x] = NoInfo /\ toScan' = InDirectory("SYSTEM")
      /\ failures' = failures
  BY DEF Start
<1>2. Home[x] = "SYSTEM" => x \in toScan'
  BY <1>1 DEF InDirectory
<1>3. QED
  BY <1>1, <1>2
     DEF KeptSystem, Installed, NoInfo, Undoing, FromRecord, FromPublish, FromUidTmp

(* No operation or restart leads out of SystemKept; a failure is excused.  *)
LEMMA SystemStep ==
  ASSUME TypeOK, TypeOK', InstallProgress, SystemKept, ScansOwnPartition, UidsLeft, [Next]_vars
  PROVE  SystemKept'
<1> SUFFICES ASSUME failures' = 0 PROVE SystemKept'
  BY DEF SystemKept, KeptSystem
<1> USE NullTypes, InstallerAssumption
    DEF Goto, memory, codeDisk, jsonDisk, disk, task, boot, told, budget,
        FromUidTmp, FromPublish, FromRecord, FromUid, FromExtracting, Undoing
<1>t. /\ bundle \in Bundles /\ hap \in Haps
      /\ code \in [Bundles -> Trees \cup {None}] /\ junk \in [Bundles -> SUBSET Trees]
      /\ record \in [Bundles -> Records] /\ bundleMap \in [Bundles -> Infos]
      /\ acked \in [Bundles -> Acks] /\ undone \in [Bundles -> Undoings]
      /\ codeDir \subseteq Bundles
  BY DEF TypeOK, bundle, Haps
<1>m. ~MayFail
  BY DEF MayFail, TypeOK
<1>0. CASE UNCHANGED vars
  BY <1>0 DEF vars, SystemKept, KeptSystem, Readable, Profiles, Installed, bundle
<1>1. CASE Request
  BY <1>1 DEF Request, ReceiveInstall, ReceiveUninstall, Idle, SystemKept, KeptSystem,
              Readable, Profiles, Installed, bundle
<1>f. Operation => UNCHANGED failures
  BY <1>m, NoFailureStep
<1>2. ASSUME NEW z \in Bundles, Operation, z # bundle PROVE KeptSystem(z)'
  BY <1>f, <1>2, OperationKeepsOthers, SystemOther DEF SystemKept
<1>3. ASSUME NEW z \in Bundles, Install, z = bundle PROVE KeptSystem(z)'
  <2>1. CASE BadHap
    BY <1>m, <1>3, <2>1
       DEF BadHap, End, SystemKept, KeptSystem, Readable, Profiles, Installed, bundle
  <2>2. CASE Refuse
    BY <1>3, <2>2
       DEF Refuse, Refused, End, SystemKept, KeptSystem, Readable, Profiles, Installed,
           bundle
  <2>3. CASE Accept
    BY <1>m, <1>3, <2>3
       DEF Accept, SystemKept, KeptSystem, Readable, Profiles, Installed, bundle
  <2>4. CASE ExtractBegin
    BY <1>m, <1>3, <2>4
       DEF ExtractBegin, SystemKept, KeptSystem, Readable, Profiles, Installed, bundle
  <2>5. CASE ExtractEnd
    BY <1>m, <1>3, <2>5
       DEF ExtractEnd, SystemKept, KeptSystem, Readable, Profiles, Installed, bundle
  <2>6. CASE ExtractFails
    BY <1>m, <2>6 DEF ExtractFails
  <2>7. CASE RenameCodeBegin
    BY <1>m, <1>3, <2>7
       DEF RenameCodeBegin, Remains, SystemKept, KeptSystem, Readable, Profiles, Installed,
           bundle
  <2>8. CASE RenameCodeEnd
    <3>1. hap.ver \in Versions /\ code'[z] = hap.ver
      BY <2>8, <1>3, <1>t DEF RenameCodeEnd, InstallProgress, Haps
    <3>2. Readable(z)'
      <4>1. hap.ver \notin {None, Partial}
        BY <3>1 DEF None, Partial
      <4>2. hap.ver \in Profiles(z)'
        BY <3>1, <4>1 DEF Profiles
      <4> QED
        BY <4>1, <4>2 DEF Readable
    <3> QED
      BY <2>8, <1>3, <3>2 DEF RenameCodeEnd, SystemKept, KeptSystem, Installed, bundle
  <2>9. CASE RenameCodeFails
    BY <1>m, <2>9 DEF RenameCodeFails
  <2>10. CASE AssignUid
    <3>1. uid' # InvalidUid \/ failures # 0 \/ Home[z] # "SYSTEM"
      <4>1. CASE Installed(bundle)
        BY <2>10, <1>3, <4>1 DEF AssignUid, SystemKept, KeptSystem
      <4>2. CASE ~Installed(bundle)
        <5>1. ~Exhausted(uidMap[hap.style], hap.style)
          BY <2>10, <4>2 DEF AssignUid, UidsLeft
        <5>2. uid' = Base(hap.style) + NewIndex(uidMap[hap.style])
          BY <2>10, <4>2, <5>1 DEF AssignUid, GenerateInnerUid
        <5>3. hap.style \in Styles /\ IsIndexMap(uidMap[hap.style], Base(hap.style))
          BY <1>t DEF Haps, TypeOK, AreUidMaps
        <5> QED
          BY <5>2, <5>3, BaseType, NewIndexInRange DEF InvalidUid
      <4> QED
        BY <4>1, <4>2
    <3> QED
      BY <2>10, <1>3, <3>1
         DEF AssignUid, SystemKept, KeptSystem, Installed, Readable, Profiles, bundle
  <2>11. CASE CreateDataFails
    BY <1>m, <2>11 DEF CreateDataFails
  <2>12. CASE BackUpInstallRecord
    BY <1>m, <1>3, <2>12
       DEF BackUpInstallRecord, SystemKept, KeptSystem, Readable, Profiles, Installed,
           bundle
  <2>13. CASE BackUpRecordFails
    BY <1>m, <2>13 DEF BackUpRecordFails
  <2>14. CASE UpdateBundleInfo
    <3>1. bundleMap'[z] = [ver |-> hap.ver, uid |-> uid, app |-> hap.app,
            sys |-> IF Installed(z) THEN bundleMap[z].sys ELSE hap.style = "SYSTEM"]
      BY <2>14, <1>3, <1>t DEF UpdateBundleInfo
    <3>2. Installed(z)' /\ hap.ver \in Versions
      BY <3>1, <1>t DEF Installed, Haps
    <3>3. UNCHANGED <<record, code, junk, boot, failures, uid, hap>> /\ pc = "publish" /\ pc' = "uidTmp"
      BY <2>14 DEF UpdateBundleInfo
    <3>4. failures = 0 /\ Home[z] = "SYSTEM" => bundleMap'[z].sys /\ bundleMap'[z].uid # InvalidUid
      <4>1. bundleMap'[z].uid = uid
        BY <3>1
      <4>3. failures = 0 /\ Home[z] = "SYSTEM" => uid # InvalidUid
        BY <1>3, <3>3 DEF SystemKept, KeptSystem
      <4>4. CASE Installed(z)
        <5>1. bundleMap'[z] = [ver |-> hap.ver, uid |-> uid, app |-> hap.app,
                               sys |-> bundleMap[z].sys]
          BY <3>1, <4>4
        <5> QED
          BY <4>1, <4>3, <4>4, <5>1 DEF SystemKept, KeptSystem
      <4>5. CASE ~Installed(z) /\ failures = 0 /\ Home[z] = "SYSTEM"
        <5>1. hap.style = "SYSTEM"
          BY <1>3, <3>3, <4>5 DEF SystemKept, KeptSystem
        <5>2. bundleMap'[z] = [ver |-> hap.ver, uid |-> uid, app |-> hap.app, sys |-> TRUE]
          BY <3>1, <4>5, <5>1
        <5> QED
          BY <4>1, <4>3, <4>5, <5>2
      <4> QED
        BY <4>4, <4>5
    <3> QED
      BY <1>3, <3>2, <3>3, <3>4 DEF SystemKept, KeptSystem, Readable, Profiles
  <2>15. CASE UpdateBundleInfoFails
    BY <1>m, <2>15 DEF UpdateBundleInfoFails
  <2>16. CASE BackUpUidAndGidInfo
    BY <1>m, <1>3, <2>16
       DEF BackUpUidAndGidInfo, SystemKept, KeptSystem, Readable, Profiles, Installed,
           bundle
  <2>17. CASE RenameUidFileBegin
    BY <1>m, <1>3, <2>17
       DEF RenameUidFileBegin, SystemKept, KeptSystem, Readable, Profiles, Installed,
           bundle
  <2>18. CASE RenameUidFileEnd
    BY <1>m, <1>3, <2>18
       DEF RenameUidFileEnd, SystemKept, KeptSystem, Readable, Profiles, Installed, bundle
  <2>19. CASE RenameRecordBegin
    <3>1. /\ record'[z] = NoRecord /\ pc = "recordRename" /\ pc' = "recordRenaming"
          /\ UNCHANGED <<bundleMap, code, junk, hap, uid, phase, toScan, failures>>
      BY <1>t, <1>3, <2>19 DEF RenameRecordBegin
    <3>2. UNCHANGED <<Installed(z), Readable(z), bundle>>
      BY <3>1 DEF Installed, Readable, Profiles, bundle
    <3> QED
      BY <1>3, <3>1, <3>2 DEF SystemKept, KeptSystem
  <2>20. CASE RenameRecordEnd
    <3>1. /\ record'[z] = tmpRecord /\ tmpRecord.uid = uid /\ code[z] = hap.ver
          /\ hap.ver \in Versions /\ Installed(z)
      BY <2>20, <1>3, <1>t DEF RenameRecordEnd, InstallProgress, Haps, Installed
    <3>2. Readable(z)'
      <4>1. hap.ver \notin {None, Partial}
        BY <3>1 DEF None, Partial
      <4>2. hap.ver \in Profiles(z)'
        BY <2>20, <3>1, <4>1 DEF RenameRecordEnd, Profiles
      <4> QED
        BY <4>1, <4>2 DEF Readable
    <3> QED
      BY <2>20, <1>3, <3>1, <3>2
         DEF RenameRecordEnd, SystemKept, KeptSystem, Installed, bundle
  <2>21. CASE BackUpFails
    BY <1>m, <2>21 DEF BackUpFails
  <2>22. CASE InstallDone
    BY <1>m, <1>3, <2>22
       DEF InstallDone, End, SystemKept, KeptSystem, Readable, Profiles, Installed, bundle
  <2>23. CASE Rollback
    BY <1>m, <1>3, <2>23
       DEF Rollback, RemoveBundleInfo, SystemKept, KeptSystem, Readable, Profiles,
           Installed, bundle
  <2>24. CASE RollbackDone
    BY <1>f, <1>3, <2>24 DEF RollbackDone, Operation, SystemKept, KeptSystem
  <2>25. CASE ClearDone
    BY <1>f, <1>3, <2>25 DEF ClearDone, Operation, SystemKept, KeptSystem
  <2> QED
    BY <1>3, <2>1, <2>2, <2>3, <2>4, <2>5, <2>6, <2>7, <2>8, <2>9, <2>10, <2>11, <2>12,
       <2>13, <2>14, <2>15, <2>16, <2>17, <2>18, <2>19, <2>20, <2>21, <2>22, <2>23, <2>24,
       <2>25
       DEF Install
<1>4. ASSUME NEW z \in Bundles, Uninstall, z = bundle PROVE KeptSystem(z)'
  <2>1. CASE RefuseUninstall
    BY <1>m, <1>4, <2>1
       DEF RefuseUninstall, End, SystemKept, KeptSystem, Readable, Profiles, Installed,
           bundle
  <2>2. CASE RemoveDirsBegin
    BY <1>m, <1>4, <2>2
       DEF RemoveDirsBegin, DirsRemoval, SystemKept, KeptSystem, Readable, Profiles,
           Installed, bundle
  <2>3. CASE UninstallDirs
    BY <1>f, <1>4, <2>3 DEF UninstallDirs, Operation, SystemKept, KeptSystem
  <2>4. CASE DeletePermissions
    BY <1>m, <1>4, <2>4
       DEF DeletePermissions, SystemKept, KeptSystem, Readable, Profiles, Installed, bundle
  <2>5. CASE NoUidFile
    BY <1>m, <1>4, <2>5
       DEF NoUidFile, End, SystemKept, KeptSystem, Readable, Profiles, Installed, bundle
  <2>6. CASE DropEntryBegin
    BY <1>m, <1>4, <2>6
       DEF DropEntryBegin, SystemKept, KeptSystem, Readable, Profiles, Installed, bundle
  <2>7. CASE DropEntryEnd
    BY <1>m, <1>4, <2>7
       DEF DropEntryEnd, SystemKept, KeptSystem, Readable, Profiles, Installed, bundle
  <2>8. CASE DropRecord
    BY <1>m, <1>4, <2>8
       DEF DropRecord, End, SystemKept, KeptSystem, Readable, Profiles, Installed, bundle
  <2>9. CASE UninstallFails
    BY <1>m, <2>9 DEF UninstallFails
  <2>10. CASE UninstallDone
    BY <1>m, <1>4, <2>10
       DEF UninstallDone, End, SystemKept, KeptSystem, Readable, Profiles, Installed,
           bundle
  <2> QED
    BY <1>4, <2>1, <2>2, <2>3, <2>4, <2>5, <2>6, <2>7, <2>8, <2>9, <2>10 DEF Uninstall
<1>5. ASSUME NEW z \in Bundles, Purge, z = bundle PROVE KeptSystem(z)'
  <2>1. /\ pc = "purge" /\ pc' \in {"reloaded", "purgeEntry"}
        /\ UNCHANGED <<bundleMap, record, hap, uid, boot, failures>>
        /\ code' = [code EXCEPT ![bundle] = IF @ = Partial THEN None ELSE @]
        /\ junk' = [junk EXCEPT ![bundle] = @ \ {Partial}]
    BY <1>m, <1>5 DEF Purge
  <2>2. Readable(z) => Readable(z)'
    BY <1>5, <1>t, <2>1 DEF Readable, Profiles
  <2>3. UNCHANGED <<bundle, Installed(z)>>
    BY <2>1 DEF bundle, Installed
  <2> QED
    BY <1>5, <2>1, <2>2, <2>3 DEF SystemKept, KeptSystem
<1>6. ASSUME NEW z \in Bundles, Reloaded, z = bundle PROVE KeptSystem(z)'
  BY <1>t, <1>6
     DEF Reloaded, End, SystemKept, KeptSystem, Readable, Profiles, Installed, bundle
<1>7. CASE ScanDone
  BY <1>7 DEF ScanDone, Scanning, NextPhase, SystemKept, KeptSystem, Readable, Profiles,
              Installed, bundle
<1>8. ASSUME NEW x \in Bundles, Skip(x) PROVE SystemKept'
  BY <1>8
     DEF Skip, Scanning, Skipped, SystemKept, KeptSystem, Readable, Profiles, Installed,
              bundle
<1>9. ASSUME NEW x \in Bundles, ScanBundle(x) PROVE SystemKept'
  <2>1. /\ pc = "idle" /\ UNCHANGED <<record, code, junk, phase, failures>> /\ x \in toScan
        /\ toScan' = toScan \ {x} /\ pc' \in {"purge", "reloaded", "check"}
        /\ phase \in Styles /\ ~Installed(x)
    BY <1>9 DEF ScanBundle, Scanning, Skipped
  <2>2. bundle' = x
    BY <1>9, <1>t DEF ScanBundle, PreInstalled, bundle, Haps
  <2> SUFFICES ASSUME NEW z \in Bundles, failures = 0, Home[z] = "SYSTEM" PROVE KeptSystem(z)'
    BY <2>1 DEF SystemKept, KeptSystem
  <2>3. /\ record[z] # NoRecord => record[z].uid # InvalidUid /\ Readable(z)
        /\ Readable(z)' = Readable(z)
    BY <2>1 DEF SystemKept, KeptSystem, Readable, Profiles
  <2>4. CASE z # x
    <3>1. bundleMap'[z] = bundleMap[z]
      BY <1>9, <2>4, <1>t DEF ScanBundle, Reload
    <3> QED
      BY <2>1, <2>2, <2>3, <2>4, <3>1 DEF SystemKept, KeptSystem, Installed
  <2>5. CASE z = x
    <3>1. phase = "SYSTEM"
      BY <2>1, <2>5 DEF SystemKept, KeptSystem
    <3>2. CASE ValidRecord(x)
      <4>1. Reload(x) /\ ~(Profiles(x) \subseteq {Partial}) /\ record[x].uid # InvalidUid
        BY <1>9, <2>3, <2>5, <3>2 DEF ScanBundle, Readable, ValidRecord
      <4>2. /\ bundleMap'[x].ver # None /\ bundleMap'[x].uid = record[x].uid
            /\ bundleMap'[x].sys
        <5>1. PICK v \in Profiles(x) \ {Partial} :
                bundleMap' = [bundleMap EXCEPT ![x] =
                  [ver |-> v, uid |-> record[x].uid, app |-> record[x].app,
                   sys |-> phase = "SYSTEM"]]
          BY <4>1 DEF Reload
        <5>2. bundleMap'[x] = [ver |-> v, uid |-> record[x].uid, app |-> record[x].app,
                               sys |-> phase = "SYSTEM"]
          BY <5>1, <1>t
        <5>3. bundleMap'[x] = [ver |-> v, uid |-> record[x].uid, app |-> record[x].app,
                               sys |-> TRUE]
          BY <3>1, <5>2
        <5> QED
          BY <5>1, <5>3 DEF Profiles
      <4> QED
        BY <2>1, <2>2, <2>3, <2>5, <4>1, <4>2
           DEF KeptSystem, Installed
    <3>3. CASE ~ValidRecord(x)
      <4>1. pc' = "check" /\ hap'.style = "SYSTEM" /\ UNCHANGED bundleMap
        BY <1>9, <2>5, <3>1, <3>3 DEF ScanBundle, PreInstalled
      <4> QED
        BY <2>1, <2>2, <2>3, <2>5, <3>1, <4>1
           DEF SystemKept, KeptSystem, Installed
    <3> QED
      BY <3>2, <3>3
  <2> QED
    BY <2>4, <2>5
<1>10. CASE Reboot
  BY <1>10, <1>m, <1>t
     DEF Reboot, Start, Idle, InDirectory, SystemKept, KeptSystem, Installed, bundle,
         NoInfo, NoRecord, Haps, Readable, Profiles, InstallProgress
<1>11. CASE Crash
  <2>1. /\ pc # "renaming" /\ Start /\ pc' = "idle" /\ UNCHANGED <<record, code>>
    BY <1>11 DEF Crash, DaemonOperations, End
  <2>2. \A z \in Bundles : Readable(z) => Readable(z)'
    BY <1>11, <2>1, LeaveKeeps DEF Crash, Readable, Profiles
  <2> QED
    BY <2>1, <2>2, RestartSystem DEF SystemKept
<1>12. CASE PowerLoss
  <2>1. Start /\ pc' = "idle" /\ UNCHANGED <<record, code>>
    BY <1>12 DEF PowerLoss, End
  <2>2. \A z \in Bundles : Readable(z) => Readable(z)'
    BY <1>12, <2>1, LeaveKeeps DEF PowerLoss, Readable, Profiles
  <2>3. ASSUME pc = "renaming" PROVE \A z \in Bundles : z = bundle => Readable(z)'
    <3>1. /\ bundle \in codeDir /\ staged = hap.ver /\ hap.ver \notin {None, Partial}
      BY <2>3, <1>t DEF InstallProgress, Haps, None, Partial
    <3>2. pc \notin Range(DirsRemoval)
      BY <2>3 DEF Range, DirsRemoval
    <3>3. Leave(hap.ver)
      BY <1>12, <3>1, <3>2 DEF PowerLoss, LeaveStaged
    <3>4. hap.ver \in junk'[bundle]
      BY <3>1, <3>3, <1>t DEF Leave
    <3> QED
      BY <3>1, <3>4 DEF Readable, Profiles
  <2> QED
    BY <2>1, <2>2, <2>3, RestartSystem DEF SystemKept
<1>13. CASE Operation
  BY <1>2, <1>3, <1>4, <1>5, <1>6, <1>13 DEF Operation, SystemKept
<1>14. QED
  BY <1>0, <1>1, <1>7, <1>8, <1>9, <1>10, <1>11, <1>12, <1>13
     DEF Next, Operation, ScanPackages, Restart

(* As long as no daemon operation has failed, a service that is ready has  *)
(* every bundle of the system partition, wherever crashes and power losses *)
(* stopped its installation or an update.  A range that runs out of uids   *)
(* is excluded by hypothesis: a bundle without a uid is not reloaded.      *)
THEOREM SystemAppsAreBack == Spec /\ []UidsLeft => []SystemAppsPresent
<1>1. Init => SystemKept
  BY DEF Init, SystemKept, KeptSystem, Installed, NoInfo, InDirectory, Undoing, FromRecord,
         FromPublish, FromUidTmp
<1>2. TypeOK /\ TypeOK' /\ AckedInv /\ RemovedInv /\ UidsLeft /\ SystemKept /\ [Next]_vars
        => SystemKept'
  BY SystemStep DEF RemovedInv, AckedInv
<1>3. SystemKept => SystemAppsPresent
  BY DEF SystemKept, KeptSystem, SystemAppsPresent, Idle
<1>4. QED
  BY <1>1, <1>2, <1>3, TypeCorrect, AckedIsInv, RemovedIsInv, PTL DEF Spec
=============================================================================
