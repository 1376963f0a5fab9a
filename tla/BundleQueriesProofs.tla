------------------------- MODULE BundleQueriesProofs ------------------------
(***************************************************************************)
(* Theorems about the list of BundleQueries, for all bundles, profiles,    *)
(* questions, sizes of arrays and numbers of changes, and what is sent of  *)
(* its infos when nothing fails.                                           *)
(***************************************************************************)
EXTENDS BundleQueries, ListLemmas

-----------------------------------------------------------------------------
(* Sequences that are filtered.                                            *)

(* A set of numbers has a least one.                                       *)
LEMMA LeastNumber ==
  ASSUME NEW N \in SUBSET Nat, N # {}
  PROVE  \E n \in N : \A m \in N : n <= m
<1>1. IsWellFoundedOn({ss \in Nat \X Nat : ss[1] < ss[2]}, Nat)
  BY NatLessThanWellFounded DEF OpToRel
<1>2. PICK n \in N : \A m \in N : <<m, n>> \notin {ss \in Nat \X Nat : ss[1] < ss[2]}
  BY <1>1, WFMin
<1>3. ASSUME NEW m \in N PROVE n <= m
  <2>1. ~(m < n)
    BY <1>2
  <2> QED
    BY <2>1
<1>4. QED
  BY <1>3

(* The function of Only is there, and says of every prefix what it says of *)
(* the one before.                                                         *)
Grown(s, S, f, k) ==
  IF k = 0 THEN <<>> ELSE IF s[k] \in S THEN Append(f[k - 1], s[k]) ELSE f[k - 1]

PrefixOnly(s, S, n, f) == f = [k \in 0 .. n |-> Grown(s, S, f, k)]

LEMMA OnlyExists ==
  ASSUME NEW s, NEW S, NEW n \in Nat
  PROVE  \E f : PrefixOnly(s, S, n, f)
<1> DEFINE Bad == {m \in Nat : ~\E f : PrefixOnly(s, S, m, f)}
<1>1. SUFFICES ASSUME Bad # {} PROVE FALSE
  OBVIOUS
<1>2. PICK m \in Bad : \A i \in Bad : m <= i
  BY <1>1, LeastNumber
<1>3. m # 0
  <2>1. PrefixOnly(s, S, 0, [k \in 0 .. 0 |-> <<>>])
    BY DEF PrefixOnly, Grown
  <2> QED
    BY <2>1
<1>4. m - 1 \in Nat /\ ~(m <= m - 1)
  BY <1>3
<1>5. PICK f : PrefixOnly(s, S, m - 1, f)
  BY <1>2, <1>4
<1> DEFINE g == [k \in 0 .. m |-> Grown(s, S, f, k)]
<1>6. \A k \in 0 .. m : k # 0 => g[k - 1] = f[k - 1]
  <2>1. SUFFICES ASSUME NEW k \in 0 .. m, k # 0 PROVE g[k - 1] = f[k - 1]
    OBVIOUS
  <2>2. k - 1 \in 0 .. m - 1 /\ k - 1 \in 0 .. m
    BY <1>4, <2>1
  <2>3. f[k - 1] = Grown(s, S, f, k - 1)
    BY <1>5, <2>2 DEF PrefixOnly
  <2> QED
    BY <2>2, <2>3
<1> HIDE DEF g
<1>7. \A k \in 0 .. m : Grown(s, S, f, k) = Grown(s, S, g, k)
  BY <1>6 DEF Grown
<1>8. PrefixOnly(s, S, m, g)
  BY <1>7 DEF PrefixOnly, g
<1>9. QED
  BY <1>2, <1>8

LEMMA OnlyIsLast ==
  ASSUME NEW s, NEW S, Len(s) \in Nat
  PROVE  \E f : PrefixOnly(s, S, Len(s), f) /\ Only(s, S) = f[Len(s)]
<1> DEFINE f == CHOOSE f : PrefixOnly(s, S, Len(s), f)
<1>1. PrefixOnly(s, S, Len(s), f)
  BY OnlyExists
<1>2. Only(s, S) = f[Len(s)]
  BY DEF Only, PrefixOnly, Grown
<1>3. QED
  BY <1>1, <1>2

(* By induction on the prefixes: P is a set of numbers.                    *)
LEMMA UpTo ==
  ASSUME NEW n \in Nat, NEW P, 0 \in P, \A k \in 1 .. n : k - 1 \in P => k \in P
  PROVE  \A k \in 0 .. n : k \in P
<1> DEFINE Bad == {k \in 0 .. n : k \notin P}
<1>1. SUFFICES ASSUME Bad # {} PROVE FALSE
  OBVIOUS
<1>2. PICK k \in Bad : \A i \in Bad : k <= i
  <2>1. Bad \in SUBSET Nat
    OBVIOUS
  <2> HIDE DEF Bad
  <2> QED
    BY <1>1, <2>1, LeastNumber
<1>3. k \in 1 .. n /\ k - 1 \in 0 .. n /\ ~(k <= k - 1)
  BY <1>2
<1>4. QED
  BY <1>2, <1>3

(* Only keeps items of the sequence that are in the set.                   *)
LEMMA OnlyType ==
  ASSUME NEW T, NEW s \in Seq(T), NEW S
  PROVE  Only(s, S) \in Seq(T \cap S)
<1>1. Len(s) \in Nat /\ \A k \in 1 .. Len(s) : s[k] \in T
  BY LenProperties, ElementOfSeq
<1>2. PICK f : PrefixOnly(s, S, Len(s), f) /\ Only(s, S) = f[Len(s)]
  BY <1>1, OnlyIsLast
<1> DEFINE P == {k \in 0 .. Len(s) : f[k] \in Seq(T \cap S)}
<1>3. \A k \in 0 .. Len(s) : f[k] = Grown(s, S, f, k)
  BY <1>2 DEF PrefixOnly
<1>4. 0 \in P
  <2>1. 0 \in 0 .. Len(s) /\ <<>> \in Seq(T \cap S)
    BY <1>1
  <2>2. f[0] = <<>>
    BY <1>3, <2>1 DEF Grown
  <2> QED
    BY <2>1, <2>2
<1>5. ASSUME NEW k \in 1 .. Len(s), k - 1 \in P PROVE k \in P
  <2>1. k # 0 /\ k \in 0 .. Len(s) /\ s[k] \in T /\ f[k - 1] \in Seq(T \cap S)
    BY <1>1, <1>5
  <2>2. f[k] = IF s[k] \in S THEN Append(f[k - 1], s[k]) ELSE f[k - 1]
    BY <1>3, <2>1 DEF Grown
  <2>3. s[k] \in S => Append(f[k - 1], s[k]) \in Seq(T \cap S)
    BY <2>1, AppendProperties
  <2> QED
    BY <2>1, <2>2, <2>3
<1> HIDE DEF P
<1>6. Len(s) \in P
  <2>1. \A k \in 0 .. Len(s) : k \in P
    BY <1>1, <1>4, <1>5, UpTo
  <2> QED
    BY <1>1, <2>1
<1>7. QED
  BY <1>2, <1>6 DEF P

(* Only depends on what is kept.                                           *)
LEMMA OnlyAgrees ==
  ASSUME NEW s, NEW S, NEW t, NEW T, Len(s) \in Nat, Len(t) = Len(s),
         \A k \in 1 .. Len(s) : (s[k] \in S <=> t[k] \in T) /\ (s[k] \in S => s[k] = t[k])
  PROVE  Only(s, S) = Only(t, T)
<1>1. PICK f : PrefixOnly(s, S, Len(s), f) /\ Only(s, S) = f[Len(s)]
  BY OnlyIsLast
<1>2. PICK g : PrefixOnly(t, T, Len(s), g) /\ Only(t, T) = g[Len(s)]
  BY OnlyIsLast
<1>3. \A k \in 0 .. Len(s) : f[k] = Grown(s, S, f, k) /\ g[k] = Grown(t, T, g, k)
  BY <1>1, <1>2 DEF PrefixOnly
<1> DEFINE P == {k \in 0 .. Len(s) : f[k] = g[k]}
<1>4. 0 \in P
  <2>1. 0 \in 0 .. Len(s)
    OBVIOUS
  <2>2. f[0] = <<>> /\ g[0] = <<>>
    BY <1>3, <2>1 DEF Grown
  <2> QED
    BY <2>1, <2>2
<1>5. ASSUME NEW k \in 1 .. Len(s), k - 1 \in P PROVE k \in P
  <2>1. k # 0 /\ k \in 0 .. Len(s) /\ f[k - 1] = g[k - 1]
    BY <1>5
  <2>2. /\ f[k] = IF s[k] \in S THEN Append(f[k - 1], s[k]) ELSE f[k - 1]
        /\ g[k] = IF t[k] \in T THEN Append(g[k - 1], t[k]) ELSE g[k - 1]
    BY <1>3, <2>1 DEF Grown
  <2> QED
    BY <2>1, <2>2
<1> HIDE DEF P
<1>6. \A k \in 0 .. Len(s) : k \in P
  BY <1>4, <1>5, UpTo
<1>7. Len(s) \in 0 .. Len(s)
  OBVIOUS
<1>8. QED
  BY <1>1, <1>2, <1>6, <1>7 DEF P

(* An item outside of the set may as well not be there.                    *)
LEMMA OnlyWithout ==
  ASSUME NEW s, NEW S, NEW t, NEW k \in 1 .. Len(s), Len(s) \in Nat, Len(t) = Len(s) - 1,
         \A j \in 1 .. Len(t) : t[j] = IF j < k THEN s[j] ELSE s[j + 1],
         s[k] \notin S
  PROVE  Only(s, S) = Only(t, S)
<1>0. Len(t) \in Nat
  OBVIOUS
<1>1. PICK f : PrefixOnly(s, S, Len(s), f) /\ Only(s, S) = f[Len(s)]
  BY OnlyIsLast
<1>2. PICK g : PrefixOnly(t, S, Len(t), g) /\ Only(t, S) = g[Len(t)]
  BY <1>0, OnlyIsLast
<1>3. /\ \A j \in 0 .. Len(s) : f[j] = Grown(s, S, f, j)
      /\ \A j \in 0 .. Len(t) : g[j] = Grown(t, S, g, j)
  BY <1>1, <1>2 DEF PrefixOnly
<1> DEFINE P == {j \in 0 .. Len(t) : g[j] = IF j < k THEN f[j] ELSE f[j + 1]}
<1>4. f[k] = f[k - 1]
  BY <1>3 DEF Grown
<1>5. 0 \in P
  <2>1. 0 \in 0 .. Len(s) /\ 0 \in 0 .. Len(t) /\ 0 < k
    BY <1>0
  <2>2. f[0] = <<>> /\ g[0] = <<>>
    BY <1>3, <2>1 DEF Grown
  <2> QED
    BY <2>1, <2>2
<1>6. ASSUME NEW j \in 1 .. Len(t), j - 1 \in P PROVE j \in P
  <2>1. /\ j # 0 /\ j \in 0 .. Len(t) /\ j \in 0 .. Len(s) /\ j + 1 \in 0 .. Len(s) /\ j + 1 # 0
        /\ (j + 1) - 1 = j /\ (j - 1) + 1 = j
    BY <1>0
  <2>2. g[j] = IF t[j] \in S THEN Append(g[j - 1], t[j]) ELSE g[j - 1]
    BY <1>3, <2>1 DEF Grown
  <2>3. f[j] = IF s[j] \in S THEN Append(f[j - 1], s[j]) ELSE f[j - 1]
    BY <1>3, <2>1 DEF Grown
  <2>4. f[j + 1] = IF s[j + 1] \in S THEN Append(f[j], s[j + 1]) ELSE f[j]
    BY <1>3, <2>1 DEF Grown
  <2>5. CASE j < k
    <3>1. t[j] = s[j] /\ g[j - 1] = f[j - 1]
      BY <1>6, <2>5
    <3> QED
      BY <2>1, <2>2, <2>3, <2>5, <3>1
  <2>6. CASE ~(j < k)
    <3>1. t[j] = s[j + 1]
      BY <2>6
    <3>2. g[j - 1] = f[j]
      <4>1. CASE j = k
        BY <1>4, <1>6, <4>1
      <4>2. CASE j # k
        <5>1. ~(j - 1 < k)
          BY <2>6, <4>2
        <5> QED
          BY <1>6, <2>1, <5>1
      <4> QED
        BY <4>1, <4>2
    <3> QED
      BY <2>1, <2>2, <2>4, <2>6, <3>1, <3>2
  <2> QED
    BY <2>5, <2>6
<1> HIDE DEF P
<1>7. \A j \in 0 .. Len(t) : j \in P
  BY <1>0, <1>5, <1>6, UpTo
<1>8. Len(t) \in P
  BY <1>0, <1>7
<1>9. g[Len(t)] = f[Len(s)]
  <2>1. Len(t) + 1 = Len(s)
    BY <1>0
  <2>2. g[Len(t)] = IF Len(t) < k THEN f[Len(t)] ELSE f[Len(t) + 1]
    BY <1>8 DEF P
  <2>3. Len(t) < k => k = Len(s) /\ k - 1 = Len(t)
    BY <1>0
  <2> QED
    BY <1>4, <2>1, <2>2, <2>3
<1>10. QED
  BY <1>1, <1>2, <1>9

LEMMA OnlyNone ==
  ASSUME NEW s, NEW S, Len(s) \in Nat, \A k \in 1 .. Len(s) : s[k] \notin S
  PROVE  Only(s, S) = <<>>
<1>1. PICK f : PrefixOnly(s, S, Len(s), f) /\ Only(s, S) = f[Len(s)]
  BY OnlyIsLast
<1>2. \A k \in 0 .. Len(s) : f[k] = Grown(s, S, f, k)
  BY <1>1 DEF PrefixOnly
<1> DEFINE P == {k \in 0 .. Len(s) : f[k] = <<>>}
<1>3. 0 \in P
  BY <1>2 DEF Grown
<1>4. ASSUME NEW k \in 1 .. Len(s), k - 1 \in P PROVE k \in P
  BY <1>2, <1>4 DEF Grown
<1> HIDE DEF P
<1>5. \A k \in 0 .. Len(s) : k \in P
  BY <1>3, <1>4, UpTo
<1>6. Len(s) \in P
  BY <1>5
<1>7. QED
  BY <1>1, <1>6 DEF P

LEMMA OnlyOne ==
  ASSUME NEW s, NEW S, Len(s) \in Nat, NEW i \in 1 .. Len(s), s[i] \in S,
         \A k \in 1 .. Len(s) : s[k] \in S => k = i
  PROVE  Only(s, S) = <<s[i]>>
<1>1. PICK f : PrefixOnly(s, S, Len(s), f) /\ Only(s, S) = f[Len(s)]
  BY OnlyIsLast
<1>2. \A k \in 0 .. Len(s) : f[k] = Grown(s, S, f, k)
  BY <1>1 DEF PrefixOnly
<1> DEFINE P == {k \in 0 .. Len(s) : f[k] = IF k < i THEN <<>> ELSE <<s[i]>>}
<1>3. 0 \in P
  BY <1>2 DEF Grown
<1>4. ASSUME NEW k \in 1 .. Len(s), k - 1 \in P PROVE k \in P
  <2>1. f[k] = IF s[k] \in S THEN Append(f[k - 1], s[k]) ELSE f[k - 1]
    BY <1>2 DEF Grown
  <2>2. f[k - 1] = IF k - 1 < i THEN <<>> ELSE <<s[i]>>
    BY <1>4
  <2>3. CASE k = i
    <3>1. Append(<<>>, s[i]) = <<s[i]>> /\ k - 1 < i /\ ~(k < i)
      BY <2>3
    <3> QED
      BY <2>1, <2>2, <2>3, <3>1
  <2>4. CASE k # i
    <3>1. k < i <=> k - 1 < i
      BY <2>4
    <3> QED
      BY <2>1, <2>2, <2>4, <3>1
  <2> QED
    BY <2>3, <2>4
<1> HIDE DEF P
<1>5. \A k \in 0 .. Len(s) : k \in P
  BY <1>3, <1>4, UpTo
<1>6. Len(s) \in P
  BY <1>5
<1>7. QED
  BY <1>1, <1>6 DEF P

-----------------------------------------------------------------------------
(* What the infos of the list are made of.                                 *)

(* Every info comes from a profile the parser let through.                 *)
Infos ==
  {InstalledInfo(Profiles[x], place, uid, isSystemApp) :
     x \in {y \in DOMAIN Profiles :
              DeviceTypeAccepted(Profiles[y]) /\ Profiles[y].bundleName \in Bundles},
     place \in Places, uid \in UNION {Uids[b] : b \in Bundles}, isSystemApp \in BOOLEAN}

Entries == [info : Infos, freed : BOOLEAN]

LEMMA InstalledFields ==
  ASSUME NEW p, NEW place, NEW uid, NEW isSystemApp
  PROVE  LET info == InstalledInfo(p, place, uid, isSystemApp)
         IN  /\ info.text.bundleName = p.bundleName /\ info.text.codePath = place
             /\ info.text.versionName = "versionName" /\ info.text.dataPath = place
             /\ info.text.appId = "appId"
             /\ info.uid = uid /\ info.isSystemApp = isSystemApp
             /\ info.modules = SetModuleInfos(p) /\ info.numOfModule = 1
             /\ info.abilities = [i \in DOMAIN p.abilities |-> SetAbilityInfo(p, p.abilities[i])]
BY DEF InstalledInfo, Owned, SetBundleInfo

(* The scan makes of a profile what the install made of it.                *)
LEMMA ReloadedIsInstalled ==
  \A p, place, uid, isSystemApp :
    ReloadedInfo(p, place, uid, isSystemApp) = InstalledInfo(p, place, uid, isSystemApp)
BY DEF ReloadedInfo, InstalledInfo

LEMMA CopiedFields ==
  ASSUME NEW p, NEW place, NEW uid, NEW isSystemApp
  PROVE  LET info == InstalledInfo(p, place, uid, isSystemApp)
             copy == Copied(info, 1)
         IN  /\ copy.text = info.text /\ copy.modules = info.modules
             /\ copy.numOfModule = IF info.modules = <<>> THEN 0 ELSE info.numOfModule
             /\ copy.abilities = info.abilities
             /\ copy.abilities = <<>> => copy.numOfAbility = 0
BY DEF Copied, InstalledInfo, Owned, SetBundleInfo

(* What ConvertUtils needs of an info is what the parser checks.           *)
LEMMA InfosAnswerable ==
  ASSUME NEW info \in Infos
  PROVE  Serialized(Copied(info, 1)) = "ok"
<1>1. PICK x \in DOMAIN Profiles, place \in Places,
          uid \in UNION {Uids[b] : b \in Bundles}, isSystemApp \in BOOLEAN :
        /\ DeviceTypeAccepted(Profiles[x]) /\ Profiles[x].bundleName \in Bundles
        /\ info = InstalledInfo(Profiles[x], place, uid, isSystemApp)
  BY DEF Infos
<1> DEFINE p == Profiles[x]
           copy == Copied(info, 1)
<1>2. /\ p.bundleName # Null /\ place # Null
      /\ \A i \in DOMAIN p.abilities : p.abilities[i].name # Null
  <2>1. \A i \in DOMAIN p.abilities : p.abilities[i] \in Range(p.abilities)
    BY DEF Range
  <2>2. \A a \in Range(p.abilities) : a.name # Null
    BY QueriesAssumption
  <2>3. p.bundleName # Null /\ place # Null
    BY <1>1, QueriesAssumption DEF Places, Null
  <2> QED
    BY <2>1, <2>2, <2>3
<1>3. DefaultDevice \in Range(p.deviceType)
  BY <1>1 DEF DeviceTypeAccepted
<1>4. p.deviceType # <<>>
  BY <1>3 DEF Range
<1> HIDE DEF p
<1>5. /\ info.text.bundleName = p.bundleName /\ info.text.codePath = place
      /\ info.text.versionName = "versionName" /\ info.text.dataPath = place
      /\ info.text.appId = "appId"
      /\ info.modules = SetModuleInfos(p) /\ info.numOfModule = 1
      /\ info.abilities = [i \in DOMAIN p.abilities |-> SetAbilityInfo(p, p.abilities[i])]
  BY <1>1, InstalledFields DEF p
<1>6. /\ copy.text = info.text /\ copy.modules = info.modules
      /\ copy.numOfModule = IF info.modules = <<>> THEN 0 ELSE info.numOfModule
      /\ copy.abilities = info.abilities
      /\ copy.abilities = <<>> => copy.numOfAbility = 0
  BY <1>1, CopiedFields DEF p
<1> HIDE DEF copy
<1>7. HasTexts(copy, InfoTexts)
  BY <1>2, <1>5, <1>6 DEF HasTexts, InfoTexts, Null
<1>8. ModulesWritten(copy)
  <2>1. \A k \in DOMAIN SetModuleInfos(p) :
          /\ SetModuleInfos(p)[k].text.moduleName = "moduleName"
          /\ SetModuleInfos(p)[k].text.moduleType = "moduleType"
          /\ SetModuleInfos(p)[k].deviceType = p.deviceType
    BY DEF SetModuleInfos
  <2>2. \A k \in DOMAIN SetModuleInfos(p) : ModuleWritten(SetModuleInfos(p)[k])
    BY <1>4, <2>1 DEF ModuleWritten, HasTexts, ModuleTexts, Null
  <2>3. SetModuleInfos(p) # <<>>
    BY DEF SetModuleInfos
  <2> QED
    BY <1>5, <1>6, <2>2, <2>3 DEF ModulesWritten
<1>9. \A k \in DOMAIN copy.abilities : AbilityWritten(copy.abilities[k])
  <2>1. \A k \in DOMAIN p.abilities :
          LET ability == SetAbilityInfo(p, p.abilities[k])
          IN  /\ ability.text.bundleName = p.bundleName
              /\ ability.text.moduleName = "moduleName"
              /\ ability.text.name = p.abilities[k].name
    BY DEF SetAbilityInfo
  <2>2. \A k \in DOMAIN p.abilities : AbilityWritten(SetAbilityInfo(p, p.abilities[k]))
    BY <1>2, <2>1 DEF p, AbilityWritten, HasTexts, AbilityTexts, Null
  <2> QED
    BY <1>5, <1>6, <2>2
<1>10. Serialized(copy) = "ok"
  BY <1>6, <1>7, <1>8, <1>9 DEF Serialized
<1>11. QED
  BY <1>10 DEF copy

-----------------------------------------------------------------------------
(* The list, as what it says of each bundle.                               *)

(* The infos that are listed for a bundle.                                 *)
Listed(l, b) == {l[k].info : k \in {j \in DOMAIN l : Name(l[j]) = b}}

Sound(l) ==
  /\ \A k \in DOMAIN l : ~l[k].freed
  /\ \A j, k \in DOMAIN l : Name(l[j]) = Name(l[k]) => j = k

LEMMA EntryNames ==
  ASSUME NEW e \in Entries
  PROVE  Name(e) \in Bundles /\ e.info \in Infos /\ e.freed \in BOOLEAN
<1>1. PICK x \in DOMAIN Profiles, place \in Places,
          uid \in UNION {Uids[b] : b \in Bundles}, isSystemApp \in BOOLEAN :
        /\ Profiles[x].bundleName \in Bundles
        /\ e.info = InstalledInfo(Profiles[x], place, uid, isSystemApp)
  BY DEF Entries, Infos
<1>2. \A p : InstalledInfo(p, place, uid, isSystemApp).text.bundleName = p.bundleName
  BY DEF InstalledInfo, Owned, SetBundleInfo
<1>3. QED
  BY <1>1, <1>2 DEF Name, Entries

(* A loop over a sound list finds the one entry of a bundle.               *)
LEMMA HitsOfSound ==
  ASSUME list \in Seq(Entries), Sound(list), NEW b, NEW k \in Hits(b)
  PROVE  /\ k = 0 => Listed(list, b) = {}
         /\ k # 0 => /\ k \in DOMAIN list /\ Name(list[k]) = b
                     /\ Listed(list, b) = {list[k].info}
<1>1. CASE k = 0 /\ \A j \in {i \in DOMAIN list : Name(list[i]) = b} : list[j].freed
  BY <1>1 DEF Sound, Listed
<1>2. CASE k \in DOMAIN list /\ Name(list[k]) = b
  BY <1>2 DEF Sound, Listed
<1>3. QED
  BY <1>1, <1>2 DEF Hits

LEMMA UpdatedSound ==
  ASSUME list \in Seq(Entries), NEW info \in Infos, NEW k \in Hits(info.text.bundleName)
  PROVE  /\ Updated(k, info) \in Seq(Entries)
         /\ Sound(list) =>
              /\ Sound(Updated(k, info))
              /\ Listed(Updated(k, info), info.text.bundleName) = {info}
              /\ \A d \in Bundles \ {info.text.bundleName} :
                   Listed(Updated(k, info), d) = Listed(list, d)
<1> DEFINE b == info.text.bundleName
           e == Entry(info)
           l == Updated(k, info)
<1>1. e \in Entries /\ e.info = info /\ e.freed = FALSE /\ Name(e) = b
  BY DEF Entry, Entries, Name
<1>2. k \in DOMAIN list \cup {0} /\ Len(list) \in Nat /\ DOMAIN list = 1 .. Len(list)
  BY LenProperties DEF Hits
<1> HIDE DEF e
<1>3. CASE k = 0
  <2>1. l = <<e>> \o list
    BY <1>3 DEF Updated, e
  <2>2. <<e>> \in Seq(Entries) /\ Len(<<e>>) = 1 /\ <<e>>[1] = e
    BY <1>1
  <2>3. /\ l \in Seq(Entries) /\ DOMAIN l = 1 .. Len(list) + 1 /\ l[1] = e
        /\ \A j \in 1 .. Len(list) : j + 1 \in DOMAIN l /\ l[j + 1] = list[j]
        /\ \A j \in DOMAIN l \ {1} : j - 1 \in 1 .. Len(list) /\ l[j] = list[j - 1]
    BY <1>2, <2>1, <2>2, ConcatProperties
  <2> HIDE DEF l
  <2>4. ASSUME Sound(list)
        PROVE  Sound(l) /\ Listed(l, b) = {info}
               /\ \A d \in Bundles \ {b} : Listed(l, d) = Listed(list, d)
    <3>0. Listed(list, b) = {}
      BY <1>3, <2>4, HitsOfSound
    <3>1. \A j \in 1 .. Len(list) : Name(list[j]) # b
      BY <1>2, <3>0 DEF Listed
    <3>2. Sound(l)
      <4>1. \A j \in DOMAIN l : ~l[j].freed
        BY <1>1, <1>2, <2>3, <2>4 DEF Sound
      <4>2. ASSUME NEW i \in DOMAIN l, NEW j \in DOMAIN l, Name(l[i]) = Name(l[j])
            PROVE  i = j
        <5>1. i # 1 /\ j # 1 => i - 1 = j - 1
          BY <1>2, <2>3, <2>4, <4>2 DEF Sound
        <5>2. i # 1 <=> j # 1
          BY <1>1, <2>3, <3>1, <4>2
        <5>3. i \in Int /\ j \in Int
          BY <1>2, <2>3
        <5> QED
          BY <5>1, <5>2, <5>3
      <4> QED
        BY <4>1, <4>2 DEF Sound
    <3>3. Listed(l, b) = {info}
      BY <1>1, <1>2, <2>3, <3>1 DEF Listed
    <3>4. ASSUME NEW d \in Bundles \ {b} PROVE Listed(l, d) = Listed(list, d)
      <4>1. Listed(l, d) \subseteq Listed(list, d)
        BY <1>1, <1>2, <2>3, <3>4 DEF Listed
      <4>2. Listed(list, d) \subseteq Listed(l, d)
        BY <1>1, <1>2, <2>3, <3>4 DEF Listed
      <4> QED
        BY <4>1, <4>2
    <3> QED
      BY <3>2, <3>3, <3>4
  <2> QED
    BY <2>3, <2>4 DEF l
<1>4. CASE k # 0
  <2>1. l = [list EXCEPT ![k] = e] /\ k \in DOMAIN list
    BY <1>2, <1>4 DEF Updated, e
  <2>2. l \in Seq(Entries)
    BY <1>1, <2>1
  <2>3. DOMAIN l = DOMAIN list /\ \A j \in DOMAIN list : l[j] = IF j = k THEN e ELSE list[j]
    BY <2>1
  <2> HIDE DEF l
  <2>4. ASSUME Sound(list)
        PROVE  Sound(l) /\ Listed(l, b) = {info}
               /\ \A d \in Bundles \ {b} : Listed(l, d) = Listed(list, d)
    <3>1. Name(list[k]) = b
      BY <1>4, <2>4, HitsOfSound
    <3>2. \A j \in DOMAIN list : Name(l[j]) = Name(list[j])
      BY <1>1, <2>3, <3>1
    <3>3. Sound(l)
      BY <1>1, <2>3, <2>4, <3>2 DEF Sound
    <3>4. Listed(l, b) = {info}
      BY <1>1, <2>1, <2>3, <2>4, <3>1, <3>2 DEF Listed, Sound
    <3>5. \A d \in Bundles \ {b} : Listed(l, d) = Listed(list, d)
      BY <2>3, <3>1, <3>2 DEF Listed
    <3> QED
      BY <3>3, <3>4, <3>5
  <2> QED
    BY <2>2, <2>4 DEF l
<1>5. QED
  BY <1>3, <1>4

(* The list without one of its infos.                                      *)
LEMMA ErasedItems ==
  ASSUME list \in Seq(Entries), NEW b, NEW k \in Hits(b) \ {0}
  PROVE  /\ Erased(k) \in Seq(Entries) /\ Len(Erased(k)) = Len(list) - 1
         /\ \A j \in 1 .. Len(list) - 1 :
              Erased(k)[j] = IF j < k THEN list[j] ELSE list[j + 1]
<1>1. k \in 1 .. Len(list)
  BY LenProperties DEF Hits
<1>2. RemoveAt(list, k) \in Seq(Entries)
  BY <1>1, RemoveAtType
<1>3. /\ Len(RemoveAt(list, k)) = Len(list) - 1
      /\ \A j \in 1 .. Len(list) - 1 :
           RemoveAt(list, k)[j] = IF j < k THEN list[j] ELSE list[j + 1]
  BY <1>1, RemoveAtItems
<1>4. Erased(k) = RemoveAt(list, k)
  BY DEF Erased
<1>5. QED
  BY <1>2, <1>3, <1>4

LEMMA ErasedSound ==
  ASSUME list \in Seq(Entries), NEW b, NEW k \in Hits(b) \ {0}
  PROVE  /\ Erased(k) \in Seq(Entries)
         /\ Sound(list) =>
              /\ Sound(Erased(k)) /\ Listed(Erased(k), b) = {}
              /\ \A d \in Bundles \ {b} : Listed(Erased(k), d) = Listed(list, d)
<1> DEFINE l == Erased(k)
<1>1. k \in DOMAIN list /\ Len(list) \in Nat /\ DOMAIN list = 1 .. Len(list)
  BY LenProperties DEF Hits
<1>2. /\ l \in Seq(Entries) /\ Len(l) = Len(list) - 1
      /\ \A j \in 1 .. Len(list) - 1 : l[j] = IF j < k THEN list[j] ELSE list[j + 1]
  BY ErasedItems
<1> HIDE DEF l
<1>3. /\ DOMAIN l = 1 .. Len(list) - 1
      /\ \A j \in DOMAIN l : j \in DOMAIN list /\ j + 1 \in DOMAIN list /\ j \in Int
  BY <1>1, <1>2
<1>4. \A j \in DOMAIN l : \E i \in DOMAIN list \ {k} :
        l[j] = list[i] /\ i = IF j < k THEN j ELSE j + 1
  BY <1>1, <1>2, <1>3
<1>5. \A i \in DOMAIN list \ {k} : \E j \in DOMAIN l : l[j] = list[i]
  <2>1. SUFFICES ASSUME NEW i \in DOMAIN list \ {k} PROVE \E j \in DOMAIN l : l[j] = list[i]
    OBVIOUS
  <2>2. CASE i < k
    BY <1>1, <1>2, <1>3, <2>2
  <2>3. CASE i > k
    <3>1. i - 1 \in DOMAIN l /\ ~(i - 1 < k) /\ (i - 1) + 1 = i
      BY <1>1, <1>3, <2>3
    <3> QED
      BY <1>2, <1>3, <3>1
  <2> QED
    BY <1>1, <2>2, <2>3
<1>6. ASSUME Sound(list)
      PROVE  Sound(l) /\ Listed(l, b) = {}
             /\ \A d \in Bundles \ {b} : Listed(l, d) = Listed(list, d)
  <2>1. Name(list[k]) = b
    BY <1>6, HitsOfSound
  <2>2. Sound(l)
    <3>1. \A j \in DOMAIN l : ~l[j].freed
      BY <1>4, <1>6 DEF Sound
    <3>2. ASSUME NEW i \in DOMAIN l, NEW j \in DOMAIN l, Name(l[i]) = Name(l[j])
          PROVE  i = j
      <4>1. (IF i < k THEN i ELSE i + 1) = IF j < k THEN j ELSE j + 1
        BY <1>4, <1>6, <3>2 DEF Sound
      <4>2. i \in Int /\ j \in Int /\ k \in Int
        BY <1>1, <1>3
      <4> QED
        BY <4>1, <4>2
    <3> QED
      BY <3>1, <3>2 DEF Sound
  <2>3. Listed(l, b) = {}
    BY <1>1, <1>4, <1>6, <2>1 DEF Listed, Sound
  <2>4. \A d \in Bundles \ {b} : Listed(l, d) = Listed(list, d)
    <3>1. \A d \in Bundles \ {b} : Listed(l, d) \subseteq Listed(list, d)
      BY <1>4 DEF Listed
    <3>2. \A d \in Bundles \ {b} : Listed(list, d) \subseteq Listed(l, d)
      BY <1>5, <2>1 DEF Listed
    <3> QED
      BY <3>1, <3>2
  <2> QED
    BY <2>2, <2>3, <2>4
<1>7. QED
  BY <1>2, <1>6 DEF l

-----------------------------------------------------------------------------
(* The invariant.                                                          *)

AllUids == UNION {Uids[b] : b \in Bundles}

StateInv ==
  /\ list \in Seq(Entries)
  /\ code \in [Bundles -> Codes] /\ record \in [Bundles -> AllUids \cup {None}]
  /\ \A b \in Bundles : code[b] # NoCode =>
       /\ code[b].profile \in DOMAIN Profiles /\ code[b].place \in Places
       /\ Profiles[code[b].profile].bundleName = b
  /\ installing \in Bundles \cup {None}
  /\ toLoad \subseteq Loadable
  /\ installing # None \/ cleared => toLoad = {}
  /\ \A b \in toLoad : Listed(list, b) = {}

(* The info the disk gives a bundle, with a uid.                           *)
OnDisk(b, uid) ==
  ReloadedInfo(Profiles[code[b].profile], code[b].place, uid, b \in SystemBundles)

(* What is listed is on the disk.  Once it is installed, it has the uid of *)
(* its record, and whatever has one is listed.                             *)
Matches(b) ==
  /\ \A info \in Listed(list, b) : code[b] # NoCode /\ info = OnDisk(b, info.uid)
  /\ b = installing => Listed(list, b) # {}
  /\ b # installing =>
       /\ \A info \in Listed(list, b) : record[b] # None /\ info.uid = record[b]
       /\ code[b] # NoCode /\ record[b] \notin {None, NoUid} => Listed(list, b) # {}

MatchInv == ~cleared => Sound(list) /\ \A b \in Bundles \ toLoad : Matches(b)

QueriesInv == StateInv /\ MatchInv

LEMMA InfosFields ==
  ASSUME NEW info \in Infos
  PROVE  /\ info.text.bundleName \in Bundles /\ info.text.codePath \in Places
         /\ info.uid \in AllUids /\ info.uid # None /\ info.isSystemApp \in BOOLEAN
<1>1. PICK x \in DOMAIN Profiles, place \in Places, uid \in AllUids, isSystemApp \in BOOLEAN :
        /\ Profiles[x].bundleName \in Bundles
        /\ info = InstalledInfo(Profiles[x], place, uid, isSystemApp)
  BY DEF Infos, AllUids
<1>2. \A p : LET made == InstalledInfo(p, place, uid, isSystemApp)
            IN  /\ made.text.bundleName = p.bundleName /\ made.text.codePath = place
                /\ made.uid = uid /\ made.isSystemApp = isSystemApp
  BY DEF InstalledInfo, Owned, SetBundleInfo
<1>3. uid # None
  BY QueriesAssumption DEF AllUids
<1>4. QED
  BY <1>1, <1>2, <1>3

LEMMA MadeInfo ==
  ASSUME NEW x \in DOMAIN Profiles, DeviceTypeAccepted(Profiles[x]),
         Profiles[x].bundleName \in Bundles,
         NEW place \in Places, NEW uid \in AllUids, NEW isSystemApp \in BOOLEAN
  PROVE  LET info == InstalledInfo(Profiles[x], place, uid, isSystemApp)
         IN  /\ info \in Infos /\ info.text.bundleName = Profiles[x].bundleName
             /\ info.uid = uid
<1>1. \A p : LET made == InstalledInfo(p, place, uid, isSystemApp)
            IN  made.text.bundleName = p.bundleName /\ made.uid = uid
  BY DEF InstalledInfo, Owned, SetBundleInfo
<1>2. InstalledInfo(Profiles[x], place, uid, isSystemApp) \in Infos
  BY DEF Infos, AllUids
<1>3. QED
  BY <1>1, <1>2

LEMMA QueriesInit == Init => QueriesInv
<1> SUFFICES ASSUME Init PROVE QueriesInv
  OBVIOUS
<1>1. /\ list = <<>> /\ installing = None /\ toLoad = Loadable /\ cleared = FALSE
      /\ \A b : Listed(list, b) = {}
  BY DEF Init, Listed
<1>2. PICK disk \in Disks : code = disk.code /\ record = disk.record
  BY DEF Init
<1>3. /\ code \in [Bundles -> Codes] /\ record \in [Bundles -> AllUids \cup {None}]
      /\ \A b \in Bundles : code[b] # NoCode =>
           /\ code[b].profile \in DOMAIN Profiles /\ code[b].place \in Places
           /\ Profiles[code[b].profile].bundleName = b
  BY <1>2, QueriesAssumption DEF AllUids
<1>4. list \in Seq(Entries) /\ Sound(list)
  BY <1>1 DEF Sound
<1>5. \A b \in Bundles \ toLoad : Matches(b)
  BY <1>1, QueriesAssumption DEF Matches, Loadable
<1>6. QED
  BY <1>1, <1>3, <1>4, <1>5 DEF QueriesInv, StateInv, MatchInv

(* What a step leaves alone of a bundle.                                   *)
LEMMA MatchesKept ==
  ASSUME NEW b, Matches(b), Listed(list, b)' = Listed(list, b),
         code'[b] = code[b], record'[b] = record[b], (b = installing)' <=> b = installing
  PROVE  Matches(b)'
BY DEF Matches, OnDisk

LEMMA PublishStep ==
  ASSUME QueriesInv, NEW b \in Bundles, NEW profile \in DOMAIN Profiles, NEW place \in Places,
         NEW uid \in Uids[b], Publish(b, profile, place, uid)
  PROVE  QueriesInv'
<1> DEFINE p == Profiles[profile]
<1>1. /\ Ready /\ installing' = b /\ UNCHANGED <<record, toLoad, cleared>>
      /\ p.bundleName = b /\ DeviceTypeAccepted(p)
  BY DEF Publish, Installable, ParseJsonInfo, ModuleAccepted
<1>2. PICK k \in Hits(b) :
        LET old == list[k].info
            where == IF k = 0 THEN place ELSE old.text.codePath
            info == InstalledInfo(p, where, IF k = 0 THEN uid ELSE old.uid,
                      IF k = 0 THEN b \in SystemBundles ELSE old.isSystemApp)
        IN  /\ list' = Updated(k, info)
            /\ code' = [code EXCEPT ![b] = [profile |-> profile, place |-> where]]
  BY DEF Publish
<1> DEFINE old == list[k].info
           where == IF k = 0 THEN place ELSE old.text.codePath
           owner == IF k = 0 THEN uid ELSE old.uid
           system == IF k = 0 THEN b \in SystemBundles ELSE old.isSystemApp
           info == InstalledInfo(p, where, owner, system)
<1>3. StateInv /\ list \in Seq(Entries) /\ toLoad = {}
  BY <1>1 DEF QueriesInv, StateInv, Ready
<1>4. where \in Places /\ owner \in AllUids /\ system \in BOOLEAN
  <2>1. CASE k = 0
    BY <2>1 DEF AllUids
  <2>2. CASE k # 0
    <3>1. k \in DOMAIN list
      BY <2>2 DEF Hits
    <3>2. list[k].info \in Infos
      BY <1>3, <3>1, ElementOfSeq, EntryNames
    <3> QED
      BY <2>2, <3>2, InfosFields
  <2> QED
    BY <2>1, <2>2
<1>5. /\ list' = Updated(k, info)
      /\ code' = [code EXCEPT ![b] = [profile |-> profile, place |-> where]]
  BY <1>2
<1> HIDE DEF where, owner, system, info
<1>6. info \in Infos /\ info.text.bundleName = b /\ info.uid = owner
  BY <1>1, <1>4, MadeInfo DEF info
<1>7. /\ list' \in Seq(Entries)
      /\ Sound(list) =>
           /\ Sound(list') /\ Listed(list', b) = {info}
           /\ \A d \in Bundles \ {b} : Listed(list', d) = Listed(list, d)
  BY <1>3, <1>5, <1>6, UpdatedSound
<1>8. /\ code' \in [Bundles -> Codes]
      /\ code'[b].profile = profile /\ code'[b].place = where
      /\ \A d \in Bundles \ {b} : code'[d] = code[d]
  BY <1>3, <1>4, <1>5 DEF StateInv, Codes
<1>9. StateInv'
  <2>1. \A d \in Bundles : code'[d] # NoCode =>
          /\ code'[d].profile \in DOMAIN Profiles /\ code'[d].place \in Places
          /\ Profiles[code'[d].profile].bundleName = d
    BY <1>1, <1>3, <1>4, <1>8 DEF StateInv
  <2> QED
    BY <1>1, <1>3, <1>7, <1>8, <2>1 DEF StateInv
<1>10. MatchInv'
  <2>1. SUFFICES ASSUME ~cleared PROVE Sound(list') /\ \A d \in Bundles : Matches(d)'
    BY <1>1, <1>3 DEF MatchInv
  <2>2. Sound(list) /\ \A d \in Bundles : Matches(d)
    BY <1>3, <2>1 DEF QueriesInv, MatchInv
  <2>3. Sound(list') /\ Listed(list', b) = {info}
        /\ \A d \in Bundles \ {b} : Listed(list', d) = Listed(list, d)
    BY <1>7, <2>2
  <2>4. \A d \in Bundles \ {b} : Matches(d)'
    <3>1. SUFFICES ASSUME NEW d \in Bundles \ {b} PROVE Matches(d)'
      OBVIOUS
    <3>2. installing = None /\ None \notin Bundles
      BY <1>1, QueriesAssumption DEF Ready
    <3> QED
      BY <1>1, <1>8, <2>2, <2>3, <3>1, <3>2, MatchesKept
  <2>5. code'[b] # NoCode /\ info = ReloadedInfo(p, code'[b].place, info.uid, b \in SystemBundles)
    <3>1. code'[b] # NoCode
      BY <1>4, <1>8 DEF NoCode, None, Places
    <3>2. system = (b \in SystemBundles)
      <4>1. CASE k = 0
        BY <4>1 DEF system
      <4>2. CASE k # 0
        <5>1. old \in Listed(list, b)
          BY <1>3, <2>2, <4>2, HitsOfSound
        <5>2. old = OnDisk(b, old.uid) /\ old \in Infos
          BY <1>3, <2>2, <4>2, <5>1, HitsOfSound, ElementOfSeq, EntryNames DEF Matches
        <5>3. OnDisk(b, old.uid).isSystemApp = (b \in SystemBundles)
          BY DEF OnDisk, ReloadedInfo, Owned, SetBundleInfo
        <5> QED
          BY <4>2, <5>2, <5>3 DEF system
      <4> QED
        BY <4>1, <4>2
    <3>3. info = InstalledInfo(p, code'[b].place, info.uid, b \in SystemBundles)
      BY <1>6, <1>8, <3>2 DEF info
    <3> QED
      BY <3>1, <3>3, ReloadedIsInstalled
  <2>6. Matches(b)'
    BY <1>1, <1>8, <2>3, <2>5 DEF Matches, OnDisk
  <2> QED
    BY <2>3, <2>4, <2>6
<1>11. QED
  BY <1>9, <1>10 DEF QueriesInv

LEMMA CommitStep ==
  ASSUME QueriesInv, Commit
  PROVE  QueriesInv'
<1>1. PICK k \in Hits(installing) \ {0} :
        record' = [record EXCEPT ![installing] = list[k].info.uid]
  BY DEF Commit
<1>2. /\ installing # None /\ installing' = None /\ UNCHANGED <<list, code, toLoad, cleared>>
  BY DEF Commit
<1>3. StateInv /\ list \in Seq(Entries) /\ installing \in Bundles /\ toLoad = {}
  BY <1>2 DEF QueriesInv, StateInv
<1>4. list[k].info.uid \in AllUids /\ list[k].info.uid # None
  BY <1>3, ElementOfSeq, EntryNames, InfosFields DEF Hits
<1>5. /\ record' \in [Bundles -> AllUids \cup {None}]
      /\ record'[installing] = list[k].info.uid
      /\ \A d \in Bundles \ {installing} : record'[d] = record[d]
  BY <1>1, <1>3, <1>4 DEF StateInv
<1>6. StateInv'
  BY <1>2, <1>3, <1>5 DEF StateInv, Listed
<1>7. MatchInv'
  <2>1. SUFFICES ASSUME ~cleared PROVE Sound(list) /\ \A d \in Bundles : Matches(d)'
    BY <1>2, <1>3 DEF MatchInv
  <2>2. Sound(list) /\ \A d \in Bundles : Matches(d)
    BY <1>3, <2>1 DEF QueriesInv, MatchInv
  <2>3. Listed(list, installing) = {list[k].info}
    BY <1>3, <2>2, HitsOfSound
  <2>4. \A d : Listed(list, d)' = Listed(list, d)
    BY <1>2 DEF Listed
  <2>5. ASSUME NEW d \in Bundles, d # installing PROVE Matches(d)'
    <3>1. d # installing'
      BY <1>2, <2>5, QueriesAssumption
    <3> QED
      BY <1>2, <1>5, <2>2, <2>4, <2>5, <3>1, MatchesKept
  <2>6. Matches(installing)
    BY <1>3, <2>2
  <2>7. ASSUME NEW d, d = installing PROVE Matches(d)'
    <3>1. d # installing' /\ Listed(list, d)' = {list[k].info}
      BY <1>2, <2>3, <2>4, <2>7
    <3> QED
      BY <1>2, <1>4, <1>5, <2>3, <2>6, <2>7, <3>1 DEF Matches, OnDisk
  <2> QED
    BY <2>2, <2>5, <2>7
<1>8. QED
  BY <1>6, <1>7 DEF QueriesInv

LEMMA ClearStep ==
  ASSUME QueriesInv, ClearInstallEnv
  PROVE  QueriesInv'
<1>1. PICK k \in Hits(installing) \ {0} : list' = [list EXCEPT ![k].freed = TRUE]
  BY DEF ClearInstallEnv
<1>2. /\ code' = [code EXCEPT ![installing] = NoCode] /\ installing # None
      /\ installing' = None /\ cleared' = TRUE /\ UNCHANGED <<record, toLoad>>
  BY DEF ClearInstallEnv
<1>3. StateInv /\ list \in Seq(Entries) /\ installing \in Bundles /\ toLoad = {}
  BY <1>2 DEF QueriesInv, StateInv
<1>4. list' \in Seq(Entries)
  <2>1. k \in DOMAIN list /\ list[k] \in Entries
    BY <1>3, ElementOfSeq DEF Hits
  <2>2. [list[k] EXCEPT !.freed = TRUE] \in Entries
    BY <2>1 DEF Entries
  <2>3. list' = [list EXCEPT ![k] = [list[k] EXCEPT !.freed = TRUE]]
    BY <1>1
  <2> QED
    BY <1>3, <2>1, <2>2, <2>3
<1>5. /\ code' \in [Bundles -> Codes] /\ code'[installing] = NoCode
      /\ \A d \in Bundles \ {installing} : code'[d] = code[d]
  BY <1>2, <1>3 DEF StateInv, Codes, NoCode
<1>6. QED
  BY <1>2, <1>3, <1>4, <1>5 DEF QueriesInv, StateInv, MatchInv

(* A bundle leaves the list and the disk.                                  *)
LEMMA EraseStep ==
  ASSUME QueriesInv, NEW b \in Bundles, Ready, NEW k \in Hits(b) \ {0}, list' = Erased(k),
         code' = [code EXCEPT ![b] = NoCode],
         record' = record \/ record' = [record EXCEPT ![b] = None],
         UNCHANGED <<installing, toLoad, cleared>>
  PROVE  QueriesInv'
<1>1. StateInv /\ list \in Seq(Entries) /\ toLoad = {} /\ installing = None
  BY DEF QueriesInv, StateInv, Ready
<1>2. /\ code' \in [Bundles -> Codes] /\ code'[b] = NoCode
      /\ \A d \in Bundles \ {b} : code'[d] = code[d]
  BY <1>1 DEF StateInv, Codes, NoCode
<1>3. /\ record' \in [Bundles -> AllUids \cup {None}]
      /\ \A d \in Bundles \ {b} : record'[d] = record[d]
  BY <1>1 DEF StateInv
<1>4. StateInv'
  <2>1. list' \in Seq(Entries)
    BY <1>1, ErasedSound
  <2> QED
    BY <1>1, <1>2, <1>3, <2>1 DEF StateInv
<1>5. MatchInv'
  <2>1. SUFFICES ASSUME ~cleared PROVE Sound(list') /\ \A d \in Bundles : Matches(d)'
    BY <1>1 DEF MatchInv
  <2>2. Sound(list) /\ \A d \in Bundles : Matches(d)
    BY <1>1, <2>1 DEF QueriesInv, MatchInv
  <2>3. /\ Sound(list') /\ Listed(list', b) = {}
        /\ \A d \in Bundles \ {b} : Listed(list', d) = Listed(list, d)
    BY <1>1, <2>2, ErasedSound
  <2>4. ASSUME NEW d \in Bundles \ {b} PROVE Matches(d)'
    BY <1>2, <1>3, <2>2, <2>3, <2>4, MatchesKept
  <2>5. b # installing'
    BY <1>1, QueriesAssumption
  <2>6. Matches(b)'
    BY <1>2, <2>3, <2>5 DEF Matches
  <2> QED
    BY <2>3, <2>4, <2>6
<1>6. QED
  BY <1>4, <1>5 DEF QueriesInv

LEMMA ReloadStep ==
  ASSUME QueriesInv, NEW b \in Bundles, Reload(b)
  PROVE  QueriesInv'
<1> DEFINE p == Profiles[code[b].profile]
           uid == record[b]
<1>1. /\ b \in toLoad /\ toLoad' = toLoad \ {b} /\ UNCHANGED <<record, installing, cleared>>
  BY DEF Reload
<1>2. /\ StateInv /\ list \in Seq(Entries) /\ installing = None /\ ~cleared
      /\ Sound(list) /\ \A d \in Bundles \ toLoad : Matches(d)
      /\ b \in Loadable /\ Listed(list, b) = {} /\ b # installing
      /\ code[b] # NoCode /\ uid \in AllUids /\ uid # None
  BY <1>1, QueriesAssumption DEF QueriesInv, StateInv, MatchInv, Loadable
<1>3. /\ p.bundleName = b /\ code[b].profile \in DOMAIN Profiles /\ code[b].place \in Places
  BY <1>2 DEF StateInv
<1>4. /\ toLoad' \subseteq Loadable
      /\ \A d \in toLoad' : Listed(list, d) = {} /\ d # b
      /\ Bundles \ toLoad' = (Bundles \ toLoad) \cup {b}
  BY <1>1, <1>2 DEF StateInv
<1>5. CASE uid = NoUid /\ UNCHANGED <<list, code>>
  <2>1. StateInv'
    <3>1. /\ Loadable' = Loadable /\ list' = list /\ code' = code /\ record' = record
          /\ \A d : Listed(list', d) = Listed(list, d)
      BY <1>1, <1>5 DEF Loadable
    <3> QED
      BY <1>1, <1>2, <1>4, <3>1 DEF StateInv
  <2>2. ASSUME NEW d \in Bundles \ toLoad PROVE Matches(d)'
    BY <1>1, <1>2, <1>5, <2>2, MatchesKept DEF Listed
  <2>3. Matches(b)'
    <3>1. Listed(list', b) = {} /\ b # installing' /\ record'[b] = NoUid
      BY <1>1, <1>2, <1>5
    <3> QED
      BY <3>1 DEF Matches
  <2>4. MatchInv'
    BY <1>2, <1>4, <1>5, <2>2, <2>3 DEF MatchInv, Sound
  <2> QED
    BY <2>1, <2>4 DEF QueriesInv
<1>6. CASE /\ uid # NoUid /\ Reloadable(p) /\ UNCHANGED code
           /\ \E k \in Hits(b) :
                list' = Added(k, ReloadedInfo(p, code[b].place, uid, b \in SystemBundles))
  <2> DEFINE info == InstalledInfo(p, code[b].place, uid, b \in SystemBundles)
  <2>1. PICK k \in Hits(b) : list' = Added(k, info)
    BY <1>6, ReloadedIsInstalled
  <2>2. k = 0
    BY <1>2, HitsOfSound
  <2>3. info \in Infos /\ info.text.bundleName = b /\ info.uid = uid
    <3>1. DeviceTypeAccepted(p)
      BY <1>6 DEF Reloadable, ParseJsonInfo, ModuleAccepted
    <3>2. (b \in SystemBundles) \in BOOLEAN
      OBVIOUS
    <3> DEFINE made(isSystemApp) == InstalledInfo(p, code[b].place, uid, isSystemApp)
    <3>3. \A isSystemApp \in BOOLEAN :
            /\ made(isSystemApp) \in Infos /\ made(isSystemApp).text.bundleName = b
            /\ made(isSystemApp).uid = uid
      BY <1>2, <1>3, <3>1, MadeInfo
    <3> HIDE DEF made
    <3>4. info = made(b \in SystemBundles)
      BY DEF made
    <3> QED
      BY <3>2, <3>3, <3>4
  <2>4. info = OnDisk(b, uid)
    BY ReloadedIsInstalled DEF OnDisk
  <2> HIDE DEF info
  <2>5. list' = Updated(k, info)
    BY <2>1, <2>2 DEF Added, Updated
  <2>6. /\ list' \in Seq(Entries) /\ Sound(list') /\ Listed(list', b) = {info}
        /\ \A d \in Bundles \ {b} : Listed(list', d) = Listed(list, d)
    BY <1>2, <2>3, <2>5, UpdatedSound
  <2>7. StateInv'
    <3>1. toLoad \subseteq Bundles /\ Loadable' = Loadable
      BY <1>1, <1>2, <1>6 DEF StateInv, Loadable
    <3> QED
      BY <1>1, <1>2, <1>4, <1>6, <2>6, <3>1 DEF StateInv
  <2>8. ASSUME NEW d \in Bundles \ toLoad PROVE Matches(d)'
    <3>1. d # b
      BY <1>1, <2>8
    <3> QED
      BY <1>1, <1>2, <1>6, <2>6, <2>8, <3>1, MatchesKept
  <2>9. Matches(b)'
    BY <1>1, <1>2, <1>6, <2>3, <2>4, <2>6 DEF Matches, OnDisk
  <2>10. MatchInv'
    BY <1>4, <2>6, <2>8, <2>9 DEF MatchInv
  <2> QED
    BY <2>7, <2>10 DEF QueriesInv
<1>7. CASE UNCHANGED list /\ code' = [code EXCEPT ![b] = NoCode]
  <2>1. /\ code' \in [Bundles -> Codes] /\ code'[b] = NoCode
        /\ \A d \in Bundles \ {b} : code'[d] = code[d]
    BY <1>2, <1>7 DEF StateInv, Codes, NoCode
  <2>2. toLoad' \subseteq Loadable'
    BY <1>1, <1>4, <2>1 DEF Loadable
  <2>3. StateInv'
    <3>1. list' = list /\ record' = record /\ \A d : Listed(list', d) = Listed(list, d)
      BY <1>1, <1>7
    <3> QED
      BY <1>1, <1>2, <1>4, <2>1, <2>2, <3>1 DEF StateInv
  <2>4. ASSUME NEW d \in Bundles \ toLoad PROVE Matches(d)'
    <3>1. d # b
      BY <1>1, <2>4
    <3> QED
      BY <1>1, <1>2, <1>7, <2>1, <2>4, <3>1, MatchesKept DEF Listed
  <2>5. Matches(b)'
    <3>1. Listed(list', b) = {} /\ b # installing'
      BY <1>1, <1>2, <1>7
    <3> QED
      BY <2>1, <3>1 DEF Matches
  <2>6. MatchInv'
    BY <1>2, <1>4, <1>7, <2>4, <2>5 DEF MatchInv, Sound
  <2> QED
    BY <2>3, <2>6 DEF QueriesInv
<1>8. QED
  BY <1>5, <1>6, <1>7 DEF Reload

LEMMA RestartStep ==
  ASSUME QueriesInv, Restart
  PROVE  QueriesInv'
<1>1. /\ list' = <<>> /\ installing' = None /\ cleared' = FALSE /\ toLoad' = Loadable
      /\ UNCHANGED <<code, record>>
      /\ \A d : Listed(list', d) = {}
  BY DEF Restart, Listed
<1>2. StateInv'
  BY <1>1 DEF QueriesInv, StateInv, Loadable
<1>3. ASSUME NEW d \in Bundles \ Loadable PROVE Matches(d)'
  BY <1>1, <1>3, QueriesAssumption DEF Matches, Loadable
<1>4. MatchInv'
  BY <1>1, <1>3 DEF MatchInv, Sound
<1>5. QED
  BY <1>2, <1>4 DEF QueriesInv

LEMMA QueriesStep == QueriesInv /\ [Next]_vars => QueriesInv'
<1> SUFFICES ASSUME QueriesInv, [Next]_vars PROVE QueriesInv'
  OBVIOUS
<1>1. CASE UNCHANGED service
  <2>1. UNCHANGED <<list, code, record, installing, toLoad, cleared>>
    BY <1>1 DEF service
  <2>2. Loadable' = Loadable /\ \A d : Listed(list', d) = Listed(list, d)
    BY <2>1 DEF Loadable
  <2>3. StateInv'
    BY <2>1, <2>2 DEF QueriesInv, StateInv
  <2>4. \A b \in Bundles : Matches(b) => Matches(b)'
    BY <2>1, <2>2, MatchesKept
  <2>5. MatchInv'
    BY <2>1, <2>4 DEF QueriesInv, MatchInv, Sound
  <2> QED
    BY <2>3, <2>5 DEF QueriesInv
<1>2. ASSUME NEW b \in Bundles, NEW profile \in DOMAIN Profiles, NEW place \in Places,
             NEW uid, uid \in Uids[b] /\ Publish(b, profile, place, uid)
      PROVE  QueriesInv'
  BY <1>2, PublishStep
<1>3. ASSUME NEW b \in Bundles, RollBack(b) PROVE QueriesInv'
  BY <1>3, EraseStep DEF RollBack
<1>4. ASSUME NEW b \in Bundles, Uninstall(b) PROVE QueriesInv'
  BY <1>4, EraseStep DEF Uninstall
<1>5. CASE ServiceTask
  BY <1>1, <1>2, <1>3, <1>4, <1>5, CommitStep, ClearStep, ReloadStep, RestartStep
    DEF ServiceTask, ReadsFreed
<1>6. ASSUME NEW c \in Clients, Query(c) PROVE UNCHANGED service
  BY <1>6, Zenon DEF Query, Ask, LookUp, Snapshot, Read, Receive, Take, Put, Answered
<1>7. QED
  BY <1>1, <1>5, <1>6 DEF Next, vars

LEMMA QueriesInvariant == Spec => []QueriesInv
<1>1. QED
  BY QueriesInit, QueriesStep, PTL DEF Spec

-----------------------------------------------------------------------------
(* What the service makes of infos never crashes it.                       *)

(* An array of abilities that is missing is not counted.                   *)
Countable(info) == info.abilities = <<>> => info.numOfAbility = 0

LEMMA CountableIsSent ==
  ASSUME NEW info, Countable(info)
  PROVE  Serialized(info) \in {"ok", "failed"}
BY DEF Serialized, Countable

LEMMA AllSent ==
  ASSUME NEW infos, Len(infos) \in Nat, \A k \in 1 .. Len(infos) : Countable(infos[k])
  PROVE  InfosReply(infos).code # "crash"
<1> DEFINE I == {i \in 1 .. Len(infos) : Serialized(infos[i]) # "ok"}
           first == SelectInSeq(infos, LAMBDA info : Serialized(info) # "ok")
<1>1. first = IF I # {} THEN Min(I) ELSE 0
  BY DEF SelectInSeq
<1>2. I # {} => Min(I) \in I
  BY FirstIndex
<1>3. SerializedAll(infos) = IF first = 0 THEN "ok" ELSE Serialized(infos[first])
  BY DEF SerializedAll
<1> HIDE DEF first, I
<1>4. SerializedAll(infos) \in {"ok", "failed"}
  <2>1. CASE first = 0
    BY <1>3, <2>1
  <2>2. CASE first # 0
    <3>1. first \in 1 .. Len(infos)
      BY <1>1, <1>2, <2>2 DEF I
    <3> QED
      BY <1>3, <2>2, <3>1, CountableIsSent
  <2> QED
    BY <2>1, <2>2
<1>5. QED
  BY <1>4 DEF InfosReply, Written, Failed, Reply

(* The members that copies differ in.                                      *)
HasCounters(info) == {"modules", "numOfModule", "abilities", "numOfAbility"} \subseteq DOMAIN info

LEMMA CopiedCountable ==
  ASSUME NEW info, NEW flag, HasCounters(info)
  PROVE  /\ Countable(Copied(info, flag)) /\ HasCounters(Copied(info, flag))
         /\ Copied(info, flag).modules = info.modules
         /\ Copied(info, flag).numOfModule = IF info.modules = <<>> THEN 0 ELSE info.numOfModule
BY DEF Copied, Countable, HasCounters

LEMMA ModulesOfInfo ==
  ASSUME NEW info \in Infos
  PROVE  Len(info.modules) = 1
<1>1. PICK x \in DOMAIN Profiles, place \in Places,
          uid \in UNION {Uids[b] : b \in Bundles}, isSystemApp \in BOOLEAN :
        info = InstalledInfo(Profiles[x], place, uid, isSystemApp)
  BY DEF Infos
<1>2. \A p : InstalledInfo(p, place, uid, isSystemApp).modules = SetModuleInfos(p)
  BY DEF InstalledInfo, Owned, SetBundleInfo
<1>3. \A p : Len(SetModuleInfos(p)) = 1
  BY DEF SetModuleInfos
<1>4. QED
  BY <1>1, <1>2, <1>3

LEMMA InfosCounted ==
  ASSUME NEW info \in Infos
  PROVE  /\ Countable(info) /\ HasCounters(info)
         /\ info.numOfModule = Len(info.modules)
         /\ info.numOfAbility = Len(info.abilities)
         /\ \A module \in Range(info.modules) :
              /\ Len(module.metaData) = MetaDataSize
              /\ Len(module.deviceType) \in 1 .. DeviceTypeSize
<1>1. PICK x \in DOMAIN Profiles, place \in Places,
          uid \in UNION {Uids[b] : b \in Bundles}, isSystemApp \in BOOLEAN :
        /\ DeviceTypeAccepted(Profiles[x])
        /\ info = InstalledInfo(Profiles[x], place, uid, isSystemApp)
  BY DEF Infos
<1> DEFINE p == Profiles[x]
<1>2. /\ p.deviceType \in Seq(Range(p.deviceType)) /\ p.abilities \in Seq(Range(p.abilities))
      /\ Len(p.deviceType) <= DeviceTypeSize /\ DefaultDevice \in Range(p.deviceType)
  BY <1>1, QueriesAssumption DEF DeviceTypeAccepted
<1> HIDE DEF p
<1>3. /\ info.modules = SetModuleInfos(p) /\ info.numOfModule = 1
      /\ info.abilities = [i \in DOMAIN p.abilities |-> SetAbilityInfo(p, p.abilities[i])]
      /\ info.numOfAbility = Len(p.abilities) /\ HasCounters(info)
  BY <1>1 DEF InstalledInfo, Owned, SetBundleInfo, HasCounters, p
<1>4. Len(info.abilities) = Len(p.abilities) /\ Len(p.abilities) \in Nat
  BY <1>2, <1>3, LenProperties
<1>5. Countable(info)
  BY <1>3, <1>4 DEF Countable
<1>6. Len(SetModuleInfos(p)) = 1
  BY DEF SetModuleInfos
<1>7. ASSUME NEW module \in Range(info.modules)
      PROVE  Len(module.metaData) = MetaDataSize /\ Len(module.deviceType) \in 1 .. DeviceTypeSize
  <2> DEFINE m == SetModuleInfos(p)[1]
  <2>0. module = m
    <3>1. DOMAIN SetModuleInfos(p) = {1}
      BY DEF SetModuleInfos
    <3> HIDE DEF m
    <3>2. \E i \in DOMAIN SetModuleInfos(p) : module = SetModuleInfos(p)[i]
      BY <1>3, <1>7 DEF Range
    <3> QED
      BY <3>1, <3>2 DEF m
  <2>1. /\ module.deviceType = p.deviceType
        /\ module.metaData =
             [i \in 1 .. MetaDataSize |->
                IF i <= Len(p.metaData) THEN MetaData(p.metaData[i]) ELSE NoMetaData]
    BY <2>0 DEF SetModuleInfos
  <2>2. Len(module.metaData) = MetaDataSize
    BY <2>1, ProfileAssumption
  <2>3. Len(p.deviceType) \in Nat /\ Len(p.deviceType) # 0
    BY <1>2, LenProperties, EmptySeq DEF Range
  <2> QED
    BY <1>2, <2>1, <2>2, <2>3, ProfileAssumption
<1>8. QED
  BY <1>3, <1>4, <1>5, <1>6, <1>7

LEMMA PointerReplySafe ==
  ASSUME NEW info \in Infos, NEW q
  PROVE  PointerReply(info, q).code # "crash"
<1>1. CASE q.kind = "info"
  <2> DEFINE copy == ShallowCopy(info, q.flag)
  <2>1. Countable(copy)
    BY InfosCounted DEF ShallowCopy, Countable, HasCounters
  <2>2. Len(<<copy>>) = 1 /\ <<copy>>[1] = copy
    OBVIOUS
  <2> HIDE DEF copy
  <2>3. InfosReply(<<copy>>).code # "crash"
    <3>1. \A k \in 1 .. Len(<<copy>>) : Countable(<<copy>>[k])
      BY <2>1, <2>2
    <3> QED
      BY <2>2, <3>1, AllSent
  <2> QED
    BY <1>1, <2>3 DEF PointerReply, copy
<1>2. CASE q.kind = "ability"
  <2>1. \A a : AbilityReply(a).code # "crash"
    BY DEF AbilityReply, Reply, Failed
  <2> QED
    BY <1>2, <2>1 DEF PointerReply, Failed, Reply
<1>3. CASE q.kind \notin {"info", "ability"}
  BY <1>3 DEF PointerReply, Reply
<1>4. QED
  BY <1>1, <1>2, <1>3

(* The copies GetBundleInfos makes.                                        *)
Copies == {Copied(info, flag) : info \in Infos, flag \in {0, 1}}

LEMMA CopiesCounted ==
  ASSUME NEW copy \in Copies
  PROVE  Countable(copy) /\ HasCounters(copy) /\ ~MetaDataCrash(copy)
<1>1. PICK info \in Infos, flag \in {0, 1} : copy = Copied(info, flag)
  BY DEF Copies
<1>2. /\ Countable(copy) /\ HasCounters(copy) /\ copy.modules = info.modules
      /\ copy.numOfModule = IF info.modules = <<>> THEN 0 ELSE info.numOfModule
      /\ info.numOfModule = Len(info.modules)
  BY <1>1, InfosCounted, CopiedCountable
<1>3. copy.numOfModule = Len(copy.modules)
  BY <1>2
<1>4. Len(copy.modules) = 1
  <2>1. Len(info.modules) = 1
    BY ModulesOfInfo
  <2> QED
    BY <1>2, <2>1
<1>5. Null \notin MetaDataNames(copy)
  BY DEF MetaDataNames
<1>6. QED
  BY <1>2, <1>3, <1>4, <1>5 DEF MetaDataCrash

LEMMA CopyReplySafe ==
  ASSUME NEW infos \in Seq(Copies), NEW q
  PROVE  CopyReply(infos, q).code # "crash"
<1>1. CASE q.kind = "uid"
  BY <1>1 DEF CopyReply, UidReply, Failed, Reply
<1>2. CASE q.kind # "uid"
  <2>1. \A i \in Range(infos) : ~MetaDataCrash(i)
    BY CopiesCounted, ElementOfSeq DEF Range
  <2> DEFINE some == Filtered(infos, q)
             again == Recopied(some, q)
  <2>2. some \in Seq(Copies)
    <3>1. \A S : Only(infos, S) \in Seq(Copies)
      <4>1. \A S : Only(infos, S) \in Seq(Copies \cap S)
        BY OnlyType
      <4>2. \A S : Seq(Copies \cap S) \subseteq Seq(Copies)
        OBVIOUS
      <4> QED
        BY <4>1, <4>2
    <3> QED
      BY <3>1 DEF Filtered
  <2> HIDE DEF some
  <2>3. Len(again) \in Nat /\ \A k \in 1 .. Len(again) : Countable(again[k])
    <3>1. CASE q.kind = "list"
      <4>1. again = some
        BY <3>1 DEF Recopied
      <4> HIDE DEF again
      <4>2. \A k \in 1 .. Len(some) : some[k] \in Copies
        BY <2>2, ElementOfSeq
      <4> QED
        BY <2>2, <4>1, <4>2, CopiesCounted, LenProperties
    <3>2. CASE q.kind # "list"
      <4>1. again = [k \in DOMAIN some |-> Copied(some[k], 1)]
        BY <3>2 DEF Recopied
      <4>2. Len(again) = Len(some) /\ Len(some) \in Nat /\ DOMAIN some = 1 .. Len(some)
        BY <2>2, <4>1, LenProperties
      <4>3. \A k \in 1 .. Len(some) : Countable(Copied(some[k], 1))
        BY <2>2, ElementOfSeq, CopiesCounted, CopiedCountable
      <4> HIDE DEF again
      <4> QED
        BY <4>1, <4>2, <4>3
    <3> QED
      BY <3>1, <3>2
  <2>4. InfosReply(again).code # "crash"
    BY <2>3, AllSent
  <2> QED
    BY <1>2, <2>1, <2>4 DEF CopyReply, Failed, Reply, some
<1>3. QED
  BY <1>1, <1>2

LEMMA CopyIsCopy ==
  ASSUME NEW info \in Infos, NEW flag
  PROVE  Copied(info, flag) \in Copies
<1>1. CASE flag = 1
  BY <1>1 DEF Copies
<1>2. CASE flag # 1
  <2>1. Copied(info, flag) = Copied(info, 0)
    BY <1>2 DEF Copied
  <2> QED
    BY <2>1 DEF Copies
<1>3. QED
  BY <1>1, <1>2

-----------------------------------------------------------------------------
(* Types, and what a crash leaves behind.                                  *)

CallShape(x) ==
  /\ DOMAIN x = DOMAIN Idle
  /\ x.phase \in {"idle", "asked", "looked", "read", "done"}
  /\ x.question \in Questions \cup {NoQuestion}
  /\ x.starved \in BOOLEAN
  /\ x.pointer = <<>> \/ \E e \in Entries : x.pointer = <<e>>
  /\ x.phase = "looked" => x.pointer # <<>>

CallInv == DOMAIN call = Clients /\ \A c \in Clients : CallShape(call[c])

UidInv ==
  /\ \A k \in DOMAIN list : list[k].info.uid \in Uids[Name(list[k])]
  /\ \A b \in Bundles : record[b] \in Uids[b] \cup {None}

FlagInv == crashed \in BOOLEAN /\ cleared \in BOOLEAN /\ changes \in 0 .. MaxChanges

Explained(x) ==
  /\ x.phase \in {"asked", "looked"}
  /\ x.starved \/ (x.pointer # <<>> /\ x.pointer[1].freed)

LEMMA IdleShape ==
  /\ CallShape(Idle)
  /\ \A c, answer : \A starved \in BOOLEAN : CallShape(Returned(c, answer, starved))
BY DEF CallShape, Returned, Idle

(* A call is set as a whole, and the other calls are not touched.          *)
LEMMA PutShape ==
  ASSUME CallInv, NEW c \in Clients, NEW new, CallShape(new), call' = [call EXCEPT ![c] = new]
  PROVE  CallInv'
BY DEF CallInv

LEMMA DanglingShape ==
  ASSUME CallInv, NEW b, call' = Dangling(b)
  PROVE  CallInv'
<1>1. SUFFICES ASSUME NEW c \in Clients PROVE CallShape(call'[c])
  BY DEF CallInv, Dangling
<1>2. CallShape(call[c])
  BY DEF CallInv
<1>3. CASE call'[c] = call[c]
  BY <1>2, <1>3
<1>4. CASE call[c].pointer # <<>> /\ call'[c] = [call[c] EXCEPT !.pointer[1].freed = TRUE]
  <2>1. PICK e \in Entries : call[c].pointer = <<e>>
    BY <1>2, <1>4 DEF CallShape
  <2>2. [e EXCEPT !.freed = TRUE] \in Entries
    BY DEF Entries
  <2>3. "pointer" \in DOMAIN call[c]
    BY <1>2 DEF CallShape, Idle
  <2>4. call'[c].pointer = <<[e EXCEPT !.freed = TRUE]>>
    <3>1. call'[c].pointer = [<<e>> EXCEPT ![1] = [e EXCEPT !.freed = TRUE]]
      BY <1>4, <2>1, <2>3
    <3>2. \A d : [<<e>> EXCEPT ![1] = d] = <<d>>
      OBVIOUS
    <3> QED
      BY <3>1, <3>2
  <2>5. /\ DOMAIN call'[c] = DOMAIN call[c] /\ call'[c].phase = call[c].phase
        /\ call'[c].question = call[c].question /\ call'[c].starved = call[c].starved
    BY <1>4
  <2> QED
    BY <1>2, <2>2, <2>4, <2>5 DEF CallShape
<1>5. QED
  BY <1>3, <1>4 DEF Dangling

LEMMA AskShape ==
  ASSUME CallInv, NEW c \in Clients, Ask(c)
  PROVE  CallInv'
<1>1. PICK q \in Questions :
        call' = [call EXCEPT ![c] = [Idle EXCEPT !.phase = "asked", !.question = q]]
  BY Zenon DEF Ask, Put
<1>2. CallShape([Idle EXCEPT !.phase = "asked", !.question = q])
  BY DEF CallShape, Idle
<1>3. QED
  BY <1>1, <1>2, PutShape

LEMMA LookedShape ==
  ASSUME NEW c, CallShape(call[c]), NEW to \in {"asked", "read"}
  PROVE  CallShape(Looked(c, to))
BY DEF CallShape, Looked, Idle

LEMMA LookUpShape ==
  ASSUME CallInv, list \in Seq(Entries), NEW c \in Clients, LookUp(c)
  PROVE  CallInv'
<1> DEFINE q == call[c].question
<1>1. CallShape(call[c])
  BY DEF CallInv
<1>2. PICK k \in Hits(q.bundle) :
        call' = [call EXCEPT ![c] =
          IF k = 0
             THEN [Looked(c, "read") EXCEPT !.reply =
                     IF q.kind = "size" THEN Reply("ok", <<>>, <<>>, Null) ELSE Failed("noInfos")]
             ELSE [Looked(c, "looked") EXCEPT !.pointer = <<list[k]>>]]
  BY DEF LookUp, Put
<1>3. \A reply : CallShape([Looked(c, "read") EXCEPT !.reply = reply])
  BY <1>1, LookedShape DEF CallShape, Idle
<1>4. k # 0 => CallShape([Looked(c, "looked") EXCEPT !.pointer = <<list[k]>>])
  <2>1. SUFFICES ASSUME k # 0 PROVE CallShape([Looked(c, "looked") EXCEPT !.pointer = <<list[k]>>])
    OBVIOUS
  <2>2. list[k] \in Entries
    BY <2>1, ElementOfSeq DEF Hits
  <2>3. <<list[k]>> # <<>>
    OBVIOUS
  <2> QED
    BY <1>1, <2>2, <2>3 DEF CallShape, Looked, Idle
<1>5. QED
  BY <1>2, <1>3, <1>4, PutShape

(* What Answered makes of a call.                                          *)
LEMMA AnsweredShape ==
  ASSUME CallInv, NEW c \in Clients, NEW before, CallShape(before), NEW reply,
         NEW starved \in BOOLEAN, Answered(c, before, reply, starved)
  PROVE  CallInv' /\ (crashed' = TRUE \/ UNCHANGED crashed)
<1>1. CASE reply.code = "crash"
  <2>1. CallShape([call[c] EXCEPT !.starved = starved])
    BY DEF CallInv, CallShape, Idle
  <2>2. call' = [call EXCEPT ![c] = [call[c] EXCEPT !.starved = starved]] /\ crashed' = TRUE
    BY <1>1 DEF Answered
  <2> QED
    BY <2>1, <2>2, PutShape
<1>2. CASE reply.code # "crash"
  <2> DEFINE new == [before EXCEPT !.phase = "read", !.reply = reply, !.starved = starved,
                             !.doubt = @ \/ cleared]
  <2>1. CallShape(new)
    BY DEF CallShape, Idle
  <2>2. call' = [call EXCEPT ![c] = new] /\ crashed' = crashed
    BY <1>2 DEF Answered, Put
  <2> HIDE DEF new
  <2> QED
    BY <2>1, <2>2, PutShape
<1>3. QED
  BY <1>1, <1>2

LEMMA ReceiveShape ==
  ASSUME CallInv, NEW c \in Clients, Receive(c)
  PROVE  CallInv' /\ UNCHANGED crashed
<1>1. call[c].starved \in BOOLEAN
  BY DEF CallInv, CallShape
<1>2. \E answer : \E starved \in BOOLEAN :
        call' = [call EXCEPT ![c] = Returned(c, answer, starved)] /\ UNCHANGED crashed
  BY <1>1 DEF Receive, Put
<1>3. QED
  BY <1>2, IdleShape, PutShape

ShapeInv == CallInv /\ UidInv /\ FlagInv /\ CrashExplained

LEMMA AnsweredExplained ==
  ASSUME CallInv, crashed \in BOOLEAN, ~crashed, NEW c \in Clients, call[c].phase \in {"asked", "looked"},
         NEW before, CallShape(before), NEW reply, NEW starved \in BOOLEAN,
         Answered(c, before, reply, starved),
         reply.code = "crash" =>
           starved \/ (call[c].pointer # <<>> /\ call[c].pointer[1].freed)
  PROVE  CallInv' /\ crashed' \in BOOLEAN /\ CrashExplained'
<1>1. CallInv' /\ crashed' \in BOOLEAN
  <2>1. CallInv' /\ (crashed' = TRUE \/ UNCHANGED crashed)
    BY AnsweredShape
  <2> QED
    BY <2>1
<1>2. CASE reply.code = "crash"
  <2>1. call' = [call EXCEPT ![c] = [call[c] EXCEPT !.starved = starved]]
    BY <1>2 DEF Answered
  <2>2. c \in DOMAIN call /\ "starved" \in DOMAIN call[c]
    BY DEF CallInv, CallShape, Idle
  <2>3. call'[c] = [call[c] EXCEPT !.starved = starved]
    BY <2>1, <2>2
  <2>4. /\ call'[c].phase = call[c].phase /\ call'[c].starved = starved
        /\ call'[c].pointer = call[c].pointer
    BY <2>2, <2>3
  <2> QED
    BY <1>1, <1>2, <2>4 DEF CrashExplained
<1>3. CASE reply.code # "crash"
  BY <1>1, <1>3 DEF Answered, Put, CrashExplained
<1>4. QED
  BY <1>2, <1>3

LEMMA ReadStep ==
  ASSUME CallInv, crashed \in BOOLEAN, NEW c \in Clients, Read(c)
  PROVE  CallInv' /\ crashed' \in BOOLEAN /\ CrashExplained'
<1> DEFINE q == call[c].question
           entry == call[c].pointer[1]
<1>1. ~crashed /\ call[c].phase = "looked" /\ CallShape(call[c]) /\ call[c].pointer # <<>>
  BY DEF Read, CallInv, CallShape
<1>2. entry.info \in Infos
  BY <1>1 DEF CallShape, Entries
<1> HIDE DEF q, entry
<1>3. CASE Answered(c, call[c], PointerReply(entry.info, q), FALSE)
  BY <1>1, <1>2, <1>3, PointerReplySafe, AnsweredExplained
<1>4. CASE \E reply \in StarvedPointerReplies(entry.info, q) : Answered(c, call[c], reply, TRUE)
  BY <1>1, <1>4, AnsweredExplained
<1>5. CASE entry.freed /\ \E code_ \in {"other", "crash"} :
              Answered(c, call[c], Failed(code_), FALSE)
  BY <1>1, <1>5, AnsweredExplained DEF entry
<1>6. QED
  BY <1>3, <1>4, <1>5 DEF Read, q, entry

LEMMA SnapshotStep ==
  ASSUME CallInv, crashed \in BOOLEAN, list \in Seq(Entries), NEW c \in Clients, Snapshot(c)
  PROVE  CallInv' /\ crashed' \in BOOLEAN /\ CrashExplained'
<1> DEFINE q == call[c].question
           whole == [k \in DOMAIN list |-> Copied(list[k].info, ListFlag(q))]
           before == Looked(c, "read")
<1>1. ~crashed /\ call[c].phase = "asked" /\ CallShape(before)
  <2>1. ~crashed /\ call[c].phase = "asked" /\ CallShape(call[c])
    BY DEF Snapshot, CallInv
  <2> QED
    BY <2>1, LookedShape
<1>2. whole \in Seq(Copies)
  <2>1. \A k \in DOMAIN list : whole[k] \in Copies
    BY ElementOfSeq, EntryNames, CopyIsCopy
  <2>2. Len(list) \in Nat /\ DOMAIN list = 1 .. Len(list)
    BY LenProperties
  <2> QED
    BY <2>1, <2>2
<1> HIDE DEF q, whole, before
<1>3. CASE Answered(c, before, Failed("noInfos"), FALSE)
  <2>1. Failed("noInfos").code # "crash"
    BY DEF Failed, Reply
  <2> QED
    BY <1>1, <1>3, <2>1, AnsweredExplained
<1>4. CASE Answered(c, before, CopyReply(whole, q), FALSE)
  BY <1>1, <1>2, <1>4, CopyReplySafe, AnsweredExplained
<1>5. CASE \E reply \in StarvedCopyReplies(ListedInfos, q) : Answered(c, before, reply, TRUE)
  BY <1>1, <1>5, AnsweredExplained
<1>6. QED
  BY <1>3, <1>4, <1>5 DEF Snapshot, q, whole, before

(* What happens while the service is dead.                                 *)
LEMMA StaysExplained ==
  ASSUME CallInv, CrashExplained, UNCHANGED <<crashed, cleared>>, NEW c \in Clients,
         call[c].phase \in {"read", "done"}, NEW new, call' = [call EXCEPT ![c] = new]
  PROVE  CrashExplained'
<1>1. \A d \in Clients \ {c} : call'[d] = call[d]
  BY DEF CallInv
<1>2. QED
  BY <1>1 DEF CrashExplained

LEMMA QueryShape ==
  ASSUME ShapeInv, list \in Seq(Entries), NEW c \in Clients, Query(c)
  PROVE  ShapeInv'
<1>1. CallInv /\ FlagInv /\ UidInv /\ CrashExplained
  BY DEF ShapeInv
<1>2. UNCHANGED <<list, record, cleared, changes>>
  BY Zenon DEF Query, Ask, LookUp, Snapshot, Read, Receive, Take, Put, Answered, service
<1>3. CallInv' /\ crashed' \in BOOLEAN /\ CrashExplained'
  <2>1. CASE Ask(c)
    <3>1. ~crashed /\ crashed' = crashed
      BY <2>1 DEF Ask, Put
    <3> QED
      BY <1>1, <2>1, <3>1, AskShape DEF CrashExplained, FlagInv
  <2>2. CASE LookUp(c)
    <3>1. ~crashed /\ crashed' = crashed
      BY <2>2 DEF LookUp, Put
    <3> QED
      BY <1>1, <2>2, <3>1, LookUpShape DEF CrashExplained, FlagInv
  <2>3. CASE Snapshot(c)
    BY <1>1, <2>3, SnapshotStep DEF FlagInv
  <2>4. CASE Read(c)
    BY <1>1, <2>4, ReadStep DEF FlagInv
  <2>5. CASE Receive(c)
    <3>1. CallInv' /\ UNCHANGED crashed
      BY <1>1, <2>5, ReceiveShape
    <3>2. call[c].phase = "read" /\ \E new : call' = [call EXCEPT ![c] = new]
      BY <2>5 DEF Receive, Put
    <3> QED
      BY <1>1, <1>2, <3>1, <3>2, StaysExplained DEF FlagInv
  <2>6. CASE Take(c)
    <3>1. /\ call[c].phase = "done" /\ call' = [call EXCEPT ![c] = Idle]
          /\ UNCHANGED crashed
      BY <2>6 DEF Take, Put
    <3>2. CallInv'
      BY <1>1, <3>1, IdleShape, PutShape
    <3> QED
      BY <1>1, <1>2, <3>1, <3>2, StaysExplained DEF FlagInv
  <2> QED
    BY <2>1, <2>2, <2>3, <2>4, <2>5, <2>6 DEF Query
<1>4. UidInv' /\ FlagInv'
  BY <1>1, <1>2, <1>3 DEF UidInv, FlagInv
<1>5. QED
  BY <1>3, <1>4 DEF ShapeInv

-----------------------------------------------------------------------------
(* The service task.                                                       *)

LEMMA PublishUids ==
  ASSUME QueriesInv, UidInv, NEW b \in Bundles, NEW profile \in DOMAIN Profiles,
         NEW place \in Places, NEW uid \in Uids[b], Publish(b, profile, place, uid)
  PROVE  UidInv'
<1>1. PICK k \in Hits(b) :
        LET old == list[k].info
            where == IF k = 0 THEN place ELSE old.text.codePath
            info == InstalledInfo(Profiles[profile], where, IF k = 0 THEN uid ELSE old.uid,
                      IF k = 0 THEN b \in SystemBundles ELSE old.isSystemApp)
        IN  list' = Updated(k, info)
  BY DEF Publish
<1>2. Profiles[profile].bundleName = b /\ record' = record
  BY DEF Publish
<1>3. PICK place2, uid2, isSystemApp :
        /\ uid2 = IF k = 0 THEN uid ELSE list[k].info.uid
        /\ list' = Updated(k, InstalledInfo(Profiles[profile], place2, uid2, isSystemApp))
  BY <1>1
<1> DEFINE info == InstalledInfo(Profiles[profile], place2, uid2, isSystemApp)
<1>4. info.text.bundleName = b /\ info.uid = uid2
  <2>1. \A p : LET made == InstalledInfo(p, place2, uid2, isSystemApp)
              IN  made.text.bundleName = p.bundleName /\ made.uid = uid2
    BY DEF InstalledInfo, Owned, SetBundleInfo
  <2> QED
    BY <1>2, <2>1
<1>5. list \in Seq(Entries) /\ DOMAIN list = 1 .. Len(list) /\ Len(list) \in Nat
  BY LenProperties DEF QueriesInv, StateInv
<1>6. Entry(info).info = info /\ Name(Entry(info)) = b
  BY <1>4 DEF Entry, Name
<1> HIDE DEF info
<1>7. uid2 \in Uids[b]
  BY <1>3 DEF Hits, UidInv
<1>8. \A j \in DOMAIN list' : \/ list'[j] = Entry(info)
                               \/ \E i \in DOMAIN list : list'[j] = list[i]
  <2>1. CASE k = 0
    <3>1. list' = <<Entry(info)>> \o list
      BY <1>3, <2>1 DEF Updated, info
    <3>2. <<Entry(info)>> \in Seq({Entry(info)}) /\ Len(<<Entry(info)>>) = 1
          /\ <<Entry(info)>>[1] = Entry(info)
      OBVIOUS
    <3>3. /\ DOMAIN list' = 1 .. Len(list) + 1 /\ list'[1] = Entry(info)
          /\ \A j \in DOMAIN list' \ {1} : j - 1 \in 1 .. Len(list) /\ list'[j] = list[j - 1]
      BY <1>5, <3>1, <3>2, ConcatProperties
    <3> QED
      BY <1>5, <3>3
  <2>2. CASE k # 0
    <3>1. list' = [list EXCEPT ![k] = Entry(info)]
      BY <1>3, <2>2 DEF Updated, info
    <3> QED
      BY <3>1
  <2> QED
    BY <2>1, <2>2
<1>9. ASSUME NEW j \in DOMAIN list' PROVE list'[j].info.uid \in Uids[Name(list'[j])]
  <2>1. CASE list'[j] = Entry(info)
    BY <1>4, <1>6, <1>7, <2>1
  <2>2. CASE \E i \in DOMAIN list : list'[j] = list[i]
    BY <2>2 DEF UidInv, Name
  <2> QED
    BY <1>8, <2>1, <2>2
<1>10. \A j \in DOMAIN list' : (list[j].info.uid \in Uids[Name(list[j])])'
  BY <1>9 DEF Name
<1>11. QED
  BY <1>2, <1>10 DEF UidInv

LEMMA ErasedUids ==
  ASSUME QueriesInv, UidInv, NEW b, NEW k \in Hits(b) \ {0}, list' = Erased(k)
  PROVE  \A j \in DOMAIN list' : (list[j].info.uid \in Uids[Name(list[j])])'
<1>1. list \in Seq(Entries) /\ DOMAIN list = 1 .. Len(list) /\ Len(list) \in Nat
  BY LenProperties DEF QueriesInv, StateInv
<1>2. k \in 1 .. Len(list)
  BY <1>1 DEF Hits
<1>3. /\ list' \in Seq(Entries) /\ Len(list') = Len(list) - 1
      /\ \A j \in 1 .. Len(list) - 1 : list'[j] = IF j < k THEN list[j] ELSE list[j + 1]
  BY <1>1, ErasedItems
<1>4. \A j \in DOMAIN list' : \E i \in DOMAIN list : list'[j] = list[i]
  <2>1. DOMAIN list' = 1 .. Len(list) - 1
    BY <1>3, LenProperties
  <2>2. \A j \in 1 .. Len(list) - 1 : j \in DOMAIN list /\ j + 1 \in DOMAIN list
    BY <1>1
  <2> QED
    BY <1>3, <2>1, <2>2
<1>5. QED
  BY <1>4 DEF UidInv, Name

LEMMA ReloadUids ==
  ASSUME QueriesInv, UidInv, NEW b \in Bundles, Reload(b)
  PROVE  UidInv'
<1>1. record' = record /\ b \in toLoad
  BY DEF Reload
<1>2. list \in Seq(Entries) /\ DOMAIN list = 1 .. Len(list) /\ Len(list) \in Nat
      /\ code[b] # NoCode /\ Profiles[code[b].profile].bundleName = b
      /\ record[b] \in Uids[b]
  BY <1>1, LenProperties DEF QueriesInv, StateInv, UidInv, Loadable
<1>3. CASE UNCHANGED list
  BY <1>1, <1>3 DEF UidInv, Name
<1>4. CASE list' # list
  <2> DEFINE made(isSystemApp) ==
        InstalledInfo(Profiles[code[b].profile], code[b].place, record[b], isSystemApp)
  <2>1. \E k \in Hits(b) : list' = Added(k, made(b \in SystemBundles))
    BY <1>4, ReloadedIsInstalled DEF Reload
  <2>2. \A isSystemApp : made(isSystemApp).text.bundleName = b /\ made(isSystemApp).uid = record[b]
    <3>1. \A p, place, uid, isSystemApp :
            LET info == InstalledInfo(p, place, uid, isSystemApp)
            IN  info.text.bundleName = p.bundleName /\ info.uid = uid
      BY DEF InstalledInfo, Owned, SetBundleInfo
    <3> QED
      BY <1>2, <3>1
  <2> HIDE DEF made
  <2>3. PICK info : /\ info.text.bundleName = b /\ info.uid = record[b]
                    /\ list' = <<Entry(info)>> \o list
    BY <1>4, <2>1, <2>2 DEF Added
  <2>4. Entry(info).info = info /\ Name(Entry(info)) = b
    BY <2>3 DEF Entry, Name
  <2>5. <<Entry(info)>> \in Seq({Entry(info)}) /\ Len(<<Entry(info)>>) = 1
        /\ <<Entry(info)>>[1] = Entry(info)
    OBVIOUS
  <2>6. /\ DOMAIN list' = 1 .. Len(list) + 1 /\ list'[1] = Entry(info)
        /\ \A j \in DOMAIN list' \ {1} : j - 1 \in 1 .. Len(list) /\ list'[j] = list[j - 1]
    BY <1>2, <2>3, <2>5, ConcatProperties
  <2>7. ASSUME NEW j \in DOMAIN list' PROVE list'[j].info.uid \in Uids[Name(list'[j])]
    <3>1. CASE j = 1
      BY <1>2, <2>3, <2>4, <2>6, <3>1
    <3>2. CASE j # 1
      BY <1>2, <2>6, <3>2 DEF UidInv, Name
    <3> QED
      BY <3>1, <3>2
  <2>8. \A j \in DOMAIN list' : (list[j].info.uid \in Uids[Name(list[j])])'
    BY <2>7 DEF Name
  <2> QED
    BY <1>1, <2>8 DEF UidInv
<1>5. QED
  BY <1>3, <1>4

LEMMA RestartCalls ==
  ASSUME CallInv, Restart
  PROVE  CallInv'
<1>1. SUFFICES ASSUME NEW c \in Clients PROVE CallShape(call'[c])
  BY DEF CallInv, Restart
<1>2. CallShape(call[c]) /\ call[c].starved \in BOOLEAN
  BY DEF CallInv, CallShape
<1>3. call'[c] = call[c] \/ \E answer : call'[c] = Returned(c, answer, call[c].starved)
  BY DEF Restart
<1>4. QED
  BY <1>2, <1>3, IdleShape

LEMMA TaskShape ==
  ASSUME QueriesInv, ShapeInv, ServiceTask
  PROVE  ShapeInv'
<1>1. CallInv /\ UidInv /\ FlagInv /\ CrashExplained
  BY DEF ShapeInv
<1>2. /\ list \in Seq(Entries) /\ DOMAIN list = 1 .. Len(list) /\ Len(list) \in Nat
      /\ MaxChanges \in Nat
  BY QueriesAssumption, LenProperties DEF QueriesInv, StateInv
<1>3. ASSUME NEW b \in Bundles, NEW profile \in DOMAIN Profiles, NEW place \in Places,
             NEW uid \in Uids[b], Publish(b, profile, place, uid)
      PROVE  ShapeInv'
  <2>1. /\ ~crashed /\ UNCHANGED <<crashed, cleared>> /\ call' = Dangling(b)
        /\ changes < MaxChanges /\ changes' = changes + 1
    BY <1>3 DEF Publish, Ready, Counted
  <2>2. UidInv'
    BY <1>1, <1>3, PublishUids
  <2>3. CallInv'
    BY <1>1, <2>1, DanglingShape
  <2>4. FlagInv' /\ CrashExplained'
    BY <1>1, <1>2, <2>1 DEF FlagInv, CrashExplained
  <2> QED
    BY <2>2, <2>3, <2>4 DEF ShapeInv
<1>4. CASE Commit
  <2>1. /\ ~crashed /\ UNCHANGED <<list, crashed, cleared, changes, call>>
    BY <1>4 DEF Commit
  <2>2. PICK k \in Hits(installing) \ {0} :
          record' = [record EXCEPT ![installing] = list[k].info.uid]
    BY <1>4 DEF Commit
  <2>3. list[k].info.uid \in Uids[installing]
    BY <1>1, <2>2 DEF Hits, UidInv
  <2>4. DOMAIN record = Bundles
    BY DEF QueriesInv, StateInv
  <2>5. UidInv'
    BY <1>1, <2>1, <2>2, <2>3, <2>4 DEF UidInv, Name
  <2>6. CallInv' /\ FlagInv' /\ CrashExplained'
    BY <1>1, <2>1 DEF CallInv, FlagInv, CrashExplained
  <2> QED
    BY <2>5, <2>6 DEF ShapeInv
<1>5. CASE ClearInstallEnv
  <2>1. /\ ~crashed /\ UNCHANGED <<record, crashed, changes>> /\ cleared' = TRUE
        /\ call' = Dangling(installing)
    BY <1>5 DEF ClearInstallEnv
  <2>2. PICK k \in DOMAIN list : list' = [list EXCEPT ![k].freed = TRUE]
    BY <1>5 DEF ClearInstallEnv, Hits
  <2>3. DOMAIN list' = DOMAIN list /\ \A j \in DOMAIN list : list'[j].info = list[j].info
    <3>1. list' = [list EXCEPT ![k] = [list[k] EXCEPT !.freed = TRUE]]
      BY <2>2
    <3>2. [list[k] EXCEPT !.freed = TRUE].info = list[k].info
      BY <1>2, ElementOfSeq DEF Entries
    <3> QED
      BY <3>1, <3>2
  <2>4. UidInv'
    BY <1>1, <2>1, <2>3 DEF UidInv, Name
  <2>5. CallInv'
    BY <1>1, <2>1, DanglingShape
  <2>6. FlagInv' /\ CrashExplained'
    BY <1>1, <2>1 DEF FlagInv, CrashExplained
  <2> QED
    BY <2>4, <2>5, <2>6 DEF ShapeInv
<1>6. ASSUME NEW b \in Bundles, RollBack(b) \/ Uninstall(b)
      PROVE  ShapeInv'
  <2>1. /\ ~crashed /\ UNCHANGED <<crashed, cleared>> /\ call' = Dangling(b)
        /\ changes < MaxChanges /\ changes' = changes + 1
        /\ record' = record \/ record' = [record EXCEPT ![b] = None]
    BY <1>6 DEF RollBack, Uninstall, Ready, Counted
  <2>2. PICK k \in Hits(b) \ {0} : list' = Erased(k)
    BY <1>6 DEF RollBack, Uninstall
  <2>3. \A j \in DOMAIN list' : (list[j].info.uid \in Uids[Name(list[j])])'
    BY <1>1, <2>2, ErasedUids
  <2>4. \A d \in Bundles : record'[d] \in Uids[d] \cup {None}
    <3>1. DOMAIN record = Bundles
      BY DEF QueriesInv, StateInv
    <3> QED
      BY <1>1, <2>1, <3>1 DEF UidInv
  <2>5. UidInv'
    BY <2>3, <2>4 DEF UidInv
  <2>6. CallInv'
    BY <1>1, <2>1, DanglingShape
  <2>7. FlagInv' /\ CrashExplained'
    BY <1>1, <1>2, <2>1 DEF FlagInv, CrashExplained
  <2> QED
    BY <2>5, <2>6, <2>7 DEF ShapeInv
<1>7. ASSUME NEW b \in Bundles, Reload(b)
      PROVE  ShapeInv'
  <2>1. ~crashed /\ UNCHANGED <<crashed, cleared, changes, call>>
    BY <1>7 DEF Reload
  <2>2. UidInv'
    BY <1>1, <1>7, ReloadUids
  <2>3. CallInv' /\ FlagInv' /\ CrashExplained'
    BY <1>1, <2>1 DEF CallInv, FlagInv, CrashExplained
  <2> QED
    BY <2>2, <2>3 DEF ShapeInv
<1>8. CASE ReadsFreed
  <2>1. crashed' = TRUE /\ UNCHANGED <<list, record, cleared, changes, call>>
    BY <1>8 DEF ReadsFreed, service
  <2>2. cleared
    BY <1>8 DEF ReadsFreed, QueriesInv, MatchInv, Sound
  <2>3. CallInv' /\ FlagInv' /\ CrashExplained'
    BY <1>1, <2>1, <2>2 DEF CallInv, FlagInv, CrashExplained
  <2>4. UidInv'
    BY <1>1, <2>1 DEF UidInv, Name
  <2> QED
    BY <2>3, <2>4 DEF ShapeInv
<1>9. CASE Restart
  <2>1. /\ list' = <<>> /\ crashed' = FALSE /\ cleared' = FALSE
        /\ UNCHANGED <<record, changes>>
    BY <1>9 DEF Restart
  <2>2. CallInv'
    BY <1>1, <1>9, RestartCalls
  <2>3. UidInv'
    <3>1. DOMAIN list' = {}
      BY <2>1
    <3> QED
      BY <1>1, <2>1, <3>1 DEF UidInv
  <2>4. FlagInv'
    BY <1>1, <2>1 DEF FlagInv
  <2>5. CrashExplained'
    BY <2>1 DEF CrashExplained
  <2> QED
    BY <2>2, <2>3, <2>4, <2>5 DEF ShapeInv
<1>10. QED
  BY <1>3, <1>4, <1>5, <1>6, <1>7, <1>8, <1>9 DEF ServiceTask

LEMMA ShapeInvariant == Spec => [](QueriesInv /\ ShapeInv)
<1>1. Init => QueriesInv /\ ShapeInv
  <2>1. SUFFICES ASSUME Init PROVE ShapeInv
    BY QueriesInit
  <2>2. /\ list = <<>> /\ crashed = FALSE /\ cleared = FALSE /\ changes = 0
        /\ call = [c \in Clients |-> Idle]
    BY <2>1 DEF Init
  <2>3. CallInv
    BY <2>2, IdleShape DEF CallInv
  <2>4. UidInv
    <3>1. \E disk \in Disks : record = disk.record
      BY <2>1 DEF Init
    <3>2. DOMAIN list = {}
      BY <2>2
    <3> QED
      BY <3>1, <3>2, QueriesAssumption DEF UidInv
  <2>5. FlagInv /\ CrashExplained
    <3>1. MaxChanges \in Nat
      BY QueriesAssumption
    <3>2. FlagInv
      <4>1. crashed \in BOOLEAN /\ cleared \in BOOLEAN
        BY <2>2
      <4>2. changes \in 0 .. MaxChanges
        BY <2>2, <3>1
      <4> QED
        BY <4>1, <4>2 DEF FlagInv
    <3>3. CrashExplained
      BY <2>2 DEF CrashExplained
    <3> QED
      BY <3>2, <3>3
  <2> QED
    BY <2>3, <2>4, <2>5 DEF ShapeInv
<1>2. QueriesInv /\ ShapeInv /\ [Next]_vars => (QueriesInv /\ ShapeInv)'
  <2>1. SUFFICES ASSUME QueriesInv, ShapeInv, [Next]_vars PROVE ShapeInv'
    BY QueriesStep
  <2>2. CASE ServiceTask
    BY <2>1, <2>2, TaskShape
  <2>3. ASSUME NEW c \in Clients, Query(c) PROVE ShapeInv'
    BY <2>1, <2>3, QueryShape DEF QueriesInv, StateInv
  <2>4. CASE UNCHANGED vars
    BY <2>1, <2>4 DEF vars, service, ShapeInv, CallInv, UidInv, FlagInv, CrashExplained, Name
  <2> QED
    BY <2>1, <2>2, <2>3, <2>4 DEF Next
<1>3. QED
  BY <1>1, <1>2, PTL DEF Spec

-----------------------------------------------------------------------------
(* The list as the catalog.                                                *)

LEMMA CatalogLists ==
  /\ \A f : Catalog!Range(f) = Range(f)
  /\ \A s, S : Catalog!Only(s, S) = Only(s, S)
BY DEF Catalog!Range, Range, Catalog!Only, Only

Moment(l) == [k \in DOMAIN l |-> l[k].info]

Distinct(moment) ==
  \A j, k \in DOMAIN moment : moment[j].text.bundleName = moment[k].text.bundleName => j = k

LEMMA MomentItems ==
  ASSUME NEW l \in Seq(Entries)
  PROVE  /\ Moment(l) \in Seq(Infos) /\ Len(Moment(l)) = Len(l) /\ Len(l) \in Nat
         /\ DOMAIN Moment(l) = 1 .. Len(l) /\ DOMAIN l = 1 .. Len(l)
         /\ \A k \in 1 .. Len(l) : Moment(l)[k] = l[k].info
         /\ Sound(l) => Distinct(Moment(l))
<1>1. Len(l) \in Nat /\ DOMAIN l = 1 .. Len(l)
  BY LenProperties
<1>2. \A k \in 1 .. Len(l) : l[k].info \in Infos
  BY <1>1, ElementOfSeq, EntryNames
<1>3. Moment(l) \in Seq(Infos) /\ Len(Moment(l)) = Len(l)
  BY <1>1, <1>2 DEF Moment
<1>4. Sound(l) => Distinct(Moment(l))
  BY DEF Sound, Distinct, Moment, Name
<1>5. QED
  BY <1>1, <1>3, <1>4 DEF Moment

LEMMA NamedIs ==
  ASSUME NEW moment \in Seq(Infos), Distinct(moment), NEW b
  PROVE  /\ \A i \in DOMAIN moment :
              moment[i].text.bundleName = b => Catalog!Named(moment, b) = <<moment[i]>>
         /\ (\A i \in DOMAIN moment : moment[i].text.bundleName # b) =>
              Catalog!Named(moment, b) = <<>>
<1> DEFINE S == {info \in Range(moment) : info.text.bundleName = b}
<1>1. Catalog!Named(moment, b) = Only(moment, S)
  BY CatalogLists DEF Catalog!Named
<1>2. Len(moment) \in Nat /\ DOMAIN moment = 1 .. Len(moment)
  BY LenProperties
<1>3. \A k \in DOMAIN moment : moment[k] \in S <=> moment[k].text.bundleName = b
  BY DEF Range
<1> HIDE DEF S
<1>4. ASSUME NEW i \in DOMAIN moment, moment[i].text.bundleName = b
      PROVE  Only(moment, S) = <<moment[i]>>
  <2>1. \A k \in 1 .. Len(moment) : moment[k] \in S => k = i
    BY <1>2, <1>3, <1>4 DEF Distinct
  <2> QED
    BY <1>2, <1>3, <1>4, <2>1, OnlyOne
<1>5. ASSUME \A i \in DOMAIN moment : moment[i].text.bundleName # b
      PROVE  Only(moment, S) = <<>>
  BY <1>2, <1>3, <1>5, OnlyNone
<1>6. QED
  BY <1>1, <1>4, <1>5

LEMMA NamedOnce ==
  ASSUME NEW moment \in Seq(Infos), Distinct(moment), NEW b
  PROVE  Len(Catalog!Named(moment, b)) <= 1
<1>1. Len(<<>>) <= 1 /\ \A x : Len(<<x>>) <= 1
  OBVIOUS
<1>2. QED
  BY <1>1, NamedIs

(* What a list says of the other bundles depends on these only.            *)
OthersOf(infos, b) == {info \in Range(infos) : info.text.bundleName # b}

LEMMA OthersWithout ==
  ASSUME NEW s, NEW t, NEW k \in 1 .. Len(s), NEW b, Len(s) \in Nat, Len(t) = Len(s) - 1,
         DOMAIN s = 1 .. Len(s), DOMAIN t = 1 .. Len(t),
         \A j \in 1 .. Len(t) : t[j] = IF j < k THEN s[j] ELSE s[j + 1],
         s[k].text.bundleName = b
  PROVE  Catalog!Others(s, b) = Catalog!Others(t, b)
<1>1. Catalog!Others(s, b) = Only(s, OthersOf(s, b)) /\ Catalog!Others(t, b) = Only(t, OthersOf(t, b))
  BY CatalogLists DEF Catalog!Others, OthersOf
<1>2. s[k] \notin OthersOf(s, b)
  BY DEF OthersOf
<1>3. Only(s, OthersOf(s, b)) = Only(t, OthersOf(s, b))
  BY <1>2, OnlyWithout
<1>4. \A j \in 1 .. Len(t) : t[j] \in Range(s) /\ t[j] \in Range(t)
  <2>1. \A j \in 1 .. Len(t) : j \in DOMAIN s /\ j + 1 \in DOMAIN s
    OBVIOUS
  <2> QED
    BY <2>1 DEF Range
<1>5. Only(t, OthersOf(s, b)) = Only(t, OthersOf(t, b))
  <2>1. \A j \in 1 .. Len(t) : t[j] \in OthersOf(s, b) <=> t[j] \in OthersOf(t, b)
    BY <1>4 DEF OthersOf
  <2>2. Len(t) \in Nat
    OBVIOUS
  <2> QED
    BY <2>1, <2>2, OnlyAgrees
<1>6. QED
  BY <1>1, <1>3, <1>5

LEMMA UpdatedOthers ==
  ASSUME list \in Seq(Entries), NEW info \in Infos, NEW b, info.text.bundleName = b,
         NEW k \in Hits(b)
  PROVE  Catalog!Others(Moment(Updated(k, info)), b) = Catalog!Others(Moment(list), b)
<1> DEFINE e == Entry(info)
           l == Updated(k, info)
<1>1. e.info = info /\ e \in Entries
  BY DEF Entry, Entries
<1>2. /\ Len(list) \in Nat /\ DOMAIN list = 1 .. Len(list)
      /\ DOMAIN Moment(list) = 1 .. Len(list) /\ Len(Moment(list)) = Len(list)
      /\ \A j \in 1 .. Len(list) : Moment(list)[j] = list[j].info
  BY MomentItems
<1> HIDE DEF e
<1>3. CASE k = 0
  <2>1. l = <<e>> \o list
    BY <1>3 DEF Updated, e
  <2>2. <<e>> \in Seq(Entries) /\ Len(<<e>>) = 1 /\ <<e>>[1] = e
    BY <1>1
  <2>3. /\ l \in Seq(Entries) /\ Len(l) = Len(list) + 1 /\ l[1] = e
        /\ \A j \in 1 .. Len(list) : l[j + 1] = list[j]
    BY <1>2, <2>1, <2>2, ConcatProperties
  <2> HIDE DEF l
  <2>4. /\ DOMAIN Moment(l) = 1 .. Len(l) /\ Len(Moment(l)) = Len(list) + 1
        /\ \A j \in 1 .. Len(l) : Moment(l)[j] = l[j].info
    BY <2>3, MomentItems
  <2>5. /\ Moment(l)[1] = info
        /\ \A j \in 1 .. Len(list) : Moment(list)[j] = Moment(l)[j + 1]
    <3>1. 1 \in 1 .. Len(l) /\ \A j \in 1 .. Len(list) : j + 1 \in 1 .. Len(l)
      BY <1>2, <2>3
    <3> QED
      BY <1>1, <1>2, <2>3, <2>4, <3>1
  <2> DEFINE s == Moment(l)
             t == Moment(list)
  <2>6. /\ 1 \in 1 .. Len(s) /\ Len(s) \in Nat /\ Len(t) = Len(s) - 1
        /\ DOMAIN s = 1 .. Len(s) /\ DOMAIN t = 1 .. Len(t)
        /\ \A j \in 1 .. Len(t) : t[j] = IF j < 1 THEN s[j] ELSE s[j + 1]
        /\ s[1].text.bundleName = b
    BY <1>2, <2>3, <2>4, <2>5
  <2> HIDE DEF s, t
  <2>7. Catalog!Others(s, b) = Catalog!Others(t, b)
    BY <2>6, OthersWithout
  <2> QED
    BY <2>7 DEF s, t, l
<1>4. CASE k # 0
  <2>1. l = [list EXCEPT ![k] = e] /\ k \in DOMAIN list /\ list[k].info.text.bundleName = b
    BY <1>4 DEF Updated, e, Hits, Name
  <2>2. DOMAIN l = DOMAIN list /\ \A j \in DOMAIN list : l[j] = IF j = k THEN e ELSE list[j]
    BY <2>1
  <2>3. l \in Seq(Entries) /\ Len(l) = Len(list)
    BY <1>1, <2>1
  <2> HIDE DEF l
  <2> DEFINE s == Moment(l)
             t == Moment(list)
  <2>4. /\ Len(s) = Len(list) /\ DOMAIN s = 1 .. Len(list)
        /\ \A j \in 1 .. Len(list) : s[j] = IF j = k THEN info ELSE t[j]
    BY <1>1, <1>2, <2>2, <2>3, MomentItems
  <2>5. /\ Len(t) = Len(list) /\ DOMAIN t = 1 .. Len(list) /\ t[k].text.bundleName = b
    BY <1>2, <2>1
  <2> HIDE DEF s, t
  <2> DEFINE S == OthersOf(s, b)
             T == OthersOf(t, b)
  <2>6. ASSUME NEW j \in 1 .. Len(s)
        PROVE  (s[j] \in S <=> t[j] \in T) /\ (s[j] \in S => s[j] = t[j])
    <3>1. s[j] \in Range(s) /\ t[j] \in Range(t)
      BY <2>4, <2>5 DEF Range
    <3>2. (s[j] \in S <=> s[j].text.bundleName # b) /\ (t[j] \in T <=> t[j].text.bundleName # b)
      BY <3>1 DEF OthersOf
    <3>3. CASE j = k
      BY <2>4, <2>5, <3>2, <3>3
    <3>4. CASE j # k
      BY <2>4, <2>5, <3>2, <3>4
    <3> QED
      BY <3>3, <3>4
  <2> HIDE DEF S, T
  <2>7. Only(s, S) = Only(t, T)
    <3>1. Len(s) \in Nat /\ Len(t) = Len(s)
      BY <1>2, <2>4, <2>5
    <3> QED
      BY <2>6, <3>1, OnlyAgrees
  <2>8. Catalog!Others(s, b) = Catalog!Others(t, b)
    BY <2>7, CatalogLists DEF Catalog!Others, OthersOf, S, T
  <2> QED
    BY <2>8 DEF s, t, l
<1>5. QED
  BY <1>3, <1>4

LEMMA ErasedOthers ==
  ASSUME list \in Seq(Entries), NEW b, NEW k \in Hits(b) \ {0}
  PROVE  Catalog!Others(Moment(Erased(k)), b) = Catalog!Others(Moment(list), b)
<1> DEFINE l == Erased(k)
           s == Moment(list)
           t == Moment(l)
<1>1. k \in DOMAIN list /\ list[k].info.text.bundleName = b
  BY DEF Hits, Name
<1>2. /\ Len(list) \in Nat /\ DOMAIN list = 1 .. Len(list)
      /\ DOMAIN s = 1 .. Len(list) /\ Len(s) = Len(list)
      /\ \A j \in 1 .. Len(list) : s[j] = list[j].info
  BY MomentItems
<1>3. /\ l \in Seq(Entries) /\ Len(l) = Len(list) - 1
      /\ \A j \in 1 .. Len(list) - 1 : l[j] = IF j < k THEN list[j] ELSE list[j + 1]
  BY ErasedItems
<1> HIDE DEF l
<1>4. /\ DOMAIN t = 1 .. Len(l) /\ Len(t) = Len(l) /\ \A j \in 1 .. Len(l) : t[j] = l[j].info
  BY <1>3, MomentItems
<1> HIDE DEF s, t
<1>5. \A j \in 1 .. Len(t) : t[j] = IF j < k THEN s[j] ELSE s[j + 1]
  <2>1. \A j \in 1 .. Len(t) : j \in 1 .. Len(list) /\ j + 1 \in 1 .. Len(list) /\ j \in 1 .. Len(list) - 1
    BY <1>2, <1>3, <1>4
  <2> QED
    BY <1>2, <1>3, <1>4, <2>1
<1>6. k \in 1 .. Len(s) /\ s[k].text.bundleName = b /\ Len(t) = Len(s) - 1
  BY <1>1, <1>2, <1>3, <1>4
<1>7. Catalog!Others(s, b) = Catalog!Others(t, b)
  <2>1. Len(s) \in Nat /\ DOMAIN s = 1 .. Len(s) /\ DOMAIN t = 1 .. Len(t)
    BY <1>2, <1>4
  <2> QED
    BY <1>5, <1>6, <2>1, OthersWithout
<1>8. QED
  BY <1>7 DEF s, t, l

-----------------------------------------------------------------------------
(* What is sent of an intact info comes back as it was.                    *)

(* The slots of metadata that were parsed, from the front.                 *)
Slots(p) ==
  [i \in 1 .. MetaDataSize |->
     IF i <= Len(p.metaData) THEN MetaData(p.metaData[i]) ELSE NoMetaData]

EmptySlots(slots) == {i \in 1 .. Len(slots) : ~slots[i].used}

LEMMA SlotsSent ==
  ASSUME NEW T, NEW slots \in Seq(T), Len(slots) = MetaDataSize
  PROVE  LET sent == JsonMetaData(slots)
             back == MetaDataSlots(sent)
         IN  /\ Len(sent) \in 0 .. MetaDataSize
             /\ \A i \in 1 .. MetaDataSize : 
                   back[i] = IF \A j \in EmptySlots(slots) : i < j THEN slots[i] ELSE NoMetaData
<1> DEFINE I == EmptySlots(slots)
           sent == JsonMetaData(slots)
           back == MetaDataSlots(sent)
<1>1. sent = IF I = {} THEN slots ELSE SubSeq(slots, 1, Min(I) - 1)
  <2>1. I # {} => Min(I) \in I
    BY ProfileAssumption, FirstIndex DEF EmptySlots
  <2>2. I # {} => Min(I) # 0
    BY <2>1 DEF EmptySlots
  <2> QED
    BY <2>2 DEF JsonMetaData, SelectInSeq, EmptySlots
<1>2. \A i \in 1 .. MetaDataSize : back[i] = IF i <= Len(sent) THEN sent[i] ELSE NoMetaData
  BY DEF MetaDataSlots
<1> HIDE DEF I, sent, back
<1>3. CASE I = {}
  <2>1. sent = slots /\ Len(sent) = MetaDataSize
    BY <1>1, <1>3
  <2> QED
    BY <1>2, <1>3, <2>1, ProfileAssumption DEF I, sent, back
<1>4. CASE I # {}
  <2>1. Min(I) \in I /\ \A j \in I : Min(I) <= j
    <3>1. IsFiniteSet(I) /\ I \in SUBSET Int
      <4>1. IsFiniteSet(1 .. Len(slots))
        BY ProfileAssumption, FS_Interval
      <4> QED
        BY <4>1, FS_Subset DEF I, EmptySlots
    <3> QED
      BY <1>4, <3>1, MinOfFinite
  <2> DEFINE m == Min(I)
  <2>2. m \in 1 .. MetaDataSize /\ I \subseteq Int
    BY <2>1 DEF I, EmptySlots
  <2>3. sent = SubSeq(slots, 1, m - 1)
    BY <1>1, <1>4
  <2> HIDE DEF m
  <2>4. Len(sent) = m - 1 /\ \A i \in 1 .. m - 1 : sent[i] = slots[i]
    BY <2>2, <2>3, ProfileAssumption, SubSeqProperties
  <2>5. ASSUME NEW i \in 1 .. MetaDataSize
        PROVE  back[i] = IF \A j \in I : i < j THEN slots[i] ELSE NoMetaData
    <3>1. (\A j \in I : i < j) <=> i < m
      <4>1. ASSUME i < m, NEW j \in I PROVE i < j
        BY <2>1, <2>2, <4>1 DEF m
      <4> QED
        BY <2>1, <4>1 DEF m
    <3>2. i < m <=> i <= Len(sent)
      BY <2>2, <2>4
    <3>3. i < m => sent[i] = slots[i]
      BY <2>2, <2>4
    <3> QED
      BY <1>2, <3>1, <3>2, <3>3
  <2> QED
    BY <2>2, <2>4, <2>5 DEF I, sent, back
<1>5. QED
  BY <1>3, <1>4 DEF I, sent, back

LEMMA SlotsOfProfile ==
  ASSUME NEW p, Len(p.metaData) \in Nat
  PROVE  /\ Slots(p) \in Seq(Range(Slots(p))) /\ Len(Slots(p)) = MetaDataSize
         /\ Len(JsonMetaData(Slots(p))) \in 0 .. MetaDataSize
         /\ MetaDataSlots(JsonMetaData(Slots(p))) = Slots(p)
<1> DEFINE slots == Slots(p)
<1>1. \A i \in 1 .. MetaDataSize :
        /\ slots[i].used <=> i <= Len(p.metaData)
        /\ ~slots[i].used => slots[i] = NoMetaData
  BY DEF Slots, MetaData, NoMetaData
<1>2. DOMAIN slots = 1 .. MetaDataSize /\ slots = [i \in 1 .. MetaDataSize |-> slots[i]]
  BY DEF Slots
<1> HIDE DEF slots
<1>3. slots \in Seq(Range(slots)) /\ Len(slots) = MetaDataSize
  BY <1>2, ProfileAssumption DEF Range
<1> DEFINE back == MetaDataSlots(JsonMetaData(slots))
<1>4. /\ Len(JsonMetaData(slots)) \in 0 .. MetaDataSize
      /\ \A i \in 1 .. MetaDataSize :
           back[i] = IF \A j \in EmptySlots(slots) : i < j THEN slots[i] ELSE NoMetaData
  BY <1>3, SlotsSent
<1>5. ASSUME NEW i \in 1 .. MetaDataSize PROVE back[i] = slots[i]
  <2>1. CASE slots[i].used
    <3>1. \A j \in EmptySlots(slots) : i < j
      BY <1>1, <1>3, <2>1, ProfileAssumption DEF EmptySlots
    <3> QED
      BY <1>4, <3>1
  <2>2. CASE ~slots[i].used
    BY <1>1, <1>4, <2>2
  <2> QED
    BY <2>1, <2>2
<1>6. back = [i \in 1 .. MetaDataSize |-> back[i]]
  BY DEF MetaDataSlots
<1> HIDE DEF back
<1>7. back = slots
  BY <1>2, <1>5, <1>6
<1>8. QED
  BY <1>3, <1>4, <1>7 DEF slots, back

IsRecord(x) == x = [f \in DOMAIN x |-> x[f]]

Back(x) == FromJson(Json(x))

LEMMA JsonAndBack ==
  ASSUME NEW x, IsRecord(x), "modules" \in DOMAIN x
  PROVE  /\ DOMAIN Json(x) = DOMAIN x /\ DOMAIN Back(x) = DOMAIN x /\ IsRecord(Back(x))
         /\ \A f \in DOMAIN x \ {"modules"} : Json(x)[f] = x[f] /\ Back(x)[f] = x[f]
         /\ x.modules = <<>> => Json(x).modules = <<>> /\ Back(x).modules = <<>>
         /\ \A m : x.modules = <<m>> /\ "metaData" \in DOMAIN m =>
              LET sent == JsonMetaData(m.metaData)
              IN  /\ Json(x).modules = <<[m EXCEPT !.metaData = sent]>>
                  /\ Back(x).modules = <<[m EXCEPT !.metaData = MetaDataSlots(sent)]>>
<1> DEFINE sentModules == [k \in DOMAIN x.modules |->
             [x.modules[k] EXCEPT !.metaData = JsonMetaData(x.modules[k].metaData)]]
           y == Json(x)
<1>1. y = [x EXCEPT !.modules = sentModules]
  BY DEF Json, JsonModule
<1>2. y.modules = sentModules /\ DOMAIN y = DOMAIN x /\ IsRecord(y)
      /\ \A f \in DOMAIN x \ {"modules"} : y[f] = x[f]
  BY <1>1 DEF IsRecord
<1> HIDE DEF y
<1> DEFINE backModules == [k \in DOMAIN y.modules |->
             IF k = 1 THEN FromJsonModule(y.modules[Len(y.modules)])
                      ELSE ZeroedModule(y.modules[k])]
           z == Back(x)
<1>3. z = [y EXCEPT !.modules = backModules]
  BY DEF Back, FromJson, y
<1> HIDE DEF z
<1>4. z.modules = backModules /\ DOMAIN z = DOMAIN x /\ IsRecord(z)
      /\ \A f \in DOMAIN x \ {"modules"} : z[f] = x[f]
  BY <1>2, <1>3, Zenon DEF IsRecord
<1>5. ASSUME x.modules = <<>> PROVE y.modules = <<>> /\ z.modules = <<>>
  <2>1. y.modules = <<>>
    BY <1>2, <1>5
  <2> QED
    BY <1>4, <2>1
<1>6. ASSUME NEW m, x.modules = <<m>>, "metaData" \in DOMAIN m
      PROVE  LET sent == JsonMetaData(m.metaData)
              IN  /\ y.modules = <<[m EXCEPT !.metaData = sent]>>
                  /\ z.modules = <<[m EXCEPT !.metaData = MetaDataSlots(sent)]>>
  <2> DEFINE sent == JsonMetaData(m.metaData)
             m1 == [m EXCEPT !.metaData = sent]
             m2 == [m EXCEPT !.metaData = MetaDataSlots(sent)]
  <2>1. DOMAIN <<m>> = {1} /\ <<m>>[1] = m
    OBVIOUS
  <2> HIDE DEF sent
  <2>2. y.modules = <<m1>>
    <3>1. y.modules = [k \in {1} |-> m1]
      BY <1>2, <1>6, <2>1 DEF sent
    <3>2. \A v : [k \in {1} |-> v] = <<v>>
      OBVIOUS
    <3> QED
      BY <3>1, <3>2
  <2>3. DOMAIN <<m1>> = {1} /\ <<m1>>[1] = m1
    OBVIOUS
  <2>4. m1.metaData = sent /\ [m1 EXCEPT !.metaData = MetaDataSlots(sent)] = m2
    BY <1>6
  <2> HIDE DEF m1, m2
  <2>5. z.modules = <<m2>>
    <3>1. z.modules = [k \in {1} |-> m2]
      <4>1. Len(<<m1>>) = 1
        OBVIOUS
      <4> QED
        BY <1>4, <2>2, <2>3, <2>4, <4>1 DEF FromJsonModule
    <3>2. \A v : [k \in {1} |-> v] = <<v>>
      OBVIOUS
    <3> QED
      BY <3>1, <3>2
  <2> QED
    BY <2>2, <2>5 DEF m1, m2, sent
<1>7. QED
  BY <1>2, <1>4, <1>5, <1>6, Zenon DEF y, z

(* What an intact info is made of.                                         *)
LEMMA InfoParts ==
  ASSUME NEW info \in Infos
  PROVE  /\ IsRecord(info) /\ HasCounters(info)
         /\ {"text", "uid", "versionCode", "isKeepAlive", "isSystemApp"} \subseteq DOMAIN info
         /\ HasTexts(info, InfoTexts)
         /\ info.numOfModule = 1 /\ info.numOfAbility = Len(info.abilities)
         /\ \E m : /\ info.modules = <<m>> /\ IsRecord(m)
                   /\ {"text", "deviceType", "metaData"} \subseteq DOMAIN m
                   /\ ModuleWritten(m)
                   /\ m.metaData \in Seq(Range(m.metaData))
                   /\ Len(m.metaData) = MetaDataSize
                   /\ Len(JsonMetaData(m.metaData)) \in 0 .. MetaDataSize
                   /\ MetaDataSlots(JsonMetaData(m.metaData)) = m.metaData
                   /\ \A i \in 1 .. MetaDataSize :
                        /\ {"used", "name", "value", "extra"} = DOMAIN m.metaData[i]
                        /\ ~m.metaData[i].used => m.metaData[i] = NoMetaData
                   /\ Len(m.deviceType) \in 1 .. DeviceTypeSize
         /\ info.abilities \in Seq(Range(info.abilities))
         /\ \A k \in DOMAIN info.abilities : AbilityWritten(info.abilities[k])
<1>1. PICK x \in DOMAIN Profiles, place \in Places,
          uid \in UNION {Uids[b] : b \in Bundles}, isSystemApp \in BOOLEAN :
        /\ DeviceTypeAccepted(Profiles[x]) /\ Profiles[x].bundleName \in Bundles
        /\ info = InstalledInfo(Profiles[x], place, uid, isSystemApp)
  BY DEF Infos
<1> DEFINE p == Profiles[x]
<1>2. /\ p.metaData \in Seq(Range(p.metaData)) /\ p.abilities \in Seq(Range(p.abilities))
  BY QueriesAssumption
<1> HIDE DEF p
<1> DEFINE plain == SetBundleInfo(p, place)
<1>3. /\ IsRecord(info) /\ HasCounters(info)
      /\ {"text", "uid", "versionCode", "isKeepAlive", "isSystemApp"} \subseteq DOMAIN info
  <2>1. info = [[[plain EXCEPT !.text.appId = "appId"] EXCEPT !.uid = uid]
                   EXCEPT !.isSystemApp = isSystemApp]
    BY <1>1 DEF InstalledInfo, Owned, p
  <2>2. {"text", "uid", "versionCode", "isKeepAlive", "isSystemApp", "modules", "numOfModule",
         "abilities", "numOfAbility"} \subseteq DOMAIN plain
    BY DEF SetBundleInfo
  <2> HIDE DEF plain
  <2>3. DOMAIN info = DOMAIN plain /\ IsRecord(info)
    BY <2>1 DEF IsRecord
  <2> QED
    BY <2>2, <2>3 DEF HasCounters
<1>4. /\ info.modules = SetModuleInfos(p) /\ info.numOfModule = 1
      /\ info.abilities = [i \in DOMAIN p.abilities |-> SetAbilityInfo(p, p.abilities[i])]
      /\ info.numOfAbility = Len(p.abilities)
  BY <1>1 DEF InstalledInfo, Owned, SetBundleInfo, p
<1>5. /\ info.abilities \in Seq(Range(info.abilities)) /\ info.numOfAbility = Len(info.abilities)
      /\ DOMAIN info.abilities = 1 .. Len(info.abilities)
  <2>1. Len(p.abilities) \in Nat /\ DOMAIN p.abilities = 1 .. Len(p.abilities)
    BY <1>2, LenProperties
  <2>2. info.abilities = [i \in 1 .. Len(p.abilities) |-> SetAbilityInfo(p, p.abilities[i])]
    BY <1>4, <2>1
  <2>3. info.abilities \in Seq(Range(info.abilities)) /\ Len(info.abilities) = Len(p.abilities)
    BY <2>1, <2>2 DEF Range
  <2> QED
    BY <1>4, <2>1, <2>2, <2>3
<1>6. Copied(info, 1) = info
  <2>1. info.modules # <<>> /\ (info.abilities = <<>> => info.numOfAbility = 0)
    BY <1>4, <1>5 DEF SetModuleInfos
  <2> QED
    BY <1>3, <2>1 DEF Copied, IsRecord, HasCounters
<1>7. Serialized(info) = "ok"
  BY <1>6, InfosAnswerable
<1>8. HasTexts(info, InfoTexts) /\ ModulesWritten(info)
  BY <1>7 DEF Serialized
<1>9. \A k \in DOMAIN info.abilities : AbilityWritten(info.abilities[k])
  BY <1>5, <1>7, <1>8, LenProperties DEF Serialized
<1>10. PICK m : info.modules = <<m>> /\ m = SetModuleInfos(p)[1]
  BY <1>4 DEF SetModuleInfos
<1>11. /\ IsRecord(m) /\ {"text", "deviceType", "metaData"} \subseteq DOMAIN m
       /\ m.metaData = Slots(p) /\ m.deviceType = p.deviceType
  BY <1>10 DEF SetModuleInfos, IsRecord, Slots
<1>12. ModuleWritten(m)
  BY <1>8, <1>10 DEF ModulesWritten
<1>13. /\ Slots(p) \in Seq(Range(Slots(p))) /\ Len(Slots(p)) = MetaDataSize
       /\ Len(JsonMetaData(Slots(p))) \in 0 .. MetaDataSize
       /\ MetaDataSlots(JsonMetaData(Slots(p))) = Slots(p)
  BY <1>2, SlotsOfProfile, LenProperties
<1>14. \A i \in 1 .. MetaDataSize :
         /\ {"used", "name", "value", "extra"} = DOMAIN Slots(p)[i]
         /\ ~Slots(p)[i].used => Slots(p)[i] = NoMetaData
  BY DEF Slots, MetaData, NoMetaData
<1>15. Len(m.deviceType) \in 1 .. DeviceTypeSize
  BY <1>10, InfosCounted DEF Range
<1>16. QED
  BY <1>3, <1>4, <1>5, <1>8, <1>9, <1>10, <1>11, <1>12, <1>13, <1>14, <1>15

LEMMA CatalogAnswers ==
  /\ \A code_ : Catalog!Error(code_) = Failed(code_)
  /\ \A infos : Catalog!Infos(infos) = Reply("ok", infos, <<>>, Null)
  /\ \A ability : Catalog!AnAbility(ability) = Reply("ok", <<>>, <<ability>>, Null)
  /\ \A text : Catalog!Text(text) = Reply("ok", <<>>, <<>>, text)
  /\ Catalog!Nothing = NoReply /\ Catalog!Null = Null
  /\ \A info, flag : Catalog!Shown(info, flag) = ShallowCopy(info, flag)
  /\ \A infos : Catalog!TooLong(infos) = TooLong(infos)
  /\ Catalog!AbilityTooLong = AbilityTooLong
<1>1. Catalog!Null = Null
  BY DEF Catalog!Null, Null
<1>2. Catalog!Nothing = NoReply
  BY <1>1 DEF Catalog!Nothing, NoReply, Failed, Reply
<1>3. \A code_ : Catalog!Error(code_) = Failed(code_)
  BY <1>2 DEF Catalog!Error, NoReply, Failed, Reply
<1>4. \A infos : Catalog!Infos(infos) = Reply("ok", infos, <<>>, Null)
  BY <1>3 DEF Catalog!Infos, Failed, Reply
<1>5. \A ability : Catalog!AnAbility(ability) = Reply("ok", <<>>, <<ability>>, Null)
  BY <1>3 DEF Catalog!AnAbility, Failed, Reply
<1>6. \A text : Catalog!Text(text) = Reply("ok", <<>>, <<>>, text)
  BY <1>3 DEF Catalog!Text, Failed, Reply
<1>7. \A info, flag : Catalog!Shown(info, flag) = ShallowCopy(info, flag)
  BY DEF Catalog!Shown, ShallowCopy
<1>8. \A infos : Catalog!TooLong(infos) = TooLong(infos)
  BY DEF Catalog!TooLong, TooLong, Catalog!Weight, Weight, Catalog!FoldLeft, FoldLeft,
         Catalog!MapThenFoldSet, MapThenFoldSet, Catalog!Max, Max
<1>9. Catalog!AbilityTooLong = AbilityTooLong
  BY DEF Catalog!AbilityTooLong, AbilityTooLong
<1>10. QED
  BY <1>1, <1>2, <1>3, <1>4, <1>5, <1>6, <1>7, <1>8, <1>9

LEMMA SameCopy ==
  ASSUME NEW info \in Infos, NEW flag
  PROVE  Copied(info, flag) = ShallowCopy(info, flag) /\ (flag = 1 => Copied(info, flag) = info)
<1>1. /\ IsRecord(info) /\ HasCounters(info) /\ info.modules # <<>>
      /\ info.abilities = <<>> => info.numOfAbility = 0
  BY InfoParts, InfosCounted DEF Countable
<1>2. CASE flag = 1
  BY <1>1, <1>2 DEF Copied, ShallowCopy, IsRecord, HasCounters
<1>3. CASE flag # 1
  BY <1>1, <1>3 DEF Copied, ShallowCopy, IsRecord, HasCounters
<1>4. QED
  BY <1>2, <1>3

LEMMA IntactCopy ==
  ASSUME NEW info \in Infos, NEW flag
  PROVE  LET c == Copied(info, flag)
         IN  /\ Serialized(c) = "ok" /\ JsonAccepted(Json(c)) /\ Back(c) = c
             /\ c.text = info.text /\ c.uid = info.uid
             /\ \A f : Copied(c, f) = ShallowCopy(c, f)
             /\ Copied(c, flag) = c /\ Copied(c, 1) = c
<1> DEFINE c == Copied(info, flag)
<1>1. /\ IsRecord(info) /\ HasCounters(info) /\ info.modules # <<>>
      /\ {"text", "uid"} \subseteq DOMAIN info
      /\ info.abilities = <<>> => info.numOfAbility = 0
      /\ HasTexts(info, InfoTexts) /\ info.numOfModule = 1
  BY InfoParts, InfosCounted DEF Countable
<1>2. PICK m : /\ info.modules = <<m>> /\ IsRecord(m)
               /\ {"text", "deviceType", "metaData"} \subseteq DOMAIN m
               /\ ModuleWritten(m) /\ Len(m.deviceType) \in 1 .. DeviceTypeSize
               /\ Len(JsonMetaData(m.metaData)) \in 0 .. MetaDataSize
               /\ MetaDataSlots(JsonMetaData(m.metaData)) = m.metaData
  BY InfoParts
<1>3. c = [info EXCEPT !.abilities = IF flag = 1 THEN @ ELSE <<>>,
                       !.numOfAbility = IF flag = 1 THEN @ ELSE 0]
  BY <1>1, SameCopy, Zenon DEF ShallowCopy, IsRecord, HasCounters
<1>4. /\ IsRecord(c) /\ HasCounters(c) /\ DOMAIN c = DOMAIN info
      /\ c.text = info.text /\ c.modules = info.modules /\ c.numOfModule = 1 /\ c.uid = info.uid
      /\ c.abilities = IF flag = 1 THEN info.abilities ELSE <<>>
      /\ c.numOfAbility = IF flag = 1 THEN info.numOfAbility ELSE 0
  BY <1>1, <1>3 DEF IsRecord, HasCounters
<1> HIDE DEF c
<1>5. /\ c.numOfAbility = Len(c.abilities) /\ \A k \in DOMAIN c.abilities : AbilityWritten(c.abilities[k])
  BY <1>4, InfoParts
<1>6. HasTexts(c, InfoTexts)
  BY <1>1, <1>4 DEF HasTexts
<1>7. ModulesWritten(c)
  <2>1. DOMAIN <<m>> = {1} /\ <<m>>[1] = m
    OBVIOUS
  <2> QED
    BY <1>1, <1>2, <1>4, <2>1 DEF ModulesWritten
<1>8. c.abilities = <<>> => c.numOfAbility = 0
  BY <1>5
<1>9. Serialized(c) = "ok"
  BY <1>5, <1>6, <1>7, <1>8 DEF Serialized
<1> DEFINE m1 == [m EXCEPT !.metaData = JsonMetaData(m.metaData)]
           m2 == [m EXCEPT !.metaData = MetaDataSlots(JsonMetaData(m.metaData))]
<1>10. /\ Json(c).modules = <<m1>> /\ Back(c).modules = <<m2>>
       /\ IsRecord(Back(c)) /\ DOMAIN Back(c) = DOMAIN c
       /\ \A f \in DOMAIN c \ {"modules"} : Json(c)[f] = c[f] /\ Back(c)[f] = c[f]
  <2>1. "modules" \in DOMAIN c
    BY <1>4 DEF HasCounters
  <2> QED
    BY <1>2, <1>4, <2>1, JsonAndBack
<1>11. m2 = m
  BY <1>2 DEF IsRecord
<1>12. Back(c) = c
  BY <1>2, <1>4, <1>10, <1>11 DEF IsRecord
<1>13. JsonAccepted(Json(c))
  <2>1. /\ Json(c).text = c.text /\ Json(c).numOfModule = 1
        /\ Json(c).abilities = c.abilities /\ Json(c).numOfAbility = c.numOfAbility
    BY <1>1, <1>4, <1>10 DEF HasCounters
  <2>2. HasTexts(Json(c), InfoTexts)
    BY <1>6, <2>1 DEF HasTexts
  <2>3. JsonModuleAccepted(m1)
    <3>1. m1.text = m.text /\ m1.deviceType = m.deviceType /\ m1.metaData = JsonMetaData(m.metaData)
      BY <1>2
    <3> QED
      BY <1>2, <3>1 DEF JsonModuleAccepted, ModuleWritten, HasTexts
  <2> HIDE DEF m1
  <2>4. Len(<<m1>>) = 1 /\ DOMAIN <<m1>> = {1} /\ <<m1>>[1] = m1
    OBVIOUS
  <2> QED
    BY <1>5, <1>10, <2>1, <2>2, <2>3, <2>4 DEF JsonAccepted
<1>14. \A f : Copied(c, f) = ShallowCopy(c, f)
  <2>1. ASSUME NEW f PROVE Copied(c, f) = ShallowCopy(c, f)
    <3>1. CASE f = 1
      BY <1>1, <1>4, <1>8, <3>1 DEF Copied, ShallowCopy, IsRecord, HasCounters
    <3>2. CASE f # 1
      BY <1>1, <1>4, <1>8, <3>2 DEF Copied, ShallowCopy, IsRecord, HasCounters
    <3> QED
      BY <3>1, <3>2
  <2> QED
    BY <2>1
<1>15. Copied(c, flag) = c /\ Copied(c, 1) = c
  <2>1. Copied(c, 1) = c
    BY <1>14 DEF ShallowCopy
  <2>2. CASE flag = 1
    BY <2>1, <2>2
  <2>3. CASE flag # 1
    <3>1. c.abilities = <<>> /\ c.numOfAbility = 0 /\ {"abilities", "numOfAbility"} \subseteq DOMAIN c
      BY <1>4, <2>3 DEF HasCounters
    <3>2. [c EXCEPT !.abilities = <<>>, !.numOfAbility = 0] = c
      BY <1>4, <3>1 DEF IsRecord
    <3> QED
      BY <1>14, <2>3, <3>2 DEF ShallowCopy
  <2> QED
    BY <2>1, <2>2, <2>3
<1>16. QED
  BY <1>4, <1>9, <1>12, <1>13, <1>14, <1>15 DEF c

LEMMA Refused ==
  \A code_, q : Received(Failed(code_), q) = Failed(code_)
<1>1. SUFFICES ASSUME NEW code_, NEW q PROVE Received(Failed(code_), q) = Failed(code_)
  OBVIOUS
<1> DEFINE r == Failed(code_)
<1>2. r.infos = <<>> /\ r.abilities = <<>>
  BY DEF Failed, Reply
<1>3. [r EXCEPT !.infos = <<>>] = r
  BY DEF Failed, Reply
<1> HIDE DEF r
<1>4. Received(r, q) = r
  <2>1. [k \in DOMAIN r.infos |-> Copied(FromJson(r.infos[k]), ClientFlag(q))] = <<>>
    BY <1>2
  <2> QED
    BY <1>2, <1>3, <2>1 DEF Received
<1>5. QED
  BY <1>4 DEF r

(* An answer about intact infos arrives, if it is not too long.            *)
LEMMA IntactAnswer ==
  ASSUME NEW infos \in Seq(Copies), NEW q
  PROVE  Received(InfosReply(infos), q) =
           IF TooLong(infos) THEN Failed("serialization")
           ELSE Reply("ok", [k \in DOMAIN infos |-> Copied(infos[k], ClientFlag(q))], <<>>, Null)
<1>1. \A k \in DOMAIN infos :
        /\ Serialized(infos[k]) = "ok" /\ JsonAccepted(Json(infos[k])) /\ Back(infos[k]) = infos[k]
  BY IntactCopy, ElementOfSeq DEF Copies
<1>2. Len(infos) \in Nat /\ DOMAIN infos = 1 .. Len(infos)
  BY LenProperties
<1>3. SerializedAll(infos) = "ok"
  <2>1. {i \in 1 .. Len(infos) : Serialized(infos[i]) # "ok"} = {}
    BY <1>1, <1>2
  <2> QED
    BY <2>1 DEF SerializedAll, SelectInSeq
<1> DEFINE r == Reply("ok", [k \in DOMAIN infos |-> Json(infos[k])], <<>>, Null)
<1>4. InfosReply(infos) = IF TooLong(infos) THEN Failed("serialization") ELSE r
  BY <1>3 DEF InfosReply, Written
<1>5. Received(r, q) = Reply("ok", [k \in DOMAIN infos |-> Copied(infos[k], ClientFlag(q))], <<>>, Null)
  <2>1. /\ DOMAIN r.infos = DOMAIN infos /\ r.abilities = <<>>
        /\ \A k \in DOMAIN infos : r.infos[k] = Json(infos[k])
    BY DEF Reply
  <2>2. \A v : [r EXCEPT !.infos = v] = Reply("ok", v, <<>>, Null)
    <3>1. \A v, w : [Reply("ok", w, <<>>, Null) EXCEPT !.infos = v] = Reply("ok", v, <<>>, Null)
      BY DEF Reply
    <3> QED
      BY <3>1
  <2> HIDE DEF r
  <2>3. [k \in DOMAIN r.infos |-> Copied(FromJson(r.infos[k]), ClientFlag(q))]
          = [k \in DOMAIN infos |-> Copied(infos[k], ClientFlag(q))]
    BY <1>1, <2>1 DEF Back
  <2> QED
    BY <1>1, <2>1, <2>2, <2>3 DEF Received
<1> HIDE DEF r
<1>6. QED
  BY <1>4, <1>5, Refused

-----------------------------------------------------------------------------
(* The theorems.                                                           *)

(* Every installed info can be sent, whatever profiles are installed.      *)
THEOREM EveryInfoAnswerable == Spec => []InstalledAnswerable
<1>1. QueriesInv => InstalledAnswerable
  <2>1. SUFFICES ASSUME list \in Seq(Entries), NEW k \in DOMAIN list
                 PROVE  Serialized(Copied(list[k].info, 1)) = "ok"
    BY DEF QueriesInv, StateInv, InstalledAnswerable
  <2>2. list[k].info \in Infos
    BY <2>1, ElementOfSeq, EntryNames
  <2> QED
    BY <2>2, InfosAnswerable
<1>2. QED
  BY <1>1, QueriesInvariant, PTL

(* BundleMap lists no bundle twice, until CLEAR_INSTALL_ENV frees an info  *)
(* that is listed.                                                         *)
THEOREM NoBundleTwice == Spec => []ListedOnce
<1>1. QueriesInv => ListedOnce
  BY DEF QueriesInv, MatchInv, Sound, ListedOnce
<1>2. QED
  BY <1>1, QueriesInvariant, PTL

(* What is listed agrees with the directories and records, through         *)
(* installs, updates, removals and any number of boots.                    *)
THEOREM ListIsOnDisk == Spec => []ListMatchesDisk
<1>1. QueriesInv => ListMatchesDisk
  <2>1. SUFFICES ASSUME QueriesInv, ~cleared, NEW b \in Bundles \ (toLoad \cup {installing})
                 PROVE  LET at == {k \in DOMAIN list : Name(list[k]) = b}
                        IN  /\ at # {} => code[b] # NoCode /\ record[b] # None
                            /\ code[b] # NoCode /\ record[b] \notin {None, NoUid} =>
                                 \E k \in at : list[k].info = OnDisk(b, record[b])
    BY DEF ListMatchesDisk, OnDisk
  <2>2. Matches(b) /\ b # installing
    BY <2>1 DEF QueriesInv, MatchInv
  <2> DEFINE at == {k \in DOMAIN list : Name(list[k]) = b}
  <2>3. Listed(list, b) = {list[k].info : k \in at}
    BY DEF Listed
  <2>4. at # {} => code[b] # NoCode /\ record[b] # None
    BY <2>2, <2>3 DEF Matches
  <2>5. ASSUME code[b] # NoCode, record[b] \notin {None, NoUid}
        PROVE  \E k \in at : list[k].info = OnDisk(b, record[b])
    BY <2>2, <2>3, <2>5 DEF Matches
  <2> QED
    BY <2>4, <2>5
<1>2. QED
  BY <1>1, QueriesInvariant, PTL

(* On intact infos no query reads through null: when the service crashed,  *)
(* an allocation of a query had failed, its bundle was freed meanwhile, or *)
(* CLEAR_INSTALL_ENV had left a freed info in the list.                    *)
THEOREM CrashesExplained == Spec => []CrashExplained
<1>1. ShapeInv => CrashExplained
  BY DEF ShapeInv
<1>2. QED
  BY <1>1, ShapeInvariant, PTL

(* The counters of every info agree with its arrays, and every bundle has  *)
(* a uid that GenerateUid may have found for it.                           *)
THEOREM QueriesTyped == Spec => []TypeOK
<1>1. ASSUME QueriesInv, ShapeInv PROVE TypeOK
  <2>1. /\ list \in Seq(Entries) /\ CallInv /\ UidInv /\ FlagInv
        /\ code \in [Bundles -> Codes] /\ installing \in Bundles \cup {None}
        /\ toLoad \subseteq Bundles
    BY <1>1 DEF QueriesInv, StateInv, ShapeInv, Loadable
  <2>2. ASSUME NEW k \in DOMAIN list PROVE list[k].freed \in BOOLEAN /\ InfoShape(list[k].info)
    <3>1. /\ list[k].info \in Infos /\ list[k].freed \in BOOLEAN
          /\ list[k].info.text.bundleName \in Bundles
      BY <2>1, ElementOfSeq, EntryNames DEF Name
    <3>2. list[k].info.uid \in Uids[list[k].info.text.bundleName]
      BY <2>1 DEF UidInv, Name
    <3> QED
      BY <3>1, <3>2, InfosCounted DEF InfoShape
  <2>3. \A b \in Bundles : /\ code[b].profile \in DOMAIN Profiles \cup {None}
                           /\ code[b].place \in Places \cup {None}
                           /\ record[b] \in Uids[b] \cup {None}
    BY <2>1 DEF Codes, UidInv
  <2>4. ASSUME NEW c \in Clients
        PROVE  /\ call[c].phase \in {"idle", "asked", "looked", "read", "done"}
               /\ call[c].question \in Questions \cup {NoQuestion}
               /\ Len(call[c].pointer) <= 1 /\ call[c].starved \in BOOLEAN
    <3>1. CallShape(call[c])
      BY <2>1 DEF CallInv
    <3>2. Len(<<>>) <= 1 /\ \A e : Len(<<e>>) <= 1
      OBVIOUS
    <3> QED
      BY <3>1, <3>2 DEF CallShape
  <2> QED
    BY <2>1, <2>2, <2>3, <2>4 DEF TypeOK, FlagInv
<1>2. QED
  BY <1>1, ShapeInvariant, PTL
=============================================================================
