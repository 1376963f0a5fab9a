------------------------ MODULE BundleCatalogProofs -------------------------
(***************************************************************************)
(* BundleQueries implements BundleCatalog, for all bundles, profiles and   *)
(* questions, sizes of arrays and numbers of changes.                      *)
(*                                                                         *)
(* Without a failed allocation an answer fits the moment (Fitting); with   *)
(* one it is made of infos that lost something (LostInfo, Decent), which is*)
(* all that BundleCatalog asks of it (Honest).  RightCall says so of the   *)
(* replies under way; each step of BundleQueries then maps (Maps).         *)
(***************************************************************************)
EXTENDS BundleQueriesProofs

-----------------------------------------------------------------------------
(* Answers are right when no allocation failed.                            *)

Fitting(answer, moment, q) ==
  \/ answer \in Catalog!Right(moment, q)
  \/ answer = Catalog!Error("serialization") /\ Catalog!TooLong(Catalog!Asked(moment, q))
  \/ answer = Catalog!Error("serialization") /\ q.kind = "ability" /\ Catalog!AbilityTooLong

(* A text arrives as it was sent.                                          *)
LEMMA TextArrives ==
  \A text, q : Received(Reply("ok", <<>>, <<>>, text), q) = Reply("ok", <<>>, <<>>, text)
<1>1. SUFFICES ASSUME NEW text, NEW q
      PROVE  Received(Reply("ok", <<>>, <<>>, text), q) = Reply("ok", <<>>, <<>>, text)
  OBVIOUS
<1> DEFINE r == Reply("ok", <<>>, <<>>, text)
<1>2. r.infos = <<>> /\ r.abilities = <<>>
  BY DEF Reply
<1>3. [r EXCEPT !.infos = <<>>] = r
  BY DEF Reply
<1> HIDE DEF r
<1>4. Received(r, q) = r
  <2>1. [k \in DOMAIN r.infos |-> Copied(FromJson(r.infos[k]), ClientFlag(q))] = <<>>
    BY <1>2
  <2> QED
    BY <1>2, <1>3, <2>1 DEF Received
<1>5. QED
  BY <1>4 DEF r

(* So does an ability that could be written.                               *)
LEMMA AbilityArrives ==
  ASSUME NEW ability, AbilityWritten(ability), NEW q
  PROVE  Received(Reply("ok", <<>>, <<ability>>, Null), q) = Reply("ok", <<>>, <<ability>>, Null)
<1> DEFINE r == Reply("ok", <<>>, <<ability>>, Null)
<1>1. r.infos = <<>> /\ r.abilities = <<ability>>
  BY DEF Reply
<1>2. [r EXCEPT !.infos = <<>>] = r
  BY DEF Reply
<1> HIDE DEF r
<1>4. Received(r, q) = r
  <2>1. [k \in DOMAIN r.infos |-> Copied(FromJson(r.infos[k]), ClientFlag(q))] = <<>>
    BY <1>1
  <2>2. DOMAIN <<ability>> = {1} /\ <<ability>>[1] = ability
    OBVIOUS
  <2> QED
    BY <1>1, <1>2, <2>1, <2>2 DEF Received
<1>5. QED
  BY <1>4 DEF r

(* The answer about a listed bundle is the one of the moment.              *)
LEMMA RightAboutOne ==
  ASSUME NEW moment \in Seq(Infos), Distinct(moment), NEW i \in DOMAIN moment, NEW q,
         q.kind \in OneBundle, q.bundle = moment[i].text.bundleName
  PROVE  Fitting(Received(PointerReply(moment[i], q), q), moment, q)
<1> DEFINE info == moment[i]
<1>1. info \in Infos
  BY ElementOfSeq
<1>2. Catalog!Named(moment, q.bundle) = <<info>>
  BY NamedIs
<1>3. DOMAIN <<info>> = {1} /\ <<info>>[1] = info /\ Head(<<info>>) = info /\ <<info>> # <<>>
  OBVIOUS
<1> HIDE DEF info
<1>4. CASE q.kind = "info"
  <2> DEFINE c == ShallowCopy(info, q.flag)
  <2>1. c = Copied(info, q.flag) /\ c \in Copies
    BY <1>1, SameCopy, CopyIsCopy
  <2>2. Copied(c, q.flag) = c
    BY <1>1, <2>1, IntactCopy
  <2> HIDE DEF c
  <2>3. Received(InfosReply(<<c>>), q)
          = IF TooLong(<<c>>) THEN Failed("serialization") ELSE Reply("ok", <<c>>, <<>>, Null)
    <3>1. <<c>> \in Seq(Copies) /\ DOMAIN <<c>> = {1} /\ <<c>>[1] = c
      BY <2>1
    <3>2. [k \in DOMAIN <<c>> |-> Copied(<<c>>[k], ClientFlag(q))] = <<c>>
      <4>1. [k \in DOMAIN <<c>> |-> Copied(<<c>>[k], ClientFlag(q))] = [k \in {1} |-> c]
        BY <1>4, <2>2, <3>1 DEF ClientFlag
      <4>2. [k \in {1} |-> c] = <<c>>
        OBVIOUS
      <4> QED
        BY <4>1, <4>2
    <3> QED
      BY <3>1, <3>2, IntactAnswer
  <2>4. Catalog!Asked(moment, q) = <<c>>
    <3>1. Catalog!Asked(moment, q) = [k \in DOMAIN Catalog!Named(moment, q.bundle) |->
                             Catalog!Shown(Catalog!Named(moment, q.bundle)[k], q.flag)]
      BY <1>4 DEF Catalog!Asked
    <3>2. Catalog!Asked(moment, q) = [k \in {1} |-> c]
      BY <1>2, <1>3, <3>1, CatalogAnswers DEF c
    <3> QED
      BY <3>2
  <2>5. Catalog!Right(moment, q) = {Catalog!Infos(<<c>>)}
    BY <1>4, <2>4 DEF Catalog!Right
  <2> QED
    BY <1>4, <2>3, <2>4, <2>5, CatalogAnswers DEF Fitting, PointerReply, c, info
<1>5. CASE q.kind = "ability"
  <2> DEFINE k == FindAbility(info, q.key)
             I == {j \in 1 .. Len(info.abilities) : info.abilities[j].text.name = q.key}
  <2>1. k = IF I # {} THEN Min(I) ELSE 0
    BY DEF FindAbility, SelectInSeq
  <2>2. Len(info.abilities) \in Nat /\ DOMAIN info.abilities = 1 .. Len(info.abilities)
        /\ \A j \in DOMAIN info.abilities : AbilityWritten(info.abilities[j])
    BY <1>1, InfoParts, LenProperties
  <2>3. I # {} => Min(I) \in I
    BY <2>2, FirstIndex
  <2>4. Catalog!Abilities(moment, q) = {a \in Range(info.abilities) : a.text.name = q.key}
    <3>1. Range(<<info>>) = {info}
      BY <1>3 DEF Range
    <3> QED
      BY <1>2, <3>1, CatalogLists DEF Catalog!Abilities
  <2>5. Catalog!Right(moment, q) = IF Catalog!Abilities(moment, q) = {} THEN {Failed("noInfos")}
          ELSE {Reply("ok", <<>>, <<a>>, Null) : a \in Catalog!Abilities(moment, q)}
    BY <1>5, CatalogAnswers DEF Catalog!Right
  <2>6. CASE I = {}
    <3>1. Catalog!Abilities(moment, q) = {}
      BY <2>2, <2>4, <2>6 DEF Range
    <3>2. PointerReply(info, q) = Failed("noInfos")
      BY <1>5, <2>1, <2>6 DEF PointerReply
    <3> QED
      BY <2>5, <3>1, <3>2, Refused DEF Fitting, info
  <2>7. CASE I # {}
    <3>1. k \in DOMAIN info.abilities /\ k # 0 /\ info.abilities[k].text.name = q.key
      BY <2>1, <2>2, <2>3, <2>7
    <3>2. info.abilities[k] \in Catalog!Abilities(moment, q)
      BY <2>4, <3>1 DEF Range
    <3>3. PointerReply(info, q) = AbilityReply(info.abilities[k])
      BY <1>5, <3>1 DEF PointerReply
    <3>4. CASE AbilityTooLong
      <4>1. PointerReply(info, q) = Failed("serialization")
        BY <3>3, <3>4 DEF AbilityReply
      <4> QED
        BY <1>5, <3>4, <4>1, Refused, CatalogAnswers DEF Fitting, info
    <3>5. CASE ~AbilityTooLong
      <4>1. PointerReply(info, q) = Reply("ok", <<>>, <<info.abilities[k]>>, Null)
        BY <2>2, <3>1, <3>3, <3>5 DEF AbilityReply
      <4>2. Received(PointerReply(info, q), q) = Reply("ok", <<>>, <<info.abilities[k]>>, Null)
        BY <2>2, <3>1, <4>1, AbilityArrives
      <4> QED
        BY <2>5, <3>2, <4>2 DEF Fitting, info
    <3> QED
      BY <3>4, <3>5
  <2> QED
    BY <2>6, <2>7
<1>6. CASE q.kind = "size"
  <2>1. PointerReply(info, q) = Reply("ok", <<>>, <<>>, info.text.codePath)
    BY <1>6 DEF PointerReply
  <2>2. Catalog!Right(moment, q) = {Reply("ok", <<>>, <<>>, info.text.codePath)}
    BY <1>2, <1>3, <1>6, CatalogAnswers DEF Catalog!Right
  <2> QED
    BY <2>1, <2>2, TextArrives DEF Fitting, info
<1>7. QED
  BY <1>4, <1>5, <1>6 DEF OneBundle

(* The reply when Get finds nothing.                                       *)
NotFound(q) == IF q.kind = "size" THEN Reply("ok", <<>>, <<>>, Null) ELSE Failed("noInfos")

(* And so is the one about a bundle that is not listed.                    *)
LEMMA RightAboutNone ==
  ASSUME NEW moment \in Seq(Infos), Distinct(moment), NEW q, q.kind \in OneBundle,
         \A i \in DOMAIN moment : moment[i].text.bundleName # q.bundle
  PROVE  Fitting(Received(NotFound(q), q), moment, q)
<1>1. Catalog!Named(moment, q.bundle) = <<>>
  BY NamedIs
<1>2. CASE q.kind = "info"
  <2>1. Catalog!Asked(moment, q) = <<>>
    <3>1. Catalog!Asked(moment, q) = [k \in DOMAIN Catalog!Named(moment, q.bundle) |->
                             Catalog!Shown(Catalog!Named(moment, q.bundle)[k], q.flag)]
      BY <1>2 DEF Catalog!Asked
    <3> QED
      BY <1>1, <3>1
  <2>2. Catalog!Right(moment, q) = {Failed("noInfos")}
    BY <1>2, <2>1, CatalogAnswers DEF Catalog!Right
  <2> QED
    BY <1>2, <2>2, Refused DEF Fitting, NotFound
<1>3. CASE q.kind = "ability"
  <2>1. Range(<<>>) = {}
    BY DEF Range
  <2>2. Catalog!Abilities(moment, q) = {}
    BY <1>1, <2>1, CatalogLists DEF Catalog!Abilities
  <2>3. Catalog!Right(moment, q) = {Failed("noInfos")}
    BY <1>3, <2>2, CatalogAnswers DEF Catalog!Right
  <2> QED
    BY <1>3, <2>3, Refused DEF Fitting, NotFound
<1>4. CASE q.kind = "size"
  <2>1. Catalog!Right(moment, q) = {Reply("ok", <<>>, <<>>, Null)}
    BY <1>1, <1>4, CatalogAnswers DEF Catalog!Right
  <2> QED
    BY <1>4, <2>1, TextArrives DEF Fitting, NotFound
<1>5. QED
  BY <1>2, <1>3, <1>4 DEF OneBundle

(* A list of intact infos, copied with a flag.                             *)
CopiedAll(moment, flag) == [k \in DOMAIN moment |-> Copied(moment[k], flag)]

(* The copies of GetBundleInfos.                                           *)
LEMMA CopiedAllItems ==
  ASSUME NEW moment \in Seq(Infos), NEW flag
  PROVE  LET w == CopiedAll(moment, flag)
         IN  /\ w \in Seq(Copies) /\ DOMAIN w = DOMAIN moment /\ (w = <<>> <=> moment = <<>>)
             /\ w = [k \in DOMAIN moment |-> ShallowCopy(moment[k], flag)]
             /\ CopiedAll(w, flag) = w
             /\ flag = 1 => w = moment
<1> DEFINE w == CopiedAll(moment, flag)
<1>1. DOMAIN moment = 1 .. Len(moment) /\ Len(moment) \in Nat
      /\ \A k \in DOMAIN moment : moment[k] \in Infos
  BY LenProperties, ElementOfSeq
<1>2. DOMAIN w = DOMAIN moment /\ \A k \in DOMAIN moment : w[k] = Copied(moment[k], flag)
  BY DEF CopiedAll
<1>3. w \in Seq(Copies)
  BY <1>1, CopyIsCopy DEF CopiedAll
<1>4. w = <<>> <=> moment = <<>>
  BY <1>1, <1>2, <1>3
<1>5. w = [k \in DOMAIN moment |-> ShallowCopy(moment[k], flag)]
  BY <1>1, SameCopy DEF CopiedAll
<1>6. CopiedAll(w, flag) = w
  <2>1. \A k \in DOMAIN moment : Copied(w[k], flag) = w[k]
    BY <1>1, <1>2, IntactCopy
  <2>2. w = [k \in DOMAIN moment |-> w[k]]
    BY DEF CopiedAll
  <2> HIDE DEF w
  <2> QED
    BY <1>2, <2>1, <2>2 DEF CopiedAll
<1>7. flag = 1 => w = moment
  <2>1. ASSUME flag = 1 PROVE \A k \in DOMAIN moment : Copied(moment[k], flag) = moment[k]
    BY <1>1, <2>1, SameCopy
  <2>2. moment = [k \in DOMAIN moment |-> moment[k]]
    BY <1>1
  <2> QED
    BY <2>1, <2>2 DEF CopiedAll
<1>8. QED
  BY <1>2, <1>3, <1>4, <1>5, <1>6, <1>7

LEMMA NameOfMetaData ==
  ASSUME NEW info \in Infos, NEW key
  PROVE  key \in MetaDataNames(info) <=> Catalog!HasMetaData(info, key)
<1>1. PICK m : /\ info.modules = <<m>>
               /\ m.metaData \in Seq(Range(m.metaData)) /\ Len(m.metaData) = MetaDataSize
               /\ \A i \in 1 .. MetaDataSize :
                    ~m.metaData[i].used => m.metaData[i] = NoMetaData
  BY InfoParts
<1>2. Range(info.modules) = {m}
  <2>1. DOMAIN <<m>> = {1} /\ <<m>>[1] = m
    OBVIOUS
  <2> QED
    BY <1>1, <2>1 DEF Range
<1>3. DOMAIN m.metaData = 1 .. MetaDataSize
  BY <1>1
<1>4. key \in MetaDataNames(info) <=>
        \E i \in 1 .. MetaDataSize :
          m.metaData[i].used /\ m.metaData[i].name # Null /\ m.metaData[i].name = key
  <2> DEFINE N(module) == {slot.name : slot \in {s \in Range(module.metaData) : s.used /\ s.name # Null}}
  <2>1. MetaDataNames(info) = UNION {N(module) : module \in {m}}
    BY <1>2 DEF MetaDataNames
  <2>2. MetaDataNames(info) = N(m)
    BY <2>1
  <2>3. Range(m.metaData) = {m.metaData[i] : i \in 1 .. MetaDataSize}
    BY <1>3 DEF Range
  <2> QED
    BY <2>2, <2>3
<1>5. \A i \in 1 .. MetaDataSize : ~m.metaData[i].used => m.metaData[i].name = Null
  BY <1>1 DEF NoMetaData
<1>6. Catalog!HasMetaData(info, key) <=>
        key # Null /\ \E i \in 1 .. MetaDataSize : m.metaData[i].name = key
  BY <1>2, CatalogLists, CatalogAnswers DEF Catalog!HasMetaData
<1>7. QED
  BY <1>4, <1>5, <1>6

(* A filtered list is answered with the infos Catalog asks for.            *)
LEMMA RightFiltered ==
  ASSUME NEW moment \in Seq(Infos), NEW q, q.kind \in {"keepAlive", "metaData"}
  PROVE  Fitting(Received(CopyReply(CopiedAll(moment, ListFlag(q)), q), q), moment, q)
<1> DEFINE a == Catalog!Asked(moment, q)
<1>1. CopiedAll(moment, ListFlag(q)) = moment
  BY CopiedAllItems DEF ListFlag
<1>2. a = Filtered(moment, q) /\ a \in Seq(Infos)
  <2>1. CASE q.kind = "keepAlive"
    <3> DEFINE S == {i \in Range(moment) : i.isKeepAlive /\ i.isSystemApp}
    <3>1. a = Only(moment, S) /\ Filtered(moment, q) = Only(moment, S)
      BY <2>1, CatalogLists DEF Catalog!Asked, Filtered
    <3>2. Only(moment, S) \in Seq(Infos \cap S)
      BY OnlyType
    <3> QED
      BY <3>1, <3>2
  <2>2. CASE q.kind = "metaData"
    <3> DEFINE S == {i \in Range(moment) : q.key \in MetaDataNames(i)}
    <3>1. \A i \in Range(moment) : i \in Infos
      BY ElementOfSeq DEF Range
    <3>2. S = {i \in Range(moment) : Catalog!HasMetaData(i, q.key)}
      BY <3>1, NameOfMetaData
    <3>3. a = Only(moment, S) /\ Filtered(moment, q) = Only(moment, S)
      BY <2>2, <3>2, CatalogLists DEF Catalog!Asked, Filtered
    <3>4. Only(moment, S) \in Seq(Infos \cap S)
      BY OnlyType
    <3> QED
      BY <3>3, <3>4
  <2> QED
    BY <2>1, <2>2
<1> HIDE DEF a
<1>3. q.kind = "metaData" => \A i \in Range(moment) : ~MetaDataCrash(i)
  <2>1. \A i \in Range(moment) : i \in Infos
    BY ElementOfSeq DEF Range
  <2>2. \A i \in Range(moment) : i = Copied(i, 1) /\ Copied(i, 1) \in Copies
    BY <2>1, SameCopy, CopyIsCopy
  <2> QED
    BY <2>2, CopiesCounted
<1>4. CopyReply(moment, q) = IF a = <<>> THEN Failed("noInfos") ELSE InfosReply(CopiedAll(a, 1))
  BY <1>2, <1>3 DEF CopyReply, Recopied, CopiedAll
<1>5. CopiedAll(a, 1) = a /\ a \in Seq(Copies)
  BY <1>2, CopiedAllItems
<1>6. Catalog!WithoutAbilities(a) = CopiedAll(a, 0)
  <2>1. CopiedAll(a, 0) = [k \in DOMAIN a |-> ShallowCopy(a[k], 0)]
    BY <1>2, CopiedAllItems
  <2> QED
    BY <2>1, CatalogAnswers DEF Catalog!WithoutAbilities
<1>7. Catalog!Right(moment, q) = IF a = <<>> THEN {Failed("noInfos")}
                                 ELSE {Reply("ok", CopiedAll(a, 0), <<>>, Null)}
  BY <1>6, CatalogAnswers DEF Catalog!Right, a
<1>8. CASE a = <<>>
  BY <1>1, <1>4, <1>7, <1>8, Refused DEF Fitting
<1>9. CASE a # <<>>
  <2>1. Received(InfosReply(a), q) =
           IF TooLong(a) THEN Failed("serialization")
           ELSE Reply("ok", [k \in DOMAIN a |-> Copied(a[k], ClientFlag(q))], <<>>, Null)
    BY <1>5, IntactAnswer
  <2>2. ClientFlag(q) = 0
    BY DEF ClientFlag
  <2>3. Received(InfosReply(a), q) =
           IF TooLong(a) THEN Failed("serialization") ELSE Reply("ok", CopiedAll(a, 0), <<>>, Null)
    BY <2>1, <2>2 DEF CopiedAll
  <2> QED
    BY <1>1, <1>4, <1>5, <1>7, <1>9, <2>3, CatalogAnswers DEF Fitting, a
<1>10. QED
  BY <1>8, <1>9

LEMMA RightListed ==
  ASSUME NEW moment \in Seq(Infos), moment # <<>>, NEW q, q.kind = "list"
  PROVE  Fitting(Received(CopyReply(CopiedAll(moment, ListFlag(q)), q), q), moment, q)
<1> DEFINE w == CopiedAll(moment, q.flag)
<1>1. /\ w \in Seq(Copies) /\ w # <<>> /\ CopiedAll(w, q.flag) = w
      /\ w = [k \in DOMAIN moment |-> ShallowCopy(moment[k], q.flag)]
  BY CopiedAllItems
<1> HIDE DEF w
<1>2. CopyReply(w, q) = InfosReply(w)
  BY <1>1 DEF CopyReply, Filtered, Recopied
<1>3. Received(InfosReply(w), q) =
         IF TooLong(w) THEN Failed("serialization")
         ELSE Reply("ok", [k \in DOMAIN w |-> Copied(w[k], ClientFlag(q))], <<>>, Null)
  BY <1>1, IntactAnswer
<1>4. ClientFlag(q) = q.flag /\ ListFlag(q) = q.flag
  BY DEF ClientFlag, ListFlag
<1>5. Received(InfosReply(w), q) =
         IF TooLong(w) THEN Failed("serialization") ELSE Reply("ok", w, <<>>, Null)
  BY <1>1, <1>3, <1>4 DEF CopiedAll
<1>6. Catalog!Asked(moment, q) = w
  BY <1>1, CatalogAnswers DEF Catalog!Asked
<1>7. Catalog!Right(moment, q) = {Reply("ok", w, <<>>, Null)}
  BY <1>1, <1>6, CatalogAnswers DEF Catalog!Right
<1>8. QED
  BY <1>2, <1>4, <1>5, <1>6, <1>7, CatalogAnswers DEF Fitting, w

LEMMA RightNamed ==
  ASSUME NEW moment \in Seq(Infos), moment # <<>>, NEW q, q.kind = "uid"
  PROVE  Fitting(Received(CopyReply(CopiedAll(moment, ListFlag(q)), q), q), moment, q)
<1> DEFINE w == CopiedAll(moment, 0)
           I == {j \in 1 .. Len(w) : w[j].uid = q.key}
           k == SelectInSeq(w, LAMBDA i : i.uid = q.key)
<1>1. /\ DOMAIN moment = 1 .. Len(moment) /\ Len(moment) \in Nat
      /\ \A j \in DOMAIN moment : moment[j] \in Infos
  BY LenProperties, ElementOfSeq
<1>2. DOMAIN w = 1 .. Len(moment) /\ Len(w) = Len(moment)
      /\ \A j \in DOMAIN w : w[j] = Copied(moment[j], 0)
  BY <1>1, CopiedAllItems DEF CopiedAll
<1>3. \A j \in DOMAIN w : w[j].uid = moment[j].uid /\ w[j].text = moment[j].text
  BY <1>1, <1>2, IntactCopy
<1>4. \A j \in DOMAIN w : w[j].text.bundleName # Null
  <2>1. \A info \in Infos : info.text.bundleName \in Bundles
    BY InfosFields
  <2>2. Null \notin Bundles
    BY QueriesAssumption
  <2> QED
    BY <1>1, <1>2, <1>3, <2>1, <2>2
<1>5. k = IF I # {} THEN Min(I) ELSE 0
  BY DEF SelectInSeq
<1>6. CopyReply(w, q) = IF k = 0 \/ w[k].text.bundleName = Null THEN Failed("noName")
                        ELSE Reply("ok", <<>>, <<>>, w[k].text.bundleName)
  BY DEF CopyReply, UidReply
<1>7. I # {} => Min(I) \in I
  BY <1>1, <1>2, FirstIndex
<1> HIDE DEF w, k
<1>8. Catalog!WithUid(moment, q) = {info \in Range(moment) : info.uid = q.key}
  BY CatalogLists DEF Catalog!WithUid
<1>9. Catalog!Right(moment, q) =
         IF Catalog!WithUid(moment, q) = {} THEN {Failed("noName")}
         ELSE {Reply("ok", <<>>, <<>>, info.text.bundleName) : info \in Catalog!WithUid(moment, q)}
  BY CatalogAnswers DEF Catalog!Right
<1>10. ListFlag(q) = 0
  BY DEF ListFlag
<1>11. CASE I = {}
  <2>1. Catalog!WithUid(moment, q) = {}
    BY <1>1, <1>2, <1>3, <1>8, <1>11 DEF Range
  <2>2. CopyReply(w, q) = Failed("noName")
    BY <1>5, <1>6, <1>11
  <2> QED
    BY <1>9, <1>10, <2>1, <2>2, Refused DEF Fitting, w
<1>12. CASE I # {}
  <2>1. k \in DOMAIN w /\ k # 0 /\ moment[k].uid = q.key
    <3>1. k \in I
      BY <1>5, <1>7, <1>12
    <3>2. k \in 1 .. Len(w) /\ w[k].uid = q.key
      BY <3>1
    <3> QED
      BY <1>1, <1>2, <1>3, <3>2
  <2>2. moment[k] \in Catalog!WithUid(moment, q)
    BY <1>1, <1>2, <1>8, <2>1 DEF Range
  <2>3. CopyReply(w, q) = Reply("ok", <<>>, <<>>, moment[k].text.bundleName)
    BY <1>3, <1>4, <1>6, <2>1
  <2> QED
    BY <1>9, <1>10, <2>2, <2>3, TextArrives DEF Fitting, w
<1>13. QED
  BY <1>11, <1>12

LEMMA RightAboutAll ==
  ASSUME NEW moment \in Seq(Infos), moment # <<>>, NEW q, q.kind \in Overviews
  PROVE  Fitting(Received(CopyReply(CopiedAll(moment, ListFlag(q)), q), q), moment, q)
BY RightFiltered, RightListed, RightNamed DEF Overviews

LEMMA RightEmpty ==
  ASSUME NEW q, q.kind \in Overviews
  PROVE  Fitting(Received(Failed("noInfos"), q), <<>>, q)
<1>1. q.kind \in {"keepAlive", "metaData"} => Catalog!Asked(<<>>, q) = <<>>
  <2>2. Len(<<>>) = 0
    OBVIOUS
  <2>3. \A S : Only(<<>>, S) = <<>>
    BY <2>2, OnlyNone
  <2> QED
    BY <2>3, CatalogLists DEF Catalog!Asked
<1>2. q.kind = "list" => Catalog!Asked(<<>>, q) = <<>>
  BY DEF Catalog!Asked
<1>3. Catalog!Right(<<>>, q) = {Failed("noInfos")}
  BY <1>1, <1>2, CatalogAnswers DEF Catalog!Right, Overviews
<1>4. QED
  BY <1>3, Refused DEF Fitting

(* Only loses nothing that is in the set.                                  *)
LEMMA OnlyKeeps ==
  ASSUME NEW T, NEW s \in Seq(T), NEW S, NEW i \in DOMAIN s, s[i] \in S
  PROVE  s[i] \in Range(Only(s, S))
<1>1. Len(s) \in Nat /\ DOMAIN s = 1 .. Len(s) /\ \A k \in 1 .. Len(s) : s[k] \in T
  BY LenProperties, ElementOfSeq
<1>2. PICK f : PrefixOnly(s, S, Len(s), f) /\ Only(s, S) = f[Len(s)]
  BY <1>1, OnlyIsLast
<1> DEFINE P == {k \in 0 .. Len(s) : f[k] \in Seq(T) /\ (i <= k => s[i] \in Range(f[k]))}
<1>3. \A k \in 0 .. Len(s) : f[k] = Grown(s, S, f, k)
  BY <1>2 DEF PrefixOnly
<1>4. 0 \in P
  <2>1. 0 \in 0 .. Len(s) /\ <<>> \in Seq(T) /\ ~(i <= 0)
    BY <1>1
  <2>2. f[0] = <<>>
    BY <1>3, <2>1 DEF Grown
  <2> QED
    BY <2>1, <2>2
<1>5. ASSUME NEW k \in 1 .. Len(s), k - 1 \in P PROVE k \in P
  <2>1. k # 0 /\ k \in 0 .. Len(s) /\ s[k] \in T /\ f[k - 1] \in Seq(T)
        /\ (i <= k - 1 => s[i] \in Range(f[k - 1]))
    BY <1>1, <1>5
  <2>2. f[k] = IF s[k] \in S THEN Append(f[k - 1], s[k]) ELSE f[k - 1]
    BY <1>3, <2>1 DEF Grown
  <2>3. CASE s[k] \in S
    <3> DEFINE t == f[k - 1]
               u == Append(t, s[k])
    <3>1. /\ u \in Seq(T) /\ Len(u) = Len(t) + 1 /\ Len(t) \in Nat
          /\ \A j \in 1 .. Len(t) : u[j] = t[j]
          /\ DOMAIN t = 1 .. Len(t) /\ DOMAIN u = 1 .. Len(u)
          /\ u[Len(t) + 1] = s[k]
      BY <2>1, AppendProperties, LenProperties
    <3> HIDE DEF t, u
    <3>2. s[k] \in Range(u)
      <4>1. Len(t) + 1 \in DOMAIN u
        BY <3>1
      <4> QED
        BY <3>1, <4>1 DEF Range
    <3>3. Range(t) \subseteq Range(u)
      <4>1. \A j \in DOMAIN t : j \in DOMAIN u /\ u[j] = t[j]
        BY <3>1
      <4> QED
        BY <4>1 DEF Range
    <3>4. i <= k => i <= k - 1 \/ i = k
      BY <1>1
    <3> QED
      BY <2>1, <2>2, <2>3, <3>1, <3>2, <3>3, <3>4 DEF t, u
  <2>4. CASE s[k] \notin S
    <3>1. i <= k => i <= k - 1
      BY <1>1, <2>4
    <3> QED
      BY <2>1, <2>2, <2>4, <3>1
  <2> QED
    BY <2>3, <2>4
<1> HIDE DEF P
<1>6. Len(s) \in P
  <2>1. \A k \in 0 .. Len(s) : k \in P
    BY <1>1, <1>4, <1>5, UpTo
  <2> QED
    BY <1>1, <2>1
<1>7. i <= Len(s)
  BY <1>1
<1>8. QED
  BY <1>2, <1>6, <1>7 DEF P

-----------------------------------------------------------------------------
(* What a failed allocation may leave of an info.                          *)

LostModule(m, n) ==
  /\ IsRecord(m) /\ {"text", "deviceType", "metaData"} \subseteq DOMAIN m
  /\ Catalog!Lacks(m, n) /\ m.deviceType \in {n.deviceType, <<>>}
  /\ m.metaData \in Seq(Range(m.metaData)) /\ Len(m.metaData) = MetaDataSize
  /\ \A i \in 1 .. MetaDataSize :
       /\ DOMAIN m.metaData[i] = {"used", "name", "value", "extra"}
       /\ \A f \in {"name", "value", "extra"} : m.metaData[i][f] \in {n.metaData[i][f], Null}

Constant == {"uid", "versionCode", "isKeepAlive", "isSystemApp"}

LostText(a, b) == "text" \in DOMAIN a /\ Catalog!Lacks(a, b)

LostInfo(x, y) ==
  /\ IsRecord(x) /\ Constant \cup {"text"} \subseteq DOMAIN x /\ HasCounters(x)
  /\ "bundleName" \in DOMAIN x.text /\ Catalog!Lacks(x, y)
  /\ \A f \in Constant : x[f] = y[f]
  /\ x.modules = <<>> \/ \E m, n : x.modules = <<m>> /\ y.modules = <<n>> /\ LostModule(m, n)
  /\ \A k \in DOMAIN x.abilities : LostText(x.abilities[k], y.abilities[k])

LEMMA TextsThere ==
  ASSUME NEW info \in Infos
  PROVE  /\ "bundleName" \in DOMAIN info.text
         /\ \A k \in DOMAIN info.abilities : "text" \in DOMAIN info.abilities[k]
<1>1. PICK x, place, uid, isSystemApp : info = InstalledInfo(Profiles[x], place, uid, isSystemApp)
  BY DEF Infos
<1> DEFINE p == Profiles[x]
<1>2. info.abilities = [i \in DOMAIN p.abilities |-> SetAbilityInfo(p, p.abilities[i])]
  BY <1>1, InstalledFields
<1>3. \A a : "text" \in DOMAIN SetAbilityInfo(p, a)
  BY DEF SetAbilityInfo
<1>4. "bundleName" \in DOMAIN info.text
  BY <1>1 DEF InstalledInfo, Owned, SetBundleInfo
<1> HIDE DEF p
<1>5. QED
  BY <1>2, <1>3, <1>4

(* An info has lost nothing of itself.                                     *)
LEMMA LostNothing ==
  ASSUME NEW info \in Infos
  PROVE  LostInfo(info, info)
<1>1. \A x : Catalog!Lacks(x, x)
  BY DEF Catalog!Lacks
<1>2. /\ IsRecord(info) /\ HasCounters(info) /\ Constant \cup {"text"} \subseteq DOMAIN info
      /\ \E m : /\ info.modules = <<m>> /\ IsRecord(m)
                /\ {"text", "deviceType", "metaData"} \subseteq DOMAIN m
                /\ m.metaData \in Seq(Range(m.metaData))
                /\ Len(m.metaData) = MetaDataSize
                /\ \A i \in 1 .. MetaDataSize :
                     {"used", "name", "value", "extra"} = DOMAIN m.metaData[i]
  BY InfoParts DEF Constant
<1>3. PICK m : /\ info.modules = <<m>> /\ IsRecord(m)
               /\ {"text", "deviceType", "metaData"} \subseteq DOMAIN m
               /\ m.metaData \in Seq(Range(m.metaData))
               /\ Len(m.metaData) = MetaDataSize
               /\ \A i \in 1 .. MetaDataSize :
                    {"used", "name", "value", "extra"} = DOMAIN m.metaData[i]
  BY <1>2
<1>4. LostModule(m, m)
  BY <1>1, <1>3 DEF LostModule
<1>5. \A k \in DOMAIN info.abilities : LostText(info.abilities[k], info.abilities[k])
  BY <1>1, TextsThere DEF LostText
<1>6. QED
  BY <1>1, <1>2, <1>3, <1>4, <1>5, TextsThere DEF LostInfo

(* Of what is lost, more can be lost.                                      *)
LEMMA TextLostLacks ==
  ASSUME NEW x, NEW y, IsRecord(x), "text" \in DOMAIN x, Catalog!Lacks(x, y), NEW z \in TextLost(x)
  PROVE  /\ Catalog!Lacks(z, y) /\ IsRecord(z) /\ DOMAIN z = DOMAIN x
         /\ DOMAIN z.text = DOMAIN x.text
         /\ \A f \in DOMAIN x \ {"text"} : z[f] = x[f]
<1>1. PICK g \in DOMAIN x.text : z = [x EXCEPT !.text = [x.text EXCEPT ![g] = Null]]
  BY DEF TextLost
<1> DEFINE t == [x.text EXCEPT ![g] = Null]
<1>2. DOMAIN t = DOMAIN x.text /\ \A f \in DOMAIN x.text : t[f] = x.text[f] \/ t[f] = Null
  OBVIOUS
<1> HIDE DEF t
<1>3. /\ z.text = t /\ DOMAIN z = DOMAIN x /\ IsRecord(z)
      /\ \A f \in DOMAIN x \ {"text"} : z[f] = x[f]
  BY <1>1 DEF IsRecord, t
<1>4. Catalog!Lacks(z, y)
  BY <1>2, <1>3 DEF Catalog!Lacks, Null, Catalog!Null
<1>5. QED
  BY <1>2, <1>3, <1>4

LEMMA LostMore ==
  ASSUME NEW x, NEW y, LostText(x, y), NEW z \in TextLost(x)
  PROVE  LostText(z, y)
<1>1. PICK g \in DOMAIN x.text : z = [x EXCEPT !.text = [x.text EXCEPT ![g] = Null]]
  BY DEF TextLost
<1>2. z.text = [x.text EXCEPT ![g] = Null] /\ "text" \in DOMAIN z
  BY <1>1 DEF LostText
<1>3. QED
  BY <1>2 DEF LostText, Catalog!Lacks, Null, Catalog!Null

LEMMA MetaDataLostLacks ==
  ASSUME NEW slots, slots \in Seq(Range(slots)), Len(slots) = MetaDataSize,
         \A i \in 1 .. MetaDataSize : DOMAIN slots[i] = {"used", "name", "value", "extra"},
         NEW z \in MetaDataLost(slots)
  PROVE  /\ z \in Seq(Range(z)) /\ Len(z) = MetaDataSize
         /\ \A i \in 1 .. MetaDataSize :
              /\ DOMAIN z[i] = {"used", "name", "value", "extra"}
              /\ \A f \in {"name", "value", "extra"} : z[i][f] \in {slots[i][f], Null}
<1> DEFINE members == {"name", "value", "extra"}
<1>1. DOMAIN slots = 1 .. MetaDataSize /\ MetaDataSize \in Nat
  BY LenProperties
<1>2. PICK k, s :
        /\ k \in DOMAIN slots
        /\ \/ s = NoMetaData
           \/ \E f \in members : s = [slots[k] EXCEPT ![f] = Null]
        /\ z = [i \in DOMAIN slots |-> IF i = k THEN s ELSE NoMetaData]
  <2> DEFINE kept(k) == {NoMetaData} \cup
                     {[slots[k] EXCEPT ![f] = Null] :
                        f \in {g \in members : slots[k][g] # Null}}
             left(k) == {[i \in DOMAIN slots |-> IF i = k THEN s ELSE NoMetaData] : s \in kept(k)}
  <2>1. MetaDataLost(slots) = UNION {left(k) : k \in {i \in DOMAIN slots : slots[i].used}}
    BY DEF MetaDataLost
  <2>2. PICK k \in DOMAIN slots : z \in left(k)
    <3> HIDE DEF left
    <3> QED
      BY <2>1
  <2>3. \E s \in kept(k) : z = [i \in DOMAIN slots |-> IF i = k THEN s ELSE NoMetaData]
    BY <2>2
  <2> QED
    BY <2>3
<1>3. DOMAIN NoMetaData = {"used", "name", "value", "extra"} /\ \A f \in members : NoMetaData[f] = Null
  BY DEF NoMetaData
<1>4. DOMAIN s = {"used", "name", "value", "extra"} /\ \A f \in members : s[f] \in {slots[k][f], Null}
  BY <1>1, <1>2, <1>3
<1>5. \A i \in 1 .. MetaDataSize : z[i] = IF i = k THEN s ELSE NoMetaData
  BY <1>1, <1>2
<1>6. z \in Seq(Range(z)) /\ Len(z) = MetaDataSize
  <2>1. z = [i \in 1 .. MetaDataSize |-> z[i]] /\ DOMAIN z = 1 .. MetaDataSize
    BY <1>1, <1>2
  <2>2. \A i \in 1 .. MetaDataSize : z[i] \in Range(z)
    BY <2>1 DEF Range
  <2>3. z \in [1 .. MetaDataSize -> Range(z)]
    BY <2>1, <2>2
  <2> QED
    BY <1>1, <2>1, <2>3
<1>7. QED
  BY <1>3, <1>4, <1>5, <1>6

LEMMA ModuleLostLacks ==
  ASSUME NEW m, NEW n, LostModule(m, n), NEW z \in ModuleLost(m)
  PROVE  LostModule(z, n)
<1>1. /\ IsRecord(m) /\ {"text", "deviceType", "metaData"} \subseteq DOMAIN m
      /\ Catalog!Lacks(m, n) /\ m.deviceType \in {n.deviceType, <<>>}
      /\ m.metaData \in Seq(Range(m.metaData)) /\ Len(m.metaData) = MetaDataSize
      /\ \A i \in 1 .. MetaDataSize :
           /\ DOMAIN m.metaData[i] = {"used", "name", "value", "extra"}
           /\ \A f \in {"name", "value", "extra"} : m.metaData[i][f] \in {n.metaData[i][f], Null}
  BY DEF LostModule
<1>2. \/ z \in TextLost(m)
      \/ z = [m EXCEPT !.deviceType = <<>>]
      \/ \E slots \in MetaDataLost(m.metaData) : z = [m EXCEPT !.metaData = slots]
  BY DEF ModuleLost
<1>3. CASE z \in TextLost(m)
  <2>1. /\ Catalog!Lacks(z, n) /\ IsRecord(z) /\ DOMAIN z = DOMAIN m
        /\ \A f \in DOMAIN m \ {"text"} : z[f] = m[f]
    BY <1>1, <1>3, TextLostLacks
  <2>2. z.deviceType = m.deviceType /\ z.metaData = m.metaData
    BY <1>1, <2>1
  <2> QED
    BY <1>1, <2>1, <2>2 DEF LostModule
<1>4. CASE z = [m EXCEPT !.deviceType = <<>>]
  <2>1. /\ z.text = m.text /\ z.deviceType = <<>> /\ z.metaData = m.metaData
        /\ DOMAIN z = DOMAIN m /\ IsRecord(z)
    BY <1>1, <1>4 DEF IsRecord
  <2> QED
    BY <1>1, <2>1 DEF LostModule, Catalog!Lacks
<1>5. CASE \E slots \in MetaDataLost(m.metaData) : z = [m EXCEPT !.metaData = slots]
  <2>1. PICK slots \in MetaDataLost(m.metaData) : z = [m EXCEPT !.metaData = slots]
    BY <1>5
  <2>2. /\ slots \in Seq(Range(slots)) /\ Len(slots) = MetaDataSize
        /\ \A i \in 1 .. MetaDataSize :
             /\ DOMAIN slots[i] = {"used", "name", "value", "extra"}
             /\ \A f \in {"name", "value", "extra"} : slots[i][f] \in {m.metaData[i][f], Null}
    BY <1>1, MetaDataLostLacks
  <2>3. /\ z.text = m.text /\ z.deviceType = m.deviceType /\ z.metaData = slots
        /\ DOMAIN z = DOMAIN m /\ IsRecord(z)
    BY <1>1, <2>1 DEF IsRecord
  <2>4. \A i \in 1 .. MetaDataSize : \A f \in {"name", "value", "extra"} :
          z.metaData[i][f] \in {n.metaData[i][f], Null}
    BY <1>1, <2>2, <2>3
  <2>5. Catalog!Lacks(z, n)
    BY <1>1, <2>3 DEF Catalog!Lacks
  <2> QED
    BY <1>1, <2>2, <2>3, <2>4, <2>5 DEF LostModule
<1>6. QED
  BY <1>2, <1>3, <1>4, <1>5

LEMMA CopiedLost ==
  ASSUME NEW x, NEW y, LostInfo(x, y), NEW flag
  PROVE  LET c == Copied(x, flag)
         IN  /\ LostInfo(c, y) /\ c.text = x.text /\ c.modules = x.modules
             /\ c.abilities = IF flag = 1 THEN x.abilities ELSE <<>>
             /\ \A f \in Constant : c[f] = x[f]
<1> DEFINE c == Copied(x, flag)
<1>1. IsRecord(x) /\ Constant \cup {"text"} \subseteq DOMAIN x /\ HasCounters(x)
  BY DEF LostInfo
<1>2. /\ IsRecord(c) /\ DOMAIN c = DOMAIN x
      /\ c.text = x.text /\ c.modules = x.modules
      /\ c.abilities = IF flag = 1 THEN x.abilities ELSE <<>>
      /\ \A f \in Constant : c[f] = x[f]
  BY <1>1 DEF Copied, HasCounters, Constant, IsRecord
<1> HIDE DEF c
<1>3. HasCounters(c) /\ Constant \cup {"text"} \subseteq DOMAIN c
  BY <1>1, <1>2 DEF HasCounters
<1>4. DOMAIN <<>> = {}
  OBVIOUS
<1>5. LostInfo(c, y)
  <2>1. Catalog!Lacks(c, y)
    BY <1>2 DEF LostInfo, Catalog!Lacks
  <2>2. \A k \in DOMAIN c.abilities : LostText(c.abilities[k], y.abilities[k])
    BY <1>2, <1>4 DEF LostInfo
  <2>3. \A f \in Constant : c[f] = y[f]
    BY <1>2 DEF LostInfo
  <2>4. c.modules = <<>> \/ \E m, n : c.modules = <<m>> /\ y.modules = <<n>> /\ LostModule(m, n)
    BY <1>2 DEF LostInfo
  <2>5. "bundleName" \in DOMAIN c.text
    BY <1>2 DEF LostInfo
  <2> QED
    BY <1>2, <1>3, <2>1, <2>2, <2>3, <2>4, <2>5 DEF LostInfo
<1>6. QED
  BY <1>2, <1>5 DEF c

(* An element of a union of four parts.                                    *)
LEMMA OneOfUnion ==
  ASSUME NEW A, NEW B, NEW M, NEW N, NEW z \in A \cup B \cup (UNION M) \cup UNION N
  PROVE  z \in A \/ z \in B \/ (\E S \in M : z \in S) \/ (\E S \in N : z \in S)
OBVIOUS

(* The same without abilities, unless the flag asks for them.              *)
LeftOf(x, y, flag) == LostInfo(x, y) /\ (flag # 1 => x.abilities = <<>>)

(* A copy of what lost something has lost no more than its abilities.      *)
LEMMA CopiedLeft ==
  ASSUME NEW x, NEW y, LostInfo(x, y), NEW flag
  PROVE  LeftOf(Copied(x, flag), y, flag)
BY CopiedLost DEF LeftOf

(* A copy whose allocation failed has lost more.                           *)
LEMMA ThinnedLost ==
  ASSUME NEW x, NEW y, LostInfo(x, y), NEW flag, NEW z \in Thinned(x, flag)
  PROVE  LeftOf(z, y, flag)
<1> DEFINE c == Copied(x, flag)
           thinModules(k) == {[c EXCEPT !.modules[k] = m] : m \in ModuleLost(c.modules[k])}
           thinAbilities(k) == {[c EXCEPT !.abilities[k] = a] : a \in AbilityLost(c.abilities[k])}
<1>1. LostInfo(c, y) /\ (flag # 1 => c.abilities = <<>>)
  BY CopiedLost
<1>2. Thinned(x, flag) =
        TextLost(c) \cup ArrayLost(c)
          \cup (UNION {thinModules(k) : k \in DOMAIN c.modules})
          \cup UNION {thinAbilities(k) : k \in DOMAIN c.abilities}
  BY DEF Thinned
<1>3. \/ z \in TextLost(c) \/ z \in ArrayLost(c)
      \/ \E k \in DOMAIN c.modules : z \in thinModules(k)
      \/ \E k \in DOMAIN c.abilities : z \in thinAbilities(k)
  <2>1. z \in TextLost(c) \cup ArrayLost(c) \cup (UNION {thinModules(k) : k \in DOMAIN c.modules})
                 \cup UNION {thinAbilities(k) : k \in DOMAIN c.abilities}
    BY <1>2, Zenon
  <2>2. \/ z \in TextLost(c) \/ z \in ArrayLost(c)
        \/ \E S \in {thinModules(k) : k \in DOMAIN c.modules} : z \in S
        \/ \E S \in {thinAbilities(k) : k \in DOMAIN c.abilities} : z \in S
    BY <2>1, OneOfUnion, Zenon
  <2> HIDE DEF c, thinModules, thinAbilities
  <2> QED
    BY <2>2
<1> HIDE DEF c
<1>4. /\ IsRecord(c) /\ Constant \cup {"text"} \subseteq DOMAIN c /\ HasCounters(c)
      /\ "bundleName" \in DOMAIN c.text
      /\ Catalog!Lacks(c, y) /\ \A f \in Constant : c[f] = y[f]
      /\ c.modules = <<>> \/ \E m, n : c.modules = <<m>> /\ y.modules = <<n>> /\ LostModule(m, n)
      /\ \A k \in DOMAIN c.abilities : LostText(c.abilities[k], y.abilities[k])
  BY <1>1 DEF LostInfo
<1>5. Constant = {"uid", "versionCode", "isKeepAlive", "isSystemApp"}
      /\ {"modules", "numOfModule", "abilities", "numOfAbility"} \subseteq DOMAIN c
  BY <1>4 DEF Constant, HasCounters
<1>6. CASE z \in TextLost(c)
  <2>1. /\ Catalog!Lacks(z, y) /\ IsRecord(z) /\ DOMAIN z = DOMAIN c /\ DOMAIN z.text = DOMAIN c.text
        /\ \A f \in DOMAIN c \ {"text"} : z[f] = c[f]
    BY <1>4, <1>6, TextLostLacks
  <2>2. z.modules = c.modules /\ z.abilities = c.abilities /\ \A f \in Constant : z[f] = c[f]
    BY <1>4, <1>5, <2>1
  <2> QED
    BY <1>1, <1>4, <2>1, <2>2 DEF LeftOf, LostInfo, HasCounters
<1>7. CASE z \in ArrayLost(c)
  <2>1. /\ IsRecord(z) /\ DOMAIN z = DOMAIN c /\ z.text = c.text
        /\ z.modules = <<>> \/ z.modules = c.modules
        /\ z.abilities = <<>> \/ z.abilities = c.abilities
        /\ \A f \in Constant : z[f] = c[f]
    BY <1>4, <1>5, <1>7 DEF ArrayLost, IsRecord
  <2>2. Catalog!Lacks(z, y)
    BY <1>4, <2>1 DEF Catalog!Lacks
  <2>3. DOMAIN <<>> = {}
    OBVIOUS
  <2>4. \A k \in DOMAIN z.abilities : LostText(z.abilities[k], y.abilities[k])
    BY <1>4, <2>1, <2>3
  <2> QED
    BY <1>1, <1>4, <2>1, <2>2, <2>4 DEF LeftOf, LostInfo, HasCounters
<1>8. CASE \E k \in DOMAIN c.modules : z \in thinModules(k)
  <2>1. PICK k \in DOMAIN c.modules : z \in thinModules(k)
    BY <1>8
  <2>2. PICK m1 \in ModuleLost(c.modules[k]) : z = [c EXCEPT !.modules[k] = m1]
    BY <2>1
  <2>3. DOMAIN <<>> = {}
    OBVIOUS
  <2>4. PICK m, n : c.modules = <<m>> /\ y.modules = <<n>> /\ LostModule(m, n)
    BY <1>4, <2>1, <2>3
  <2>5. DOMAIN <<m>> = {1} /\ <<m>>[1] = m /\ [<<m>> EXCEPT ![1] = m1] = <<m1>>
    OBVIOUS
  <2>6. k = 1 /\ c.modules[k] = m
    BY <2>1, <2>4, <2>5
  <2>7. LostModule(m1, n)
    BY <2>2, <2>4, <2>6, ModuleLostLacks
  <2>8. z = [c EXCEPT !.modules = [c.modules EXCEPT ![k] = m1]]
    BY <2>2
  <2>9. /\ IsRecord(z) /\ DOMAIN z = DOMAIN c /\ z.text = c.text
        /\ z.modules = <<m1>> /\ z.abilities = c.abilities
        /\ \A f \in Constant : z[f] = c[f]
    BY <1>4, <1>5, <2>4, <2>5, <2>6, <2>8 DEF IsRecord
  <2>10. Catalog!Lacks(z, y)
    BY <1>4, <2>9 DEF Catalog!Lacks
  <2> QED
    BY <1>1, <1>4, <2>4, <2>7, <2>9, <2>10 DEF LeftOf, LostInfo, HasCounters
<1>9. CASE \E k \in DOMAIN c.abilities : z \in thinAbilities(k)
  <2>1. PICK k \in DOMAIN c.abilities : z \in thinAbilities(k)
    BY <1>9
  <2>2. PICK a \in AbilityLost(c.abilities[k]) : z = [c EXCEPT !.abilities[k] = a]
    BY <2>1
  <2>3. z = [c EXCEPT !.abilities = [c.abilities EXCEPT ![k] = a]]
    BY <2>2
  <2>4. /\ IsRecord(z) /\ DOMAIN z = DOMAIN c /\ z.text = c.text
        /\ z.modules = c.modules /\ z.abilities = [c.abilities EXCEPT ![k] = a]
        /\ \A f \in Constant : z[f] = c[f]
    BY <1>4, <1>5, <2>3 DEF IsRecord
  <2>5. LostText(a, y.abilities[k])
    <3>1. LostText(c.abilities[k], y.abilities[k])
      BY <1>4, <2>1
    <3> QED
      BY <2>2, <3>1, LostMore DEF AbilityLost
  <2>6. \A j \in DOMAIN z.abilities : LostText(z.abilities[j], y.abilities[j])
    <3> DEFINE l == z.abilities
    <3>1. DOMAIN l = DOMAIN c.abilities
          /\ \A j \in DOMAIN c.abilities : l[j] = IF j = k THEN a ELSE c.abilities[j]
      BY <2>1, <2>4
    <3> HIDE DEF l
    <3> SUFFICES ASSUME NEW j \in DOMAIN l PROVE LostText(l[j], y.abilities[j])
      BY DEF l
    <3> QED
      BY <1>4, <2>5, <3>1
  <2>7. Catalog!Lacks(z, y)
    BY <1>4, <2>4 DEF Catalog!Lacks
  <2>8. DOMAIN <<>> = {}
    OBVIOUS
  <2>9. flag = 1
    BY <1>1, <2>1, <2>8
  <2> QED
    BY <1>4, <2>4, <2>6, <2>7, <2>9 DEF LeftOf, LostInfo, HasCounters
<1>10. QED
  BY <1>3, <1>6, <1>7, <1>8, <1>9

(* What is sent and read back has lost no other thing.                     *)
LEMMA BackLost ==
  ASSUME NEW x, NEW y, LostInfo(x, y)
  PROVE  LostInfo(Back(x), y)
<1> DEFINE z == Back(x)
<1>1. /\ IsRecord(x) /\ Constant \cup {"text"} \subseteq DOMAIN x /\ HasCounters(x)
      /\ "bundleName" \in DOMAIN x.text /\ Catalog!Lacks(x, y) /\ \A f \in Constant : x[f] = y[f]
      /\ x.modules = <<>> \/ \E m, n : x.modules = <<m>> /\ y.modules = <<n>> /\ LostModule(m, n)
      /\ \A k \in DOMAIN x.abilities : LostText(x.abilities[k], y.abilities[k])
  BY DEF LostInfo
<1>2. "modules" \in DOMAIN x /\ "abilities" \in DOMAIN x
  BY <1>1 DEF HasCounters
<1>3. /\ DOMAIN z = DOMAIN x /\ IsRecord(z)
      /\ \A f \in DOMAIN x \ {"modules"} : z[f] = x[f]
      /\ x.modules = <<>> => z.modules = <<>>
      /\ \A m : x.modules = <<m>> /\ "metaData" \in DOMAIN m =>
           z.modules = <<[m EXCEPT !.metaData = MetaDataSlots(JsonMetaData(m.metaData))]>>
  BY <1>1, <1>2, JsonAndBack
<1> HIDE DEF z
<1>4. z.text = x.text /\ z.abilities = x.abilities /\ \A f \in Constant : z[f] = x[f]
  BY <1>1, <1>2, <1>3 DEF Constant
<1>5. z.modules = <<>> \/ \E m, n : z.modules = <<m>> /\ y.modules = <<n>> /\ LostModule(m, n)
  <2>1. SUFFICES ASSUME x.modules # <<>>
                 PROVE  \E m, n : z.modules = <<m>> /\ y.modules = <<n>> /\ LostModule(m, n)
    BY <1>3
  <2>2. PICK m, n : x.modules = <<m>> /\ y.modules = <<n>> /\ LostModule(m, n)
    BY <1>1, <2>1
  <2> DEFINE back == MetaDataSlots(JsonMetaData(m.metaData))
             m1 == [m EXCEPT !.metaData = back]
  <2>3. /\ IsRecord(m) /\ {"text", "deviceType", "metaData"} \subseteq DOMAIN m
        /\ Catalog!Lacks(m, n) /\ m.deviceType \in {n.deviceType, <<>>}
        /\ m.metaData \in Seq(Range(m.metaData)) /\ Len(m.metaData) = MetaDataSize
        /\ \A i \in 1 .. MetaDataSize :
             /\ DOMAIN m.metaData[i] = {"used", "name", "value", "extra"}
             /\ \A f \in {"name", "value", "extra"} : m.metaData[i][f] \in {n.metaData[i][f], Null}
    BY <2>2 DEF LostModule
  <2>4. z.modules = <<m1>>
    BY <1>3, <2>2, <2>3
  <2>5. \A i \in 1 .. MetaDataSize : back[i] \in {m.metaData[i], NoMetaData}
    BY <2>3, SlotsSent
  <2>6. back \in Seq(Range(back)) /\ Len(back) = MetaDataSize
    <3>1. MetaDataSize \in Nat
      BY <2>3, LenProperties
    <3>2. back = [i \in 1 .. MetaDataSize |-> back[i]] /\ DOMAIN back = 1 .. MetaDataSize
      BY DEF MetaDataSlots
    <3> HIDE DEF back
    <3>3. \A i \in 1 .. MetaDataSize : back[i] \in Range(back)
      BY <3>2 DEF Range
    <3> QED
      BY <3>1, <3>2, <3>3
  <2> HIDE DEF back
  <2>7. DOMAIN NoMetaData = {"used", "name", "value", "extra"}
        /\ \A f \in {"name", "value", "extra"} : NoMetaData[f] = Null
    BY DEF NoMetaData
  <2>8. \A i \in 1 .. MetaDataSize :
             /\ DOMAIN back[i] = {"used", "name", "value", "extra"}
             /\ \A f \in {"name", "value", "extra"} : back[i][f] \in {n.metaData[i][f], Null}
    BY <2>3, <2>5, <2>7
  <2>9. /\ m1.text = m.text /\ m1.deviceType = m.deviceType /\ m1.metaData = back
        /\ DOMAIN m1 = DOMAIN m /\ IsRecord(m1)
    BY <2>3 DEF IsRecord
  <2> HIDE DEF m1
  <2>10. Catalog!Lacks(m1, n)
    BY <2>3, <2>9 DEF Catalog!Lacks
  <2>11. LostModule(m1, n)
    BY <2>3, <2>6, <2>8, <2>9, <2>10 DEF LostModule
  <2> QED
    BY <2>2, <2>4, <2>11
<1>6. Catalog!Lacks(z, y)
  BY <1>1, <1>4 DEF Catalog!Lacks
<1>7. LostInfo(z, y)
  BY <1>1, <1>3, <1>4, <1>5, <1>6 DEF LostInfo, HasCounters
<1>8. QED
  BY <1>7 DEF z

(* BundleCatalog allows what is left.                                      *)
LEMMA LeftLacks ==
  ASSUME NEW y \in Infos, NEW c, NEW flag, LeftOf(c, y, flag)
  PROVE  Catalog!LacksInfo(c, ShallowCopy(y, flag))
<1> DEFINE s == ShallowCopy(y, flag)
<1>1. LostInfo(c, y) /\ (flag # 1 => c.abilities = <<>>)
  BY DEF LeftOf
<1>2. /\ Catalog!Lacks(c, y) /\ \A f \in Constant : c[f] = y[f]
      /\ c.modules = <<>> \/ \E m, n : c.modules = <<m>> /\ y.modules = <<n>> /\ LostModule(m, n)
      /\ \A k \in DOMAIN c.abilities : Catalog!Lacks(c.abilities[k], y.abilities[k])
  BY <1>1 DEF LostInfo, LostText
<1>3. /\ s.text = y.text /\ s.uid = y.uid /\ s.versionCode = y.versionCode /\ s.modules = y.modules
      /\ flag = 1 => s.abilities = y.abilities
  <2>1. {"text", "uid", "versionCode"} \subseteq DOMAIN y /\ HasCounters(y)
    BY InfoParts
  <2> QED
    BY <2>1 DEF ShallowCopy, HasCounters
<1> HIDE DEF s
<1>4. c.modules = <<>> \/ Catalog!LacksModule(c.modules[1], s.modules[1])
  <2>1. SUFFICES ASSUME NEW m, NEW n, c.modules = <<m>>, y.modules = <<n>>, LostModule(m, n)
                 PROVE  Catalog!LacksModule(c.modules[1], s.modules[1])
    BY <1>2
  <2>2. c.modules[1] = m /\ s.modules[1] = n
    BY <1>3, <2>1
  <2>3. Catalog!LacksModule(m, n)
    BY <2>1 DEF LostModule, Catalog!LacksModule, Null, Catalog!Null
  <2> QED
    BY <2>2, <2>3
<1>5. \A k \in DOMAIN c.abilities : Catalog!Lacks(c.abilities[k], s.abilities[k])
  <2>1. DOMAIN <<>> = {}
    OBVIOUS
  <2> QED
    BY <1>1, <1>2, <1>3, <2>1
<1>6. Catalog!Lacks(c, s)
  BY <1>2, <1>3 DEF Catalog!Lacks
<1>7. c.uid = s.uid /\ c.versionCode = s.versionCode
  BY <1>2, <1>3 DEF Constant
<1>8. Catalog!LacksInfo(c, s)
  BY <1>4, <1>5, <1>6, <1>7 DEF Catalog!LacksInfo
<1>9. QED
  BY <1>8 DEF s

(* The infos a question is about.                                          *)
AskedInfos(moment, q) ==
  CASE q.kind = "info" -> {i \in Range(moment) : i.text.bundleName = q.bundle}
    [] q.kind = "list" -> Range(moment)
    [] q.kind = "keepAlive" -> {i \in Range(moment) : i.isKeepAlive /\ i.isSystemApp}
    [] q.kind = "metaData" -> {i \in Range(moment) : q.key \in MetaDataNames(i)}
    [] OTHER -> {}

(* What is shown of an item.                                               *)
LEMMA ShownOfItems ==
  ASSUME NEW s, NEW y \in Range(s), NEW flag
  PROVE  LET l == [k \in DOMAIN s |-> ShallowCopy(s[k], flag)]
         IN  ShallowCopy(y, flag) \in Range(l) /\ l # <<>>
<1> DEFINE l == [k \in DOMAIN s |-> ShallowCopy(s[k], flag)]
<1>1. PICK k \in DOMAIN s : y = s[k]
  BY DEF Range
<1>2. DOMAIN l = DOMAIN s /\ l[k] = ShallowCopy(y, flag) /\ DOMAIN <<>> = {}
  BY <1>1
<1> HIDE DEF l
<1>3. ShallowCopy(y, flag) \in Range(l) /\ l # <<>>
  BY <1>1, <1>2 DEF Range
<1>4. QED
  BY <1>3 DEF l

(* The right answer holds all infos that are asked for.                    *)
LEMMA RightInfos ==
  ASSUME NEW moment \in Seq(Infos), NEW q, AskedInfos(moment, q) # {}
  PROVE  \E l : /\ Reply("ok", l, <<>>, Null) \in Catalog!Right(moment, q)
                /\ \A y \in AskedInfos(moment, q) : ShallowCopy(y, ClientFlag(q)) \in Range(l)
<1> DEFINE A == AskedInfos(moment, q)
           kept == Only(moment, A)
           shown == [k \in DOMAIN kept |-> ShallowCopy(kept[k], ClientFlag(q))]
<1>1. A \subseteq Range(moment) /\ \A i \in Range(moment) : i \in Infos
  BY ElementOfSeq DEF AskedInfos, Range
<1>2. A \subseteq Range(kept)
  <2>1. SUFFICES ASSUME NEW y \in A PROVE y \in Range(kept)
    OBVIOUS
  <2>2. PICK i \in DOMAIN moment : y = moment[i]
    BY <1>1, <2>1 DEF Range
  <2> HIDE DEF A
  <2> QED
    BY <2>1, <2>2, OnlyKeeps
<1>3. \A y \in A : ShallowCopy(y, ClientFlag(q)) \in Range(shown)
  BY <1>2, ShownOfItems
<1>4. shown # <<>> /\ kept # <<>>
  <2>1. PICK y \in A : y \in Range(kept)
    BY <1>2
  <2>2. Range(<<>>) = {}
    BY DEF Range
  <2> QED
    BY <2>1, <2>2, ShownOfItems
<1>5. CASE q.kind = "info"
  <2>1. Catalog!Named(moment, q.bundle) = kept
    BY <1>5, CatalogLists DEF Catalog!Named, AskedInfos
  <2>2. Catalog!Asked(moment, q) = shown
    BY <1>5, <2>1, CatalogAnswers DEF Catalog!Asked, ClientFlag
  <2>3. Catalog!Right(moment, q) = {Reply("ok", shown, <<>>, Null)}
    BY <1>4, <1>5, <2>2, CatalogAnswers DEF Catalog!Right
  <2> QED
    BY <1>3, <2>3
<1>6. CASE q.kind = "list"
  <2> DEFINE all == [k \in DOMAIN moment |-> ShallowCopy(moment[k], q.flag)]
  <2>1. \A y \in A : ShallowCopy(y, q.flag) \in Range(all) /\ all # <<>>
    BY <1>1, ShownOfItems
  <2>2. Catalog!Asked(moment, q) = all
    BY <1>6, CatalogAnswers DEF Catalog!Asked
  <2> HIDE DEF all
  <2>3. all # <<>>
    BY <2>1
  <2>4. Catalog!Right(moment, q) = {Reply("ok", all, <<>>, Null)}
    BY <1>6, <2>2, <2>3, CatalogAnswers DEF Catalog!Right
  <2>5. ClientFlag(q) = q.flag
    BY <1>6 DEF ClientFlag
  <2> QED
    BY <2>1, <2>4, <2>5
<1>7. CASE q.kind \in {"keepAlive", "metaData"}
  <2>1. Catalog!Asked(moment, q) = kept
    <3>1. CASE q.kind = "keepAlive"
      BY <3>1, CatalogLists DEF Catalog!Asked, AskedInfos
    <3>2. CASE q.kind = "metaData"
      <4>1. A = {i \in Range(moment) : Catalog!HasMetaData(i, q.key)}
        BY <1>1, <3>2, NameOfMetaData DEF AskedInfos
      <4> QED
        BY <3>2, <4>1, CatalogLists DEF Catalog!Asked
    <3> QED
      BY <1>7, <3>1, <3>2
  <2>2. Catalog!WithoutAbilities(kept) = shown
    BY <1>7, CatalogAnswers DEF Catalog!WithoutAbilities, ClientFlag
  <2>3. Catalog!Right(moment, q) = {Reply("ok", shown, <<>>, Null)}
    <3> HIDE DEF kept, shown
    <3> QED
      BY <1>4, <1>7, <2>1, <2>2, CatalogAnswers DEF Catalog!Right
  <2> QED
    BY <1>3, <2>3
<1>8. QED
  BY <1>5, <1>6, <1>7 DEF AskedInfos

-----------------------------------------------------------------------------
(* What a reply may be, so that the answer holds nothing wrong.            *)


Decent(reply, moment, q) ==
  \/ reply.code # "ok" /\ reply = Failed(reply.code)
  \/ \E xs : /\ reply = Reply("ok", [k \in DOMAIN xs |-> Json(xs[k])], <<>>, Null)
             /\ AskedInfos(moment, q) # {}
             /\ \A k \in DOMAIN xs : \E y \in AskedInfos(moment, q) : LostInfo(xs[k], y)
  \/ \E a, b : /\ reply = Reply("ok", <<>>, <<a>>, Null) /\ LostText(a, b)
               /\ Reply("ok", <<>>, <<b>>, Null) \in Catalog!Right(moment, q)
  \/ \E text : /\ reply = Reply("ok", <<>>, <<>>, text)
               /\ reply \in Catalog!Right(moment, q)

(* Errors are honest.                                                      *)
LEMMA HonestError ==
  ASSUME NEW code_, code_ # "ok", NEW moment, NEW q
  PROVE  Catalog!Honest(Failed(code_), moment, q)
BY DEF Catalog!Honest, Failed, Reply

(* Infos are honest when each is left of one that is asked for.            *)
LEMMA HonestInfos ==
  ASSUME NEW moment \in Seq(Infos), NEW q, AskedInfos(moment, q) # {}, NEW l,
         \A k \in DOMAIN l : \E y \in AskedInfos(moment, q) : LeftOf(l[k], y, ClientFlag(q))
  PROVE  Catalog!Honest(Reply("ok", l, <<>>, Null), moment, q)
<1>1. PICK r : /\ Reply("ok", r, <<>>, Null) \in Catalog!Right(moment, q)
               /\ \A y \in AskedInfos(moment, q) : ShallowCopy(y, ClientFlag(q)) \in Range(r)
  BY RightInfos
<1> DEFINE right == Reply("ok", r, <<>>, Null)
           answer == Reply("ok", l, <<>>, Null)
<1>2. /\ right.code = "ok" /\ right.infos = r /\ right.text = Null
      /\ answer.infos = l /\ answer.text = Null /\ answer.abilities = <<>>
  BY DEF Reply
<1>3. right \in Catalog!Right(moment, q)
  BY <1>1
<1> HIDE DEF right, answer
<1>4. \A k \in DOMAIN l : \E z \in Range(r) : Catalog!LacksInfo(l[k], z)
  <2>1. SUFFICES ASSUME NEW k \in DOMAIN l PROVE \E z \in Range(r) : Catalog!LacksInfo(l[k], z)
    OBVIOUS
  <2>2. PICK y \in AskedInfos(moment, q) :
          LeftOf(l[k], y, ClientFlag(q))
    BY <2>1
  <2>3. y \in Infos
    BY ElementOfSeq DEF AskedInfos, Range
  <2> QED
    BY <1>1, <2>2, <2>3, LeftLacks
<1>5. Catalog!Range(answer.infos) = Range(l) /\ Catalog!Range(right.infos) = Range(r)
  BY <1>2, CatalogLists
<1>6. \A x \in Catalog!Range(answer.infos) : \E z \in Catalog!Range(right.infos) : Catalog!LacksInfo(x, z)
  BY <1>4, <1>5 DEF Range
<1>7. DOMAIN <<>> = {}
  OBVIOUS
<1>8. Catalog!Honest(answer, moment, q)
  BY <1>2, <1>3, <1>6, <1>7 DEF Catalog!Honest
<1>9. QED
  BY <1>8 DEF answer

(* What the client makes of infos.                                         *)
LEMMA InfosReceived ==
  ASSUME NEW xs, NEW q
  PROVE  LET reply == Reply("ok", [k \in DOMAIN xs |-> Json(xs[k])], <<>>, Null)
         IN  /\ Received(reply, q) \in
                  {Failed("deserialization"),
                   Reply("ok", [k \in DOMAIN xs |-> Copied(Back(xs[k]), ClientFlag(q))], <<>>, Null)}
             /\ DOMAIN reply.infos = DOMAIN xs
             /\ \A k \in DOMAIN xs : FromJson(reply.infos[k]) = Back(xs[k])
<1> DEFINE sent == [k \in DOMAIN xs |-> Json(xs[k])]
           reply == Reply("ok", sent, <<>>, Null)
           got == [k \in DOMAIN xs |-> Copied(Back(xs[k]), ClientFlag(q))]
<1>1. /\ DOMAIN sent = DOMAIN xs
      /\ \A k \in DOMAIN xs : FromJson(sent[k]) = Back(xs[k])
  BY DEF Back
<1> HIDE DEF sent
<1>2. reply.infos = sent /\ \A v, w : [Reply("ok", v, <<>>, Null) EXCEPT !.infos = w] = Reply("ok", w, <<>>, Null)
  BY DEF Reply
<1> HIDE DEF reply
<1>3. [k \in DOMAIN sent |-> Copied(FromJson(sent[k]), ClientFlag(q))] = got
  BY <1>1
<1>4. Received(reply, q) = Failed("deserialization")
        \/ Received(reply, q) = [reply EXCEPT !.infos = got]
  BY <1>2, <1>3 DEF Received
<1>5. [reply EXCEPT !.infos = got] = Reply("ok", got, <<>>, Null)
  BY <1>2 DEF reply
<1>6. QED
  BY <1>1, <1>2, <1>4, <1>5 DEF sent, reply

LEMMA AbilityReceived ==
  ASSUME NEW a, NEW q
  PROVE  Received(Reply("ok", <<>>, <<a>>, Null), q) \in
           {Failed("deserialization"), Reply("ok", <<>>, <<a>>, Null)}
<1>1. CASE AbilityWritten(a)
  BY <1>1, AbilityArrives
<1>2. CASE ~AbilityWritten(a)
  <2>1. Reply("ok", <<>>, <<a>>, Null).abilities = <<a>>
    BY DEF Reply
  <2>2. DOMAIN <<a>> = {1} /\ <<a>>[1] = a
    OBVIOUS
  <2> QED
    BY <1>2, <2>1, <2>2 DEF Received
<1>3. QED
  BY <1>1, <1>2

(* An ability that lacks texts is honest.                                  *)
LEMMA HonestAbility ==
  ASSUME NEW moment, NEW q, NEW a, NEW b, LostText(a, b),
         Reply("ok", <<>>, <<b>>, Null) \in Catalog!Right(moment, q)
  PROVE  Catalog!Honest(Reply("ok", <<>>, <<a>>, Null), moment, q)
<1> DEFINE right == Reply("ok", <<>>, <<b>>, Null)
           answer == Reply("ok", <<>>, <<a>>, Null)
<1>1. /\ right.code = "ok" /\ right.text = Null /\ right.abilities = <<b>>
      /\ answer.infos = <<>> /\ answer.text = Null /\ answer.abilities = <<a>>
  BY DEF Reply
<1> HIDE DEF right, answer
<1>2. DOMAIN <<>> = {} /\ DOMAIN <<a>> = {1} /\ <<a>>[1] = a /\ <<b>>[1] = b
  OBVIOUS
<1>3. Catalog!Range(<<>>) = {}
  BY <1>2 DEF Catalog!Range
<1>4. \A k \in DOMAIN answer.abilities : Catalog!Lacks(answer.abilities[k], right.abilities[k])
  BY <1>1, <1>2 DEF LostText
<1>5. right \in Catalog!Right(moment, q)
  BY DEF right
<1>6. Catalog!Honest(answer, moment, q)
  BY <1>1, <1>3, <1>4, <1>5 DEF Catalog!Honest
<1>7. QED
  BY <1>6 DEF answer

LEMMA HonestText ==
  ASSUME NEW moment, NEW q, NEW text,
         Reply("ok", <<>>, <<>>, text) \in Catalog!Right(moment, q)
  PROVE  Catalog!Honest(Reply("ok", <<>>, <<>>, text), moment, q)
<1> DEFINE answer == Reply("ok", <<>>, <<>>, text)
<1>1. answer.code = "ok" /\ answer.infos = <<>> /\ answer.abilities = <<>>
  BY DEF Reply
<1> HIDE DEF answer
<1>2. DOMAIN <<>> = {}
  OBVIOUS
<1>3. Catalog!Range(<<>>) = {}
  BY <1>2 DEF Catalog!Range
<1>4. answer \in Catalog!Right(moment, q)
  BY DEF answer
<1>5. Catalog!Honest(answer, moment, q)
  BY <1>1, <1>2, <1>3, <1>4 DEF Catalog!Honest
<1>6. QED
  BY <1>5 DEF answer

(* An element of a union of three parts.                                   *)
LEMMA OneOfThree ==
  ASSUME NEW A, NEW M, NEW N, NEW z \in A \cup (UNION M) \cup UNION N
  PROVE  z \in A \/ (\E S \in M : z \in S) \/ (\E S \in N : z \in S)
OBVIOUS

(* The client failed, or it lacks a part of an info or of the ability.     *)
StarvedForm(z, answer, reply, q) ==
  \/ z \in {Failed("deserialization"), Failed("objectNull")}
  \/ \E k \in DOMAIN answer.infos : \E thin \in Thinned(FromJson(reply.infos[k]), ClientFlag(q)) :
       z = [answer EXCEPT !.infos[k] = thin]
  \/ \E k \in DOMAIN answer.abilities : \E a \in AbilityLost(answer.abilities[k]) :
       z = [answer EXCEPT !.abilities[k] = a]

(* What the client makes of a reply when an allocation fails.              *)
LEMMA StarvedCases ==
  ASSUME NEW reply, NEW q, NEW z \in StarvedReceived(reply, q)
  PROVE  StarvedForm(z, Received(reply, q), reply, q)
<1> DEFINE answer == Received(reply, q)
           I(k) == {[answer EXCEPT !.infos[k] = thin] :
                      thin \in Thinned(FromJson(reply.infos[k]), ClientFlag(q))}
           A(k) == {[answer EXCEPT !.abilities[k] = a] : a \in AbilityLost(answer.abilities[k])}
<1>1. z \in {Failed("deserialization"), Failed("objectNull")}
               \cup (UNION {I(k) : k \in DOMAIN answer.infos})
               \cup UNION {A(k) : k \in DOMAIN answer.abilities}
  BY Zenon DEF StarvedReceived
<1>2. \/ z \in {Failed("deserialization"), Failed("objectNull")}
      \/ \E S \in {I(k) : k \in DOMAIN answer.infos} : z \in S
      \/ \E S \in {A(k) : k \in DOMAIN answer.abilities} : z \in S
  BY <1>1, OneOfThree, Zenon
<1>3. \/ z \in {Failed("deserialization"), Failed("objectNull")}
      \/ \E k \in DOMAIN answer.infos : z \in I(k)
      \/ \E k \in DOMAIN answer.abilities : z \in A(k)
  <2> HIDE DEF answer, I, A
  <2> QED
    BY <1>2
<1> HIDE DEF answer
<1>4. StarvedForm(z, answer, reply, q)
  BY <1>3 DEF StarvedForm
<1>5. QED
  BY <1>4 DEF answer

(* Also when an allocation of the client fails.                            *)
LEMMA HonestStarvedInfos ==
  ASSUME NEW moment \in Seq(Infos), NEW q, AskedInfos(moment, q) # {}, NEW xs,
         \A k \in DOMAIN xs : \E y \in AskedInfos(moment, q) : LostInfo(xs[k], y)
  PROVE  LET reply == Reply("ok", [k \in DOMAIN xs |-> Json(xs[k])], <<>>, Null)
         IN  /\ Catalog!Honest(Received(reply, q), moment, q)
             /\ \A answer \in StarvedReceived(reply, q) : Catalog!Honest(answer, moment, q)
<1> DEFINE reply == Reply("ok", [k \in DOMAIN xs |-> Json(xs[k])], <<>>, Null)
           got == [k \in DOMAIN xs |-> Copied(Back(xs[k]), ClientFlag(q))]
           answer == Received(reply, q)
<1>1. /\ answer \in {Failed("deserialization"), Reply("ok", got, <<>>, Null)}
      /\ \A k \in DOMAIN xs : FromJson(reply.infos[k]) = Back(xs[k])
  BY InfosReceived
<1> HIDE DEF reply
<1>2. \A k \in DOMAIN xs : \E y \in AskedInfos(moment, q) :
        /\ LeftOf(got[k], y, ClientFlag(q))
        /\ \A z \in Thinned(Back(xs[k]), ClientFlag(q)) : LeftOf(z, y, ClientFlag(q))
  <2>1. SUFFICES ASSUME NEW k \in DOMAIN xs
                 PROVE  \E y \in AskedInfos(moment, q) :
                          /\ LeftOf(got[k], y, ClientFlag(q))
                          /\ \A z \in Thinned(Back(xs[k]), ClientFlag(q)) : LeftOf(z, y, ClientFlag(q))
    OBVIOUS
  <2>2. PICK y \in AskedInfos(moment, q) : LostInfo(xs[k], y)
    BY <2>1
  <2>3. LostInfo(Back(xs[k]), y)
    BY <2>2, BackLost
  <2>4. got[k] = Copied(Back(xs[k]), ClientFlag(q))
    BY <2>1
  <2> HIDE DEF got
  <2> QED
    BY <2>2, <2>3, <2>4, CopiedLeft, ThinnedLost
<1>3. DOMAIN got = DOMAIN xs
  OBVIOUS
<1> HIDE DEF got
<1>4. Catalog!Honest(Reply("ok", got, <<>>, Null), moment, q)
  BY <1>2, <1>3, HonestInfos
<1>5. \A code_ : code_ # "ok" => Catalog!Honest(Failed(code_), moment, q)
  BY HonestError
<1>6. Catalog!Honest(answer, moment, q)
  BY <1>1, <1>4, <1>5
<1>7. ASSUME NEW k \in DOMAIN answer.infos, NEW thin \in Thinned(FromJson(reply.infos[k]), ClientFlag(q))
      PROVE  Catalog!Honest([answer EXCEPT !.infos[k] = thin], moment, q)
  <2>1. DOMAIN <<>> = {} /\ Failed("deserialization").infos = <<>>
    BY DEF Failed, Reply
  <2>2. answer = Reply("ok", got, <<>>, Null)
    BY <1>1, <1>7, <2>1
  <2>3. answer.infos = got
    BY <2>2 DEF Reply
  <2> HIDE DEF answer
  <2>4. [answer EXCEPT !.infos[k] = thin] = Reply("ok", [got EXCEPT ![k] = thin], <<>>, Null)
    <3>1. \A v, w : [Reply("ok", v, <<>>, Null) EXCEPT !.infos = w] = Reply("ok", w, <<>>, Null)
      BY DEF Reply
    <3>2. [answer EXCEPT !.infos[k] = thin] = [answer EXCEPT !.infos = [got EXCEPT ![k] = thin]]
      BY <2>3
    <3> QED
      BY <2>2, <3>1, <3>2
  <2> DEFINE l == [got EXCEPT ![k] = thin]
  <2>5. k \in DOMAIN xs /\ DOMAIN l = DOMAIN xs
        /\ \A j \in DOMAIN xs : l[j] = IF j = k THEN thin ELSE got[j]
    BY <1>3, <1>7, <2>3 DEF answer
  <2> HIDE DEF l
  <2>6. thin \in Thinned(Back(xs[k]), ClientFlag(q))
    BY <1>1, <1>7, <2>5
  <2>7. \A j \in DOMAIN l : \E y \in AskedInfos(moment, q) : LeftOf(l[j], y, ClientFlag(q))
    BY <1>2, <2>5, <2>6
  <2>8. Catalog!Honest(Reply("ok", l, <<>>, Null), moment, q)
    BY <2>7, HonestInfos
  <2> QED
    BY <2>4, <2>8 DEF l
<1>8. answer.abilities = <<>>
  BY <1>1 DEF Failed, Reply
<1>9. \A k : k \notin DOMAIN answer.abilities
  BY <1>8
<1>10. ASSUME NEW z \in StarvedReceived(reply, q)
       PROVE  Catalog!Honest(z, moment, q)
  <2>1. StarvedForm(z, answer, reply, q)
    BY StarvedCases
  <2> HIDE DEF answer
  <2> QED
    BY <1>5, <1>7, <1>9, <2>1 DEF StarvedForm
<1>11. QED
  BY <1>6, <1>10 DEF reply

(* What a client receives of a decent reply is honest.                     *)
LEMMA HonestReceived ==
  ASSUME NEW moment \in Seq(Infos), NEW q, NEW reply, Decent(reply, moment, q)
  PROVE  /\ Catalog!Honest(Received(reply, q), moment, q)
         /\ reply.code = "ok" =>
              \A answer \in StarvedReceived(reply, q) : Catalog!Honest(answer, moment, q)
<1>1. CASE reply.code # "ok" /\ reply = Failed(reply.code)
  <2>1. Received(reply, q) = reply
    BY <1>1, Refused
  <2>2. Catalog!Honest(reply, moment, q)
    BY <1>1, HonestError
  <2> QED
    BY <1>1, <2>1, <2>2
<1>2. ASSUME NEW xs, reply = Reply("ok", [k \in DOMAIN xs |-> Json(xs[k])], <<>>, Null),
             AskedInfos(moment, q) # {},
             \A k \in DOMAIN xs : \E y \in AskedInfos(moment, q) : LostInfo(xs[k], y)
      PROVE  /\ Catalog!Honest(Received(reply, q), moment, q)
             /\ \A answer \in StarvedReceived(reply, q) : Catalog!Honest(answer, moment, q)
  BY <1>2, HonestStarvedInfos
<1>3. ASSUME NEW a, NEW b, reply = Reply("ok", <<>>, <<a>>, Null), LostText(a, b),
             Reply("ok", <<>>, <<b>>, Null) \in Catalog!Right(moment, q)
      PROVE  /\ Catalog!Honest(Received(reply, q), moment, q)
             /\ \A answer \in StarvedReceived(reply, q) : Catalog!Honest(answer, moment, q)
  <2> DEFINE answer == Received(reply, q)
  <2>1. answer \in {Failed("deserialization"), reply}
    BY <1>3, AbilityReceived
  <2>2. \A c : LostText(c, b) => Catalog!Honest(Reply("ok", <<>>, <<c>>, Null), moment, q)
    BY <1>3, HonestAbility, Zenon
  <2>3. \A code_ : code_ # "ok" => Catalog!Honest(Failed(code_), moment, q)
    BY HonestError
  <2>4. reply.infos = <<>> /\ reply.abilities = <<a>>
        /\ Failed("deserialization").infos = <<>> /\ Failed("deserialization").abilities = <<>>
    BY <1>3 DEF Failed, Reply
  <2>5. DOMAIN <<>> = {} /\ DOMAIN <<a>> = {1} /\ <<a>>[1] = a /\ \A c : [<<a>> EXCEPT ![1] = c] = <<c>>
    OBVIOUS
  <2>6. ASSUME NEW z \in StarvedReceived(reply, q) PROVE Catalog!Honest(z, moment, q)
    <3>1. StarvedForm(z, answer, reply, q)
      BY StarvedCases
    <3> HIDE DEF answer
    <3>2. DOMAIN answer.infos = {}
      BY <2>1, <2>4, <2>5
    <3>3. ASSUME NEW k \in DOMAIN answer.abilities, NEW c \in AbilityLost(answer.abilities[k]),
                 z = [answer EXCEPT !.abilities[k] = c]
          PROVE  Catalog!Honest(z, moment, q)
      <4>1. answer = reply
        BY <2>1, <2>4, <2>5, <3>3
      <4>2. k = 1 /\ answer.abilities = <<a>>
        BY <2>4, <2>5, <3>3, <4>1
      <4>3. LostText(c, b)
        BY <1>3, <2>5, <3>3, <4>2, LostMore DEF AbilityLost
      <4>4. z = [answer EXCEPT !.abilities = [answer.abilities EXCEPT ![k] = c]]
        BY <3>3
      <4>5. \A v, w : [Reply("ok", <<>>, v, Null) EXCEPT !.abilities = w] = Reply("ok", <<>>, w, Null)
        BY DEF Reply
      <4>6. z = Reply("ok", <<>>, <<c>>, Null)
        BY <1>3, <2>5, <4>1, <4>2, <4>4, <4>5
      <4> QED
        BY <2>2, <4>3, <4>6
    <3> QED
      BY <2>3, <3>1, <3>2, <3>3 DEF StarvedForm
  <2>7. Catalog!Honest(answer, moment, q)
    <3> HIDE DEF answer
    <3> QED
      BY <1>3, <2>1, <2>2, <2>3
  <2> QED
    BY <2>6, <2>7
<1>4. ASSUME NEW text, reply = Reply("ok", <<>>, <<>>, text), reply \in Catalog!Right(moment, q)
      PROVE  /\ Catalog!Honest(Received(reply, q), moment, q)
             /\ \A answer \in StarvedReceived(reply, q) : Catalog!Honest(answer, moment, q)
  <2> DEFINE answer == Received(reply, q)
  <2>1. answer = reply
    BY <1>4, TextArrives
  <2>2. Catalog!Honest(reply, moment, q)
    BY <1>4, HonestText
  <2>3. DOMAIN reply.infos = {} /\ DOMAIN reply.abilities = {}
    BY <1>4 DEF Reply
  <2>4. ASSUME NEW z \in StarvedReceived(reply, q) PROVE Catalog!Honest(z, moment, q)
    <3>1. StarvedForm(z, answer, reply, q)
      BY StarvedCases
    <3> HIDE DEF answer
    <3> QED
      BY <2>1, <2>3, <3>1, HonestError DEF StarvedForm
  <2> QED
    BY <2>1, <2>2, <2>4
<1>5. QED
  BY <1>1, <1>2, <1>3, <1>4 DEF Decent

-----------------------------------------------------------------------------
(* What the service replies is decent.                                     *)

(* Errors are decent.                                                      *)
LEMMA DecentFailure ==
  ASSUME NEW code_, code_ # "ok", NEW moment, NEW q
  PROVE  Decent(Failed(code_), moment, q)
BY DEF Decent, Failed, Reply

(* Infos that lost something are decent.                                   *)
LEMMA DecentInfos ==
  ASSUME NEW moment, NEW q, NEW xs, AskedInfos(moment, q) # {},
         \A k \in DOMAIN xs : \E y \in AskedInfos(moment, q) : LostInfo(xs[k], y)
  PROVE  Decent(InfosReply(xs), moment, q)
<1>1. \/ InfosReply(xs) = Failed("serialization") \/ InfosReply(xs) = Failed("crash")
      \/ InfosReply(xs) = Reply("ok", [k \in DOMAIN xs |-> Json(xs[k])], <<>>, Null)
  BY DEF InfosReply, Written
<1>2. Decent(Failed("serialization"), moment, q) /\ Decent(Failed("crash"), moment, q)
  BY DecentFailure
<1>3. Decent(Reply("ok", [k \in DOMAIN xs |-> Json(xs[k])], <<>>, Null), moment, q)
  BY DEF Decent
<1>4. QED
  BY <1>1, <1>2, <1>3

(* The replies about the info a pointer points to are decent.              *)
LEMMA DecentPointer ==
  ASSUME NEW moment \in Seq(Infos), Distinct(moment), NEW i \in DOMAIN moment, NEW q,
         q.kind \in OneBundle, q.bundle = moment[i].text.bundleName
  PROVE  /\ Decent(PointerReply(moment[i], q), moment, q)
         /\ \A reply \in StarvedPointerReplies(moment[i], q) : Decent(reply, moment, q)
<1> DEFINE info == moment[i]
<1>1. info \in Infos
  BY ElementOfSeq
<1>2. Catalog!Named(moment, q.bundle) = <<info>>
  BY NamedIs
<1>3. DOMAIN <<info>> = {1} /\ <<info>>[1] = info /\ Head(<<info>>) = info /\ <<info>> # <<>>
  OBVIOUS
<1>4. info \in Range(moment)
  BY DEF Range
<1> HIDE DEF info
<1>5. LostInfo(info, info)
  BY <1>1, LostNothing
<1>6. CASE q.kind = "info"
  <2> DEFINE c == ShallowCopy(info, q.flag)
  <2>1. LostInfo(c, info)
    <3>1. c = Copied(info, q.flag)
      BY <1>1, SameCopy
    <3> QED
      BY <1>5, <3>1, CopiedLost
  <2>2. info \in AskedInfos(moment, q)
    BY <1>4, <1>6 DEF AskedInfos, info
  <2> HIDE DEF c
  <2>3. DOMAIN <<c>> = {1} /\ <<c>>[1] = c
    OBVIOUS
  <2>4. Decent(InfosReply(<<c>>), moment, q)
    BY <2>1, <2>2, <2>3, DecentInfos
  <2>5. PointerReply(info, q) = InfosReply(<<c>>) /\ StarvedPointerReplies(info, q) = {Failed("serialization")}
    BY <1>6 DEF PointerReply, StarvedPointerReplies, c
  <2> QED
    BY <2>4, <2>5, DecentFailure DEF info
<1>7. CASE q.kind = "ability"
  <2> DEFINE k == FindAbility(info, q.key)
             I == {j \in 1 .. Len(info.abilities) : info.abilities[j].text.name = q.key}
             b == info.abilities[k]
  <2>1. k = IF I # {} THEN Min(I) ELSE 0
    BY DEF FindAbility, SelectInSeq
  <2>2. Len(info.abilities) \in Nat /\ DOMAIN info.abilities = 1 .. Len(info.abilities)
    BY <1>1, InfoParts, LenProperties
  <2>3. I # {} => Min(I) \in I
    BY <2>2, FirstIndex
  <2>4. PointerReply(info, q) = IF k = 0 THEN Failed("noInfos") ELSE AbilityReply(b)
    BY <1>7 DEF PointerReply
  <2>5. StarvedPointerReplies(info, q) =
          IF k = 0 THEN {} ELSE {Failed("serialization")} \cup {AbilityReply(a) : a \in AbilityLost(b)}
    BY <1>7 DEF StarvedPointerReplies
  <2> HIDE DEF k
  <2>6. CASE k = 0
    BY <2>4, <2>5, <2>6, DecentFailure DEF info
  <2>7. CASE k # 0
    <3>1. k \in DOMAIN info.abilities /\ b.text.name = q.key
      <4>1. k \in I
        BY <2>1, <2>3, <2>7
      <4> QED
        BY <2>2, <4>1
    <3>2. LostText(b, b)
      BY <1>5, <3>1 DEF LostInfo
    <3>3. Range(<<info>>) = {info}
      BY <1>3 DEF Range
    <3>4. Catalog!Abilities(moment, q) = {a \in Range(info.abilities) : a.text.name = q.key}
      BY <1>2, <3>3, CatalogLists DEF Catalog!Abilities
    <3>5. b \in Catalog!Abilities(moment, q)
      BY <3>1, <3>4 DEF Range
    <3>6. Reply("ok", <<>>, <<b>>, Null) \in Catalog!Right(moment, q)
      BY <1>7, <3>5, CatalogAnswers DEF Catalog!Right
    <3> HIDE DEF b
    <3>7. ASSUME NEW a, LostText(a, b) PROVE Decent(AbilityReply(a), moment, q)
      <4>1. AbilityReply(a) = Failed("serialization") \/ AbilityReply(a) = Reply("ok", <<>>, <<a>>, Null)
        BY DEF AbilityReply
      <4>2. Decent(Reply("ok", <<>>, <<a>>, Null), moment, q)
        BY <3>6, <3>7 DEF Decent
      <4> QED
        BY <4>1, <4>2, DecentFailure
    <3>8. \A a \in AbilityLost(b) : LostText(a, b)
      BY <3>2, LostMore DEF AbilityLost
    <3> QED
      BY <2>4, <2>5, <2>7, <3>2, <3>7, <3>8, DecentFailure DEF info
  <2> QED
    BY <2>6, <2>7
<1>8. CASE q.kind = "size"
  <2>1. /\ PointerReply(info, q) = Reply("ok", <<>>, <<>>, info.text.codePath)
        /\ StarvedPointerReplies(info, q) = {}
    BY <1>8 DEF PointerReply, StarvedPointerReplies
  <2>2. Catalog!Right(moment, q) = {Reply("ok", <<>>, <<>>, info.text.codePath)}
    BY <1>2, <1>3, <1>8, CatalogAnswers DEF Catalog!Right
  <2> QED
    BY <2>1, <2>2 DEF Decent, info
<1>9. QED
  BY <1>6, <1>7, <1>8 DEF OneBundle

(* So is the reply about a bundle that is not listed.                      *)
LEMMA DecentNone ==
  ASSUME NEW moment \in Seq(Infos), Distinct(moment), NEW q, q.kind \in OneBundle,
         \A i \in DOMAIN moment : moment[i].text.bundleName # q.bundle
  PROVE  Decent(NotFound(q), moment, q)
<1>1. CASE q.kind # "size"
  BY <1>1, DecentFailure DEF NotFound
<1>2. CASE q.kind = "size"
  <2>1. Catalog!Named(moment, q.bundle) = <<>>
    BY NamedIs
  <2>2. Catalog!Right(moment, q) = {Reply("ok", <<>>, <<>>, Null)}
    BY <2>1, <1>2, CatalogAnswers DEF Catalog!Right
  <2> QED
    BY <1>2, <2>2 DEF Decent, NotFound
<1>3. QED
  BY <1>1, <1>2

(* The infos of a moment, some of them with losses.                        *)
LostList(ws, moment) ==
  /\ ws \in Seq(Range(ws)) /\ DOMAIN ws = DOMAIN moment /\ Len(ws) = Len(moment)
  /\ \A k \in DOMAIN ws : LostInfo(ws[k], moment[k])

(* No metadata name is new.                                                *)
LEMMA NameIsLeft ==
  ASSUME NEW y \in Infos, NEW x, LostInfo(x, y), NEW key \in MetaDataNames(x)
  PROVE  key \in MetaDataNames(y)
<1>1. PICK module \in Range(x.modules) :
        key \in {slot.name : slot \in {s \in Range(module.metaData) : s.used /\ s.name # Null}}
  <2> DEFINE N(module) == {slot.name : slot \in {s \in Range(module.metaData) : s.used /\ s.name # Null}}
  <2>1. MetaDataNames(x) = UNION {N(module) : module \in Range(x.modules)}
    BY DEF MetaDataNames
  <2> HIDE DEF N
  <2>2. PICK module \in Range(x.modules) : key \in N(module)
    BY <2>1
  <2> QED
    BY <2>2 DEF N
<1>2. Range(<<>>) = {} /\ \A m : Range(<<m>>) = {m}
  <2>1. DOMAIN <<>> = {} /\ \A m : DOMAIN <<m>> = {1} /\ <<m>>[1] = m
    OBVIOUS
  <2> QED
    BY <2>1 DEF Range
<1>3. PICK m, n : x.modules = <<m>> /\ y.modules = <<n>> /\ LostModule(m, n)
  BY <1>1, <1>2 DEF LostInfo
<1>4. module = m
  BY <1>1, <1>2, <1>3
<1>5. PICK i \in DOMAIN m.metaData : key = m.metaData[i].name /\ key # Null
  BY <1>1, <1>4 DEF Range
<1>6. i \in 1 .. MetaDataSize /\ key = n.metaData[i].name
  BY <1>3, <1>5 DEF LostModule
<1>7. n \in Range(y.modules)
  BY <1>2, <1>3
<1>8. Catalog!HasMetaData(y, key)
  BY <1>5, <1>6, <1>7, CatalogLists, CatalogAnswers DEF Catalog!HasMetaData
<1>9. QED
  BY <1>8, NameOfMetaData

(* Filters keep nothing that is not asked for.                             *)
LEMMA LostFiltered ==
  ASSUME NEW moment \in Seq(Infos), NEW ws, LostList(ws, moment), NEW q,
         q.kind \in {"list", "keepAlive", "metaData"}, NEW k \in DOMAIN Filtered(ws, q)
  PROVE  \E y \in AskedInfos(moment, q) : LostInfo(Filtered(ws, q)[k], y)
<1>1. ws \in Seq(Range(ws)) /\ DOMAIN ws = DOMAIN moment /\ \A j \in DOMAIN ws : LostInfo(ws[j], moment[j])
  BY DEF LostList
<1>2. \A j \in DOMAIN moment : moment[j] \in Infos /\ moment[j] \in Range(moment)
  BY ElementOfSeq DEF Range
<1>3. \A j \in DOMAIN ws : \A f \in Constant : ws[j][f] = moment[j][f]
  BY <1>1 DEF LostInfo
<1>4. CASE q.kind = "list"
  <2>1. Filtered(ws, q) = ws /\ AskedInfos(moment, q) = Range(moment)
    BY <1>4 DEF Filtered, AskedInfos
  <2> QED
    BY <1>1, <1>2, <2>1
<1>5. CASE q.kind = "keepAlive"
  <2> DEFINE S == {i \in Range(ws) : i.isKeepAlive /\ i.isSystemApp}
  <2>1. Filtered(ws, q) = Only(ws, S)
    BY <1>5 DEF Filtered
  <2>2. Only(ws, S) \in Seq(Range(ws) \cap S)
    BY <1>1, OnlyType
  <2>3. Filtered(ws, q)[k] \in S
    <3> HIDE DEF S
    <3> QED
      BY <2>1, <2>2, ElementOfSeq
  <2>4. PICK j \in DOMAIN ws : Filtered(ws, q)[k] = ws[j] /\ ws[j].isKeepAlive /\ ws[j].isSystemApp
    BY <2>3 DEF Range
  <2>5. ws[j].isKeepAlive = moment[j].isKeepAlive /\ ws[j].isSystemApp = moment[j].isSystemApp
    BY <1>3 DEF Constant
  <2>6. moment[j] \in AskedInfos(moment, q)
    BY <1>1, <1>2, <1>5, <2>4, <2>5 DEF AskedInfos
  <2> QED
    BY <1>1, <2>4, <2>6
<1>6. CASE q.kind = "metaData"
  <2> DEFINE S == {i \in Range(ws) : q.key \in MetaDataNames(i)}
  <2>1. Filtered(ws, q) = Only(ws, S)
    BY <1>6 DEF Filtered
  <2>2. Only(ws, S) \in Seq(Range(ws) \cap S)
    BY <1>1, OnlyType
  <2>3. Filtered(ws, q)[k] \in S
    <3> DEFINE s == Only(ws, S)
               T == Range(ws) \cap S
    <3>1. s \in Seq(T) /\ k \in DOMAIN s
      BY <2>1, <2>2
    <3> HIDE DEF s, T
    <3>2. s[k] \in T
      BY <3>1, ElementOfSeq
    <3> QED
      BY <2>1, <3>2 DEF s, T
  <2>4. PICK j \in DOMAIN ws : Filtered(ws, q)[k] = ws[j] /\ q.key \in MetaDataNames(ws[j])
    BY <2>3 DEF Range
  <2>5. q.key \in MetaDataNames(moment[j])
    BY <1>1, <1>2, <2>4, NameIsLeft
  <2>6. moment[j] \in AskedInfos(moment, q)
    BY <1>1, <1>2, <1>6, <2>5 DEF AskedInfos
  <2> QED
    BY <1>1, <2>4, <2>6
<1>7. QED
  BY <1>4, <1>5, <1>6

LEMMA LostRecopied ==
  ASSUME NEW s, NEW q, NEW A, \A k \in DOMAIN s : \E y \in A : LostInfo(s[k], y)
  PROVE  /\ DOMAIN Recopied(s, q) = DOMAIN s
         /\ \A k \in DOMAIN s : \E y \in A : LostInfo(Recopied(s, q)[k], y)
<1>1. CASE q.kind = "list"
  BY <1>1 DEF Recopied
<1>2. CASE q.kind # "list"
  <2>1. Recopied(s, q) = [k \in DOMAIN s |-> Copied(s[k], 1)]
    BY <1>2 DEF Recopied
  <2>2. \A k \in DOMAIN s : Recopied(s, q)[k] = Copied(s[k], 1)
    BY <2>1
  <2>3. ASSUME NEW k \in DOMAIN s PROVE \E y \in A : LostInfo(Recopied(s, q)[k], y)
    <3>1. PICK y \in A : LostInfo(s[k], y)
      BY <2>3
    <3> QED
      BY <2>2, <3>1, CopiedLost
  <2> QED
    BY <2>1, <2>3
<1>3. QED
  BY <1>1, <1>2

(* The reply made of copies that lost something is decent.                 *)
LEMMA DecentCopy ==
  ASSUME NEW moment \in Seq(Infos), NEW ws, LostList(ws, moment), NEW q, q.kind \in Overviews
  PROVE  Decent(CopyReply(ws, q), moment, q)
<1>1. CASE q.kind = "uid"
  <2> DEFINE I == {j \in 1 .. Len(ws) : ws[j].uid = q.key}
             k == SelectInSeq(ws, LAMBDA i : i.uid = q.key)
  <2>1. Len(ws) \in Nat /\ DOMAIN ws = 1 .. Len(ws) /\ DOMAIN ws = DOMAIN moment
    BY LenProperties DEF LostList
  <2>2. k = IF I # {} THEN Min(I) ELSE 0
    BY DEF SelectInSeq
  <2>3. I # {} => Min(I) \in I
    BY <2>1, FirstIndex
  <2>4. CopyReply(ws, q) = IF k = 0 \/ ws[k].text.bundleName = Null THEN Failed("noName")
                           ELSE Reply("ok", <<>>, <<>>, ws[k].text.bundleName)
    BY <1>1 DEF CopyReply, UidReply
  <2> HIDE DEF k
  <2>5. CASE k = 0 \/ ws[k].text.bundleName = Null
    BY <2>4, <2>5, DecentFailure
  <2>6. CASE k # 0 /\ ws[k].text.bundleName # Null
    <3>1. k \in I
      BY <2>2, <2>3, <2>6
    <3>2. k \in DOMAIN ws /\ ws[k].uid = q.key
      BY <2>1, <3>1
    <3>3. LostInfo(ws[k], moment[k])
      BY <3>2 DEF LostList
    <3>4. moment[k].uid = q.key /\ moment[k].text.bundleName = ws[k].text.bundleName
      BY <2>6, <3>2, <3>3 DEF LostInfo, Constant, Catalog!Lacks, Null, Catalog!Null
    <3>5. moment[k] \in Catalog!WithUid(moment, q) /\ moment # <<>>
      BY <2>1, <3>2, <3>4, CatalogLists DEF Catalog!WithUid, Range
    <3>6. Reply("ok", <<>>, <<>>, moment[k].text.bundleName) \in Catalog!Right(moment, q)
      BY <1>1, <3>5, CatalogAnswers DEF Catalog!Right
    <3> QED
      BY <2>4, <2>6, <3>4, <3>6 DEF Decent
  <2> QED
    BY <2>5, <2>6
<1>2. CASE q.kind # "uid"
  <2> DEFINE some == Filtered(ws, q)
  <2>1. \/ CopyReply(ws, q) = Failed("crash")
        \/ some = <<>> /\ CopyReply(ws, q) = Failed("noInfos")
        \/ some # <<>> /\ CopyReply(ws, q) = InfosReply(Recopied(some, q))
    BY <1>2 DEF CopyReply
  <2>2. q.kind \in {"list", "keepAlive", "metaData"}
    BY <1>2 DEF Overviews
  <2>3. \A k \in DOMAIN some : \E y \in AskedInfos(moment, q) : LostInfo(some[k], y)
    BY <2>2, LostFiltered
  <2>4. \E T : some \in Seq(T)
    <3>1. \A S : Only(ws, S) \in Seq(Range(ws) \cap S)
      BY OnlyType DEF LostList
    <3>2. ws \in Seq(Range(ws))
      BY DEF LostList
    <3> QED
      BY <2>2, <3>1, <3>2 DEF Filtered
  <2> HIDE DEF some
  <2>5. CASE some # <<>>
    <3>1. 1 \in DOMAIN some
      <4>1. PICK T : some \in Seq(T)
        BY <2>4
      <4>2. Len(some) \in Nat \ {0} /\ DOMAIN some = 1 .. Len(some)
        BY <2>5, <4>1, LenProperties
      <4> QED
        BY <4>2
    <3>2. AskedInfos(moment, q) # {}
      BY <2>3, <3>1
    <3>3. Decent(InfosReply(Recopied(some, q)), moment, q)
      BY <2>3, <3>2, LostRecopied, DecentInfos
    <3> QED
      BY <2>1, <2>5, <3>3, DecentFailure
  <2>6. CASE some = <<>>
    BY <2>1, <2>6, DecentFailure
  <2> QED
    BY <2>5, <2>6
<1>3. QED
  BY <1>1, <1>2

(* The copies of a moment, one of them made without memory or none.        *)
LEMMA LostListOfCopies ==
  ASSUME NEW moment \in Seq(Infos), NEW flag
  PROVE  LET whole == CopiedAll(moment, flag)
         IN  /\ LostList(whole, moment)
             /\ \A k \in DOMAIN moment : \A thin \in Thinned(moment[k], flag) :
                  LostList([whole EXCEPT ![k] = thin], moment)
<1> DEFINE whole == CopiedAll(moment, flag)
<1>1. Len(moment) \in Nat /\ DOMAIN moment = 1 .. Len(moment)
      /\ \A k \in DOMAIN moment : moment[k] \in Infos
  BY LenProperties, ElementOfSeq
<1>2. DOMAIN whole = DOMAIN moment /\ \A k \in DOMAIN moment : whole[k] = Copied(moment[k], flag)
  BY DEF CopiedAll
<1>3. \A k \in DOMAIN moment : LostInfo(moment[k], moment[k])
  BY <1>1, LostNothing
<1>4. \A k \in DOMAIN moment : LostInfo(whole[k], moment[k])
  BY <1>2, <1>3, CopiedLost
<1>5. whole = [k \in 1 .. Len(moment) |-> whole[k]]
  BY <1>1 DEF CopiedAll
<1> HIDE DEF whole
<1>6. ASSUME NEW ws, ws = [k \in 1 .. Len(moment) |-> ws[k]]
      PROVE  ws \in Seq(Range(ws)) /\ DOMAIN ws = DOMAIN moment /\ Len(ws) = Len(moment)
  <2>1. DOMAIN ws = 1 .. Len(moment)
    BY <1>6
  <2>2. \A k \in 1 .. Len(moment) : ws[k] \in Range(ws)
    BY <2>1 DEF Range
  <2>3. ws \in Seq(Range(ws))
    BY <1>1, <1>6, <2>2
  <2> QED
    BY <1>1, <2>1, <2>3
<1>7. LostList(whole, moment)
  BY <1>4, <1>5, <1>6 DEF LostList
<1>8. ASSUME NEW k \in DOMAIN moment, NEW thin \in Thinned(moment[k], flag)
      PROVE  LostList([whole EXCEPT ![k] = thin], moment)
  <2> DEFINE ws == [whole EXCEPT ![k] = thin]
  <2>1. ws = [j \in 1 .. Len(moment) |-> ws[j]]
    BY <1>1, <1>2
  <2>2. \A j \in DOMAIN moment : ws[j] = IF j = k THEN thin ELSE whole[j]
    BY <1>2
  <2>3. LostInfo(thin, moment[k])
    BY <1>3, <1>8, ThinnedLost DEF LeftOf
  <2> HIDE DEF ws
  <2>4. LostList(ws, moment)
    BY <1>4, <1>6, <2>1, <2>2, <2>3 DEF LostList
  <2> QED
    BY <2>4 DEF ws
<1>9. QED
  BY <1>7, <1>8 DEF whole

(* The replies when an allocation fails, after the copies and in them.     *)
LEMMA DecentAfter ==
  ASSUME NEW moment \in Seq(Infos), NEW q, q.kind \in Overviews,
         NEW whole, LostList(whole, moment), NEW reply \in StarvedAfter(whole, q)
  PROVE  Decent(reply, moment, q)
<1> DEFINE some == Filtered(whole, q)
           thinner(k) == {InfosReply([Recopied(some, q) EXCEPT ![k] = thin]) : thin \in Thinned(some[k], 1)}
<1>1. \/ q.kind = "uid" /\ reply = Failed("noName")
      \/ reply = Failed("serialization")
      \/ /\ q.kind \notin {"uid", "list"}
         /\ reply \in UNION {thinner(k) : k \in DOMAIN some}
  BY Zenon DEF StarvedAfter
<1>2. CASE reply = Failed("noName") \/ reply = Failed("serialization")
  BY <1>2, DecentFailure
<1>3. CASE q.kind \notin {"uid", "list"} /\ reply \in UNION {thinner(k) : k \in DOMAIN some}
  <2>1. PICK k \in DOMAIN some : reply \in thinner(k)
    <3> HIDE DEF thinner, some
    <3> QED
      BY <1>3
  <2>2. PICK thin \in Thinned(some[k], 1) : reply = InfosReply([Recopied(some, q) EXCEPT ![k] = thin])
    BY <2>1
  <2>3. q.kind \in {"list", "keepAlive", "metaData"}
    BY <1>3 DEF Overviews
  <2>4. \A j \in DOMAIN some : \E y \in AskedInfos(moment, q) : LostInfo(some[j], y)
    BY <2>3, LostFiltered
  <2> HIDE DEF some
  <2> DEFINE again == Recopied(some, q)
             xs == [again EXCEPT ![k] = thin]
  <2>5. /\ DOMAIN again = DOMAIN some
        /\ \A j \in DOMAIN some : \E y \in AskedInfos(moment, q) : LostInfo(again[j], y)
    BY <2>4, LostRecopied
  <2>6. PICK y \in AskedInfos(moment, q) : LostInfo(some[k], y)
    BY <2>1, <2>4
  <2>7. LostInfo(thin, y)
    BY <2>2, <2>6, ThinnedLost DEF LeftOf
  <2> HIDE DEF again
  <2>8. DOMAIN xs = DOMAIN some /\ \A j \in DOMAIN some : xs[j] = IF j = k THEN thin ELSE again[j]
    BY <2>5
  <2>9. reply = InfosReply(xs)
    BY <2>2 DEF again
  <2> HIDE DEF xs
  <2>10. \A j \in DOMAIN xs : \E z \in AskedInfos(moment, q) : LostInfo(xs[j], z)
    BY <2>5, <2>6, <2>7, <2>8
  <2> QED
    BY <2>6, <2>9, <2>10, DecentInfos
<1>4. QED
  BY <1>1, <1>2, <1>3

LEMMA DecentStarved ==
  ASSUME NEW moment \in Seq(Infos), NEW q, q.kind \in Overviews,
         NEW reply \in StarvedCopyReplies(moment, q)
  PROVE  Decent(reply, moment, q)
<1> DEFINE whole == CopiedAll(moment, ListFlag(q))
           thinner(k) == {CopyReply([whole EXCEPT ![k] = thin], q) : thin \in Thinned(moment[k], ListFlag(q))}
<1>1. reply \in {Failed("initError")} \cup StarvedAfter(whole, q)
                 \cup UNION {thinner(k) : k \in DOMAIN moment}
  BY Zenon DEF StarvedCopyReplies, CopiedAll
<1>2. LostList(whole, moment)
      /\ \A k \in DOMAIN moment : \A thin \in Thinned(moment[k], ListFlag(q)) :
                  LostList([whole EXCEPT ![k] = thin], moment)
  BY LostListOfCopies
<1>3. ASSUME NEW k \in DOMAIN moment, reply \in thinner(k)
      PROVE  Decent(reply, moment, q)
  <2>1. PICK thin \in Thinned(moment[k], ListFlag(q)) : reply = CopyReply([whole EXCEPT ![k] = thin], q)
    BY <1>3
  <2> HIDE DEF whole
  <2> QED
    BY <1>2, <2>1, DecentCopy
<1>4. \/ reply = Failed("initError") \/ reply \in StarvedAfter(whole, q)
      \/ \E k \in DOMAIN moment : reply \in thinner(k)
  <2> HIDE DEF whole, thinner
  <2> QED
    BY <1>1
<1> HIDE DEF whole, thinner
<1>5. QED
  BY <1>2, <1>3, <1>4, DecentFailure, DecentAfter

-----------------------------------------------------------------------------
(* A call as the catalog sees it.                                          *)

Stale(x) == x.doubt \/ (x.pointer # <<>> /\ x.pointer[1].freed)

View(x) ==
  [phase |-> x.phase, question |-> x.question, moment |-> x.moment, stale |-> Stale(x),
   starved |-> x.starved, answer |-> IF x.phase = "done" THEN x.reply ELSE NoReply]

Views == [c \in Clients |-> View(call[c])]

(* The actions of BundleCatalog, in terms of Views.                        *)
LEMMA ViewContinues ==
  ASSUME NEW c, NEW from, NEW to,
         Views[c].phase = from, Views'[c].phase = to, Views[c].starved => Views'[c].starved,
         Views'[c].question = Views[c].question, Views'[c].stale = Views[c].stale,
         \A d \in Clients \ {c} : Views'[d] = Views[d],
         UNCHANGED <<ListedInfos, cleared>>
  PROVE  Catalog!Continues(c, from, to)
BY Zenon DEF Catalog!Continues, Views, View, Stale

LEMMA ViewAsk ==
  ASSUME NEW c, Views[c] = Catalog!Idle, NEW q \in Questions,
         Views' = [Views EXCEPT ![c].phase = "asked", ![c].question = q],
         UNCHANGED <<ListedInfos, cleared>>
  PROVE  Catalog!Ask(c)
BY Zenon DEF Catalog!Ask, Views, View, Stale

LEMMA ViewReturn ==
  ASSUME NEW c, Views[c].phase = "read", Views[c].starved => Views'[c].starved,
         Views' = [Views EXCEPT ![c] = Catalog!Ended(Views'[c].answer, Views'[c].starved)],
         \/ Views[c].stale
         \/ Fitting(Views'[c].answer, Views[c].moment, Views[c].question)
         \/ Views'[c].starved /\ Catalog!Honest(Views'[c].answer, Views[c].moment, Views[c].question),
         UNCHANGED <<ListedInfos, cleared>>
  PROVE  Catalog!Return(c)
<1>1. Catalog!Fits(Views'[c].answer, c)
  BY Zenon DEF Catalog!Fits, Fitting, Views, View, Stale
<1>2. QED
  BY <1>1, Zenon DEF Catalog!Return, Views, View, Stale

LEMMA ViewChange ==
  ASSUME NEW b,
         Catalog!Others(ListedInfos', b) = Catalog!Others(ListedInfos, b),
         Len(Catalog!Named(ListedInfos', b)) <= 1,
         Views' = [c \in Clients |->
           IF /\ Views[c].phase = "looked" /\ Views[c].question.bundle = b
              /\ Catalog!Named(Views[c].moment, b) # <<>>
           THEN [Views[c] EXCEPT !.stale = TRUE] ELSE Views[c]],
         UNCHANGED cleared
  PROVE  Catalog!Change(b)
BY DEF Catalog!Change, Views, View, Stale

LEMMA ViewRestart ==
  ASSUME ListedInfos' = <<>>, cleared' = FALSE,
         Views' = [c \in Clients |->
           IF Views[c].phase \in {"asked", "looked"}
           THEN Catalog!Ended(Catalog!NotInvoked(Views[c].question), Views[c].starved)
           ELSE Views[c]]
  PROVE  Catalog!Restart
<1>1. PICK sent \in SUBSET {c \in Clients : cleared /\ Views[c].phase = "read"} : sent = {}
  OBVIOUS
<1>2. Views' = [c \in Clients |->
        CASE Views[c].phase \in {"asked", "looked"} ->
               Catalog!Ended(Catalog!NotInvoked(Views[c].question), Views[c].starved)
          [] c \in sent -> [Views[c] EXCEPT !.stale = TRUE]
          [] OTHER -> Views[c]]
  BY <1>1
<1>3. QED
  BY <1>2 DEF Catalog!Restart, Views, View, Stale

LEMMA ViewLook ==
  ASSUME NEW c, NEW to \in {"looked", "read"}, Catalog!Continues(c, "asked", to),
         Views'[c].moment = ListedInfos, Views'[c].answer = NoReply
  PROVE  Catalog!Look(c, to)
BY CatalogAnswers DEF Catalog!Look, Views, View, Stale

LEMMA ViewRead ==
  ASSUME NEW c, NEW to \in {"looked", "read"}, Catalog!Continues(c, "looked", to),
         Views'[c].moment = Views[c].moment, Views'[c].answer = Views[c].answer
  PROVE  Catalog!Read(c)
BY Zenon DEF Catalog!Read, Views, View, Stale

LEMMA ViewStarve ==
  ASSUME NEW c, Catalog!Continues(c, "asked", "asked"),
         Views'[c].moment = Views[c].moment, Views'[c].answer = Views[c].answer
  PROVE  Catalog!Starve(c)
BY DEF Catalog!Starve, Views, View, Stale

LEMMA ViewTake ==
  ASSUME NEW c, Views[c].phase = "done", Views' = [Views EXCEPT ![c] = Catalog!Idle],
         UNCHANGED <<ListedInfos, cleared>>
  PROVE  Catalog!Take(c)
BY DEF Catalog!Take, Views, View, Stale

(* Steps of the catalog.                                                   *)
Maps == [Catalog!Next]_(Catalog!vars)

LEMMA MapsStep ==
  ASSUME NEW c \in Clients,
         Catalog!Ask(c) \/ Catalog!Starve(c) \/ (\E to \in {"looked", "read"} : Catalog!Look(c, to))
           \/ Catalog!Read(c) \/ Catalog!Return(c) \/ Catalog!Take(c)
  PROVE  cleared \/ Maps
BY DEF Maps, Catalog!Next, Catalog!Step

LEMMA MapsChange ==
  ASSUME NEW b \in Bundles, Catalog!Change(b)
  PROVE  cleared \/ Maps
BY DEF Maps, Catalog!Next

LEMMA MapsRestart ==
  ASSUME Catalog!Restart
  PROVE  Maps
BY DEF Maps, Catalog!Next

LEMMA MapsWild ==
  ASSUME cleared'
  PROVE  Maps
BY DEF Maps, Catalog!Next

LEMMA MapsStutter ==
  ASSUME UNCHANGED <<ListedInfos, cleared>>, Views' = Views
  PROVE  Maps
BY DEF Maps, Catalog!vars, Views, View, Stale

-----------------------------------------------------------------------------
(* What is true of a call in the phases it goes through.                   *)

LookedRight(x, waiting) ==
  /\ x.question.kind \in OneBundle /\ x.question.bundle \notin waiting
  /\ x.reply = NoReply
  /\ \E e \in Entries : /\ x.pointer = <<e>> /\ Name(e) = x.question.bundle
                        /\ \E i \in DOMAIN x.moment : x.moment[i] = e.info
  /\ x.doubt \/ Distinct(x.moment)

ReadRight(x) ==
  \/ Stale(x)
  \/ /\ Decent(x.reply, x.moment, x.question)
     /\ x.starved \/ Fitting(Received(x.reply, x.question), x.moment, x.question)

RightCall(x, dead, waiting) ==
  /\ DOMAIN x = DOMAIN Idle
  /\ x.phase \in {"idle", "asked", "looked", "read", "done"}
  /\ x.phase = "asked" =>
       x.pointer = <<>> /\ x.moment = <<>> /\ x.reply = NoReply /\ ~x.doubt
  /\ x.phase \in {"asked", "looked"} /\ x.starved => dead
  /\ x.phase \in {"asked", "looked", "read"} => x.question \in Questions /\ x.moment \in Seq(Infos)
  /\ x.phase = "looked" => LookedRight(x, waiting)
  /\ x.phase = "read" => ReadRight(x)
  /\ x.doubt \in BOOLEAN

CallsRight == \A c \in Clients : RightCall(call[c], crashed, toLoad)

(* A call stays right as the scan goes on and when the service dies.       *)
LEMMA RightStays ==
  ASSUME NEW x, NEW dead, NEW waiting, RightCall(x, dead, waiting),
         NEW dead2, NEW waiting2, dead => dead2, waiting2 \subseteq waiting
  PROVE  RightCall(x, dead2, waiting2)
<1>1. LookedRight(x, waiting) => LookedRight(x, waiting2)
  BY DEF LookedRight
<1>2. QED
  BY <1>1 DEF RightCall

(* A view with other fields.                                               *)
ViewOf(phase, question, moment, stale, starved, answer) ==
  [phase |-> phase, question |-> question, moment |-> moment, stale |-> stale,
   starved |-> starved, answer |-> answer]

WithStale(V, v)   == [V EXCEPT !.stale = v]
WithPhase(V, v)   == [V EXCEPT !.phase = v]
WithQuestion(V, v) == [V EXCEPT !.question = v]
WithAnswer(V, v)  == [V EXCEPT !.answer = v]
WithStarved(V, v) == [V EXCEPT !.starved = v]

LEMMA ViewWith ==
  \A p, q, m, s, t, a, v :
    /\ WithStale(ViewOf(p, q, m, s, t, a), v) = ViewOf(p, q, m, v, t, a)
    /\ WithPhase(ViewOf(p, q, m, s, t, a), v) = ViewOf(v, q, m, s, t, a)
    /\ WithQuestion(ViewOf(p, q, m, s, t, a), v) = ViewOf(p, v, m, s, t, a)
    /\ WithAnswer(ViewOf(p, q, m, s, t, a), v) = ViewOf(p, q, m, s, t, v)
    /\ WithStarved(ViewOf(p, q, m, s, t, a), v) = ViewOf(p, q, m, s, v, a)
<1>1. SUFFICES ASSUME NEW p, NEW q, NEW m, NEW s, NEW t, NEW a, NEW V, V = ViewOf(p, q, m, s, t, a),
                      NEW v
               PROVE  /\ WithStale(V, v) = ViewOf(p, q, m, v, t, a)
                      /\ WithPhase(V, v) = ViewOf(v, q, m, s, t, a)
                      /\ WithQuestion(V, v) = ViewOf(p, v, m, s, t, a)
                      /\ WithAnswer(V, v) = ViewOf(p, q, m, s, t, v)
                      /\ WithStarved(V, v) = ViewOf(p, q, m, s, v, a)
  OBVIOUS
<1>2. QED
  BY <1>1 DEF ViewOf, WithStale, WithPhase, WithQuestion, WithAnswer, WithStarved

LEMMA ViewIs ==
  \A x : View(x) = ViewOf(x.phase, x.question, x.moment, Stale(x), x.starved,
                          IF x.phase = "done" THEN x.reply ELSE NoReply)
BY DEF View, ViewOf

(* A pointer that dangles makes the view stale.                            *)
LEMMA RightDangles ==
  ASSUME NEW x, NEW dead, NEW waiting, RightCall(x, dead, waiting), x.phase = "looked"
  PROVE  LET y == [x EXCEPT !.pointer[1].freed = TRUE]
         IN  RightCall(y, dead, waiting) /\ View(y) = [View(x) EXCEPT !.stale = TRUE]
<1> DEFINE y == [x EXCEPT !.pointer[1].freed = TRUE]
<1>1. DOMAIN x = DOMAIN Idle /\ LookedRight(x, waiting)
  BY DEF RightCall
<1>2. PICK e \in Entries : /\ x.pointer = <<e>> /\ Name(e) = x.question.bundle
                           /\ \E i \in DOMAIN x.moment : x.moment[i] = e.info
  BY <1>1 DEF LookedRight
<1> DEFINE g == [e EXCEPT !.freed = TRUE]
<1>3. g \in Entries /\ g.info = e.info /\ g.freed = TRUE /\ Name(g) = Name(e)
  BY DEF Entries, Name
<1>4. y.pointer = <<g>>
  <2>1. "pointer" \in DOMAIN x
    BY <1>1 DEF Idle
  <2>2. y.pointer = [<<e>> EXCEPT ![1] = g]
    BY <1>2, <2>1
  <2>3. \A d : [<<e>> EXCEPT ![1] = d] = <<d>>
    OBVIOUS
  <2> QED
    BY <2>2, <2>3
<1>5. /\ DOMAIN y = DOMAIN x /\ y.phase = x.phase /\ y.question = x.question
      /\ y.starved = x.starved /\ y.moment = x.moment /\ y.reply = x.reply /\ y.doubt = x.doubt
  OBVIOUS
<1> HIDE DEF y, g
<1>6. LookedRight(y, waiting)
  BY <1>1, <1>2, <1>3, <1>4, <1>5 DEF LookedRight
<1>7. RightCall(y, dead, waiting)
  BY <1>5, <1>6 DEF RightCall
<1>8. Stale(y) = TRUE
  <2>1. <<g>> # <<>> /\ <<g>>[1] = g
    OBVIOUS
  <2>2. x.doubt \in BOOLEAN
    BY DEF RightCall
  <2> QED
    BY <1>3, <1>4, <1>5, <2>1, <2>2 DEF Stale
<1>9. View(y) = [View(x) EXCEPT !.stale = TRUE]
  <2> DEFINE yes == TRUE
             before == Stale(x)
  <2>1. /\ View(x) = ViewOf(x.phase, x.question, x.moment, before, x.starved, NoReply)
        /\ View(y) = ViewOf(x.phase, x.question, x.moment, yes, x.starved, NoReply)
    BY <1>5, <1>8, ViewIs
  <2> HIDE DEF yes, before
  <2>2. View(y) = WithStale(View(x), yes)
    BY <2>1, ViewWith
  <2> QED
    BY <2>2 DEF WithStale, yes
<1>10. QED
  BY <1>7, <1>9 DEF y

(* A call that has not begun, and one that has returned.                   *)
LEMMA RightIdle ==
  \A dead, waiting : RightCall(Idle, dead, waiting) /\ View(Idle) = Catalog!Idle
<1>1. \A dead, waiting : RightCall(Idle, dead, waiting)
  BY DEF RightCall, Idle
<1>2. View(Idle) = Catalog!Idle
  BY CatalogAnswers DEF View, Stale, Idle, Catalog!Idle, NoQuestion, Catalog!NoQuestion
<1>3. QED
  BY <1>1, <1>2

LEMMA RightReturned ==
  ASSUME NEW c, NEW answer, NEW starved, NEW dead, NEW waiting
  PROVE  /\ RightCall(Returned(c, answer, starved), dead, waiting)
         /\ View(Returned(c, answer, starved)) = Catalog!Ended(answer, starved)
<1> DEFINE x == Returned(c, answer, starved)
<1>1. RightCall(x, dead, waiting)
  BY DEF RightCall, Idle, Returned
<1>2. View(x) = Catalog!Ended(answer, starved)
  <2>1. View(Idle) = Catalog!Idle
    BY RightIdle
  <2>2. /\ x.phase = "done" /\ x.reply = answer /\ x.starved = starved
        /\ x.question = Idle.question /\ x.moment = Idle.moment /\ x.pointer = Idle.pointer
        /\ x.doubt = Idle.doubt
    BY DEF Returned, Idle
  <2>3. Stale(x) = Stale(Idle)
    BY <2>2 DEF Stale
  <2>4. /\ View(x) = ViewOf("done", Idle.question, Idle.moment, Stale(Idle), starved, answer)
        /\ View(Idle) = ViewOf("idle", Idle.question, Idle.moment, Stale(Idle), FALSE, NoReply)
    BY <2>2, <2>3, ViewIs DEF Idle
  <2>5. Catalog!Ended(answer, starved) =
          ViewOf("done", NoQuestion, <<>>, FALSE, starved, answer)
    <3>1. Catalog!NoQuestion = NoQuestion
      BY CatalogAnswers DEF NoQuestion, Catalog!NoQuestion
    <3>2. Catalog!Ended(answer, starved) =
          ViewOf("done", Catalog!NoQuestion, <<>>, FALSE, starved, answer)
      <4> DEFINE no == FALSE
      <4>1. Catalog!Idle = ViewOf("idle", Catalog!NoQuestion, <<>>, no, no, Catalog!Nothing)
        BY Zenon DEF Catalog!Idle, ViewOf
      <4> HIDE DEF no
      <4>2. WithStarved(WithAnswer(WithPhase(Catalog!Idle, "done"), answer), starved)
              = ViewOf("done", Catalog!NoQuestion, <<>>, no, starved, answer)
        BY <4>1, ViewWith
      <4> QED
        BY <4>2 DEF Catalog!Ended, WithPhase, WithAnswer, WithStarved, no
    <3> QED
      BY <3>1, <3>2
  <2>6. Idle.question = NoQuestion /\ Idle.moment = <<>> /\ Stale(Idle) = FALSE
    BY DEF Idle, Stale
  <2> QED
    BY <2>4, <2>5, <2>6
<1>3. QED
  BY <1>1, <1>2

(* A step of one call.                                                     *)
LEMMA PutView ==
  ASSUME CallInv, NEW c \in Clients, NEW new, call' = [call EXCEPT ![c] = new]
  PROVE  /\ Views' = [Views EXCEPT ![c] = View(new)]
         /\ Views[c] = View(call[c]) /\ Views'[c] = View(new)
         /\ \A d \in Clients \ {c} : Views'[d] = Views[d]
<1>1. call'[c] = new /\ \A d \in Clients \ {c} : call'[d] = call[d]
  BY DEF CallInv
<1>2. /\ Views' = [d \in Clients |-> View(call'[d])]
  BY DEF Views, View, Stale
<1>3. Views = [d \in Clients |-> View(call[d])]
  BY DEF Views
<1>4. QED
  BY <1>1, <1>2, <1>3

LEMMA PutRight ==
  ASSUME CallInv, CallsRight, NEW c \in Clients, NEW new, call' = [call EXCEPT ![c] = new],
         UNCHANGED toLoad, crashed => crashed', RightCall(new, crashed', toLoad')
  PROVE  CallsRight'
<1>1. call'[c] = new /\ \A d \in Clients \ {c} : call'[d] = call[d]
  BY DEF CallInv
<1>2. \A d \in Clients \ {c} : RightCall(call'[d], crashed', toLoad')
  BY <1>1, RightStays DEF CallsRight
<1>3. \A d \in Clients : RightCall(call'[d], crashed', toLoad')
  BY <1>1, <1>2
<1>4. QED
  BY <1>3 DEF CallsRight

-----------------------------------------------------------------------------
(* The steps of a query.                                                   *)

Kept == CallsRight' /\ (cleared \/ Maps)

LEMMA AskMaps ==
  ASSUME CallInv, CallsRight, NEW c \in Clients, Ask(c)
  PROVE  Kept
<1>1. PICK q \in Questions :
        call' = [call EXCEPT ![c] = [Idle EXCEPT !.phase = "asked", !.question = q]]
  BY Zenon DEF Ask, Put
<1>2. /\ call[c] = Idle /\ ~crashed
      /\ UNCHANGED <<toLoad, crashed, cleared, list, ListedInfos>>
  BY DEF Ask, Put, service, ListedInfos
<1> DEFINE new == [Idle EXCEPT !.phase = "asked", !.question = q]
<1>3. RightCall(new, crashed', toLoad')
  BY DEF RightCall, Idle
<1>4. /\ new.phase = "asked" /\ new.question = q /\ new.moment = Idle.moment
      /\ new.starved = Idle.starved /\ Stale(new) = Stale(Idle)
  BY DEF Idle, Stale
<1> HIDE DEF new
<1>5. CallsRight'
  BY <1>1, <1>2, <1>3, PutRight DEF new
<1>6. /\ Views' = [Views EXCEPT ![c] = View(new)] /\ Views[c] = Catalog!Idle
      /\ Views[c] = View(Idle)
  BY <1>1, <1>2, PutView, RightIdle DEF new
<1>7. View(new) = WithQuestion(WithPhase(Views[c], "asked"), q)
  <2> DEFINE stale == Stale(Idle)
             starved == Idle.starved
  <2>1. /\ Views[c] = ViewOf("idle", Idle.question, Idle.moment, stale, starved, NoReply)
        /\ View(new) = ViewOf("asked", q, Idle.moment, stale, starved, NoReply)
    BY <1>4, <1>6, ViewIs DEF Idle
  <2> HIDE DEF stale, starved
  <2> QED
    BY <2>1, ViewWith
<1>8. Views' = [Views EXCEPT ![c].phase = "asked", ![c].question = q]
  BY <1>6, <1>7 DEF WithQuestion, WithPhase
<1>9. Catalog!Ask(c)
  BY <1>2, <1>6, <1>8, ViewAsk
<1>10. QED
  BY <1>5, <1>9, MapsStep DEF Kept

LEMMA TakeMaps ==
  ASSUME CallInv, CallsRight, NEW c \in Clients, Take(c)
  PROVE  Kept
<1>1. /\ call' = [call EXCEPT ![c] = Idle] /\ call[c].phase = "done"
      /\ UNCHANGED <<toLoad, crashed, cleared, list, ListedInfos>>
  BY DEF Take, Put, service, ListedInfos
<1>2. CallsRight'
  BY <1>1, RightIdle, PutRight
<1>3. Catalog!Take(c)
  <2>1. Views' = [Views EXCEPT ![c] = Catalog!Idle] /\ Views[c].phase = "done"
    <3>1. View(call[c]).phase = "done"
      BY <1>1 DEF View
    <3> QED
      BY <1>1, <3>1, PutView, RightIdle
  <2> QED
    BY <1>1, <2>1, ViewTake
<1>4. QED
  BY <1>2, <1>3, MapsStep DEF Kept

LEMMA ReceiveMaps ==
  ASSUME CallInv, CallsRight, NEW c \in Clients, Receive(c)
  PROVE  Kept
<1> DEFINE x == call[c]
<1>1. x.phase = "read" /\ UNCHANGED <<toLoad, crashed, cleared, list, ListedInfos>>
  BY DEF Receive, Put, service, ListedInfos
<1>2. /\ RightCall(x, crashed, toLoad) /\ ReadRight(x) /\ x.moment \in Seq(Infos)
      /\ x.starved \in BOOLEAN
  BY <1>1 DEF CallsRight, RightCall, CallInv, CallShape
<1>3. PICK answer, starved :
        /\ call' = [call EXCEPT ![c] = Returned(c, answer, starved)]
        /\ \/ answer = Received(x.reply, x.question) /\ starved = x.starved
           \/ /\ ~x.starved /\ x.reply.code = "ok" /\ starved = TRUE
              /\ answer \in StarvedReceived(x.reply, x.question)
  BY DEF Receive, Put
<1>4. CallsRight'
  BY <1>1, <1>3, RightReturned, PutRight
<1>5. /\ Views[c] = View(x) /\ Views' = [Views EXCEPT ![c] = Catalog!Ended(answer, starved)]
      /\ Views'[c] = View(Returned(c, answer, starved))
  <2> DEFINE new == Returned(c, answer, starved)
  <2>1. View(new) = Catalog!Ended(answer, starved)
    BY RightReturned
  <2>2. call' = [call EXCEPT ![c] = new]
    BY <1>3
  <2> HIDE DEF new
  <2>3. /\ Views[c] = View(x) /\ Views' = [Views EXCEPT ![c] = View(new)]
        /\ Views'[c] = View(new)
    BY <2>2, PutView
  <2> QED
    BY <2>1, <2>3 DEF new
<1>6. Views'[c].answer = answer /\ Views'[c].starved = starved
  BY <1>5 DEF View, Returned, Idle
<1>7. /\ View(x).phase = "read" /\ View(x).starved = x.starved /\ View(x).stale = Stale(x)
      /\ View(x).moment = x.moment /\ View(x).question = x.question
  BY <1>1 DEF View
<1>8. \/ Stale(x)
      \/ Fitting(answer, x.moment, x.question)
      \/ starved /\ Catalog!Honest(answer, x.moment, x.question)
  <2>1. SUFFICES ASSUME ~Stale(x)
                 PROVE  \/ Fitting(answer, x.moment, x.question)
                        \/ starved /\ Catalog!Honest(answer, x.moment, x.question)
    OBVIOUS
  <2>2. /\ Decent(x.reply, x.moment, x.question)
        /\ x.starved \/ Fitting(Received(x.reply, x.question), x.moment, x.question)
    BY <1>2, <2>1 DEF ReadRight
  <2>3. /\ Catalog!Honest(Received(x.reply, x.question), x.moment, x.question)
        /\ x.reply.code = "ok" =>
             \A z \in StarvedReceived(x.reply, x.question) :
               Catalog!Honest(z, x.moment, x.question)
    BY <1>2, <2>2, HonestReceived
  <2> QED
    BY <1>3, <2>2, <2>3
<1>9. Views[c].starved => starved
  BY <1>3, <1>5, <1>7
<1>10. Catalog!Return(c)
  <2>1. Views' = [Views EXCEPT ![c] = Catalog!Ended(Views'[c].answer, Views'[c].starved)]
    BY <1>5, <1>6
  <2> QED
    BY <1>1, <1>5, <1>6, <1>7, <1>8, <1>9, <2>1, ViewReturn
<1>11. QED
  BY <1>4, <1>10, MapsStep DEF Kept

(* The fields of a view.                                                   *)
LEMMA ViewFields ==
  \A x : /\ View(x).phase = x.phase /\ View(x).question = x.question
         /\ View(x).moment = x.moment /\ View(x).starved = x.starved
         /\ x.phase # "done" => View(x).answer = NoReply
BY DEF View

LEMMA StaleOfView ==
  \A x : View(x).stale = Stale(x)
BY DEF View

(* A query gets to the list and is not in doubt.                           *)
LEMMA LookMaps ==
  ASSUME CallInv, CallsRight, ~crashed, NEW c \in Clients, call[c].phase = "asked",
         NEW to \in {"looked", "read"}, NEW new, call' = [call EXCEPT ![c] = new],
         new.phase = to, new.question = call[c].question, new.moment = ListedInfos,
         Stale(new) = FALSE, UNCHANGED <<ListedInfos, cleared>>
  PROVE  Catalog!Look(c, to)
<1> DEFINE x == call[c]
<1>1. /\ Views[c] = View(x) /\ Views'[c] = View(new)
      /\ \A d \in Clients \ {c} : Views'[d] = Views[d]
  BY PutView
<1>2. x.starved \in BOOLEAN /\ ~x.starved /\ Stale(x) = FALSE
  <2>1. CallShape(x) /\ RightCall(x, crashed, toLoad)
    BY DEF CallInv, CallsRight
  <2>2. x.doubt \in BOOLEAN /\ ~x.doubt /\ x.pointer = <<>> /\ ~x.starved
    BY <2>1 DEF RightCall
  <2> QED
    BY <2>1, <2>2 DEF CallShape, Stale
<1>3. View(x).stale = View(new).stale
  BY <1>2, StaleOfView
<1> HIDE DEF x
<1>4. /\ Views[c].phase = "asked" /\ Views'[c].phase = to /\ ~Views[c].starved
      /\ Views'[c].question = Views[c].question /\ Views'[c].moment = ListedInfos
      /\ Views'[c].answer = NoReply
  BY <1>1, <1>2, ViewFields DEF x
<1>5. Views'[c].stale = Views[c].stale
  BY <1>1, <1>3
<1>6. Catalog!Continues(c, "asked", to)
  BY <1>1, <1>4, <1>5, ViewContinues
<1>7. QED
  BY <1>4, <1>6, ViewLook

(* The list as a moment.                                                   *)
LEMMA ListedIsMoment ==
  ASSUME QueriesInv
  PROVE  /\ ListedInfos = Moment(list) /\ ListedInfos \in Seq(Infos)
         /\ DOMAIN ListedInfos = DOMAIN list
         /\ \A k \in DOMAIN list : ListedInfos[k] = list[k].info /\ list[k] \in Entries
         /\ list = <<>> <=> ListedInfos = <<>>
         /\ ~cleared => Distinct(ListedInfos) /\ Sound(list)
<1>1. list \in Seq(Entries) /\ (~cleared => Sound(list))
  BY DEF QueriesInv, StateInv, MatchInv
<1>2. ListedInfos = Moment(list)
  BY DEF ListedInfos, Moment
<1>3. /\ Moment(list) \in Seq(Infos) /\ Len(Moment(list)) = Len(list) /\ Len(list) \in Nat
      /\ DOMAIN Moment(list) = 1 .. Len(list) /\ DOMAIN list = 1 .. Len(list)
      /\ \A k \in 1 .. Len(list) : Moment(list)[k] = list[k].info
      /\ Sound(list) => Distinct(Moment(list))
  BY <1>1, MomentItems
<1>4. \A k \in DOMAIN list : list[k] \in Entries
  BY <1>1, ElementOfSeq
<1>5. list = <<>> <=> Moment(list) = <<>>
  <2>1. list = <<>> <=> Len(list) = 0
    BY <1>1, EmptySeq
  <2>2. Moment(list) = <<>> <=> Len(Moment(list)) = 0
    BY <1>3, EmptySeq
  <2> QED
    BY <1>3, <2>1, <2>2
<1>6. QED
  BY <1>1, <1>2, <1>3, <1>4, <1>5

(* Get finds the info or finds that there is none.                         *)
LEMMA LookUpMaps ==
  ASSUME QueriesInv, ShapeInv, CallsRight, NEW c \in Clients, LookUp(c)
  PROVE  Kept
<1> DEFINE x == call[c]
           q == x.question
           moment == ListedInfos
<1>1. /\ ~crashed /\ x.phase = "asked" /\ q.kind \in OneBundle
      /\ UNCHANGED <<toLoad, crashed, cleared, list, ListedInfos>>
  BY DEF LookUp, Put, service, ListedInfos
<1>2. PICK k \in Hits(q.bundle) :
        call' = [call EXCEPT ![c] =
          IF k = 0 THEN [Looked(c, "read") EXCEPT !.reply = NotFound(q)]
                   ELSE [Looked(c, "looked") EXCEPT !.pointer = <<list[k]>>]]
  BY DEF LookUp, Put, NotFound
<1>3. /\ CallInv /\ cleared \in BOOLEAN /\ CallShape(x) /\ RightCall(x, crashed, toLoad)
      /\ DOMAIN x = DOMAIN Idle
  BY DEF ShapeInv, CallInv, FlagInv, CallsRight, RightCall
<1>4. /\ q \in Questions /\ x.pointer = <<>> /\ x.reply = NoReply /\ ~x.starved
  BY <1>1, <1>3 DEF RightCall
<1>5. /\ moment \in Seq(Infos) /\ DOMAIN moment = DOMAIN list
      /\ \A j \in DOMAIN list : moment[j] = list[j].info /\ list[j] \in Entries
      /\ ~cleared => Distinct(moment) /\ Sound(list)
      /\ list \in Seq(Entries)
  BY ListedIsMoment DEF QueriesInv, StateInv
<1>6. CASE k = 0
  <2> DEFINE new == [Looked(c, "read") EXCEPT !.reply = NotFound(q)]
  <2>1. /\ DOMAIN new = DOMAIN Idle /\ new.phase = "read" /\ new.question = q
        /\ new.moment = moment /\ new.doubt = cleared /\ new.pointer = <<>>
        /\ new.reply = NotFound(q) /\ new.starved = x.starved
    BY <1>3, <1>4 DEF Looked, Idle
  <2>2. call' = [call EXCEPT ![c] = new]
    BY <1>2, <1>6
  <2> HIDE DEF new, q, moment
  <2>3. Stale(new) = cleared
    BY <1>3, <2>1 DEF Stale
  <2>4. ASSUME ~cleared
        PROVE  /\ Decent(new.reply, moment, q)
               /\ Fitting(Received(new.reply, q), moment, q)
    <3>1. \A i \in DOMAIN moment : moment[i].text.bundleName # q.bundle
      <4>1. Listed(list, q.bundle) = {}
        BY <1>5, <1>6, <2>4, HitsOfSound
      <4> QED
        BY <1>5, <4>1 DEF Listed, Name
    <3> QED
      BY <1>1, <1>5, <2>1, <2>4, <3>1, DecentNone, RightAboutNone DEF q
  <2>5. RightCall(new, crashed', toLoad')
    BY <1>3, <1>4, <1>5, <2>1, <2>3, <2>4 DEF RightCall, ReadRight
  <2>6. CallsRight'
    BY <1>1, <1>3, <2>2, <2>5, PutRight
  <2>7. ~cleared => Catalog!Look(c, "read")
    BY <1>1, <1>3, <2>1, <2>2, <2>3, LookMaps DEF q, moment
  <2> QED
    BY <2>6, <2>7, MapsStep DEF Kept
<1>7. CASE k # 0
  <2> DEFINE new == [Looked(c, "looked") EXCEPT !.pointer = <<list[k]>>]
             e == list[k]
  <2>1. /\ DOMAIN new = DOMAIN Idle /\ new.phase = "looked" /\ new.question = q
        /\ new.moment = moment /\ new.doubt = cleared /\ new.pointer = <<e>>
        /\ new.reply = NoReply /\ new.starved = x.starved
    BY <1>3, <1>4 DEF Looked, Idle
  <2>2. call' = [call EXCEPT ![c] = new]
    BY <1>2, <1>7
  <2>3. k \in DOMAIN list /\ Name(e) = q.bundle
    BY <1>2, <1>7 DEF Hits
  <2>4. e \in Entries /\ moment[k] = e.info /\ k \in DOMAIN moment
    BY <1>5, <2>3
  <2> HIDE DEF new, q, moment, e
  <2>5. q.bundle \notin toLoad
    <3>1. list[k].info \in Listed(list, q.bundle)
      BY <2>3 DEF Listed, e
    <3>2. \A b \in toLoad : Listed(list, b) = {}
      BY DEF QueriesInv, StateInv
    <3> QED
      BY <3>1, <3>2
  <2>6. ~cleared => Stale(new) = FALSE
    <3>1. ~cleared => e.freed = FALSE
      BY <1>5, <2>3, <2>4 DEF Sound, Entries, e
    <3>2. <<e>>[1] = e
      OBVIOUS
    <3> QED
      BY <1>3, <2>1, <3>1, <3>2 DEF Stale
  <2>7. RightCall(new, crashed', toLoad')
    <3>1. LookedRight(new, toLoad)
      <4>1. \E i \in DOMAIN new.moment : new.moment[i] = e.info
        BY <2>1, <2>4
      <4> QED
        BY <1>1, <1>5, <2>1, <2>3, <2>4, <2>5, <4>1 DEF LookedRight, q
    <3> QED
      BY <1>1, <1>3, <1>4, <1>5, <2>1, <3>1 DEF RightCall
  <2>8. CallsRight'
    BY <1>1, <1>3, <2>2, <2>7, PutRight
  <2>9. ~cleared => Catalog!Look(c, "looked")
    BY <1>1, <1>3, <2>1, <2>2, <2>6, LookMaps DEF q, moment
  <2> QED
    BY <2>8, <2>9, MapsStep DEF Kept
<1>8. QED
  BY <1>6, <1>7

(* The service dies of a query, which then has not gone on.                *)
LEMMA CrashMaps ==
  ASSUME CallInv, CallsRight, ~crashed, NEW c \in Clients, call[c].phase \in {"asked", "looked"},
         NEW starved, crashed' = TRUE, call' = [call EXCEPT ![c].starved = starved],
         UNCHANGED service
  PROVE  Kept
<1> DEFINE x == call[c]
           new == [x EXCEPT !.starved = starved]
<1>1. UNCHANGED <<toLoad, cleared, list, ListedInfos>>
  BY DEF service, ListedInfos
<1>2. CallShape(x) /\ RightCall(x, crashed, toLoad) /\ DOMAIN x = DOMAIN Idle
  BY DEF CallInv, CallsRight, RightCall
<1>3. /\ DOMAIN new = DOMAIN Idle /\ new.phase = x.phase /\ new.question = x.question
      /\ new.moment = x.moment /\ new.doubt = x.doubt /\ new.pointer = x.pointer
      /\ new.reply = x.reply
  BY <1>2
<1>4. call' = [call EXCEPT ![c] = new]
  OBVIOUS
<1> HIDE DEF new
<1>5. RightCall(new, crashed', toLoad')
  <2>1. LookedRight(x, toLoad) => LookedRight(new, toLoad)
    BY <1>3 DEF LookedRight
  <2>2. x.phase = "looked" => LookedRight(x, toLoad)
    BY <1>2 DEF RightCall
  <2> QED
    BY <1>1, <1>2, <1>3, <2>1, <2>2 DEF RightCall
<1>6. CallsRight'
  BY <1>1, <1>4, <1>5, PutRight
<1>7. /\ Views[c] = View(x) /\ Views'[c] = View(new)
      /\ \A d \in Clients \ {c} : Views'[d] = Views[d]
  BY <1>4, PutView
<1>8. ~x.starved
  BY <1>2 DEF RightCall
<1>9. View(new).stale = View(x).stale
  <2>1. Stale(new) = Stale(x)
    BY <1>3 DEF Stale
  <2> QED
    BY <2>1, StaleOfView
<1> HIDE DEF x
<1>10. /\ Views[c].phase = x.phase /\ Views'[c].phase = x.phase /\ ~Views[c].starved
       /\ Views'[c].question = Views[c].question /\ Views'[c].moment = Views[c].moment
       /\ Views'[c].answer = Views[c].answer
  <2>1. x.phase # "done"
    BY DEF x
  <2> QED
    BY <1>3, <1>7, <1>8, <2>1, ViewFields
<1>11. Views'[c].stale = Views[c].stale
  BY <1>7, <1>9
<1>12. CASE x.phase = "asked"
  <2>1. Views[c].phase = "asked" /\ Views'[c].phase = "asked"
    BY <1>10, <1>12
  <2>2. Catalog!Continues(c, "asked", "asked")
    BY <1>1, <1>7, <1>10, <1>11, <2>1, ViewContinues
  <2>3. Catalog!Starve(c)
    BY <1>10, <2>2, ViewStarve
  <2> QED
    BY <1>6, <2>3, MapsStep DEF Kept
<1>13. CASE x.phase = "looked"
  <2>1. Views[c].phase = "looked" /\ Views'[c].phase = "looked"
    BY <1>10, <1>13
  <2>2. Catalog!Continues(c, "looked", "looked")
    BY <1>1, <1>7, <1>10, <1>11, <2>1, ViewContinues
  <2>3. Catalog!Read(c)
    BY <1>10, <2>2, ViewRead
  <2> QED
    BY <1>6, <2>3, MapsStep DEF Kept
<1>14. QED
  BY <1>12, <1>13 DEF x

(* A query of copies answers.                                              *)
LEMMA SnapshotAnswer ==
  ASSUME QueriesInv, ShapeInv, CallsRight, ~crashed, NEW c \in Clients, call[c].phase = "asked",
         NEW reply, NEW starved \in BOOLEAN, Answered(c, Looked(c, "read"), reply, starved),
         Decent(reply, ListedInfos, call[c].question),
         starved \/ Fitting(Received(reply, call[c].question), ListedInfos, call[c].question)
  PROVE  Kept
<1> DEFINE x == call[c]
           q == x.question
           moment == ListedInfos
<1>1. /\ CallInv /\ cleared \in BOOLEAN /\ RightCall(x, crashed, toLoad) /\ DOMAIN x = DOMAIN Idle
  BY DEF ShapeInv, FlagInv, CallsRight, RightCall
<1>2. CASE reply.code = "crash"
  BY <1>1, <1>2, CrashMaps DEF Answered
<1>3. CASE reply.code # "crash"
  <2> DEFINE new == [Looked(c, "read") EXCEPT !.phase = "read", !.reply = reply,
                                              !.starved = starved, !.doubt = @ \/ cleared]
  <2>1. /\ call' = [call EXCEPT ![c] = new]
        /\ UNCHANGED <<toLoad, crashed, cleared, list, ListedInfos>>
    BY <1>3 DEF Answered, Put, service, ListedInfos
  <2>2. q \in Questions /\ x.pointer = <<>>
    BY <1>1 DEF RightCall
  <2>3. /\ DOMAIN new = DOMAIN Idle /\ new.phase = "read" /\ new.question = q
        /\ new.moment = moment /\ new.pointer = <<>>
        /\ new.reply = reply /\ new.starved = starved
    BY <1>1, <2>2 DEF Looked, Idle
  <2>4. new.doubt = (cleared \/ cleared)
    BY <1>1 DEF Looked, Idle
  <2> HIDE DEF new
  <2>5. new.doubt = cleared /\ Stale(new) = cleared
    BY <1>1, <2>3, <2>4 DEF Stale
  <2>6. moment \in Seq(Infos)
    BY ListedIsMoment
  <2>7. ReadRight(new)
    BY <2>3 DEF ReadRight
  <2>8. RightCall(new, crashed', toLoad')
    BY <1>1, <2>2, <2>3, <2>5, <2>6, <2>7 DEF RightCall
  <2>9. CallsRight'
    BY <1>1, <2>1, <2>8, PutRight
  <2>10. ~cleared => Catalog!Look(c, "read")
    BY <1>1, <2>1, <2>3, <2>5, LookMaps
  <2> QED
    BY <2>9, <2>10, MapsStep DEF Kept
<1>4. QED
  BY <1>2, <1>3

LEMMA SnapshotMaps ==
  ASSUME QueriesInv, ShapeInv, CallsRight, NEW c \in Clients, Snapshot(c)
  PROVE  Kept
<1> DEFINE q == call[c].question
           moment == ListedInfos
           whole == [k \in DOMAIN list |-> Copied(list[k].info, ListFlag(q))]
<1>1. /\ ~crashed /\ call[c].phase = "asked" /\ q.kind \notin OneBundle
  BY DEF Snapshot
<1>2. q.kind \in Overviews
  <2>1. q \in Questions
    BY <1>1 DEF CallsRight, RightCall
  <2> QED
    BY <1>1, <2>1, QueriesAssumption
<1>3. /\ moment \in Seq(Infos) /\ DOMAIN moment = DOMAIN list
      /\ \A j \in DOMAIN list : moment[j] = list[j].info
      /\ list = <<>> <=> moment = <<>>
  BY ListedIsMoment
<1>4. whole = CopiedAll(moment, ListFlag(q))
  BY <1>3 DEF CopiedAll
<1> HIDE DEF whole, moment, q
<1>5. CASE list = <<>> /\ Answered(c, Looked(c, "read"), Failed("noInfos"), FALSE)
  <2>1. Decent(Failed("noInfos"), moment, q)
    BY DecentFailure
  <2>2. Fitting(Received(Failed("noInfos"), q), moment, q)
    BY <1>2, <1>3, <1>5, RightEmpty
  <2> QED
    BY <1>1, <1>5, <2>1, <2>2, SnapshotAnswer DEF moment, q
<1>6. CASE list # <<>> /\ Answered(c, Looked(c, "read"), CopyReply(whole, q), FALSE)
  <2>1. Decent(CopyReply(whole, q), moment, q)
    BY <1>2, <1>3, <1>4, LostListOfCopies, DecentCopy
  <2>2. Fitting(Received(CopyReply(whole, q), q), moment, q)
    BY <1>2, <1>3, <1>4, <1>6, RightAboutAll
  <2> QED
    BY <1>1, <1>6, <2>1, <2>2, SnapshotAnswer DEF moment, q
<1>7. CASE \E reply \in StarvedCopyReplies(moment, q) :
             Answered(c, Looked(c, "read"), reply, TRUE)
  <2>1. PICK reply \in StarvedCopyReplies(moment, q) : Answered(c, Looked(c, "read"), reply, TRUE)
    BY <1>7
  <2>2. Decent(reply, moment, q)
    BY <1>2, <1>3, DecentStarved
  <2> QED
    BY <1>1, <2>1, <2>2, SnapshotAnswer DEF moment, q
<1>8. QED
  BY <1>5, <1>6, <1>7 DEF Snapshot, whole, moment, q

(* A query reads through its pointer.                                      *)
LEMMA ReadAnswer ==
  ASSUME QueriesInv, ShapeInv, CallsRight, ~crashed, NEW c \in Clients, call[c].phase = "looked",
         NEW reply, NEW starved \in BOOLEAN, Answered(c, call[c], reply, starved),
         \/ Stale(call[c])
         \/ /\ Decent(reply, call[c].moment, call[c].question)
            /\ starved \/ Fitting(Received(reply, call[c].question), call[c].moment, call[c].question)
  PROVE  Kept
<1> DEFINE x == call[c]
           q == x.question
<1>1. /\ CallInv /\ cleared \in BOOLEAN /\ RightCall(x, crashed, toLoad) /\ DOMAIN x = DOMAIN Idle
  BY DEF ShapeInv, FlagInv, CallsRight, RightCall
<1>2. CASE reply.code = "crash"
  BY <1>1, <1>2, CrashMaps DEF Answered
<1>3. CASE reply.code # "crash"
  <2> DEFINE new == [x EXCEPT !.phase = "read", !.reply = reply,
                              !.starved = starved, !.doubt = @ \/ cleared]
  <2>1. /\ call' = [call EXCEPT ![c] = new]
        /\ UNCHANGED <<toLoad, crashed, cleared, list, ListedInfos>>
    BY <1>3 DEF Answered, Put, service, ListedInfos
  <2>2. q \in Questions /\ x.doubt \in BOOLEAN /\ x.moment \in Seq(Infos) /\ ~x.starved
    BY <1>1 DEF RightCall
  <2>3. /\ DOMAIN new = DOMAIN Idle /\ new.phase = "read" /\ new.question = q
        /\ new.moment = x.moment /\ new.pointer = x.pointer
        /\ new.reply = reply /\ new.starved = starved
    BY <1>1 DEF Idle
  <2>4. new.doubt = (x.doubt \/ cleared)
    BY <1>1 DEF Idle
  <2> HIDE DEF new
  <2>5. /\ new.doubt \in BOOLEAN /\ (Stale(x) => Stale(new))
        /\ ~cleared => Stale(new) = Stale(x)
    BY <1>1, <2>2, <2>3, <2>4 DEF Stale
  <2>6. ReadRight(new)
    BY <2>3, <2>5 DEF ReadRight
  <2>7. RightCall(new, crashed', toLoad')
    BY <1>1, <2>2, <2>3, <2>5, <2>6 DEF RightCall
  <2>8. CallsRight'
    BY <1>1, <2>1, <2>7, PutRight
  <2>9. ASSUME ~cleared PROVE Catalog!Read(c)
    <3>1. /\ Views[c] = View(x) /\ Views'[c] = View(new)
          /\ \A d \in Clients \ {c} : Views'[d] = Views[d]
      BY <1>1, <2>1, PutView
    <3>2. View(new).stale = View(x).stale
      BY <2>5, <2>9, StaleOfView
    <3> HIDE DEF x
    <3>3. /\ Views[c].phase = "looked" /\ Views'[c].phase = "read" /\ ~Views[c].starved
          /\ Views'[c].question = Views[c].question /\ Views'[c].moment = Views[c].moment
          /\ Views'[c].answer = Views[c].answer
      <4>1. x.phase = "looked"
        BY DEF x
      <4> QED
        BY <2>2, <2>3, <3>1, <4>1, ViewFields
    <3>4. Views'[c].stale = Views[c].stale
      BY <3>1, <3>2
    <3>5. Catalog!Continues(c, "looked", "read")
      BY <2>1, <3>1, <3>3, <3>4, ViewContinues
    <3> QED
      BY <3>3, <3>5, ViewRead
  <2> QED
    BY <2>8, <2>9, MapsStep DEF Kept
<1>4. QED
  BY <1>2, <1>3

LEMMA ReadMaps ==
  ASSUME QueriesInv, ShapeInv, CallsRight, NEW c \in Clients, Read(c)
  PROVE  Kept
<1> DEFINE x == call[c]
           q == x.question
           e == x.pointer[1]
<1>1. ~crashed /\ x.phase = "looked"
  BY DEF Read
<1>2. LookedRight(x, toLoad) /\ x.moment \in Seq(Infos)
  BY <1>1 DEF CallsRight, RightCall
<1>3. /\ q.kind \in OneBundle /\ e \in Entries /\ Name(e) = q.bundle /\ x.pointer = <<e>>
      /\ \E i \in DOMAIN x.moment : x.moment[i] = e.info
      /\ x.doubt \/ Distinct(x.moment)
  BY <1>2 DEF LookedRight
<1>4. e.freed => Stale(x)
  <2>1. <<e>> # <<>>
    OBVIOUS
  <2> QED
    BY <1>3, <2>1 DEF Stale
<1>5. ASSUME ~Stale(x)
      PROVE  /\ Decent(PointerReply(e.info, q), x.moment, q)
             /\ Fitting(Received(PointerReply(e.info, q), q), x.moment, q)
             /\ \A reply \in StarvedPointerReplies(e.info, q) : Decent(reply, x.moment, q)
  <2>1. Distinct(x.moment)
    BY <1>3, <1>5 DEF Stale
  <2>2. PICK i \in DOMAIN x.moment : x.moment[i] = e.info
    BY <1>3
  <2>3. q.bundle = x.moment[i].text.bundleName
    BY <1>3, <2>2 DEF Name
  <2> HIDE DEF x, q, e
  <2> QED
    BY <1>2, <1>3, <2>1, <2>2, <2>3, DecentPointer, RightAboutOne
<1>6. CASE Answered(c, x, PointerReply(e.info, q), FALSE)
  BY <1>1, <1>5, <1>6, ReadAnswer
<1>7. CASE \E reply \in StarvedPointerReplies(e.info, q) : Answered(c, x, reply, TRUE)
  BY <1>1, <1>5, <1>7, ReadAnswer
<1>8. CASE e.freed /\ \E code_ \in {"other", "crash"} : Answered(c, x, Failed(code_), FALSE)
  BY <1>1, <1>4, <1>8, ReadAnswer
<1>9. QED
  BY <1>6, <1>7, <1>8 DEF Read

LEMMA QueryMaps ==
  ASSUME QueriesInv, ShapeInv, CallsRight, NEW c \in Clients, Query(c)
  PROVE  Kept
BY AskMaps, LookUpMaps, SnapshotMaps, ReadMaps, ReceiveMaps, TakeMaps DEF Query, ShapeInv

-----------------------------------------------------------------------------
(* The steps of the service task.                                          *)

(* A moment that has an info names its bundle.                             *)
LEMMA NamedSome ==
  ASSUME NEW moment \in Seq(Infos), NEW i \in DOMAIN moment
  PROVE  Catalog!Named(moment, moment[i].text.bundleName) # <<>>
<1> DEFINE b == moment[i].text.bundleName
           S == {info \in Range(moment) : info.text.bundleName = b}
<1>1. moment[i] \in S
  BY DEF Range
<1>2. Catalog!Named(moment, b) = Only(moment, S)
  BY CatalogLists DEF Catalog!Named
<1> HIDE DEF S
<1>3. moment[i] \in Range(Only(moment, S))
  BY <1>1, OnlyKeeps
<1>4. Range(<<>>) = {}
  BY DEF Range
<1>5. QED
  BY <1>2, <1>3, <1>4

(* Pointers to a bundle that dangle are calls that go stale.               *)
LEMMA DanglingMaps ==
  ASSUME CallInv, CallsRight, NEW b, call' = Dangling(b), UNCHANGED <<crashed, toLoad>>
  PROVE  /\ CallsRight'
         /\ Views' = [c \in Clients |->
              IF /\ Views[c].phase = "looked" /\ Views[c].question.bundle = b
                 /\ Catalog!Named(Views[c].moment, b) # <<>>
              THEN [Views[c] EXCEPT !.stale = TRUE] ELSE Views[c]]
<1> DEFINE hit(c) == call[c].phase = "looked" /\ call[c].question.bundle = b
           seen(c) == /\ Views[c].phase = "looked" /\ Views[c].question.bundle = b
                      /\ Catalog!Named(Views[c].moment, b) # <<>>
<1>1. ASSUME NEW c \in Clients
      PROVE  /\ RightCall(call'[c], crashed', toLoad')
             /\ View(call'[c]) = IF seen(c) THEN [Views[c] EXCEPT !.stale = TRUE] ELSE Views[c]
  <2> DEFINE x == call[c]
  <2>1. RightCall(x, crashed, toLoad) /\ Views[c] = View(x)
    BY DEF CallsRight, Views
  <2>2. call'[c] = IF x.phase = "looked" /\ x.pointer # <<>> /\ Name(x.pointer[1]) = b
                   THEN [x EXCEPT !.pointer[1].freed = TRUE] ELSE x
    BY DEF Dangling
  <2>3. x.phase = "looked" =>
          /\ x.pointer # <<>> /\ Name(x.pointer[1]) = x.question.bundle
          /\ Catalog!Named(x.moment, x.question.bundle) # <<>>
    <3>1. SUFFICES ASSUME x.phase = "looked"
                   PROVE  /\ x.pointer # <<>> /\ Name(x.pointer[1]) = x.question.bundle
                          /\ Catalog!Named(x.moment, x.question.bundle) # <<>>
      OBVIOUS
    <3>2. LookedRight(x, toLoad) /\ x.moment \in Seq(Infos)
      BY <2>1, <3>1 DEF RightCall
    <3>3. PICK e \in Entries : /\ x.pointer = <<e>> /\ Name(e) = x.question.bundle
                               /\ \E i \in DOMAIN x.moment : x.moment[i] = e.info
      BY <3>2 DEF LookedRight
    <3>4. PICK i \in DOMAIN x.moment : x.moment[i] = e.info
      BY <3>3
    <3>5. x.moment[i].text.bundleName = x.question.bundle
      BY <3>3, <3>4 DEF Name
    <3>6. <<e>> # <<>> /\ <<e>>[1] = e
      OBVIOUS
    <3> QED
      BY <3>2, <3>3, <3>5, <3>6, NamedSome
  <2>4. /\ View(x).phase = x.phase /\ View(x).question = x.question /\ View(x).moment = x.moment
    BY ViewFields
  <2>5. CASE x.phase = "looked" /\ x.question.bundle = b
    <3>1. call'[c] = [x EXCEPT !.pointer[1].freed = TRUE]
      BY <2>2, <2>3, <2>5
    <3>2. seen(c)
      BY <2>1, <2>3, <2>4, <2>5
    <3>3. /\ RightCall([x EXCEPT !.pointer[1].freed = TRUE], crashed, toLoad)
          /\ View([x EXCEPT !.pointer[1].freed = TRUE]) = [View(x) EXCEPT !.stale = TRUE]
      BY <2>1, <2>5, RightDangles
    <3> QED
      BY <2>1, <3>1, <3>2, <3>3
  <2>6. CASE ~(x.phase = "looked" /\ x.question.bundle = b)
    <3>1. call'[c] = x
      BY <2>2, <2>3, <2>6
    <3>2. ~seen(c)
      BY <2>1, <2>4, <2>6
    <3> QED
      BY <2>1, <3>1, <3>2
  <2> QED
    BY <2>5, <2>6
<1>2. Views' = [c \in Clients |-> View(call'[c])]
  BY DEF Views, View, Stale
<1>3. CallsRight'
  BY <1>1 DEF CallsRight
<1> HIDE DEF seen
<1>4. Views' = [c \in Clients |->
         IF seen(c) THEN [Views[c] EXCEPT !.stale = TRUE] ELSE Views[c]]
  BY <1>1, <1>2, Zenon
<1>5. QED
  BY <1>3, <1>4 DEF seen

(* A restart ends the calls that have no answer.                           *)
LEMMA RestartMaps ==
  ASSUME CallsRight, Restart
  PROVE  CallsRight' /\ Maps
<1> DEFINE ended(c) == Returned(c, NotInvoked(call[c].question), call[c].starved)
           pending(c) == call[c].phase \in {"asked", "looked"}
           waits(c) == Views[c].phase \in {"asked", "looked"}
<1>1. /\ list' = <<>> /\ cleared' = FALSE
      /\ call' = [c \in Clients |-> IF pending(c) THEN ended(c) ELSE call[c]]
  BY DEF Restart
<1>2. \A q : Catalog!NotInvoked(q) = NotInvoked(q)
  BY CatalogAnswers DEF NotInvoked, Catalog!NotInvoked
<1>3. ASSUME NEW c \in Clients
      PROVE  /\ RightCall(call'[c], crashed', toLoad')
             /\ View(call'[c]) =
                  IF waits(c)
                  THEN Catalog!Ended(Catalog!NotInvoked(Views[c].question), Views[c].starved)
                  ELSE Views[c]
  <2>1. RightCall(call[c], crashed, toLoad) /\ Views[c] = View(call[c])
    BY DEF CallsRight, Views
  <2>2. /\ Views[c].phase = call[c].phase /\ Views[c].question = call[c].question
        /\ Views[c].starved = call[c].starved
    BY <2>1, ViewFields
  <2>3. CASE pending(c)
    <3>1. call'[c] = ended(c)
      BY <1>1, <2>3
    <3>2. /\ RightCall(ended(c), crashed', toLoad')
          /\ View(ended(c)) = Catalog!Ended(NotInvoked(call[c].question), call[c].starved)
      BY RightReturned
    <3>3. Catalog!NotInvoked(Views[c].question) = NotInvoked(call[c].question)
      BY <1>2, <2>2
    <3>4. waits(c)
      BY <2>2, <2>3
    <3> HIDE DEF ended, waits
    <3>5. View(call'[c]) = Catalog!Ended(Catalog!NotInvoked(Views[c].question), Views[c].starved)
      BY <2>2, <3>1, <3>2, <3>3
    <3> QED
      BY <3>1, <3>2, <3>4, <3>5
  <2>4. CASE ~pending(c)
    <3>1. call'[c] = call[c] /\ ~waits(c)
      BY <1>1, <2>2, <2>4
    <3>2. RightCall(call[c], crashed', toLoad')
      BY <2>1, <2>4 DEF RightCall
    <3> QED
      BY <2>1, <3>1, <3>2
  <2> QED
    BY <2>3, <2>4
<1>4. CallsRight'
  BY <1>3 DEF CallsRight
<1>5. ListedInfos' = <<>>
  BY <1>1 DEF ListedInfos
<1>6. Views' = [c \in Clients |-> View(call'[c])]
  BY DEF Views, View, Stale
<1> HIDE DEF waits
<1>7. Views' = [c \in Clients |->
        IF waits(c) THEN Catalog!Ended(Catalog!NotInvoked(Views[c].question), Views[c].starved)
        ELSE Views[c]]
  BY <1>3, <1>6, Zenon
<1>8. Catalog!Restart
  BY <1>1, <1>5, <1>7, ViewRestart DEF waits
<1>9. QED
  BY <1>4, <1>8, MapsRestart

LEMMA ListedNext ==
  /\ ListedInfos = Moment(list) /\ ListedInfos' = Moment(list')
BY DEF ListedInfos, Moment

(* An operation that changes one bundle in the list.                       *)
LEMMA ChangeMaps ==
  ASSUME QueriesInv', ~cleared, UNCHANGED cleared, NEW b \in Bundles,
         Catalog!Others(Moment(list'), b) = Catalog!Others(Moment(list), b),
         Views' = [c \in Clients |->
           IF /\ Views[c].phase = "looked" /\ Views[c].question.bundle = b
              /\ Catalog!Named(Views[c].moment, b) # <<>>
           THEN [Views[c] EXCEPT !.stale = TRUE] ELSE Views[c]]
  PROVE  Maps
<1>1. list' \in Seq(Entries) /\ Sound(list')
  BY DEF QueriesInv, StateInv, MatchInv
<1>2. Len(Catalog!Named(Moment(list'), b)) <= 1
  BY <1>1, MomentItems, NamedOnce
<1>3. Catalog!Change(b)
  BY <1>2, ListedNext, ViewChange
<1>4. QED
  BY <1>3, MapsChange

(* An install changes one bundle, and so does a removal.                   *)
LEMMA PublishMaps ==
  ASSUME QueriesInv, QueriesInv', ShapeInv, CallsRight, NEW b \in Bundles,
         NEW profile \in DOMAIN Profiles, NEW place \in Places, NEW uid \in Uids[b],
         Publish(b, profile, place, uid)
  PROVE  Kept
<1> DEFINE p == Profiles[profile]
<1>1. /\ UNCHANGED <<toLoad, crashed, cleared>> /\ call' = Dangling(b)
      /\ p.bundleName = b /\ DeviceTypeAccepted(p)
  BY DEF Publish, Installable, ParseJsonInfo, ModuleAccepted
<1>2. PICK k \in Hits(b) :
        LET old == list[k].info
            where == IF k = 0 THEN place ELSE old.text.codePath
            info == InstalledInfo(p, where, IF k = 0 THEN uid ELSE old.uid,
                      IF k = 0 THEN b \in SystemBundles ELSE old.isSystemApp)
        IN  list' = Updated(k, info)
  BY DEF Publish
<1> DEFINE old == list[k].info
           where == IF k = 0 THEN place ELSE old.text.codePath
           owner == IF k = 0 THEN uid ELSE old.uid
           system == IF k = 0 THEN b \in SystemBundles ELSE old.isSystemApp
           info == InstalledInfo(p, where, owner, system)
<1>3. list \in Seq(Entries)
  BY DEF QueriesInv, StateInv
<1>4. where \in Places /\ owner \in AllUids /\ system \in BOOLEAN
  <2>1. CASE k = 0
    BY <2>1 DEF AllUids
  <2>2. CASE k # 0
    <3>1. k \in DOMAIN list
      BY <2>2 DEF Hits
    <3>2. list[k].info \in Infos
      BY <1>3, <3>1, ElementOfSeq, EntryNames
    <3> QED
      BY <2>2, <3>2, InfosFields
  <2> QED
    BY <2>1, <2>2
<1>5. list' = Updated(k, info)
  BY <1>2
<1> HIDE DEF where, owner, system, info
<1>6. info \in Infos /\ info.text.bundleName = b
  BY <1>1, <1>4, MadeInfo DEF info
<1>7. Catalog!Others(Moment(list'), b) = Catalog!Others(Moment(list), b)
  BY <1>3, <1>5, <1>6, UpdatedOthers
<1>8. /\ CallsRight'
      /\ Views' = [c \in Clients |->
           IF /\ Views[c].phase = "looked" /\ Views[c].question.bundle = b
              /\ Catalog!Named(Views[c].moment, b) # <<>>
           THEN [Views[c] EXCEPT !.stale = TRUE] ELSE Views[c]]
  BY <1>1, DanglingMaps DEF ShapeInv
<1>9. cleared \/ Maps
  BY <1>1, <1>7, <1>8, ChangeMaps
<1>10. QED
  BY <1>8, <1>9 DEF Kept

LEMMA EraseMaps ==
  ASSUME QueriesInv, QueriesInv', ShapeInv, CallsRight, NEW b \in Bundles,
         RollBack(b) \/ Uninstall(b)
  PROVE  Kept
<1>1. /\ UNCHANGED <<toLoad, crashed, cleared>> /\ call' = Dangling(b)
  BY DEF RollBack, Uninstall
<1>2. PICK k \in Hits(b) \ {0} : list' = Erased(k)
  BY DEF RollBack, Uninstall
<1>3. list \in Seq(Entries)
  BY DEF QueriesInv, StateInv
<1>4. Catalog!Others(Moment(list'), b) = Catalog!Others(Moment(list), b)
  BY <1>2, <1>3, ErasedOthers
<1>5. /\ CallsRight'
      /\ Views' = [c \in Clients |->
           IF /\ Views[c].phase = "looked" /\ Views[c].question.bundle = b
              /\ Catalog!Named(Views[c].moment, b) # <<>>
           THEN [Views[c] EXCEPT !.stale = TRUE] ELSE Views[c]]
  BY <1>1, DanglingMaps DEF ShapeInv
<1>6. cleared \/ Maps
  BY <1>1, <1>4, <1>5, ChangeMaps
<1>7. QED
  BY <1>5, <1>6 DEF Kept

(* What leaves the list and the calls alone.                               *)
LEMMA QuietMaps ==
  ASSUME CallsRight, UNCHANGED <<list, cleared, call>>, crashed => crashed',
         toLoad' \subseteq toLoad
  PROVE  CallsRight' /\ Maps
<1>1. CallsRight'
  <2>1. SUFFICES ASSUME NEW c \in Clients PROVE RightCall(call[c], crashed', toLoad')
    BY DEF CallsRight
  <2>2. RightCall(call[c], crashed, toLoad)
    BY DEF CallsRight
  <2> QED
    BY <2>2, RightStays
<1>2. Views' = Views
  BY DEF Views, View, Stale
<1>3. Maps
  BY <1>2, ListedNext, MapsStutter
<1>4. QED
  BY <1>1, <1>3

(* CLEAR_INSTALL_ENV makes the service wild.                               *)
LEMMA ClearMaps ==
  ASSUME ShapeInv, CallsRight, ClearInstallEnv
  PROVE  CallsRight' /\ Maps
<1>1. /\ UNCHANGED <<crashed, toLoad>> /\ call' = Dangling(installing) /\ cleared'
  BY DEF ClearInstallEnv
<1>2. CallsRight'
  BY <1>1, DanglingMaps DEF ShapeInv
<1>3. QED
  BY <1>1, <1>2, MapsWild

(* A bundle the scan comes to is a new one: no query has found it.         *)
LEMMA ReloadMaps ==
  ASSUME QueriesInv, QueriesInv', CallsRight, NEW b \in Bundles, Reload(b)
  PROVE  CallsRight' /\ Maps
<1> DEFINE p == Profiles[code[b].profile]
           uid == record[b]
<1>1. /\ b \in toLoad /\ toLoad' \subseteq toLoad /\ ~crashed
      /\ UNCHANGED <<crashed, cleared, call>>
  BY DEF Reload
<1>2. CASE UNCHANGED list
  BY <1>1, <1>2, QuietMaps
<1>3. CASE /\ uid # NoUid /\ Reloadable(p)
           /\ \E k \in Hits(b) :
                list' = Added(k, ReloadedInfo(p, code[b].place, uid, b \in SystemBundles))
  <2> DEFINE info == InstalledInfo(p, code[b].place, uid, b \in SystemBundles)
  <2>1. PICK k \in Hits(b) : list' = Added(k, info)
    BY <1>3, ReloadedIsInstalled
  <2>2. /\ list \in Seq(Entries) /\ Listed(list, b) = {} /\ ~cleared /\ Sound(list)
        /\ code[b] # NoCode /\ uid \in AllUids
        /\ p.bundleName = b /\ code[b].profile \in DOMAIN Profiles /\ code[b].place \in Places
    BY <1>1, QueriesAssumption DEF QueriesInv, StateInv, MatchInv, Loadable
  <2>3. k = 0
    BY <2>1, <2>2, HitsOfSound
  <2>4. info \in Infos /\ info.text.bundleName = b
    <3>1. DeviceTypeAccepted(p)
      BY <1>3 DEF Reloadable, ParseJsonInfo, ModuleAccepted
    <3>2. (b \in SystemBundles) \in BOOLEAN
      OBVIOUS
    <3> DEFINE made(isSystemApp) == InstalledInfo(p, code[b].place, uid, isSystemApp)
    <3>3. \A isSystemApp \in BOOLEAN :
            made(isSystemApp) \in Infos /\ made(isSystemApp).text.bundleName = b
      BY <2>2, <3>1, MadeInfo
    <3> HIDE DEF made
    <3>4. info = made(b \in SystemBundles)
      BY DEF made
    <3> QED
      BY <3>2, <3>3, <3>4
  <2> HIDE DEF info
  <2>5. list' = Updated(k, info)
    BY <2>1, <2>3 DEF Added, Updated
  <2>6. Catalog!Others(Moment(list'), b) = Catalog!Others(Moment(list), b)
    BY <2>1, <2>2, <2>4, <2>5, UpdatedOthers
  <2>7. CallsRight'
    <3>1. SUFFICES ASSUME NEW c \in Clients PROVE RightCall(call[c], crashed', toLoad')
      BY <1>1 DEF CallsRight
    <3>2. RightCall(call[c], crashed, toLoad)
      BY DEF CallsRight
    <3> QED
      BY <1>1, <3>2, RightStays
  <2>8. Views' = [c \in Clients |->
           IF /\ Views[c].phase = "looked" /\ Views[c].question.bundle = b
              /\ Catalog!Named(Views[c].moment, b) # <<>>
           THEN [Views[c] EXCEPT !.stale = TRUE] ELSE Views[c]]
    <3> DEFINE seen(c) == /\ Views[c].phase = "looked" /\ Views[c].question.bundle = b
                          /\ Catalog!Named(Views[c].moment, b) # <<>>
    <3>1. Views' = [c \in Clients |-> Views[c]]
      BY <1>1 DEF Views, View, Stale
    <3>2. ASSUME NEW c \in Clients PROVE ~seen(c)
      <4>1. Views[c] = View(call[c]) /\ RightCall(call[c], crashed, toLoad)
        BY DEF Views, CallsRight
      <4>2. Views[c].phase = call[c].phase /\ Views[c].question = call[c].question
        BY <4>1, ViewFields
      <4>3. call[c].phase = "looked" => call[c].question.bundle \notin toLoad
        BY <4>1 DEF RightCall, LookedRight
      <4> QED
        BY <1>1, <4>2, <4>3
    <3> HIDE DEF seen
    <3>3. Views' = [c \in Clients |->
             IF seen(c) THEN [Views[c] EXCEPT !.stale = TRUE] ELSE Views[c]]
      BY <3>1, <3>2, Zenon
    <3> QED
      BY <3>3 DEF seen
  <2>9. Maps
    BY <1>1, <2>2, <2>6, <2>8, ChangeMaps
  <2> QED
    BY <2>7, <2>9
<1>4. QED
  BY <1>2, <1>3 DEF Reload

LEMMA KeptMaps ==
  ASSUME Kept, UNCHANGED cleared
  PROVE  CallsRight' /\ Maps
BY MapsWild DEF Kept

LEMMA QueryKeeps ==
  ASSUME NEW c, Query(c)
  PROVE  UNCHANGED cleared
BY Zenon DEF Query, Ask, LookUp, Snapshot, Read, Receive, Take, Answered, Put, service

LEMMA TaskMaps ==
  ASSUME QueriesInv, QueriesInv', ShapeInv, CallsRight, ServiceTask
  PROVE  CallsRight' /\ Maps
<1>1. ASSUME NEW b \in Bundles, NEW profile \in DOMAIN Profiles, NEW place \in Places,
             NEW uid \in Uids[b], Publish(b, profile, place, uid)
      PROVE  CallsRight' /\ Maps
  <2>1. UNCHANGED cleared
    BY <1>1 DEF Publish
  <2> QED
    BY <1>1, <2>1, PublishMaps, KeptMaps
<1>2. CASE Commit
  BY <1>2, QuietMaps DEF Commit
<1>3. CASE ClearInstallEnv
  BY <1>3, ClearMaps
<1>4. ASSUME NEW b \in Bundles, RollBack(b) \/ Uninstall(b)
      PROVE  CallsRight' /\ Maps
  <2>1. UNCHANGED cleared
    BY <1>4 DEF RollBack, Uninstall
  <2> QED
    BY <1>4, <2>1, EraseMaps, KeptMaps
<1>5. ASSUME NEW b \in Bundles, Reload(b)
      PROVE  CallsRight' /\ Maps
  BY <1>5, ReloadMaps
<1>6. CASE ReadsFreed
  BY <1>6, QuietMaps DEF ReadsFreed, service
<1>7. CASE Restart
  BY <1>7, RestartMaps
<1>8. QED
  BY <1>1, <1>2, <1>3, <1>4, <1>5, <1>6, <1>7 DEF ServiceTask

(* Every step keeps the calls right and is one of BundleCatalog.           *)
LEMMA NextMaps ==
  ASSUME QueriesInv, QueriesInv', ShapeInv, CallsRight, [Next]_vars
  PROVE  CallsRight' /\ Maps
<1>1. CASE ServiceTask
  BY <1>1, TaskMaps
<1>2. ASSUME NEW c \in Clients, Query(c)
      PROVE  CallsRight' /\ Maps
  BY <1>2, QueryMaps, QueryKeeps, KeptMaps
<1>3. CASE UNCHANGED vars
  BY <1>3, QuietMaps DEF vars, service
<1>4. QED
  BY <1>1, <1>2, <1>3 DEF Next

LEMMA InitMaps ==
  ASSUME Init
  PROVE  CallsRight /\ Catalog!Init
<1>1. /\ list = <<>> /\ cleared = FALSE /\ call = [c \in Clients |-> Idle]
  BY DEF Init
<1>2. CallsRight
  BY <1>1, RightIdle DEF CallsRight
<1>3. Views = [c \in Clients |-> Catalog!Idle]
  BY <1>1, RightIdle DEF Views
<1>4. ListedInfos = <<>>
  BY <1>1 DEF ListedInfos
<1>5. Catalog!Init
  BY <1>1, <1>3, <1>4 DEF Catalog!Init, Views, View, Stale
<1>6. QED
  BY <1>2, <1>5

-----------------------------------------------------------------------------
(* The theorem.                                                            *)

(* Every behaviour of the queries and the service task is one that         *)
(* BundleCatalog allows: the list is the catalog, a call is stale when its *)
(* pointer dangles or it looked at a list with freed infos, and the service*)
(* is wild while CLEAR_INSTALL_ENV left such an info in the list.          *)
THEOREM CatalogImplemented == Spec => ImplementsCatalog
<1>1. Init => CallsRight /\ Catalog!Init
  BY InitMaps
<1>2. QueriesInv /\ QueriesInv' /\ ShapeInv /\ CallsRight /\ [Next]_vars => CallsRight' /\ Maps
  BY NextMaps
<1>3. Spec => [](QueriesInv /\ ShapeInv)
  BY ShapeInvariant
<1>4. Spec => Catalog!Init /\ [][Catalog!Next]_(Catalog!vars)
  BY <1>1, <1>2, <1>3, PTL DEF Spec, Maps
<1>5. QED
  BY <1>4 DEF ImplementsCatalog, Catalog!Spec
=============================================================================
