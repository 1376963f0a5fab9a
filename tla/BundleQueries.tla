---------------------------- MODULE BundleQueries ----------------------------
(***************************************************************************)
(* The list of installed bundles (BundleMap), the operations that change   *)
(* it, and the queries of clients from the call in BundleKit to its answer.*)
(*                                                                         *)
(* The service task installs, removes and reloads; a query may run in      *)
(* another task, through the functions of BmsServerProxy.  A mutex makes   *)
(* the operations of the list atomic, and nothing else: Get returns a      *)
(* pointer, which a query reads when the mutex is free again, and          *)
(* GetBundleInfos copies every info below the mutex, for the query to use. *)
(*                                                                         *)
(* Freed memory that is read is as it was, or is something else, or the    *)
(* service crashes.  At most one allocation fails in a call.               *)
(***************************************************************************)
EXTENDS BundleTransfer

CONSTANTS
  Clients, Bundles,
  Profiles,        \* the profiles of the haps, a function from their names
  Questions,       \* what clients may ask
  SystemBundles,   \* those of the system partition
  Uids,            \* what GenerateUid may find for a bundle
  NoUid,           \* INVALID_UID, when none is left
  Disks,           \* what is installed when the service first starts
  MaxChanges       \* bound on installs and removals

None == "none"

VARIABLES
  list,        \* bundleInfos_, from the front: infos and whether they are freed
  code,        \* the profile in the code directory of a bundle and its place
  record,      \* the uid in the install record
  installing,  \* the bundle that is listed and has no record yet
  toLoad,      \* what the scan has not come to
  crashed,
  cleared,     \* history: CLEAR_INSTALL_ENV freed an info that is listed
  changes,
  call         \* the call of each client

service == <<list, code, record, installing, toLoad, cleared, changes>>
vars == <<service, crashed, call>>

-----------------------------------------------------------------------------
(* Answers and calls.                                                      *)

Reply(code_, infos, abilities, text) ==
  [code |-> code_, infos |-> infos, abilities |-> abilities, text |-> text]

Failed(code_) == Reply(code_, <<>>, <<>>, Null)
NoReply == Failed("none")

NoQuestion == [kind |-> "none", bundle |-> Null, key |-> Null, flag |-> 0]

Idle == [phase |-> "idle", question |-> NoQuestion, pointer |-> <<>>, reply |-> NoReply,
         moment |-> <<>>, doubt |-> FALSE, starved |-> FALSE]

(* The call is over: what it held is free, its answer is with the client.  *)
Returned(c, answer, starved) ==
  [Idle EXCEPT !.phase = "done", !.reply = answer, !.starved = starved]

OneBundle == {"info", "ability", "size"}     \* the questions that use Get
Overviews == {"list", "keepAlive", "metaData", "uid"}     \* and GetBundleInfos

Entry(info) == [info |-> info, freed |-> FALSE]

Name(entry) == entry.info.text.bundleName

ListedInfos == [k \in DOMAIN list |-> list[k].info]

NoCode == [profile |-> None, place |-> None]

Places == {"internal", "external"}

Codes == [profile : DOMAIN Profiles \cup {None}, place : Places \cup {None}]

(* A member that is there has a text, arrays are sequences; what is        *)
(* installed has the profile of its bundle.                                *)
ASSUME QueriesAssumption ==
  /\ MaxChanges \in Nat
  /\ \A q \in Questions : q.kind \in OneBundle \cup Overviews
  /\ {None, Null} \cap Bundles = {}
  /\ \A b \in Bundles : None \notin Uids[b]
  /\ \A x \in DOMAIN Profiles :
       /\ Profiles[x].deviceType \in Seq(Range(Profiles[x].deviceType))
       /\ Profiles[x].metaData \in Seq(Range(Profiles[x].metaData))
       /\ Profiles[x].abilities \in Seq(Range(Profiles[x].abilities))
       /\ \A a \in Range(Profiles[x].abilities) : a.name # Null
  /\ \A disk \in Disks :
       /\ disk.code \in [Bundles -> Codes]
       /\ disk.record \in [Bundles -> {None} \cup UNION {Uids[b] : b \in Bundles}]
       /\ \A b \in Bundles :
            /\ disk.record[b] \in Uids[b] \cup {None}
            /\ disk.code[b] # NoCode =>
                 /\ disk.code[b].profile \in DOMAIN Profiles /\ disk.code[b].place \in Places
                 /\ Profiles[disk.code[b].profile].bundleName = b

(* What the scan reloads has files and a record.                           *)
Loadable == {b \in Bundles : code[b] # NoCode /\ record[b] # None}

Init ==
  /\ list = <<>> /\ installing = None
  /\ \E disk \in Disks : code = disk.code /\ record = disk.record
  /\ toLoad = Loadable
  /\ crashed = FALSE /\ cleared = FALSE /\ changes = 0
  /\ call = [c \in Clients |-> Idle]

-----------------------------------------------------------------------------
(* BundleMap.                                                              *)

(* Where a loop over the list may stop for a bundle, 0 if at its end.  An  *)
(* info that is freed may or may not have its name still.                  *)
Hits(b) ==
  LET at == {k \in DOMAIN list : Name(list[k]) = b}
  IN  {k \in at : \A j \in at : j < k => list[j].freed}
        \cup (IF \A k \in at : list[k].freed THEN {0} ELSE {})

(* Pointers that queries hold to the info of a bundle dangle.              *)
Dangling(b) ==
  [c \in Clients |->
     IF call[c].phase = "looked" /\ call[c].pointer # <<>> /\ Name(call[c].pointer[1]) = b
     THEN [call[c] EXCEPT !.pointer[1].freed = TRUE] ELSE call[c]]

(* Add keeps what is listed; the new info is then nowhere.                 *)
Added(k, info) == IF k = 0 THEN <<Entry(info)>> \o list ELSE list

(* Slip: the new node is not linked in place of the old one.               *)
UpdatedInFront(k, info) ==                                         \* a bug
  IF k = 0 THEN <<Entry(info)>> \o list
           ELSE <<Entry(info)>> \o [list EXCEPT ![k].freed = TRUE]

(* Update frees the old info and puts the new one in its place.            *)
Updated(k, info) ==
  IF k = 0 THEN <<Entry(info)>> \o list ELSE [list EXCEPT ![k] = Entry(info)]

Erased(k) == IF k = 0 THEN list ELSE RemoveAt(list, k)

(* Every loop over the list reads what is freed and listed.                *)
ReadsFreed ==
  /\ ~crashed /\ \E k \in DOMAIN list : list[k].freed
  /\ crashed' = TRUE
  /\ UNCHANGED <<service, call>>

-----------------------------------------------------------------------------
(* The service task.                                                       *)

Ready == ~crashed /\ toLoad = {} /\ installing = None

Counted == changes < MaxChanges /\ changes' = changes + 1

(* The part of an install up to the list.  The profile is parsed and the   *)
(* version checked before the files change; an update keeps what the old   *)
(* info says of its owner and place.                                       *)
Publish(b, profile, place, uid) ==
  /\ Ready /\ Counted
  /\ LET p == Profiles[profile]
     IN  /\ p.bundleName = b /\ Installable(p)
         /\ b \in SystemBundles => place = "internal"
         /\ \E k \in Hits(b) :
              LET old == list[k].info
                  where == IF k = 0 THEN place ELSE old.text.codePath
                  info == InstalledInfo(p, where, IF k = 0 THEN uid ELSE old.uid,
                            IF k = 0 THEN b \in SystemBundles ELSE old.isSystemApp)
              IN  /\ k # 0 => old.versionCode <= p.versionCode
                  /\ list' = Updated(k, info)
                  /\ code' = [code EXCEPT ![b] = [profile |-> profile, place |-> where]]
  /\ call' = Dangling(b)
  /\ installing' = b
  /\ UNCHANGED <<record, toLoad, crashed, cleared>>

(* The record and the uid list are in place.                               *)
Commit ==
  /\ ~crashed /\ installing # None
  /\ \E k \in Hits(installing) \ {0} :
       record' = [record EXCEPT ![installing] = list[k].info.uid]
  /\ installing' = None
  /\ UNCHANGED <<list, code, toLoad, crashed, cleared, changes, call>>

(* Or they are not: CLEAR_INSTALL_ENV frees the info, which stays listed.  *)
ClearInstallEnv ==
  /\ ~crashed /\ installing # None
  /\ \E k \in Hits(installing) \ {0} : list' = [list EXCEPT ![k].freed = TRUE]
  /\ code' = [code EXCEPT ![installing] = NoCode]
  /\ call' = Dangling(installing)
  /\ installing' = None /\ cleared' = TRUE
  /\ UNCHANGED <<record, toLoad, crashed, changes>>

(* An update that fails before the list takes the old version with it.     *)
RollBack(b) ==
  /\ Ready /\ Counted
  /\ \E k \in Hits(b) \ {0} : list' = Erased(k)
  /\ code' = [code EXCEPT ![b] = NoCode]
  /\ call' = Dangling(b)
  /\ UNCHANGED <<record, installing, toLoad, crashed, cleared>>

Uninstall(b) ==
  /\ Ready /\ Counted
  /\ \E k \in Hits(b) \ {0} : ~list[k].info.isSystemApp /\ list' = Erased(k)
  /\ code' = [code EXCEPT ![b] = NoCode]
  /\ record' = [record EXCEPT ![b] = None]
  /\ call' = Dangling(b)
  /\ UNCHANGED <<installing, toLoad, crashed, cleared>>

(* The scan comes to an installed bundle.  Without a uid it is passed over.*)
(* A profile that is not read, for any reason, loses its directory.        *)
Reload(b) ==
  /\ ~crashed /\ b \in toLoad
  /\ LET p == Profiles[code[b].profile]   uid == record[b]
     IN  \/ uid = NoUid /\ UNCHANGED <<list, code>>
         \/ /\ uid # NoUid /\ Reloadable(p)
            /\ \E k \in Hits(b) :
                 list' = Added(k, ReloadedInfo(p, code[b].place, uid, b \in SystemBundles))
            /\ UNCHANGED code
         \/ /\ uid # NoUid /\ UNCHANGED list
            /\ code' = [code EXCEPT ![b] = NoCode]
  /\ toLoad' = toLoad \ {b}
  /\ UNCHANGED <<record, installing, crashed, cleared, changes, call>>

(* What a call whose Invoke fails returns.                                 *)
NotInvoked(q) == IF q.kind = "size" THEN Reply("ok", <<>>, <<>>, Null) ELSE Failed("invoke")

(* The service or the device starts again.  Calls without an answer fail.  *)
Restart ==
  /\ list' = <<>> /\ installing' = None /\ crashed' = FALSE /\ cleared' = FALSE
  /\ toLoad' = Loadable
  /\ call' = [c \in Clients |->
       IF call[c].phase \in {"asked", "looked"}
       THEN Returned(c, NotInvoked(call[c].question), call[c].starved)
       ELSE call[c]]
  /\ UNCHANGED <<code, record, changes>>

-----------------------------------------------------------------------------
(* A query, up to the list.                                                *)

Put(c, new) == call' = [call EXCEPT ![c] = new] /\ UNCHANGED <<service, crashed>>

Ask(c) ==
  /\ ~crashed /\ call[c] = Idle
  /\ \E q \in Questions : Put(c, [Idle EXCEPT !.phase = "asked", !.question = q])

(* The history: the list at that moment, and whether it was sound.         *)
Looked(c, to) == [call[c] EXCEPT !.phase = to, !.moment = ListedInfos, !.doubt = cleared]

(* QueryBundleInfo and the map's GetBundleInfo and GetBundleSize: Get.     *)
LookUp(c) ==
  LET q == call[c].question
  IN  /\ ~crashed /\ call[c].phase = "asked" /\ q.kind \in OneBundle
      /\ \E k \in Hits(q.bundle) :
           Put(c, IF k = 0
             THEN [Looked(c, "read") EXCEPT !.reply =
                     IF q.kind = "size" THEN Reply("ok", <<>>, <<>>, Null) ELSE Failed("noInfos")]
             ELSE [Looked(c, "looked") EXCEPT !.pointer = <<list[k]>>])

-----------------------------------------------------------------------------
(* The service answers.  Its replies, and "crash" for one that is not sent.*)

Written(outcome, reply) ==
  CASE outcome = "ok" -> reply
    [] outcome = "failed" -> Failed("serialization")
    [] OTHER -> Failed("crash")

InfosReply(infos) ==
  IF SerializedAll(infos) = "ok" /\ TooLong(infos) THEN Failed("serialization")
  ELSE Written(SerializedAll(infos),
               Reply("ok", [k \in DOMAIN infos |-> Json(infos[k])], <<>>, Null))

AbilityReply(ability) ==
  IF AbilityWritten(ability) /\ ~AbilityTooLong THEN Reply("ok", <<>>, <<ability>>, Null)
                                                ELSE Failed("serialization")

(* QueryAbilityInfo: the first ability with the name.                      *)
FindAbility(info, name) == SelectInSeq(info.abilities, LAMBDA a : a.text.name = name)

(* GetCopyBundleInfo, which copies no text.                                *)
ShallowCopy(info, flag) ==
  IF flag = 1 THEN info ELSE [info EXCEPT !.abilities = <<>>, !.numOfAbility = 0]

(* Slip: a metadata item without a name is compared as well.               *)
MetaDataAllNames(info) ==                                          \* a bug
  UNION {{slot.name : slot \in {s \in Range(module.metaData) : s.used}}
           : module \in Range(info.modules)}

(* CheckBundleInfoWithSpecialMetaData: whether a name is compared.         *)
MetaDataNames(info) ==
  UNION {{slot.name : slot \in {s \in Range(module.metaData) : s.used /\ s.name # Null}}
           : module \in Range(info.modules)}

(* It reads through what is null: an array of modules that was not copied, *)
(* and the name, if it did not look.                                       *)
MetaDataCrash(info) ==
  info.numOfModule > Len(info.modules) \/ Null \in MetaDataNames(info)

Filtered(infos, q) ==
  CASE q.kind = "keepAlive" -> Only(infos, {i \in Range(infos) : i.isKeepAlive /\ i.isSystemApp})
    [] q.kind = "metaData" -> Only(infos, {i \in Range(infos) : q.key \in MetaDataNames(i)})
    [] OTHER -> infos

Recopied(infos, q) ==
  IF q.kind = "list" THEN infos ELSE [k \in DOMAIN infos |-> Copied(infos[k], 1)]

(* GetBundleNameForUid: the first info with the uid.                       *)
UidReply(infos, uid) ==
  LET k == SelectInSeq(infos, LAMBDA i : i.uid = uid)
  IN  IF k = 0 \/ infos[k].text.bundleName = Null THEN Failed("noName")
      ELSE Reply("ok", <<>>, <<>>, infos[k].text.bundleName)

CopyReply(infos, q) ==
  CASE q.kind = "uid" -> UidReply(infos, q.key)
    [] q.kind = "metaData" /\ (\E i \in Range(infos) : MetaDataCrash(i)) -> Failed("crash")
    [] OTHER -> IF Filtered(infos, q) = <<>> THEN Failed("noInfos")
                ELSE InfosReply(Recopied(Filtered(infos, q), q))

ListFlag(q) ==
  CASE q.kind = "list" -> q.flag
    [] q.kind = "uid" -> 0
    [] OTHER -> 1

PointerReply(info, q) ==
  CASE q.kind = "info" -> InfosReply(<<ShallowCopy(info, q.flag)>>)
    [] q.kind = "ability" ->
         LET k == FindAbility(info, q.key)
         IN  IF k = 0 THEN Failed("noInfos") ELSE AbilityReply(info.abilities[k])
    [] OTHER -> Reply("ok", <<>>, <<>>, info.text.codePath)

(* What they are when one allocation fails: a copy, the JSON or its string.*)
StarvedPointerReplies(info, q) ==
  CASE q.kind = "info" -> {Failed("serialization")}
    [] q.kind = "ability" ->
         LET k == FindAbility(info, q.key)
         IN  IF k = 0 THEN {} ELSE {Failed("serialization")} \cup
               {AbilityReply(a) : a \in AbilityLost(info.abilities[k])}
    [] OTHER -> {}

(* The copy of an info that passed, the JSON or its string.                *)
StarvedAfter(whole, q) ==
  LET some == Filtered(whole, q)
  IN  CASE q.kind = "uid" -> {Failed("noName")}
        [] some = <<>> -> {}
        [] q.kind = "list" -> {Failed("serialization")}
        [] OTHER -> {Failed("serialization")} \cup
             UNION {{InfosReply([Recopied(some, q) EXCEPT ![k] = thin])
                       : thin \in Thinned(some[k], 1)} : k \in DOMAIN some}

(* The array of all infos, one copy in it, or what follows.                *)
StarvedCopyReplies(infos, q) ==
  LET whole == [k \in DOMAIN infos |-> Copied(infos[k], ListFlag(q))]
  IN  {Failed("initError")} \cup StarvedAfter(whole, q)
        \cup UNION {{CopyReply([whole EXCEPT ![k] = thin], q)
                       : thin \in Thinned(infos[k], ListFlag(q))} : k \in DOMAIN infos}

Answered(c, before, reply, starved) ==
  IF reply.code = "crash"
  THEN /\ crashed' = TRUE
       /\ call' = [call EXCEPT ![c].starved = starved]
       /\ UNCHANGED service
  ELSE Put(c, [before EXCEPT !.phase = "read", !.reply = reply, !.starved = starved,
                             !.doubt = @ \/ cleared])

(* The reply is made from what the pointer points to by now.               *)
Read(c) ==
  LET entry == call[c].pointer[1]   q == call[c].question
  IN  /\ ~crashed /\ call[c].phase = "looked"
      /\ \/ Answered(c, call[c], PointerReply(entry.info, q), FALSE)
         \/ \E reply \in StarvedPointerReplies(entry.info, q) : Answered(c, call[c], reply, TRUE)
         \/ entry.freed /\ \E code_ \in {"other", "crash"} :
              Answered(c, call[c], Failed(code_), FALSE)

(* GetBundleInfos and the queries that use it.  After the copies are made, *)
(* nothing the query reads is shared, so the rest is in the same step.     *)
Snapshot(c) ==
  LET q == call[c].question
      whole == [k \in DOMAIN list |-> Copied(list[k].info, ListFlag(q))]
  IN  /\ ~crashed /\ call[c].phase = "asked" /\ q.kind \notin OneBundle
      /\ IF list = <<>> THEN Answered(c, Looked(c, "read"), Failed("noInfos"), FALSE)
         ELSE \/ Answered(c, Looked(c, "read"), CopyReply(whole, q), FALSE)
              \/ \E reply \in StarvedCopyReplies(ListedInfos, q) :
                   Answered(c, Looked(c, "read"), reply, TRUE)

-----------------------------------------------------------------------------
(* The client: Notify deserializes the reply, the caller gets a copy.      *)

ClientFlag(q) == IF q.kind \in {"info", "list"} THEN q.flag ELSE 0

Received(reply, q) ==
  IF \/ \E k \in DOMAIN reply.infos : ~JsonAccepted(reply.infos[k])
     \/ \E k \in DOMAIN reply.abilities : ~AbilityWritten(reply.abilities[k])
  THEN Failed("deserialization")
  ELSE [reply EXCEPT !.infos =
          [k \in DOMAIN @ |-> Copied(FromJson(@[k]), ClientFlag(q))]]

StarvedReceived(reply, q) ==
  LET answer == Received(reply, q)
  IN  {Failed("deserialization"), Failed("objectNull")}
        \cup (UNION {{[answer EXCEPT !.infos[k] = thin]
                        : thin \in Thinned(FromJson(reply.infos[k]), ClientFlag(q))}
                      : k \in DOMAIN answer.infos})
        \cup UNION {{[answer EXCEPT !.abilities[k] = a] : a \in AbilityLost(answer.abilities[k])}
                     : k \in DOMAIN answer.abilities}

Receive(c) ==
  LET reply == call[c].reply   q == call[c].question
  IN  /\ call[c].phase = "read"
      /\ \/ Put(c, Returned(c, Received(reply, q), call[c].starved))
         \/ /\ ~call[c].starved /\ reply.code = "ok" /\ q.kind # "size"
            /\ \E answer \in StarvedReceived(reply, q) : Put(c, Returned(c, answer, TRUE))

Take(c) == call[c].phase = "done" /\ Put(c, Idle)

-----------------------------------------------------------------------------
ServiceTask ==
  \/ \E b \in Bundles, profile \in DOMAIN Profiles, place \in Places,
        uid \in UNION Range(Uids) :
       uid \in Uids[b] /\ Publish(b, profile, place, uid)
  \/ Commit \/ ClearInstallEnv
  \/ \E b \in Bundles : RollBack(b) \/ Uninstall(b) \/ Reload(b)
  \/ ReadsFreed \/ Restart

Query(c) == Ask(c) \/ LookUp(c) \/ Snapshot(c) \/ Read(c) \/ Receive(c) \/ Take(c)

Next == ServiceTask \/ \E c \in Clients : Query(c)

Spec == Init /\ [][Next]_vars

-----------------------------------------------------------------------------
(* Properties.                                                             *)

InfoShape(info) ==
  /\ info.text.bundleName \in Bundles
  /\ info.uid \in Uids[info.text.bundleName]
  /\ info.numOfModule = Len(info.modules)
  /\ info.numOfAbility = Len(info.abilities)
  /\ \A module \in Range(info.modules) :
       /\ Len(module.metaData) = MetaDataSize
       /\ Len(module.deviceType) \in 1 .. DeviceTypeSize

(* Every variable has its type; in what is listed, the counters agree with *)
(* the arrays (SetModuleInfos, SetAbilityInfos).                           *)
TypeOK ==
  /\ \A k \in DOMAIN list : list[k].freed \in BOOLEAN /\ InfoShape(list[k].info)
  /\ \A b \in Bundles :
       /\ code[b].profile \in DOMAIN Profiles \cup {None}
       /\ code[b].place \in Places \cup {None}
       /\ record[b] \in Uids[b] \cup {None}
  /\ installing \in Bundles \cup {None} /\ toLoad \subseteq Bundles
  /\ crashed \in BOOLEAN /\ cleared \in BOOLEAN /\ changes \in 0 .. MaxChanges
  /\ \A c \in Clients :
       /\ call[c].phase \in {"idle", "asked", "looked", "read", "done"}
       /\ call[c].question \in Questions \cup {NoQuestion}
       /\ Len(call[c].pointer) <= 1 /\ call[c].starved \in BOOLEAN

(* BundleMap lists every bundle once, and nothing that is freed, as long as*)
(* no late failure of an install went through CLEAR_INSTALL_ENV.           *)
ListedOnce ==
  ~cleared =>
    /\ \A k \in DOMAIN list : ~list[k].freed
    /\ \A j, k \in DOMAIN list : Name(list[j]) = Name(list[k]) => j = k

(* A query crashes the service only when an allocation of its own failed,  *)
(* when the bundle it asked for went while it read the info, or after such *)
(* a late failure: on intact infos no query reads through null.            *)
CrashExplained ==
  crashed =>
    \/ cleared
    \/ \E c \in Clients :
         /\ call[c].phase \in {"asked", "looked"}
         /\ call[c].starved \/ (call[c].pointer # <<>> /\ call[c].pointer[1].freed)

(* Every installed info can be sent: what the parser lets through and the  *)
(* creator leaves out never makes ConvertUtils fail, and with it the answer*)
(* about all bundles.                                                      *)
InstalledAnswerable ==
  \A k \in DOMAIN list : Serialized(Copied(list[k].info, 1)) = "ok"

(* After the scan the list is what the install left: an installed bundle is*)
(* listed with the info the install made, found again from its directory   *)
(* and record, unless it never got a uid.                                  *)
ListMatchesDisk ==
  ~cleared =>
    \A b \in Bundles \ (toLoad \cup {installing}) :
      LET at == {k \in DOMAIN list : Name(list[k]) = b}
      IN  /\ at # {} => code[b] # NoCode /\ record[b] # None
          /\ code[b] # NoCode /\ record[b] \notin {None, NoUid} =>
               \E k \in at :
                 list[k].info = ReloadedInfo(Profiles[code[b].profile], code[b].place,
                                             record[b], b \in SystemBundles)

Catalog == INSTANCE BundleCatalog WITH
  catalog <- ListedInfos,
  wild    <- cleared,
  call    <- [c \in Clients |->
                [phase    |-> call[c].phase,
                 question |-> call[c].question,
                 moment   |-> call[c].moment,
                 stale    |-> call[c].doubt \/ (call[c].pointer # <<>> /\ call[c].pointer[1].freed),
                 starved  |-> call[c].starved,
                 answer   |-> IF call[c].phase = "done" THEN call[c].reply ELSE NoReply]]

(* Every answer is one BundleCatalog allows: true of one moment, except for*)
(* the failures it names.                                                  *)
ImplementsCatalog == Catalog!Spec
=============================================================================
