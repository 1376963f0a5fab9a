---------------------------- MODULE BundleCatalog ----------------------------
(***************************************************************************)
(* What a client that asks about bundles relies on.  The service has one   *)
(* catalog of installed bundles, which changes by one bundle at a time.    *)
(* Each question is answered from the catalog of one moment between the    *)
(* question and the answer, with two exceptions that the specification     *)
(* names.  A call that is `starved` (an allocation failed) may be answered *)
(* with an error, or with infos that lack texts but hold no wrong one.  An *)
(* answer about one bundle is `stale` when that bundle changed while its   *)
(* info was read, and may then be anything.                                *)
(*                                                                         *)
(* The third exception is for the service as a whole: while it is `wild`   *)
(* nothing is promised, until the next start.                              *)
(***************************************************************************)
EXTENDS BundleTransfer

CONSTANTS Clients, Bundles, Questions

VARIABLES
  catalog,   \* the infos of the installed bundles, in some order
  call,      \* what each client waits for, and from which moment
  wild

vars == <<catalog, call, wild>>

-----------------------------------------------------------------------------
(* Answers.                                                                *)

Nothing == [code |-> "none", infos |-> <<>>, abilities |-> <<>>, text |-> Null]

Error(code) == [Nothing EXCEPT !.code = code]

Infos(infos)       == [Error("ok") EXCEPT !.infos = infos]
AnAbility(ability) == [Error("ok") EXCEPT !.abilities = <<ability>>]
Text(text)         == [Error("ok") EXCEPT !.text = text]

Shown(info, flag) ==
  IF flag = 1 THEN info ELSE [info EXCEPT !.abilities = <<>>, !.numOfAbility = 0]

WithoutAbilities(infos) == [k \in DOMAIN infos |-> Shown(infos[k], 0)]

Named(moment, b) == Only(moment, {info \in Range(moment) : info.text.bundleName = b})

HasMetaData(info, key) ==
  key # Null /\ \E module \in Range(info.modules), i \in 1 .. MetaDataSize : module.metaData[i].name = key

(* The infos a question is about, as they leave the service.               *)
Asked(moment, q) ==
  CASE q.kind = "info" -> [k \in DOMAIN Named(moment, q.bundle) |->
                             Shown(Named(moment, q.bundle)[k], q.flag)]
    [] q.kind = "list" -> [k \in DOMAIN moment |-> Shown(moment[k], q.flag)]
    [] q.kind = "keepAlive" -> Only(moment, {i \in Range(moment) : i.isKeepAlive /\ i.isSystemApp})
    [] q.kind = "metaData"  -> Only(moment, {i \in Range(moment) : HasMetaData(i, q.key)})
    [] OTHER -> <<>>

Abilities(moment, q) ==
  UNION {{a \in Range(info.abilities) : a.text.name = q.key} : info \in Range(Named(moment, q.bundle))}

WithUid(moment, q) == {info \in Range(moment) : info.uid = q.key}

Right(moment, q) ==
  CASE q.kind \in {"info", "list"} ->
         IF Asked(moment, q) = <<>> THEN {Error("noInfos")} ELSE {Infos(Asked(moment, q))}
    [] q.kind \in {"keepAlive", "metaData"} ->
         IF Asked(moment, q) = <<>> THEN {Error("noInfos")}
         ELSE {Infos(WithoutAbilities(Asked(moment, q)))}
    [] q.kind = "ability" ->
         IF Abilities(moment, q) = {} THEN {Error("noInfos")}
         ELSE {AnAbility(a) : a \in Abilities(moment, q)}
    [] q.kind = "size" ->
         {Text(IF Named(moment, q.bundle) = <<>> THEN Null
               ELSE Head(Named(moment, q.bundle)).text.codePath)}
    [] OTHER ->
         IF moment = <<>> THEN {Error("noInfos")}
         ELSE IF WithUid(moment, q) = {} THEN {Error("noName")}
         ELSE {Text(info.text.bundleName) : info \in WithUid(moment, q)}

-----------------------------------------------------------------------------
(* An answer that lacks something and has nothing wrong.                   *)

Lacks(x, y) == \A f \in DOMAIN x.text : x.text[f] \in {y.text[f], Null}

LacksModule(x, y) ==
  /\ Lacks(x, y)
  /\ x.deviceType \in {y.deviceType, <<>>}
  /\ \A i \in 1 .. MetaDataSize : \A f \in {"name", "value", "extra"} :
       x.metaData[i][f] \in {y.metaData[i][f], Null}

LacksInfo(x, y) ==
  /\ Lacks(x, y)
  /\ x.uid = y.uid /\ x.versionCode = y.versionCode
  /\ x.modules = <<>> \/ LacksModule(x.modules[1], y.modules[1])
  /\ \A k \in DOMAIN x.abilities : Lacks(x.abilities[k], y.abilities[k])

(* Of the infos some may be missing, none is new.                          *)
Honest(answer, moment, q) ==
  \/ answer.code # "ok"
  \/ \E right \in Right(moment, q) :
       /\ right.code = "ok"
       /\ answer.text \in {right.text, Null}
       /\ \A k \in DOMAIN answer.abilities : Lacks(answer.abilities[k], right.abilities[k])
       /\ \A x \in Range(answer.infos) : \E y \in Range(right.infos) : LacksInfo(x, y)

Fits(answer, c) ==
  LET moment == call[c].moment   q == call[c].question
  IN  \/ answer \in Right(moment, q)
      \/ answer = Error("serialization") /\ TooLong(Asked(moment, q))
      \/ answer = Error("serialization") /\ q.kind = "ability" /\ AbilityTooLong
      \/ call'[c].starved /\ Honest(answer, moment, q)
      \/ call[c].stale

-----------------------------------------------------------------------------
NoQuestion == [kind |-> "none", bundle |-> Null, key |-> Null, flag |-> 0]

Idle == [phase |-> "idle", question |-> NoQuestion, moment |-> <<>>, stale |-> FALSE,
         starved |-> FALSE, answer |-> Nothing]

Ended(answer, starved) ==
  [Idle EXCEPT !.phase = "done", !.answer = answer, !.starved = starved]

Init == catalog = <<>> /\ call = [c \in Clients |-> Idle] /\ wild = FALSE

(* A step of one call, which may find the memory used up.                  *)
Continues(c, from, to) ==
  /\ call[c].phase = from /\ call'[c].phase = to
  /\ call[c].starved => call'[c].starved
  /\ UNCHANGED <<call[c].question, call[c].stale>>
  /\ \A d \in Clients \ {c} : UNCHANGED call[d]
  /\ UNCHANGED <<catalog, wild>>

Ask(c) ==
  /\ call[c] = Idle
  /\ \E q \in Questions : call' = [call EXCEPT ![c].phase = "asked", ![c].question = q]
  /\ UNCHANGED <<catalog, wild>>

(* The moment that counts: the info is found, or all infos are copied.     *)
Look(c, to) ==
  Continues(c, "asked", to) /\ call'[c].moment = catalog /\ call'[c].answer = Nothing

(* The info that was found is read; or memory is used up and it is not.    *)
Read(c) ==
  \E to \in {"looked", "read"} :
    Continues(c, "looked", to) /\ UNCHANGED <<call[c].moment, call[c].answer>>

Starve(c) ==
  Continues(c, "asked", "asked") /\ UNCHANGED <<call[c].moment, call[c].answer>>

(* The answer is all that is left of the call.                             *)
Return(c) ==
  /\ call[c].phase = "read"
  /\ Fits(call'[c].answer, c)
  /\ call[c].starved => call'[c].starved
  /\ call' = [call EXCEPT ![c] = Ended(call'[c].answer, call'[c].starved)]
  /\ UNCHANGED <<catalog, wild>>

Take(c) == call[c].phase = "done" /\ call' = [call EXCEPT ![c] = Idle] /\ UNCHANGED <<catalog, wild>>

-----------------------------------------------------------------------------
Others(infos, b) == Only(infos, {info \in Range(infos) : info.text.bundleName # b})

(* Questions about a bundle go stale while its info is read.               *)
Change(b) ==
  /\ Others(catalog', b) = Others(catalog, b)
  /\ Len(Named(catalog', b)) <= 1
  /\ call' = [c \in Clients |->
       IF call[c].phase = "looked" /\ call[c].question.bundle = b /\ Named(call[c].moment, b) # <<>>
       THEN [call[c] EXCEPT !.stale = TRUE] ELSE call[c]]
  /\ UNCHANGED wild

(* The client cannot tell a bundle without files from no service.          *)
NotInvoked(q) == IF q.kind = "size" THEN Text(Null) ELSE Error("invoke")

(* The service starts again, with nothing in its memory.  A reply that was *)
(* sent while it was wild is still under way.                              *)
Restart ==
  /\ catalog' = <<>> /\ wild' = FALSE
  /\ \E sent \in SUBSET {c \in Clients : wild /\ call[c].phase = "read"} :
       call' = [c \in Clients |->
         CASE call[c].phase \in {"asked", "looked"} ->
                Ended(NotInvoked(call[c].question), call[c].starved)
           [] c \in sent -> [call[c] EXCEPT !.stale = TRUE]
           [] OTHER -> call[c]]

Step(c) ==
  \/ Ask(c) \/ Starve(c) \/ (\E to \in {"looked", "read"} : Look(c, to))
  \/ Read(c) \/ Return(c) \/ Take(c)

(* Nothing is promised of a step into a wild state or between two of them. *)
Next ==
  \/ Restart
  \/ wild'
  \/ ~wild /\ ((\E c \in Clients : Step(c)) \/ (\E b \in Bundles : Change(b)))

Spec == Init /\ [][Next]_vars
=============================================================================
