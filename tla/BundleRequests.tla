--------------------------- MODULE BundleRequests ---------------------------
(***************************************************************************)
(* How the clients of the Bundle Manager Service reach its service task    *)
(* and hear from it.  Install and Uninstall of BundleKit are asynchronous: *)
(* a feature of the service copies the arguments into a message, puts it   *)
(* into the bounded queue of the service and returns; the service task     *)
(* handles one message after the other, sends the result to the object of  *)
(* the client that asked, and tells every subscriber.                      *)
(*                                                                         *)
(* What an install or uninstall does is the module BundleInstaller; here   *)
(* only its outcome matters, and any outcome is possible.  Each client has *)
(* one thread that calls BundleKit and one that IPC delivers results on.   *)
(***************************************************************************)
EXTENDS Integers, Sequences, SequencesExt

CONSTANTS
  Clients,      (* processes that use BundleKit                            *)
  Bundles,
  Uses,         (* the messages each client may send                       *)
  QueueSize,    (* messages the queue of the service holds                 *)
  MaxMessages,  (* bound on the messages the clients try to send           *)
  MaxDeaths     (* bound on the clients that die                           *)

Kinds    == {"install", "uninstall", "add", "remove"}
All      == "all"      (* a callback for every bundle: no name given *)
Messages == [kind : Kinds, from : Clients, about : Bundles \cup {All}]

IsRequest(m) == m.kind \in {"install", "uninstall"}

ASSUME RequestsAssumption ==
  /\ IsFiniteSet(Clients)
  /\ All \notin Bundles
  /\ QueueSize \in Nat \ {0}
  /\ {MaxMessages, MaxDeaths} \subseteq Nat
  /\ Uses \in [Clients -> SUBSET Messages]
  /\ \A c \in Clients : \A m \in Uses[c] :
       /\ m.from = c
       /\ IsRequest(m) => m.about # All

VARIABLES
  (* the service *)
  queue,        (* numbers of the messages in the queue                    *)
  task,         (* the message the service task handles, or NoMessage      *)
  parsed,       (* the hap of the request being handled could be read      *)
  subscribers,  (* svcIdentity_: the clients to tell, oldest first         *)
  blocks,       (* of memory each message holds in the service             *)
  (* each client *)
  alive,        (* the clients whose process runs                          *)
  pc,           (* where the calling thread is                             *)
  current,      (* the message it sends                                    *)
  callback,     (* BundleSelfCallback::installerCallback_: that of a call  *)
  listener,     (* BundleCallback::svcIdentity_ is not null                *)
  watch,        (* bundleStateCallback_ and callbackMap_                   *)
  inbox,        (* IPC requests on their way to it                         *)
  (* history *)
  sent,         (* the messages so far                                     *)
  state,        (* what became of each                                     *)
  answers,      (* the results each installer callback was called with     *)
  overlapped,   (* clients that did not wait for an answer                 *)
  log,          (* what the installer ran, in this order                   *)
  audience,     (* who had subscribed when a request was accepted          *)
  heard         (* what the status callbacks of a client were told         *)

server  == <<queue, task, parsed, subscribers, blocks>>
caller  == <<pc, current, callback, listener, watch>>
history == <<sent, state, answers, overlapped, log, audience, heard>>
vars    == <<server, alive, caller, inbox, history>>

-----------------------------------------------------------------------------
Ids       == 1 .. MaxMessages
NoMessage == 0
Blocks    == {"info", "text", "svc"}
States    == {"unused", "calling", "refused", "accepted", "dropped", "answered"}

Nothing   == [all |-> FALSE, names |-> {}]

(* AdapterMalloc for a message: a SvcIdentityInfo with its path or name and*)
(* its copy of the SvcIdentity; a change of callback has the copy alone.   *)
Allocated(m) == IF IsRequest(m) THEN Blocks ELSE {"svc"}

(* GetCallbackInfoByName finds a callback for x.                           *)
Watches(c, x) == watch[c].all \/ x \in watch[c].names

(* A request of c that has been started and not yet been answered.         *)
Open(c) == {i \in Ids : /\ state[i] \in {"calling", "accepted"}
                        /\ IsRequest(sent[i]) /\ sent[i].from = c}

Init ==
  /\ queue = <<>> /\ task = NoMessage /\ parsed = TRUE
  /\ subscribers = <<>>
  /\ blocks = [i \in Ids |-> {}]
  /\ alive = Clients
  /\ pc = [c \in Clients |-> "idle"]
  /\ current = [c \in Clients |-> NoMessage]
  /\ callback = [c \in Clients |-> NoMessage]
  /\ listener = [c \in Clients |-> FALSE]
  /\ watch = [c \in Clients |-> Nothing]
  /\ inbox = [c \in Clients |-> <<>>]
  /\ sent = <<>>
  /\ state = [i \in Ids |-> "unused"]
  /\ answers = [i \in Ids |-> <<>>]
  /\ overlapped = {}
  /\ log = <<>>
  /\ audience = [i \in Ids |-> {}]
  /\ heard = [c \in Clients |-> <<>>]

-----------------------------------------------------------------------------
(* BundleKit: the calling thread.  What it refuses at once (a null         *)
(* argument, a missing permission, no proxy, no memory for an identity)    *)
(* changes nothing and has no action.                                      *)

Idle(c) == c \in alive /\ pc[c] = "idle"

Compose(c, m) ==
  /\ Len(sent) < MaxMessages /\ m \in Uses[c]
  /\ sent' = Append(sent, m)
  /\ state' = [state EXCEPT ![Len(sent) + 1] = "calling"]
  /\ pc' = [pc EXCEPT ![c] = "invoke"]
  /\ current' = [current EXCEPT ![c] = Len(sent) + 1]

(* Install and Uninstall up to Invoke: RegisterBundleSelfCallback.         *)
Request(c, m) ==
  /\ Idle(c) /\ IsRequest(m)
  /\ overlapped' = IF Open(c) = {} THEN overlapped ELSE overlapped \cup {c}
  /\ Compose(c, m)
  /\ callback' = [callback EXCEPT ![c] = Len(sent) + 1]
  /\ UNCHANGED <<server, alive, listener, watch, inbox, answers, log,
                 audience, heard>>

(* RegisterBundleStateCallback after GenerateLocalServiceId.               *)
WithWatch(w, x) ==
  IF x = All THEN [all |-> TRUE, names |-> {}]
  ELSE IF w.all THEN w ELSE [w EXCEPT !.names = @ \cup {x}]

(* RegisterCallback of a client that has a listener already.               *)
RegisterMore(c, m) ==
  /\ Idle(c) /\ listener[c] /\ m.kind = "add"
  /\ watch' = [watch EXCEPT ![c] = WithWatch(@, m.about)]
  /\ UNCHANGED <<server, alive, pc, current, callback, listener, inbox,
                 history>>

(* Its first step for one that has none: GenerateLocalServiceId.           *)
Register(c, m) ==
  /\ Idle(c) /\ ~listener[c] /\ m.kind = "add"
  /\ Compose(c, m)
  /\ listener' = [listener EXCEPT ![c] = TRUE]
  /\ UNCHANGED <<server, alive, callback, watch, inbox, answers, overlapped,
                 log, audience, heard>>

(* Its last step, when the service has accepted the identity.              *)
Registered(c) ==
  /\ c \in alive /\ pc[c] = "store"
  /\ pc' = [pc EXCEPT ![c] = "idle"]
  /\ watch' = [watch EXCEPT ![c] = WithWatch(@, sent[current[c]].about)]
  /\ current' = [current EXCEPT ![c] = NoMessage]
  /\ UNCHANGED <<server, alive, callback, listener, inbox, history>>

Unregister(c, m) ==
  /\ Idle(c) /\ listener[c] /\ m.kind = "remove"
  /\ Compose(c, m)
  /\ watch' = [watch EXCEPT ![c] = Nothing]
  /\ audience' = [i \in Ids |-> audience[i] \ {c}]
  /\ UNCHANGED <<server, alive, callback, listener, inbox, answers, overlapped,
                 log, heard>>

(* Invoke has returned: the identity of a listener is freed unless the     *)
(* service has accepted to tell it.                                        *)
Return(c, accepted) ==
  LET m == sent[current[c]]
      kept == m.kind = "add" /\ accepted
  IN  /\ pc' = [pc EXCEPT ![c] = IF kept THEN "store" ELSE "idle"]
      /\ current' = [current EXCEPT ![c] = IF kept THEN @ ELSE NoMessage]
      /\ listener' = [listener EXCEPT ![c] =
                        IF IsRequest(m) THEN @ ELSE kept]

-----------------------------------------------------------------------------
(* The features: BundleInnerFeature::InstallInnerBundle and                *)
(* UninstallInnerBundle, BundleMsFeature::ChangeInnerCallbackServiceId.    *)

EnqueueUnchecked(c, i, held) ==   \* a bug: propRet is not looked at
  /\ queue' = Append(queue, i)
  /\ blocks' = [blocks EXCEPT ![i] = held]
  /\ state' = [state EXCEPT ![i] = "accepted"]
  /\ UNCHANGED audience
  /\ Return(c, TRUE)

Enqueue(c, i, held) ==
  /\ Len(queue) < QueueSize
  /\ queue' = Append(queue, i)
  /\ blocks' = [blocks EXCEPT ![i] = held]
  /\ state' = [state EXCEPT ![i] = "accepted"]
  /\ audience' = [audience EXCEPT ![i] =
                     {d \in alive : Watches(d, sent[i].about)}]
  /\ Return(c, TRUE)

Accept(c) ==
  /\ c \in alive /\ pc[c] = "invoke"
  /\ Enqueue(c, current[c], Allocated(sent[current[c]]))
  /\ UNCHANGED <<task, parsed, subscribers, alive, callback,
                 watch, inbox, sent, answers, overlapped, log, heard>>

(* UninstallInnerBundle does not look at what Strdup returned.             *)
AcceptWithoutName(c) ==
  /\ c \in alive /\ pc[c] = "invoke"
  /\ sent[current[c]].kind = "uninstall"
  /\ Enqueue(c, current[c], {"info", "svc"})
  /\ UNCHANGED <<task, parsed, subscribers, alive, callback,
                 watch, inbox, sent, answers, overlapped, log, heard>>

KeepText(m) == Allocated(m) \cap {"text"}   \* a bug: the path is not freed

(* What a refused message keeps: everything is freed again.                *)
Kept(m) == {}

(* An allocation fails, or SAMGR_SendRequest because the queue is full.    *)
Refuse(c) ==
  /\ c \in alive /\ pc[c] = "invoke"
  /\ blocks' = [blocks EXCEPT ![current[c]] = Kept(sent[current[c]])]
  /\ state' = [state EXCEPT ![current[c]] = "refused"]
  /\ Return(c, FALSE)
  /\ UNCHANGED <<queue, task, parsed, subscribers, alive,
                 callback, watch, inbox, sent, answers, overlapped, log,
                 audience, heard>>

-----------------------------------------------------------------------------
(* ManagerService: the service task.                                       *)

TakeNewest(i) ==   \* a bug: the message that waits longest comes last
  /\ task = NoMessage /\ queue # <<>>
  /\ i = Last(queue)
  /\ queue' = Front(queue)

Take(i) ==
  /\ task = NoMessage /\ queue # <<>>
  /\ i = Head(queue)
  /\ queue' = Tail(queue)

WithSubscriberTwice(c) == Append(subscribers, c)   \* a bug: no CompareServiceId

(* AddCallbackServiceId, RemoveCallbackServiceId *)
WithSubscriber(c) ==
  IF Contains(subscribers, c) THEN subscribers ELSE Append(subscribers, c)

WithoutSubscriber(c) ==
  IF Contains(subscribers, c) THEN RemoveFirst(subscribers, c) ELSE subscribers

ChangeCallback ==
  \E i \in Ids :
    /\ Take(i) /\ ~IsRequest(sent[i])
    /\ subscribers' = IF sent[i].kind = "add" THEN WithSubscriber(sent[i].from)
                      ELSE WithoutSubscriber(sent[i].from)
    /\ blocks' = [blocks EXCEPT ![i] = {}]
    /\ UNCHANGED <<task, parsed, alive, caller, inbox, history>>

(* ServiceMsgProcess returns at once: there is no name.                    *)
DropNameless ==
  \E i \in Ids :
    /\ Take(i) /\ IsRequest(sent[i]) /\ "text" \notin blocks[i]
    /\ blocks' = [blocks EXCEPT ![i] = {}]
    /\ state' = [state EXCEPT ![i] = "dropped"]
    /\ UNCHANGED <<task, parsed, subscribers, alive, caller, inbox, sent,
                   answers, overlapped, log, audience, heard>>

(* ParseBundleParam refuses the hap of an install, or installer_ is run.   *)
Readable(m) == IF m.kind = "install" THEN BOOLEAN ELSE {TRUE}

Execute ==
  \E i \in 1 .. Len(sent) : \E r \in Readable(sent[i]) :
    /\ Take(i) /\ IsRequest(sent[i]) /\ "text" \in blocks[i]
    /\ task' = i /\ parsed' = r
    /\ log' = IF r THEN Append(log, i) ELSE log
    /\ UNCHANGED <<subscribers, blocks, alive, caller, inbox, sent, state,
                   answers, overlapped, audience, heard>>

ToSelfAgain(c) ==   \* a bug: no return after a hap that cannot be parsed
  IF c # sent[task].from THEN <<>>
  ELSE [k \in 1 .. (IF parsed THEN 1 ELSE 2) |-> [to |-> "self", id |-> task]]

ToSelfIfParsed(c) ==   \* a bug: an unreadable hap is not answered
  IF c = sent[task].from /\ parsed THEN <<[to |-> "self", id |-> task]>> ELSE <<>>

(* InnerSelfTransact: the result goes to the client that asked.            *)
ToSelf(c) ==
  IF c = sent[task].from THEN <<[to |-> "self", id |-> task]>> ELSE <<>>

(* Those InnerTransact reaches: it gives up at the first that does not     *)
(* answer.                                                                 *)
Reached ==
  {k \in DOMAIN subscribers : \A j \in 1 .. k : subscribers[j] \in alive}

(* InnerTransact: unless the hap could not be parsed, its result goes to   *)
(* every subscriber.                                                       *)
ToAll(c) ==
  IF parsed
  THEN [k \in 1 .. Cardinality({j \in Reached : subscribers[j] = c}) |->
          [to |-> "all", id |-> task]]
  ELSE <<>>

(* The rest of ServiceMsgProcess: the results are sent, the blocks of the  *)
(* message freed.                                                          *)
Answer ==
  /\ task # NoMessage
  /\ inbox' = [c \in Clients |->
       IF c \in alive THEN inbox[c] \o ToSelf(c) \o ToAll(c) ELSE inbox[c]]
  /\ task' = NoMessage /\ parsed' = TRUE
  /\ blocks' = [blocks EXCEPT ![task] = {}]
  /\ UNCHANGED <<queue, subscribers, alive, caller, history>>

-----------------------------------------------------------------------------
(* The IPC thread of a client.                                             *)

Receive(c, to) ==
  /\ c \in alive /\ inbox[c] # <<>> /\ Head(inbox[c]).to = to
  /\ inbox' = [inbox EXCEPT ![c] = Tail(@)]

(* BundleSelfCallback::Callback: whatever callback is stored now.          *)
SelfCallback(c) ==
  /\ Receive(c, "self")
  /\ answers' = [answers EXCEPT ![callback[c]] =
                   Append(@, Head(inbox[c]).id)]
  /\ state' = [state EXCEPT ![Head(inbox[c]).id] = "answered"]
  /\ UNCHANGED <<server, alive, caller, sent, overlapped, log, audience, heard>>

(* BundleCallback: InnerCallback finds a callback for the bundle, or not.  *)
StateCallback(c) ==
  /\ Receive(c, "all")
  /\ LET i == Head(inbox[c]).id IN
     heard' = IF Watches(c, sent[i].about)
              THEN [heard EXCEPT ![c] = Append(@, i)] ELSE heard
  /\ UNCHANGED <<server, alive, caller, sent, state, answers, overlapped, log,
                 audience>>

(* Nothing tells the service that a client has died.                       *)
Die(c) ==
  /\ c \in alive /\ Cardinality(Clients \ alive) < MaxDeaths
  /\ alive' = alive \ {c}
  /\ pc' = [pc EXCEPT ![c] = "idle"]
  /\ current' = [current EXCEPT ![c] = NoMessage]
  /\ callback' = [callback EXCEPT ![c] = NoMessage]
  /\ listener' = [listener EXCEPT ![c] = FALSE]
  /\ watch' = [watch EXCEPT ![c] = Nothing]
  /\ inbox' = [inbox EXCEPT ![c] = <<>>]
  /\ audience' = [i \in Ids |-> audience[i] \ {c}]
  /\ UNCHANGED <<server, sent, state, answers, overlapped, log, heard>>

-----------------------------------------------------------------------------
ClientCalls(c) ==
  \E m \in Uses[c] :
    Request(c, m) \/ Register(c, m) \/ RegisterMore(c, m) \/ Unregister(c, m)

ClientContinues(c) ==
  \/ Accept(c) \/ AcceptWithoutName(c) \/ Refuse(c)
  \/ Registered(c)

Deliver(c) == SelfCallback(c) \/ StateCallback(c)

ServiceTask ==
  ChangeCallback \/ DropNameless \/ Execute \/ Answer

Next ==
  \/ \E c \in Clients : ClientCalls(c) \/ ClientContinues(c) \/ Deliver(c) \/ Die(c)
  \/ ServiceTask

Spec == Init /\ [][Next]_vars

(* The service task and the IPC threads run, and a call that has begun goes*)
(* on; nobody has to make a call.                                          *)
Fairness ==
  /\ WF_vars(ServiceTask)
  /\ \A c \in Clients : WF_vars(ClientContinues(c)) /\ WF_vars(Deliver(c))

FairSpec == Spec /\ Fairness

-----------------------------------------------------------------------------
(* Types *)
TypeOK ==
  /\ queue \in Seq(Ids) /\ Len(queue) <= QueueSize
  /\ task \in Ids \cup {NoMessage}
  /\ parsed \in BOOLEAN
  /\ subscribers \in Seq(Clients)
  /\ blocks \in [Ids -> SUBSET Blocks]
  /\ alive \subseteq Clients
  /\ pc \in [Clients -> {"idle", "invoke", "store"}]
  /\ current \in [Clients -> Ids \cup {NoMessage}]
  /\ callback \in [Clients -> Ids \cup {NoMessage}]
  /\ listener \in [Clients -> BOOLEAN]
  /\ watch \in [Clients -> [all : BOOLEAN, names : SUBSET Bundles]]
  /\ inbox \in [Clients -> Seq([to : {"self", "all"}, id : Ids])]
  /\ sent \in Seq(Messages) /\ Len(sent) <= MaxMessages
  /\ state \in [Ids -> States]
  /\ answers \in [Ids -> Seq(Ids)]
  /\ overlapped \subseteq Clients
  /\ log \in Seq(Ids)
  /\ audience \in [Ids -> SUBSET Clients]
  /\ heard \in [Clients -> Seq(Ids)]

(* A message holds memory of the service exactly while it is in the queue  *)
(* or handled: nothing that was refused, dropped or handled leaks, and none*)
(* that is to be handled has lost the identity to answer.                  *)
BlocksOwned ==
  \A i \in Ids : /\ (blocks[i] # {}) <=> (Contains(queue, i) \/ task = i)
                 /\ blocks[i] # {} => "svc" \in blocks[i]

(* A client that makes one request at a time has each installer callback   *)
(* called with the result of the request it was given for, once, and never *)
(* for a request Install or Uninstall returned false for.                  *)
OwnAnswer ==
  \A i \in 1 .. Len(sent) :
    sent[i].from \notin overlapped =>
      answers[i] = IF state[i] = "answered" THEN <<i>> ELSE <<>>

(* The results a client was told, or that are on their way to it.          *)
Told(c) == {heard[c][k] : k \in DOMAIN heard[c]} \cup
           {n.id : n \in {inbox[c][k] : k \in {j \in DOMAIN inbox[c] :
                                              inbox[c][j].to = "all"}}}

Done(i) == Contains(log, i) /\ task # i

(* InnerTransact reaches everyone whose RegisterCallback returned before   *)
(* the request was accepted and who has not unregistered since, although   *)
(* registrations and requests come from different processes and wait in one*)
(* queue.  A subscriber that died would end the loop for those after it.   *)
NotMissed ==
  (\A i \in 1 .. Len(sent) : sent[i].kind = "add" => sent[i].from \in alive) =>
    \A i \in Ids : Done(i) => \A c \in audience[i] : i \in Told(c)

(* Status callbacks are called in the order in which the installer ran, and*)
(* not twice for one run, however often the client registered.             *)
HeardInOrder ==
  \A c \in Clients : \A j, k \in DOMAIN heard[c] :
    j < k => \E a, b \in DOMAIN log :
               a < b /\ log[a] = heard[c][j] /\ log[b] = heard[c][k]

(* A request that was accepted, of a client that lives, without an answer. *)
Owed == {i \in 1 .. Len(sent) : /\ state[i] = "accepted" /\ IsRequest(sent[i])
                                /\ sent[i].from \in alive}

(* Whoever was returned true hears the result, unless his process dies or  *)
(* the name of the bundle could not be copied: the service and the clients *)
(* catch up with every request.                                            *)
AcceptedAnswered == []<>(Owed = {})
=============================================================================
