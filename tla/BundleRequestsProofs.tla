------------------------- MODULE BundleRequestsProofs -----------------------
(***************************************************************************)
(* Theorems about BundleRequests, for all clients, bundles, messages, sizes*)
(* of the queue and deaths.                                                *)
(***************************************************************************)
EXTENDS BundleRequests, ListLemmas

-----------------------------------------------------------------------------
(* Type correctness.                                                       *)

Notices == [to : {"self", "all"}, id : Ids]

LEMMA Constants ==
  /\ MaxMessages \in Nat /\ QueueSize \in Nat
  /\ Ids \subseteq Nat /\ 0 \notin Ids
  /\ \A c \in Clients : Uses[c] \subseteq Messages
  /\ \A c \in Clients : \A m \in Uses[c] : m.from = c
BY RequestsAssumption DEF Ids

(* What Compose leaves, in types.                                          *)
LEMMA ComposeType ==
  ASSUME TypeOK, NEW c \in Clients, NEW m \in Uses[c], Compose(c, m)
  PROVE  /\ sent' \in Seq(Messages) /\ Len(sent') <= MaxMessages
         /\ Len(sent') = Len(sent) + 1
         /\ state' \in [Ids -> States]
         /\ pc' \in [Clients -> {"idle", "invoke", "store"}]
         /\ current' \in [Clients -> Ids \cup {NoMessage}]
         /\ Len(sent) + 1 \in Ids
<1>1. m \in Messages /\ MaxMessages \in Nat
  BY Constants
<1>2. sent \in Seq(Messages) /\ Len(sent) \in Nat
  BY LenProperties DEF TypeOK
<1>3. sent' = Append(sent, m) /\ Len(sent) < MaxMessages
  BY DEF Compose
<1>4. sent' \in Seq(Messages) /\ Len(sent') = Len(sent) + 1
  BY <1>1, <1>2, <1>3, Appended
<1>5. Len(sent) + 1 \in Ids
  BY <1>1, <1>2, <1>3 DEF Ids
<1>6. QED
  BY <1>1, <1>2, <1>3, <1>4, <1>5 DEF Compose, TypeOK, States

LEMMA WatchType ==
  ASSUME NEW w \in [all : BOOLEAN, names : SUBSET Bundles], NEW x \in Bundles \cup {All}
  PROVE  WithWatch(w, x) \in [all : BOOLEAN, names : SUBSET Bundles]
BY DEF WithWatch

LEMMA CallTypeStep ==
  ASSUME TypeOK, NEW c \in Clients, ClientCalls(c)
  PROVE  TypeOK'
<1>1. PICK m \in Uses[c] : Request(c, m) \/ Register(c, m) \/ RegisterMore(c, m) \/ Unregister(c, m)
  BY DEF ClientCalls
<1>2. m \in Messages /\ m.about \in Bundles \cup {All}
  BY Constants DEF Messages
<1>3. CASE Request(c, m)
  <2>1. callback' \in [Clients -> Ids \cup {NoMessage}] /\ overlapped' \subseteq Clients
    BY <1>3, ComposeType DEF Request, TypeOK
  <2> QED
    BY <1>3, <2>1, ComposeType DEF Request, TypeOK, server
<1>4. CASE Register(c, m)
  BY <1>4, ComposeType DEF Register, TypeOK, server
<1>5. CASE RegisterMore(c, m)
  <2>1. watch' \in [Clients -> [all : BOOLEAN, names : SUBSET Bundles]]
    BY <1>2, <1>5, WatchType DEF RegisterMore, TypeOK
  <2> QED
    BY <1>5, <2>1 DEF RegisterMore, TypeOK, server, history
<1>6. CASE Unregister(c, m)
  <2>1. /\ watch' \in [Clients -> [all : BOOLEAN, names : SUBSET Bundles]]
        /\ audience' \in [Ids -> SUBSET Clients]
    BY <1>6 DEF Unregister, TypeOK, Nothing
  <2> QED
    BY <1>6, <2>1, ComposeType DEF Unregister, TypeOK, server
<1>7. QED
  BY <1>1, <1>3, <1>4, <1>5, <1>6

LEMMA ReturnType ==
  ASSUME TypeOK, NEW c \in Clients, NEW accepted \in BOOLEAN, Return(c, accepted)
  PROVE  /\ pc' \in [Clients -> {"idle", "invoke", "store"}]
         /\ current' \in [Clients -> Ids \cup {NoMessage}]
         /\ listener' \in [Clients -> BOOLEAN]
BY DEF Return, TypeOK

LEMMA EnqueueType ==
  ASSUME TypeOK, NEW c \in Clients, NEW i \in Ids, NEW held \in SUBSET Blocks,
         Enqueue(c, i, held)
  PROVE  /\ queue' \in Seq(Ids) /\ Len(queue') <= QueueSize
         /\ blocks' \in [Ids -> SUBSET Blocks]
         /\ state' \in [Ids -> States]
         /\ audience' \in [Ids -> SUBSET Clients]
<1>1. queue \in Seq(Ids)
  BY DEF TypeOK
<1>2. queue' = Append(queue, i) /\ Len(queue) < QueueSize
  BY DEF Enqueue
<1>3. queue' \in Seq(Ids) /\ Len(queue') = Len(queue) + 1 /\ Len(queue) \in Nat
  BY <1>1, <1>2, Appended
<1>4. Len(queue') <= QueueSize
  BY <1>2, <1>3, Constants
<1>5. QED
  BY <1>3, <1>4 DEF Enqueue, TypeOK, States

(* A thread in a call has a message, of its own.                           *)
CallsSend ==
  \A c \in Clients : pc[c] # "idle" =>
    /\ current[c] \in 1 .. Len(sent) /\ sent[current[c]].from = c
    /\ pc[c] = "invoke" => state[current[c]] = "calling"

LEMMA ContinueTypeStep ==
  ASSUME TypeOK, CallsSend, NEW c \in Clients, ClientContinues(c)
  PROVE  TypeOK'
<1>0. Len(sent) \in Nat
  BY LenProperties DEF TypeOK
<1>1. pc[c] # "idle" => current[c] \in Ids
  BY <1>0, Constants DEF CallsSend, TypeOK, Ids
<1>2. CASE Accept(c)
  <2>1. current[c] \in Ids /\ Allocated(sent[current[c]]) \in SUBSET Blocks
    BY <1>1, <1>2 DEF Accept, Allocated, Blocks
  <2>2. Enqueue(c, current[c], Allocated(sent[current[c]])) /\ Return(c, TRUE)
    BY <1>2 DEF Accept, Enqueue
  <2> QED
    BY <1>2, <2>1, <2>2, EnqueueType, ReturnType DEF Accept, TypeOK
<1>3. CASE AcceptWithoutName(c)
  <2>1. current[c] \in Ids /\ {"info", "svc"} \in SUBSET Blocks
    BY <1>1, <1>3 DEF AcceptWithoutName, Blocks
  <2>2. Enqueue(c, current[c], {"info", "svc"}) /\ Return(c, TRUE)
    BY <1>3 DEF AcceptWithoutName, Enqueue
  <2> QED
    BY <1>3, <2>1, <2>2, EnqueueType, ReturnType DEF AcceptWithoutName, TypeOK
<1>4. CASE Refuse(c)
  <2>1. current[c] \in Ids /\ Return(c, FALSE)
    BY <1>1, <1>4 DEF Refuse
  <2>2. blocks' \in [Ids -> SUBSET Blocks] /\ state' \in [Ids -> States]
    BY <1>4 DEF Refuse, Kept, TypeOK, States
  <2> QED
    BY <1>4, <2>1, <2>2, ReturnType DEF Refuse, TypeOK
<1>5. CASE Registered(c)
  <2>1. sent[current[c]] \in Messages
    BY <1>5, ElementOfSeq DEF Registered, CallsSend, TypeOK
  <2>2. watch' \in [Clients -> [all : BOOLEAN, names : SUBSET Bundles]]
    BY <1>5, <2>1, WatchType DEF Registered, TypeOK, Messages
  <2>3. /\ pc' \in [Clients -> {"idle", "invoke", "store"}]
        /\ current' \in [Clients -> Ids \cup {NoMessage}]
    BY <1>5 DEF Registered, TypeOK
  <2> QED
    BY <1>5, <2>2, <2>3 DEF Registered, TypeOK, server, history
<1>6. QED
  BY <1>2, <1>3, <1>4, <1>5 DEF ClientContinues

LEMMA DeliverTypeStep ==
  ASSUME TypeOK, NEW c \in Clients, Deliver(c)
  PROVE  TypeOK'
<1>1. /\ inbox[c] \in Seq(Notices) /\ inbox[c] # <<>>
      /\ inbox' = [inbox EXCEPT ![c] = Tail(@)]
  BY DEF Deliver, SelfCallback, StateCallback, Receive, TypeOK, Notices
<1>2. Head(inbox[c]) \in Notices /\ Tail(inbox[c]) \in Seq(Notices)
  BY <1>1, HeadAndTail
<1>3. inbox' \in [Clients -> Seq(Notices)]
  BY <1>1, <1>2 DEF TypeOK, Notices
<1>4. Head(inbox[c]).id \in Ids
  BY <1>2 DEF Notices
<1>5. CASE SelfCallback(c)
  <2>1. answers' \in [Ids -> Seq(Ids)]
    <3>1. \A i \in Ids : Append(answers[i], Head(inbox[c]).id) \in Seq(Ids)
      BY <1>4, Appended DEF TypeOK
    <3> QED
      BY <1>5, <3>1 DEF SelfCallback, TypeOK
  <2>2. state' \in [Ids -> States]
    BY <1>5 DEF SelfCallback, TypeOK, States
  <2> QED
    BY <1>3, <1>5, <2>1, <2>2 DEF SelfCallback, TypeOK, server, caller, Notices
<1>6. CASE StateCallback(c)
  <2>1. Append(heard[c], Head(inbox[c]).id) \in Seq(Ids)
    BY <1>4, Appended DEF TypeOK
  <2>2. heard' \in [Clients -> Seq(Ids)]
    BY <1>6, <2>1 DEF StateCallback, TypeOK
  <2> QED
    BY <1>3, <1>6, <2>2 DEF StateCallback, TypeOK, server, caller, Notices
<1>7. QED
  BY <1>5, <1>6 DEF Deliver

LEMMA DieTypeStep ==
  ASSUME TypeOK, NEW c \in Clients, Die(c)
  PROVE  TypeOK'
<1>1. <<>> \in Seq(Notices)
  OBVIOUS
<1>2. /\ pc' \in [Clients -> {"idle", "invoke", "store"}]
      /\ current' \in [Clients -> Ids \cup {NoMessage}]
      /\ callback' \in [Clients -> Ids \cup {NoMessage}]
      /\ listener' \in [Clients -> BOOLEAN]
  BY DEF Die, TypeOK
<1>3. /\ watch' \in [Clients -> [all : BOOLEAN, names : SUBSET Bundles]]
      /\ audience' \in [Ids -> SUBSET Clients]
  BY DEF Die, TypeOK, Nothing
<1>4. inbox' \in [Clients -> Seq(Notices)]
  BY <1>1 DEF Die, TypeOK, Notices
<1>5. QED
  BY <1>2, <1>3, <1>4 DEF Die, TypeOK, server, Notices

(* The results are as many as the subscribers that are reached.            *)
LEMMA ToAllType ==
  ASSUME TypeOK, task # NoMessage, NEW c \in Clients
  PROVE  /\ ToAll(c) \in Seq(Notices)
         /\ \A k \in 1 .. Len(ToAll(c)) : ToAll(c)[k].to = "all"
<1> DEFINE mine == {j \in Reached : subscribers[j] = c}
           n == Cardinality(mine)
           notice == [to |-> "all", id |-> task]
<1>1. Len(subscribers) \in Nat /\ DOMAIN subscribers = 1 .. Len(subscribers)
  BY LenProperties DEF TypeOK
<1>2. IsFiniteSet(1 .. Len(subscribers))
  BY <1>1, FS_Interval
<1>3. mine \subseteq 1 .. Len(subscribers)
  BY <1>1 DEF Reached
<1>4. IsFiniteSet(mine)
  BY <1>2, <1>3, FS_Subset
<1>5. n \in Nat
  BY <1>4, FS_CardinalityType
<1>6. notice \in Notices
  BY DEF TypeOK, Notices
<1>7. ToAll(c) = IF parsed THEN [k \in 1 .. n |-> notice] ELSE <<>>
  BY DEF ToAll
<1> HIDE DEF n
<1>8. [k \in 1 .. n |-> notice] \in Seq(Notices) /\ Len([k \in 1 .. n |-> notice]) = n
  BY <1>5, <1>6
<1>9. \A k \in 1 .. n : [j \in 1 .. n |-> notice][k].to = "all"
  OBVIOUS
<1> HIDE DEF notice
<1>10. CASE parsed
  BY <1>7, <1>8, <1>9, <1>10
<1>11. CASE ~parsed
  <2>1. ToAll(c) = <<>> /\ Len(<<>>) = 0
    BY <1>7, <1>11
  <2> QED
    BY <2>1
<1>12. QED
  BY <1>10, <1>11

LEMMA ToSelfType ==
  ASSUME TypeOK, task # NoMessage, NEW c \in Clients
  PROVE  ToSelf(c) \in Seq(Notices)
<1> DEFINE notice == [to |-> "self", id |-> task]
<1>1. notice \in Notices
  BY DEF TypeOK, Notices
<1>2. ToSelf(c) = IF c = sent[task].from THEN <<notice>> ELSE <<>>
  BY DEF ToSelf
<1> HIDE DEF notice
<1>3. QED
  BY <1>1, <1>2

LEMMA TakeType ==
  ASSUME TypeOK, NEW i \in Ids, Take(i)
  PROVE  queue' \in Seq(Ids) /\ Len(queue') <= QueueSize
<1>1. queue \in Seq(Ids) /\ queue # <<>> /\ queue' = Tail(queue) /\ Len(queue) <= QueueSize
  BY DEF Take, TypeOK
<1>2. Tail(queue) \in Seq(Ids) /\ Len(Tail(queue)) = Len(queue) - 1 /\ Len(queue) \in Nat
  BY <1>1, HeadAndTail
<1>3. QED
  BY <1>1, <1>2, Constants

LEMMA ServiceTypeStep ==
  ASSUME TypeOK, ServiceTask,
         \A k \in DOMAIN queue : queue[k] \in 1 .. Len(sent)
  PROVE  TypeOK'
<1>1. CASE ChangeCallback
  <2>1. PICK i \in Ids :
          /\ Take(i) /\ ~IsRequest(sent[i])
          /\ subscribers' = IF sent[i].kind = "add" THEN WithSubscriber(sent[i].from)
                            ELSE WithoutSubscriber(sent[i].from)
          /\ blocks' = [blocks EXCEPT ![i] = {}]
          /\ UNCHANGED <<task, parsed, alive, caller, inbox, history>>
    BY <1>1 DEF ChangeCallback
  <2>2. i \in 1 .. Len(sent)
    BY <2>1, HeadAndTail DEF Take, TypeOK
  <2>3. sent[i] \in Messages
    BY <2>2, ElementOfSeq DEF TypeOK
  <2>4. WithSubscriber(sent[i].from) \in Seq(Clients)
    BY <2>3, Appended DEF WithSubscriber, TypeOK, Messages
  <2>5. WithoutSubscriber(sent[i].from) \in Seq(Clients)
    BY RemoveFirstType DEF WithoutSubscriber, TypeOK
  <2>6. subscribers' \in Seq(Clients) /\ blocks' \in [Ids -> SUBSET Blocks]
    BY <2>1, <2>4, <2>5 DEF TypeOK
  <2> QED
    BY <2>1, <2>6, TakeType DEF TypeOK, caller, history
<1>2. CASE DropNameless
  <2>1. PICK i \in Ids :
          /\ Take(i)
          /\ blocks' = [blocks EXCEPT ![i] = {}]
          /\ state' = [state EXCEPT ![i] = "dropped"]
          /\ UNCHANGED <<task, parsed, subscribers, alive, caller, inbox, sent,
                         answers, overlapped, log, audience, heard>>
    BY <1>2 DEF DropNameless
  <2>2. blocks' \in [Ids -> SUBSET Blocks] /\ state' \in [Ids -> States]
    BY <2>1 DEF TypeOK, States
  <2> QED
    BY <2>1, <2>2, TakeType DEF TypeOK, caller
<1>3. CASE Execute
  <2>1. PICK i \in 1 .. Len(sent), r \in BOOLEAN :
          /\ Take(i)
          /\ task' = i /\ parsed' = r
          /\ log' = IF r THEN Append(log, i) ELSE log
          /\ UNCHANGED <<subscribers, blocks, alive, caller, inbox, sent, state,
                         answers, overlapped, audience, heard>>
    BY <1>3 DEF Execute, Readable
  <2>2. i \in Ids
    BY <2>1, LenProperties, Constants DEF TypeOK, Ids
  <2>3. log' \in Seq(Ids)
    BY <2>1, <2>2, Appended DEF TypeOK
  <2> QED
    BY <2>1, <2>2, <2>3, TakeType DEF TypeOK, caller
<1>4. CASE Answer
  <2>1. \A c \in Clients : inbox[c] \o ToSelf(c) \o ToAll(c) \in Seq(Notices)
    <3>1. SUFFICES ASSUME NEW c \in Clients
                   PROVE  inbox[c] \o ToSelf(c) \o ToAll(c) \in Seq(Notices)
      OBVIOUS
    <3>2. /\ inbox[c] \in Seq(Notices) /\ ToSelf(c) \in Seq(Notices)
          /\ ToAll(c) \in Seq(Notices)
      BY <1>4, ToAllType, ToSelfType DEF Answer, TypeOK, Notices
    <3> QED
      BY <3>2, ConcatProperties
  <2>2. inbox' \in [Clients -> Seq(Notices)]
    BY <1>4, <2>1 DEF Answer, TypeOK, Notices
  <2>3. blocks' \in [Ids -> SUBSET Blocks]
    BY <1>4 DEF Answer, TypeOK
  <2> QED
    BY <1>4, <2>2, <2>3 DEF Answer, TypeOK, caller, history, Notices
<1>5. QED
  BY <1>1, <1>2, <1>3, <1>4 DEF ServiceTask

-----------------------------------------------------------------------------
(* Where a message is: with its sender, in the queue or with the task, and *)
(* then as a result on its way back.                                       *)

Pending(i) == Contains(queue, i) \/ task = i

QueueSound ==
  /\ \A i \in Ids : Pending(i) => i \in 1 .. Len(sent) /\ state[i] = "accepted"
  /\ \A i \in Ids : Contains(queue, i) => task # i
  /\ \A j, k \in 1 .. Len(queue) : queue[j] = queue[k] => j = k
  /\ task # NoMessage => IsRequest(sent[task])

(* A result is that of a request of the client, which is nowhere else.     *)
IsResult(c, i) ==
  /\ i \in 1 .. Len(sent) /\ sent[i].from = c
  /\ IsRequest(sent[i]) /\ state[i] = "accepted" /\ ~Pending(i)

ResultsSound ==
  \A c \in Clients : \A k \in 1 .. Len(inbox[c]) : inbox[c][k].to = "self" =>
    /\ IsResult(c, inbox[c][k].id)
    /\ \A j \in 1 .. Len(inbox[c]) :
         inbox[c][j].to = "self" /\ inbox[c][j].id = inbox[c][k].id => j = k

PlacesInv == TypeOK /\ CallsSend /\ QueueSound /\ BlocksOwned /\ ResultsSound

LEMMA Lengths ==
  ASSUME TypeOK
  PROVE  /\ Len(sent) \in Nat /\ Len(queue) \in Nat
         /\ 1 .. Len(sent) \subseteq Ids
         /\ \A c \in Clients : Len(inbox[c]) \in Nat
         /\ \A c \in Clients : \A k \in 1 .. Len(inbox[c]) : inbox[c][k] \in Notices
         /\ \A k \in 1 .. Len(queue) : queue[k] \in Ids
         /\ \A i \in 1 .. Len(sent) : sent[i] \in Messages
<1>1. /\ sent \in Seq(Messages) /\ queue \in Seq(Ids)
      /\ \A c \in Clients : inbox[c] \in Seq(Notices)
      /\ Len(sent) <= MaxMessages
  BY DEF TypeOK, Notices
<1>2. /\ Len(sent) \in Nat /\ Len(queue) \in Nat
      /\ \A c \in Clients : Len(inbox[c]) \in Nat
  BY <1>1, LenProperties
<1>3. 1 .. Len(sent) \subseteq Ids
  BY <1>1, <1>2, Constants DEF Ids
<1>4. QED
  BY <1>1, <1>2, <1>3, ElementOfSeq

LEMMA SentGrows ==
  ASSUME TypeOK, NEW c \in Clients, NEW m \in Uses[c], Compose(c, m)
  PROVE  /\ Len(sent') = Len(sent) + 1
         /\ \A i \in 1 .. Len(sent) : sent'[i] = sent[i]
         /\ sent'[Len(sent) + 1] = m /\ m.from = c
BY Constants, Appended DEF Compose, TypeOK

(* Taking the first message of the queue, and adding one at its end.       *)
LEMMA Taken ==
  ASSUME TypeOK, QueueSound, NEW i \in Ids, Take(i)
  PROVE  /\ task = NoMessage /\ Contains(queue, i)
         /\ \A x \in Ids : Contains(queue', x) <=> Contains(queue, x) /\ x # i
         /\ \A j, k \in 1 .. Len(queue') : queue'[j] = queue'[k] => j = k
<1>1. queue \in Seq(Ids) /\ queue # <<>> /\ queue' = Tail(queue) /\ i = Head(queue)
  BY DEF Take, TypeOK
<1>2. /\ i = queue[1] /\ Len(queue') = Len(queue) - 1 /\ Len(queue) \in Nat \ {0}
      /\ \A k \in 1 .. Len(queue') : queue'[k] = queue[k + 1]
  BY <1>1, HeadAndTail
<1>3. \A j, k \in 1 .. Len(queue) : queue[j] = queue[k] => j = k
  BY DEF QueueSound
<1>4. \A x \in Ids : Contains(queue', x) => Contains(queue, x) /\ x # i
  BY <1>2, <1>3 DEF Contains
<1>5. \A x \in Ids : Contains(queue, x) /\ x # i => Contains(queue', x)
  <2>1. SUFFICES ASSUME NEW k \in 1 .. Len(queue), queue[k] # i
                 PROVE  \E j \in 1 .. Len(queue') : queue'[j] = queue[k]
    BY DEF Contains
  <2>2. k # 1 /\ k - 1 \in 1 .. Len(queue')
    BY <1>2, <2>1
  <2>3. queue'[k - 1] = queue[(k - 1) + 1] /\ (k - 1) + 1 = k
    BY <1>2, <2>2
  <2> QED
    BY <2>2, <2>3
<1>6. \A j, k \in 1 .. Len(queue') : queue'[j] = queue'[k] => j = k
  BY <1>2, <1>3
<1>7. Contains(queue, i) /\ task = NoMessage
  BY <1>2 DEF Contains, Take
<1>8. QED
  BY <1>4, <1>5, <1>6, <1>7

LEMMA Enqueued ==
  ASSUME TypeOK, QueueSound, NEW i \in Ids, ~Contains(queue, i), queue' = Append(queue, i)
  PROVE  /\ \A x \in Ids : Contains(queue', x) <=> Contains(queue, x) \/ x = i
         /\ \A j, k \in 1 .. Len(queue') : queue'[j] = queue'[k] => j = k
<1>1. /\ Len(queue') = Len(queue) + 1 /\ Len(queue) \in Nat
      /\ \A k \in 1 .. Len(queue) : queue'[k] = queue[k]
      /\ queue'[Len(queue) + 1] = i
  BY Appended DEF TypeOK
<1>2. QED
  BY <1>1 DEF Contains, QueueSound

LEMMA ResultsKept ==
  ASSUME TypeOK, ResultsSound, inbox' = inbox,
         \A c \in Clients, i \in Ids : IsResult(c, i) => IsResult(c, i)'
  PROVE  ResultsSound'
<1>1. \A c \in Clients : \A k \in 1 .. Len(inbox[c]) : inbox[c][k].id \in Ids
  BY Lengths DEF Notices
<1>2. QED
  BY <1>1 DEF ResultsSound

(* A call begins: nothing that is under way is touched.                    *)
LEMMA PlacesCall ==
  ASSUME PlacesInv, NEW c \in Clients, ClientCalls(c)
  PROVE  PlacesInv'
<1>0. TypeOK /\ TypeOK'
  BY CallTypeStep DEF PlacesInv
<1>1. UNCHANGED <<server, inbox>>
  BY DEF ClientCalls, Request, Register, RegisterMore, Unregister
<1>2. CASE UNCHANGED <<sent, state, pc, current>>
  <2>1. UNCHANGED <<queue, task, blocks, inbox, sent, state, pc, current>>
    BY <1>1, <1>2 DEF server
  <2> QED
    BY <1>0, <2>1 DEF PlacesInv, CallsSend, QueueSound, BlocksOwned, ResultsSound, IsResult,
                      Pending, Contains
<1>3. CASE \E m \in Uses[c] : Compose(c, m)
  <2>1. PICK m \in Uses[c] : Compose(c, m)
    BY <1>3
  <2>2. /\ Len(sent') = Len(sent) + 1 /\ Len(sent) \in Nat /\ Len(sent) + 1 \in Ids
        /\ \A i \in 1 .. Len(sent) : sent'[i] = sent[i]
        /\ sent'[Len(sent) + 1] = m /\ m.from = c
        /\ state' = [state EXCEPT ![Len(sent) + 1] = "calling"]
        /\ pc' = [pc EXCEPT ![c] = "invoke"]
        /\ current' = [current EXCEPT ![c] = Len(sent) + 1]
    BY <1>0, <2>1, SentGrows, ComposeType, Lengths DEF Compose
  <2>3. UNCHANGED <<queue, task, blocks, inbox>>
    BY <1>1 DEF server
  <2>4. /\ 1 .. Len(sent) \subseteq 1 .. Len(sent')
        /\ \A i \in 1 .. Len(sent) : state'[i] = state[i]
    <3>1. 1 .. Len(sent) \subseteq Ids /\ state \in [Ids -> States]
      BY <1>0, Lengths DEF TypeOK
    <3>2. ASSUME NEW i \in 1 .. Len(sent)
          PROVE  i \in 1 .. Len(sent) + 1 /\ i # Len(sent) + 1
      BY <2>2
    <3>3. \A i \in 1 .. Len(sent) : state'[i] = state[i]
      BY <2>2, <3>1, <3>2
    <3> QED
      BY <2>2, <3>2, <3>3
  <2>5. CallsSend'
    <3>1. SUFFICES ASSUME NEW d \in Clients, pc'[d] # "idle"
                   PROVE  /\ current'[d] \in 1 .. Len(sent') /\ sent'[current'[d]].from = d
                          /\ pc'[d] = "invoke" => state'[current'[d]] = "calling"
      BY DEF CallsSend
    <3>2. CASE d = c
      <4>1. current'[d] = Len(sent) + 1
        BY <1>0, <2>2, <3>2 DEF TypeOK
      <4>2. state'[Len(sent) + 1] = "calling"
        BY <1>0, <2>2 DEF TypeOK
      <4> QED
        BY <2>2, <3>2, <4>1, <4>2
    <3>3. CASE d # c
      <4>1. pc'[d] = pc[d] /\ current'[d] = current[d]
        BY <1>0, <2>2, <3>3 DEF TypeOK
      <4> QED
        BY <2>2, <2>4, <3>1, <4>1 DEF PlacesInv, CallsSend
    <3> QED
      BY <3>2, <3>3
  <2>6. \A i \in Ids : Pending(i)' <=> Pending(i)
    BY <2>3 DEF Pending, Contains
  <2>7. QueueSound'
    <3>1. \A i \in Ids : Pending(i)' => i \in 1 .. Len(sent') /\ state'[i] = "accepted"
      BY <2>4, <2>6 DEF PlacesInv, QueueSound
    <3>2. task # NoMessage => task \in 1 .. Len(sent) /\ IsRequest(sent[task])
      BY <1>0 DEF PlacesInv, QueueSound, Pending, TypeOK
    <3>3. (task # NoMessage => IsRequest(sent[task]))'
      BY <2>2, <2>3, <3>2 DEF IsRequest
    <3> QED
      BY <2>3, <3>1, <3>3 DEF PlacesInv, QueueSound, Contains
  <2>8. \A d \in Clients, i \in Ids : IsResult(d, i) => IsResult(d, i)'
    BY <2>2, <2>4, <2>6 DEF IsResult, IsRequest
  <2>9. ResultsSound'
    BY <1>0, <2>3, <2>8, ResultsKept DEF PlacesInv
  <2>10. BlocksOwned'
    BY <2>3 DEF PlacesInv, BlocksOwned, Contains
  <2> QED
    BY <1>0, <2>5, <2>7, <2>9, <2>10 DEF PlacesInv
<1>4. QED
  BY <1>2, <1>3 DEF ClientCalls, Request, Register, RegisterMore, Unregister, history

(* The call of a client ends, or goes on to its last step.                 *)
LEMMA CallsReturn ==
  ASSUME PlacesInv, NEW c \in Clients, NEW accepted \in BOOLEAN, Return(c, accepted),
         pc[c] = "invoke", sent' = sent,
         \A i \in Ids \ {current[c]} : state'[i] = state[i]
  PROVE  CallsSend'
<1>1. SUFFICES ASSUME NEW d \in Clients, pc'[d] # "idle"
               PROVE  /\ current'[d] \in 1 .. Len(sent) /\ sent[current'[d]].from = d
                      /\ pc'[d] = "invoke" => state'[current'[d]] = "calling"
  BY DEF CallsSend
<1>2. TypeOK /\ 1 .. Len(sent) \subseteq Ids
  BY Lengths DEF PlacesInv
<1>3. CASE d = c
  BY <1>1, <1>2, <1>3 DEF Return, PlacesInv, CallsSend, TypeOK
<1>4. CASE d # c
  <2>1. pc'[d] = pc[d] /\ current'[d] = current[d]
    BY <1>2, <1>4 DEF Return, TypeOK
  <2>2. current[d] \in 1 .. Len(sent) /\ sent[current[d]].from = d
    BY <1>1, <2>1 DEF PlacesInv, CallsSend
  <2>3. current[d] # current[c]
    BY <1>4, <2>2 DEF PlacesInv, CallsSend
  <2> QED
    BY <1>1, <1>2, <2>1, <2>2, <2>3 DEF PlacesInv, CallsSend
<1>5. QED
  BY <1>3, <1>4

LEMMA PlacesContinue ==
  ASSUME PlacesInv, NEW c \in Clients, ClientContinues(c)
  PROVE  PlacesInv'
<1>0. TypeOK /\ TypeOK'
  BY ContinueTypeStep DEF PlacesInv
<1>1. UNCHANGED <<sent, inbox, task>>
  BY DEF ClientContinues, Accept, AcceptWithoutName, Refuse, Registered, server, history
<1>2. CASE Registered(c)
  <2>1. /\ UNCHANGED <<queue, task, blocks, inbox, sent, state>>
        /\ pc' = [pc EXCEPT ![c] = "idle"]
        /\ current' = [current EXCEPT ![c] = NoMessage]
    BY <1>2 DEF Registered, server, history
  <2>2. CallsSend'
    BY <1>0, <2>1 DEF PlacesInv, CallsSend, TypeOK
  <2> QED
    BY <1>0, <2>1, <2>2 DEF PlacesInv, QueueSound, BlocksOwned, ResultsSound, IsResult,
                            Pending, Contains
<1>3. CASE pc[c] = "invoke" /\ ~Registered(c)
  <2> DEFINE i == current[c]
  <2>1. /\ i \in 1 .. Len(sent) /\ i \in Ids
        /\ sent[i].from = c /\ state[i] = "calling"
    BY <1>0, <1>3, Lengths DEF PlacesInv, CallsSend
  <2>2. ~Pending(i) /\ blocks[i] = {}
    BY <2>1 DEF PlacesInv, QueueSound, BlocksOwned, Pending
  <2>3. \A d \in Clients : ~IsResult(d, i)
    BY <2>1 DEF IsResult
  <2>4. CASE Refuse(c)
    <3>1. /\ blocks' = [blocks EXCEPT ![i] = {}]
          /\ state' = [state EXCEPT ![i] = "refused"]
          /\ Return(c, FALSE) /\ UNCHANGED queue
      BY <2>4 DEF Refuse, Kept
    <3>2. CallsSend'
      BY <1>0, <1>1, <1>3, <3>1, CallsReturn DEF TypeOK
    <3>3. blocks' = blocks
      BY <1>0, <2>1, <2>2, <3>1 DEF TypeOK
    <3>4. \A x \in Ids : Pending(x)' <=> Pending(x)
      BY <1>1, <3>1 DEF Pending, Contains
    <3>5. \A x \in Ids \ {i} : state'[x] = state[x]
      BY <1>0, <3>1 DEF TypeOK
    <3> HIDE DEF i
    <3>6. QueueSound'
      BY <1>1, <2>2, <3>1, <3>4, <3>5 DEF PlacesInv, QueueSound, Contains
    <3>7. BlocksOwned'
      BY <1>1, <3>1, <3>3 DEF PlacesInv, BlocksOwned, Contains
    <3>8. \A d \in Clients, x \in Ids : IsResult(d, x) => IsResult(d, x)'
      BY <1>1, <2>3, <3>4, <3>5 DEF IsResult
    <3>9. ResultsSound'
      BY <1>0, <1>1, <3>8, ResultsKept DEF PlacesInv
    <3> QED
      BY <1>0, <3>2, <3>6, <3>7, <3>9 DEF PlacesInv
  <2>5. CASE \E held \in SUBSET Blocks : "svc" \in held /\ Enqueue(c, i, held)
    <3>0. PICK held \in SUBSET Blocks : "svc" \in held /\ Enqueue(c, i, held)
      BY <2>5
    <3>1. /\ blocks' = [blocks EXCEPT ![i] = held]
          /\ state' = [state EXCEPT ![i] = "accepted"]
          /\ Return(c, TRUE) /\ queue' = Append(queue, i)
      BY <3>0 DEF Enqueue
    <3>2. CallsSend'
      BY <1>0, <1>1, <1>3, <3>1, CallsReturn DEF TypeOK
    <3>3. /\ \A x \in Ids : Contains(queue', x) <=> Contains(queue, x) \/ x = i
          /\ \A j, k \in 1 .. Len(queue') : queue'[j] = queue'[k] => j = k
      BY <1>0, <2>1, <2>2, <3>1, Enqueued DEF PlacesInv, Pending
    <3>4. \A x \in Ids : Pending(x)' <=> Pending(x) \/ x = i
      BY <1>1, <3>3 DEF Pending
    <3>5. /\ \A x \in Ids \ {i} : state'[x] = state[x] /\ blocks'[x] = blocks[x]
          /\ state'[i] = "accepted" /\ blocks'[i] = held
      BY <1>0, <2>1, <3>1 DEF TypeOK
    <3> HIDE DEF i
    <3>6. QueueSound'
      BY <1>1, <2>1, <2>2, <3>3, <3>4, <3>5 DEF PlacesInv, QueueSound, Pending
    <3>7. BlocksOwned'
      BY <1>1, <3>0, <3>3, <3>5 DEF PlacesInv, BlocksOwned
    <3>8. \A d \in Clients, x \in Ids : IsResult(d, x) => IsResult(d, x)'
      BY <1>1, <2>3, <3>4, <3>5 DEF IsResult
    <3>9. ResultsSound'
      BY <1>0, <1>1, <3>8, ResultsKept DEF PlacesInv
    <3> QED
      BY <1>0, <3>2, <3>6, <3>7, <3>9 DEF PlacesInv
  <2>6. QED
    BY <1>3, <2>4, <2>5 DEF ClientContinues, Accept, AcceptWithoutName, Allocated, Blocks
<1>4. QED
  BY <1>2, <1>3 DEF ClientContinues, Accept, AcceptWithoutName, Refuse

(* A result is delivered: no other place knows its request.                *)
LEMMA PlacesDeliver ==
  ASSUME PlacesInv, NEW c \in Clients, Deliver(c)
  PROVE  PlacesInv'
<1>0. TypeOK /\ TypeOK'
  BY DeliverTypeStep DEF PlacesInv
<1> DEFINE notice == Head(inbox[c])
<1>1. /\ UNCHANGED <<queue, task, blocks, sent, pc, current>>
      /\ inbox[c] # <<>> /\ inbox' = [inbox EXCEPT ![c] = Tail(@)]
  BY DEF Deliver, SelfCallback, StateCallback, Receive, server, caller
<1>2. /\ notice = inbox[c][1] /\ notice \in Notices /\ 1 \in 1 .. Len(inbox[c])
      /\ Len(inbox[c]) \in Nat
      /\ Len(Tail(inbox[c])) = Len(inbox[c]) - 1
      /\ \A k \in 1 .. Len(Tail(inbox[c])) :
           k + 1 \in 1 .. Len(inbox[c]) /\ k + 1 # 1 /\ Tail(inbox[c])[k] = inbox[c][k + 1]
  <2>1. inbox[c] \in Seq(Notices)
    BY <1>0 DEF TypeOK, Notices
  <2> QED
    BY <1>1, <2>1, HeadAndTail
<1>3. /\ \A d \in Clients \ {c} : inbox'[d] = inbox[d]
      /\ inbox'[c] = Tail(inbox[c])
  BY <1>0, <1>1 DEF TypeOK
<1>4. \A x \in Ids : Pending(x)' <=> Pending(x)
  BY <1>1 DEF Pending, Contains
<1>5. BlocksOwned'
  BY <1>1 DEF PlacesInv, BlocksOwned, Contains
<1>6. CASE notice.to = "all" /\ state' = state
  <2>1. CallsSend' /\ QueueSound'
    BY <1>1, <1>4, <1>6 DEF PlacesInv, CallsSend, QueueSound, Contains
  <2>2. \A d \in Clients, x \in Ids : IsResult(d, x) => IsResult(d, x)'
    BY <1>1, <1>4, <1>6 DEF IsResult
  <2>3. ResultsSound'
    <3>1. SUFFICES ASSUME NEW d \in Clients, NEW k \in 1 .. Len(inbox'[d]),
                          inbox'[d][k].to = "self"
                   PROVE  /\ IsResult(d, inbox[d][k].id)'
                          /\ \A j \in 1 .. Len(inbox'[d]) :
                               inbox'[d][j].to = "self" /\ inbox'[d][j].id = inbox'[d][k].id
                                 => j = k
      BY DEF ResultsSound
    <3>2. CASE d # c
      <4>1. inbox'[d] = inbox[d]
        BY <1>3, <3>2
      <4>2. inbox[d][k].id \in Ids /\ IsResult(d, inbox[d][k].id)
        BY <1>0, <3>1, <4>1, Lengths DEF PlacesInv, ResultsSound, Notices
      <4> QED
        BY <2>2, <3>1, <4>1, <4>2 DEF PlacesInv, ResultsSound
    <3>3. CASE d = c
      <4>1. \A j \in 1 .. Len(inbox'[d]) :
              /\ j + 1 \in 1 .. Len(inbox[c]) /\ inbox'[d][j] = inbox[c][j + 1]
        BY <1>2, <1>3, <3>3
      <4>2. inbox[c][k + 1].id \in Ids /\ IsResult(c, inbox[c][k + 1].id)
        BY <1>0, <3>1, <4>1, Lengths DEF PlacesInv, ResultsSound, Notices
      <4>3. IsResult(d, inbox[d][k].id)'
        BY <2>2, <3>3, <4>1, <4>2
      <4>4. \A j \in 1 .. Len(inbox[c]) :
              inbox[c][j].to = "self" /\ inbox[c][j].id = inbox[c][k + 1].id => j = k + 1
        BY <3>1, <4>1 DEF PlacesInv, ResultsSound
      <4>5. \A j \in 1 .. Len(inbox'[d]) : j + 1 = k + 1 => j = k
        OBVIOUS
      <4> QED
        BY <4>1, <4>3, <4>4, <4>5
    <3> QED
      BY <3>2, <3>3
  <2> QED
    BY <1>0, <1>5, <2>1, <2>3 DEF PlacesInv
<1>7. CASE notice.to = "self" /\ state' = [state EXCEPT ![notice.id] = "answered"]
  <2> DEFINE i == notice.id
  <2>1. IsResult(c, i) /\ i \in Ids
    BY <1>2, <1>7 DEF PlacesInv, ResultsSound, Notices
  <2>2. \A x \in Ids \ {i} : state'[x] = state[x]
    BY <1>0, <1>7 DEF TypeOK
  <2> HIDE DEF i, notice
  <2>3. CallsSend'
    <3>1. \A d \in Clients : pc[d] = "invoke" => current[d] \in Ids \ {i}
      BY <1>0, <2>1, Lengths DEF PlacesInv, CallsSend, IsResult
    <3> QED
      BY <1>1, <2>2, <3>1 DEF PlacesInv, CallsSend
  <2>4. QueueSound'
    BY <1>1, <1>4, <2>1, <2>2 DEF PlacesInv, QueueSound, IsResult, Contains
  <2>5. \A d \in Clients, x \in Ids \ {i} : IsResult(d, x) => IsResult(d, x)'
    BY <1>1, <1>4, <2>2 DEF IsResult
  <2>6. ResultsSound'
    <3>1. SUFFICES ASSUME NEW d \in Clients, NEW k \in 1 .. Len(inbox'[d]),
                          inbox'[d][k].to = "self"
                   PROVE  /\ IsResult(d, inbox[d][k].id)'
                          /\ \A j \in 1 .. Len(inbox'[d]) :
                               inbox'[d][j].to = "self" /\ inbox'[d][j].id = inbox'[d][k].id
                                 => j = k
      BY DEF ResultsSound
    <3>2. CASE d # c
      <4>1. inbox'[d] = inbox[d]
        BY <1>3, <3>2
      <4>2. inbox[d][k].id \in Ids /\ IsResult(d, inbox[d][k].id)
        BY <1>0, <3>1, <4>1, Lengths DEF PlacesInv, ResultsSound, Notices
      <4>3. inbox[d][k].id # i
        BY <2>1, <3>2, <4>2 DEF IsResult
      <4> QED
        BY <2>5, <3>1, <4>1, <4>2, <4>3 DEF PlacesInv, ResultsSound
    <3>3. CASE d = c
      <4>1. /\ k + 1 \in 1 .. Len(inbox[c]) /\ k + 1 # 1
            /\ inbox'[d][k] = inbox[c][k + 1]
        BY <1>2, <1>3, <3>3
      <4>2. inbox[c][k + 1].id \in Ids /\ IsResult(c, inbox[c][k + 1].id)
        BY <1>0, <3>1, <4>1, Lengths DEF PlacesInv, ResultsSound, Notices
      <4>3. inbox[c][k + 1].id # i
        BY <1>2, <1>7, <3>1, <4>1 DEF PlacesInv, ResultsSound, i
      <4>4. IsResult(d, inbox[d][k].id)'
        BY <2>5, <3>3, <4>1, <4>2, <4>3
      <4>5. \A j \in 1 .. Len(inbox'[d]) :
              /\ j + 1 \in 1 .. Len(inbox[c]) /\ inbox'[d][j] = inbox[c][j + 1]
        BY <1>2, <1>3, <3>3
      <4>6. \A j \in 1 .. Len(inbox[c]) :
              inbox[c][j].to = "self" /\ inbox[c][j].id = inbox[c][k + 1].id => j = k + 1
        BY <3>1, <4>1 DEF PlacesInv, ResultsSound
      <4>7. \A j \in 1 .. Len(inbox'[d]) : j + 1 = k + 1 => j = k
        OBVIOUS
      <4> QED
        BY <4>1, <4>4, <4>5, <4>6, <4>7
    <3> QED
      BY <3>2, <3>3
  <2> QED
    BY <1>0, <1>5, <2>3, <2>4, <2>6 DEF PlacesInv
<1>8. QED
  BY <1>6, <1>7 DEF Deliver, SelfCallback, StateCallback, Receive, history

LEMMA PlacesDie ==
  ASSUME PlacesInv, NEW c \in Clients, Die(c)
  PROVE  PlacesInv'
<1>0. TypeOK /\ TypeOK'
  BY DieTypeStep DEF PlacesInv
<1>1. /\ UNCHANGED <<queue, task, blocks, sent, state>>
      /\ pc' = [pc EXCEPT ![c] = "idle"]
      /\ current' = [current EXCEPT ![c] = NoMessage]
      /\ inbox' = [inbox EXCEPT ![c] = <<>>]
  BY DEF Die, server
<1>2. CallsSend'
  BY <1>0, <1>1 DEF PlacesInv, CallsSend, TypeOK
<1>3. ResultsSound'
  <2>1. /\ \A d \in Clients \ {c} : inbox'[d] = inbox[d]
        /\ inbox'[c] = <<>>
    BY <1>0, <1>1 DEF TypeOK
  <2>2. 1 .. Len(inbox'[c]) = {}
    BY <2>1
  <2> QED
    BY <1>1, <2>1, <2>2 DEF PlacesInv, ResultsSound, IsResult, Pending, Contains
<1>4. QED
  BY <1>0, <1>1, <1>2, <1>3 DEF PlacesInv, QueueSound, BlocksOwned, Pending, Contains

(* The results a client finds after Answer: the old ones and, for the      *)
(* client that asked, a new one.                                           *)
LEMMA AnswerArrives ==
  ASSUME TypeOK, Answer, NEW c \in Clients, NEW k \in 1 .. Len(inbox'[c]),
         inbox'[c][k].to = "self"
  PROVE  \/ k \in 1 .. Len(inbox[c]) /\ inbox'[c][k] = inbox[c][k]
         \/ /\ c = sent[task].from /\ k = Len(inbox[c]) + 1
            /\ inbox'[c][k].id = task
<1>1. /\ inbox[c] \in Seq(Notices) /\ ToSelf(c) \in Seq(Notices) /\ ToAll(c) \in Seq(Notices)
      /\ \A j \in 1 .. Len(ToAll(c)) : ToAll(c)[j].to = "all"
  BY ToAllType, ToSelfType DEF Answer, TypeOK, Notices
<1> DEFINE mine == inbox[c] \o ToSelf(c)
<1>2. inbox'[c] = mine \o ToAll(c) \/ inbox'[c] = inbox[c]
  BY DEF Answer
<1>3. /\ mine \in Seq(Notices)
      /\ \A j \in 1 .. Len(mine) :
           \/ j \in 1 .. Len(inbox[c]) /\ mine[j] = inbox[c][j]
           \/ /\ j - Len(inbox[c]) \in 1 .. Len(ToSelf(c)) /\ j > Len(inbox[c])
              /\ mine[j] = ToSelf(c)[j - Len(inbox[c])]
  BY <1>1, Concatenated
<1> HIDE DEF mine
<1>4. \A j \in 1 .. Len(mine \o ToAll(c)) :
        \/ j \in 1 .. Len(mine) /\ (mine \o ToAll(c))[j] = mine[j]
        \/ (mine \o ToAll(c))[j].to = "all"
  <2>1. \A j \in 1 .. Len(mine \o ToAll(c)) :
          \/ j \in 1 .. Len(mine) /\ (mine \o ToAll(c))[j] = mine[j]
          \/ /\ j - Len(mine) \in 1 .. Len(ToAll(c)) /\ j > Len(mine)
             /\ (mine \o ToAll(c))[j] = ToAll(c)[j - Len(mine)]
    BY <1>1, <1>3, Concatenated
  <2> QED
    BY <1>1, <2>1
<1>5. CASE inbox'[c] = inbox[c]
  BY <1>5
<1>6. CASE inbox'[c] = mine \o ToAll(c)
  <2>1. k \in 1 .. Len(mine) /\ inbox'[c][k] = mine[k]
    BY <1>4, <1>6
  <2>2. CASE k \in 1 .. Len(inbox[c]) /\ mine[k] = inbox[c][k]
    BY <2>1, <2>2
  <2>3. CASE /\ k - Len(inbox[c]) \in 1 .. Len(ToSelf(c))
             /\ mine[k] = ToSelf(c)[k - Len(inbox[c])]
    <3>1. /\ c = sent[task].from /\ Len(ToSelf(c)) = 1
          /\ ToSelf(c)[1] = [to |-> "self", id |-> task]
      BY <2>3 DEF ToSelf
    <3>2. Len(inbox[c]) \in Nat /\ k \in Int
      BY <1>1, LenProperties
    <3>3. k = Len(inbox[c]) + 1 /\ k - Len(inbox[c]) = 1
      BY <2>3, <3>1, <3>2
    <3> QED
      BY <2>1, <2>3, <3>1, <3>3
  <2> QED
    BY <1>3, <2>1, <2>2, <2>3
<1>7. QED
  BY <1>2, <1>5, <1>6

LEMMA PlacesAnswer ==
  ASSUME PlacesInv, Answer
  PROVE  CallsSend' /\ QueueSound' /\ BlocksOwned' /\ ResultsSound'
<1>0. TypeOK
  BY DEF PlacesInv
<1>1. /\ UNCHANGED <<queue, sent, state, pc, current>> /\ task # NoMessage /\ task' = NoMessage
      /\ blocks' = [blocks EXCEPT ![task] = {}]
  BY DEF Answer, caller, history
<1>2. /\ task \in Ids /\ task \in 1 .. Len(sent) /\ state[task] = "accepted"
      /\ IsRequest(sent[task]) /\ ~Contains(queue, task) /\ NoMessage \notin Ids
  BY <1>0, <1>1, Constants DEF PlacesInv, QueueSound, Pending, TypeOK, NoMessage
<1>3. \A x \in Ids : Pending(x)' <=> Pending(x) /\ x # task
  BY <1>1, <1>2 DEF Pending, Contains
<1>4. CallsSend' /\ QueueSound'
  BY <1>1, <1>2, <1>3 DEF PlacesInv, CallsSend, QueueSound, Contains
<1>5. BlocksOwned'
  BY <1>0, <1>1, <1>2 DEF PlacesInv, BlocksOwned, Contains, TypeOK
<1>6. \A d \in Clients, x \in Ids : IsResult(d, x) => IsResult(d, x)'
  BY <1>1, <1>3 DEF IsResult
<1>7. \A d \in Clients, x \in Ids : d = sent[task].from /\ x = task => IsResult(d, x)'
  BY <1>1, <1>2, <1>3 DEF IsResult
<1>8. ResultsSound'
  <2>1. SUFFICES ASSUME NEW d \in Clients, NEW k \in 1 .. Len(inbox'[d]),
                        inbox'[d][k].to = "self"
                 PROVE  /\ IsResult(d, inbox[d][k].id)'
                        /\ \A j \in 1 .. Len(inbox'[d]) :
                             inbox'[d][j].to = "self" /\ inbox'[d][j].id = inbox'[d][k].id
                               => j = k
    BY DEF ResultsSound
  <2>2. \A j \in 1 .. Len(inbox'[d]) : inbox'[d][j].to = "self" =>
          \/ /\ j \in 1 .. Len(inbox[d]) /\ inbox'[d][j] = inbox[d][j]
             /\ IsResult(d, inbox[d][j].id)
             /\ inbox'[d][j].id \in Ids /\ inbox'[d][j].id # task
          \/ /\ d = sent[task].from /\ j = Len(inbox[d]) + 1
             /\ inbox'[d][j].id = task
    <3>1. SUFFICES ASSUME NEW j \in 1 .. Len(inbox[d]), inbox[d][j].to = "self"
                   PROVE  /\ IsResult(d, inbox[d][j].id)
                          /\ inbox[d][j].id \in Ids /\ inbox[d][j].id # task
      BY <1>0, AnswerArrives
    <3>2. IsResult(d, inbox[d][j].id) /\ inbox[d][j].id \in Ids
      BY <1>0, <3>1, Lengths DEF PlacesInv, ResultsSound, Notices
    <3> QED
      BY <3>2 DEF IsResult, Pending
  <2>3. IsResult(d, inbox[d][k].id)'
    BY <1>2, <1>6, <1>7, <2>1, <2>2
  <2>4. \A j \in 1 .. Len(inbox'[d]) :
          inbox'[d][j].to = "self" /\ inbox'[d][j].id = inbox'[d][k].id => j = k
    BY <2>1, <2>2 DEF PlacesInv, ResultsSound
  <2> QED
    BY <2>3, <2>4
<1>9. QED
  BY <1>4, <1>5, <1>8

LEMMA PlacesService ==
  ASSUME PlacesInv, ServiceTask
  PROVE  PlacesInv'
<1>0. TypeOK /\ TypeOK'
  <2>1. \A k \in DOMAIN queue : queue[k] \in 1 .. Len(sent)
    BY Lengths DEF PlacesInv, QueueSound, Pending, Contains, TypeOK
  <2> QED
    BY <2>1, ServiceTypeStep DEF PlacesInv
<1>1. CASE ChangeCallback \/ DropNameless
  <2>1. PICK i \in Ids :
          /\ Take(i) /\ blocks' = [blocks EXCEPT ![i] = {}]
          /\ state' = state \/ state' = [state EXCEPT ![i] = "dropped"]
          /\ UNCHANGED <<task, sent, pc, current, inbox>>
    BY <1>1 DEF ChangeCallback, DropNameless, caller, history
  <2>2. /\ task = NoMessage /\ Contains(queue, i) /\ NoMessage \notin Ids
        /\ \A x \in Ids : Contains(queue', x) <=> Contains(queue, x) /\ x # i
        /\ \A j, k \in 1 .. Len(queue') : queue'[j] = queue'[k] => j = k
    BY <1>0, <2>1, Taken, Constants DEF PlacesInv, NoMessage
  <2>3. /\ \A x \in Ids : Pending(x)' <=> Pending(x) /\ x # i
        /\ \A x \in Ids \ {i} : state'[x] = state[x] /\ blocks'[x] = blocks[x]
        /\ blocks'[i] = {}
    BY <1>0, <2>1, <2>2 DEF Pending, TypeOK
  <2>4. state[i] = "accepted" /\ Pending(i)
    BY <2>2 DEF PlacesInv, QueueSound, Pending
  <2>5. CallsSend'
    <3>1. \A d \in Clients : pc[d] = "invoke" => current[d] \in Ids \ {i}
      BY <1>0, <2>4, Lengths DEF PlacesInv, CallsSend
    <3> QED
      BY <2>1, <2>3, <3>1 DEF PlacesInv, CallsSend
  <2>6. QueueSound'
    BY <2>1, <2>2, <2>3 DEF PlacesInv, QueueSound
  <2>7. BlocksOwned'
    BY <2>1, <2>2, <2>3 DEF PlacesInv, BlocksOwned
  <2>8. \A d \in Clients, x \in Ids : IsResult(d, x) => IsResult(d, x)'
    BY <2>1, <2>3, <2>4 DEF IsResult
  <2>9. ResultsSound'
    BY <1>0, <2>1, <2>8, ResultsKept DEF PlacesInv
  <2> QED
    BY <1>0, <2>5, <2>6, <2>7, <2>9 DEF PlacesInv
<1>2. CASE Execute
  <2>1. PICK i \in 1 .. Len(sent) :
          /\ Take(i) /\ IsRequest(sent[i]) /\ task' = i
          /\ UNCHANGED <<blocks, state, sent, pc, current, inbox>>
    BY <1>2 DEF Execute, caller, history
  <2>2. /\ i \in Ids /\ task = NoMessage /\ Contains(queue, i) /\ NoMessage \notin Ids
        /\ \A x \in Ids : Contains(queue', x) <=> Contains(queue, x) /\ x # i
        /\ \A j, k \in 1 .. Len(queue') : queue'[j] = queue'[k] => j = k
    BY <1>0, <2>1, Taken, Constants, Lengths DEF PlacesInv, NoMessage
  <2>3. \A x \in Ids : Pending(x)' <=> Pending(x)
    BY <2>1, <2>2 DEF Pending
  <2>4. CallsSend' /\ QueueSound'
    BY <2>1, <2>2, <2>3 DEF PlacesInv, CallsSend, QueueSound
  <2>5. BlocksOwned'
    BY <2>1, <2>2 DEF PlacesInv, BlocksOwned
  <2>6. \A d \in Clients, x \in Ids : IsResult(d, x) => IsResult(d, x)'
    BY <2>1, <2>3 DEF IsResult
  <2>7. ResultsSound'
    BY <1>0, <2>1, <2>6, ResultsKept DEF PlacesInv
  <2> QED
    BY <1>0, <2>4, <2>5, <2>7 DEF PlacesInv
<1>3. CASE Answer
  BY <1>0, <1>3, PlacesAnswer DEF PlacesInv
<1>4. QED
  BY <1>1, <1>2, <1>3 DEF ServiceTask

LEMMA PlacesInit == Init => PlacesInv
<1> SUFFICES ASSUME Init PROVE PlacesInv
  OBVIOUS
<1>2. /\ NoMessage \notin Ids /\ Len(<<>>) = 0 /\ 1 .. 0 = {}
      /\ 0 <= MaxMessages /\ 0 <= QueueSize
  BY Constants DEF NoMessage
<1>3. TypeOK
  <2>1. /\ queue = <<>> /\ subscribers = <<>> /\ sent = <<>> /\ log = <<>>
        /\ inbox = [c \in Clients |-> <<>>] /\ heard = [c \in Clients |-> <<>>]
        /\ answers = [i \in Ids |-> <<>>]
    BY DEF Init
  <2>2. \A S : <<>> \in Seq(S)
    OBVIOUS
  <2>3. /\ queue \in Seq(Ids) /\ Len(queue) <= QueueSize /\ subscribers \in Seq(Clients)
        /\ sent \in Seq(Messages) /\ Len(sent) <= MaxMessages /\ log \in Seq(Ids)
        /\ inbox \in [Clients -> Seq(Notices)] /\ heard \in [Clients -> Seq(Ids)]
        /\ answers \in [Ids -> Seq(Ids)]
    BY <1>2, <2>1, <2>2
  <2>4. /\ task \in Ids \cup {NoMessage} /\ parsed \in BOOLEAN
        /\ blocks \in [Ids -> SUBSET Blocks] /\ alive \subseteq Clients
        /\ pc \in [Clients -> {"idle", "invoke", "store"}]
        /\ current \in [Clients -> Ids \cup {NoMessage}]
        /\ callback \in [Clients -> Ids \cup {NoMessage}]
        /\ listener \in [Clients -> BOOLEAN]
        /\ state \in [Ids -> States] /\ overlapped \subseteq Clients
        /\ audience \in [Ids -> SUBSET Clients]
    BY DEF Init, States
  <2>5. watch \in [Clients -> [all : BOOLEAN, names : SUBSET Bundles]]
    BY DEF Init, Nothing
  <2> QED
    BY <2>3, <2>4, <2>5 DEF TypeOK, Notices
<1>4. CallsSend
  BY DEF Init, CallsSend
<1>5. \A i \in Ids : ~Pending(i) /\ ~Contains(queue, i)
  BY <1>2 DEF Init, Pending, Contains
<1>6. QueueSound /\ BlocksOwned
  BY <1>2, <1>5 DEF Init, QueueSound, BlocksOwned, Pending
<1>7. ResultsSound
  BY <1>2 DEF Init, ResultsSound
<1>8. QED
  BY <1>3, <1>4, <1>6, <1>7 DEF PlacesInv

LEMMA PlacesStep == PlacesInv /\ [Next]_vars => PlacesInv'
<1>1. SUFFICES ASSUME PlacesInv, [Next]_vars PROVE PlacesInv'
  OBVIOUS
<1>2. CASE \E c \in Clients : ClientCalls(c) \/ ClientContinues(c) \/ Deliver(c) \/ Die(c)
  BY <1>1, <1>2, PlacesCall, PlacesContinue, PlacesDeliver, PlacesDie
<1>3. CASE ServiceTask
  BY <1>1, <1>3, PlacesService
<1>4. CASE UNCHANGED vars
  <2>1. TypeOK'
    BY <1>1, <1>4 DEF vars, server, caller, history, PlacesInv, TypeOK
  <2>2. CallsSend'
    BY <1>1, <1>4 DEF vars, server, caller, history, PlacesInv, CallsSend
  <2>3. QueueSound' /\ BlocksOwned'
    BY <1>1, <1>4 DEF vars, server, history, PlacesInv, QueueSound, BlocksOwned, Pending, Contains
  <2>4. \A c \in Clients, i \in Ids : IsResult(c, i) => IsResult(c, i)'
    BY <1>4 DEF vars, server, history, IsResult, Pending, Contains
  <2>5. ResultsSound'
    BY <1>1, <1>4, <2>4, ResultsKept DEF vars, PlacesInv
  <2> QED
    BY <2>1, <2>2, <2>3, <2>5 DEF PlacesInv
<1>5. QED
  BY <1>1, <1>2, <1>3, <1>4 DEF Next

LEMMA PlacesInvariant == Spec => []PlacesInv
<1>1. QED
  BY PlacesInit, PlacesStep, PTL DEF Spec

(* Every variable of the service and of its clients has its type.          *)
THEOREM RequestsTypeCorrect == Spec => []TypeOK
<1>1. PlacesInv => TypeOK
  BY DEF PlacesInv
<1>2. QED
  BY <1>1, PlacesInvariant, PTL

(* A message has memory of the service exactly while it is in the queue or *)
(* handled, whatever fails and whoever dies.                               *)
THEOREM MessagesFreed == Spec => []BlocksOwned
<1>1. PlacesInv => BlocksOwned
  BY DEF PlacesInv
<1>2. QED
  BY <1>1, PlacesInvariant, PTL

-----------------------------------------------------------------------------
(* Whose callback a result finds.                                          *)

CallbackSound ==
  /\ \A c \in Clients : callback[c] # NoMessage =>
       callback[c] \in 1 .. Len(sent) /\ sent[callback[c]].from = c
  /\ \A c \in alive \ overlapped : \A i \in Open(c) : callback[c] = i

(* Nothing has happened to a message that was not sent.                    *)
Unsent == \A i \in Ids : i > Len(sent) => state[i] = "unused" /\ answers[i] = <<>>

AnswersInv == CallbackSound /\ Unsent /\ OwnAnswer

(* Steps that open no request and answer none.                             *)
LEMMA AnswersKept ==
  ASSUME PlacesInv, AnswersInv,
         UNCHANGED <<sent, callback, answers, overlapped>>, alive' \subseteq alive,
         \A i \in Ids :
           \/ state'[i] = state[i]
           \/ /\ i \in 1 .. Len(sent)
              /\ state[i] \in {"calling", "accepted"}
              /\ state'[i] # "answered"
  PROVE  AnswersInv'
<1>1. /\ 1 .. Len(sent) \subseteq Ids /\ Len(sent) \in Nat /\ alive \subseteq Clients
      /\ Ids \subseteq Nat
  BY Lengths, Constants DEF PlacesInv, TypeOK
<1>2. \A c \in Clients : Open(c)' \subseteq Open(c)
  BY DEF Open
<1>3. CallbackSound'
  BY <1>1, <1>2 DEF AnswersInv, CallbackSound
<1>4. Unsent'
  BY <1>1 DEF AnswersInv, Unsent
<1>5. OwnAnswer'
  BY <1>1 DEF AnswersInv, OwnAnswer
<1>6. QED
  BY <1>3, <1>4, <1>5 DEF AnswersInv

(* A request is stored in its client's callback when it begins.            *)
LEMMA AnswersCall ==
  ASSUME PlacesInv, AnswersInv, NEW c \in Clients, ClientCalls(c)
  PROVE  AnswersInv'
<1>0. TypeOK
  BY DEF PlacesInv
<1>1. UNCHANGED <<answers, alive>>
  BY DEF ClientCalls, Request, Register, RegisterMore, Unregister, history
<1>2. CASE \E m \in Uses[c] : RegisterMore(c, m)
  BY <1>2, AnswersKept DEF RegisterMore, history
<1>3. CASE \E m \in Uses[c] :
             /\ Compose(c, m)
             /\ \/ Request(c, m)
                \/ ~IsRequest(m) /\ UNCHANGED <<callback, overlapped>>
  <2> DEFINE n == Len(sent) + 1
  <2>1. PICK m \in Uses[c] :
          /\ Compose(c, m)
          /\ \/ Request(c, m)
             \/ ~IsRequest(m) /\ UNCHANGED <<callback, overlapped>>
    BY <1>3
  <2>2. /\ Len(sent') = n /\ Len(sent) \in Nat /\ n \in Ids
        /\ \A i \in 1 .. Len(sent) : sent'[i] = sent[i]
        /\ sent'[n] = m /\ m.from = c
        /\ state' = [state EXCEPT ![n] = "calling"]
    BY <1>0, <2>1, SentGrows, ComposeType, Lengths DEF Compose
  <2>3. /\ 1 .. Len(sent') = 1 .. Len(sent) \cup {n} /\ 1 .. Len(sent) \subseteq Ids
        /\ state[n] = "unused" /\ answers[n] = <<>> /\ n > Len(sent) /\ Ids \subseteq Nat
    BY <1>0, <2>2, Lengths, Constants DEF AnswersInv, Unsent
  <2>4. /\ \A i \in Ids \ {n} : state'[i] = state[i]
        /\ state'[n] = "calling"
    BY <1>0, <2>2 DEF TypeOK
  <2>5. overlapped \subseteq overlapped'
    BY <2>1 DEF Request
  <2>6. Unsent'
    <3>1. ASSUME NEW i \in Ids, i > n PROVE i # n /\ i > Len(sent)
      <4>1. i \in Nat /\ Len(sent) \in Nat
        BY <2>2, <2>3
      <4> QED
        BY <3>1, <4>1
    <3> HIDE DEF n
    <3> QED
      BY <1>1, <2>2, <2>4, <3>1 DEF AnswersInv, Unsent
  <2>7. OwnAnswer'
    <3>1. \A i \in 1 .. Len(sent) : state'[i] = state[i] /\ sent'[i] = sent[i]
      BY <2>2, <2>3, <2>4
    <3>2. \A i \in 1 .. Len(sent) : sent'[i].from \notin overlapped' =>
            answers'[i] = IF state'[i] = "answered" THEN <<i>> ELSE <<>>
      BY <1>1, <2>5, <3>1 DEF AnswersInv, OwnAnswer
    <3>3. answers'[n] = IF state'[n] = "answered" THEN <<n>> ELSE <<>>
      BY <1>1, <2>3, <2>4
    <3> QED
      BY <2>3, <3>2, <3>3 DEF OwnAnswer
  <2>8. \A i \in Ids : state[i] \in {"calling", "accepted"} => i \in 1 .. Len(sent)
    BY <2>2, <2>3, Constants DEF AnswersInv, Unsent, Ids
  <2>9. \A d \in Clients : Open(d)' \subseteq
          Open(d) \cup (IF d = c /\ IsRequest(m) THEN {n} ELSE {})
    BY <2>2, <2>4, <2>8 DEF Open, IsRequest
  <2> HIDE DEF n
  <2>10. CallbackSound'
    <3>1. CASE Request(c, m)
      <4>1. callback' = [callback EXCEPT ![c] = n]
        BY <3>1 DEF Request, n
      <4>2. \A d \in Clients : callback'[d] = IF d = c THEN n ELSE callback[d]
        BY <1>0, <4>1 DEF TypeOK
      <4>3. c \notin overlapped' => Open(c) = {}
        BY <3>1 DEF Request
      <4>4. \A d \in Clients : callback'[d] # NoMessage =>
              callback'[d] \in 1 .. Len(sent') /\ sent'[callback'[d]].from = d
        BY <2>2, <2>3, <4>2 DEF AnswersInv, CallbackSound
      <4>5. \A d \in alive \ overlapped' : \A i \in Open(d)' : callback'[d] = i
        BY <1>0, <2>5, <2>9, <4>2, <4>3 DEF AnswersInv, CallbackSound, TypeOK
      <4> QED
        BY <1>1, <4>4, <4>5 DEF CallbackSound
    <3>2. CASE ~IsRequest(m) /\ UNCHANGED <<callback, overlapped>>
      <4>1. \A d \in Clients : callback'[d] # NoMessage =>
              callback'[d] \in 1 .. Len(sent') /\ sent'[callback'[d]].from = d
        BY <2>2, <2>3, <3>2 DEF AnswersInv, CallbackSound
      <4>2. \A d \in alive \ overlapped' : \A i \in Open(d)' : callback'[d] = i
        BY <1>0, <2>9, <3>2 DEF AnswersInv, CallbackSound, TypeOK
      <4> QED
        BY <1>1, <4>1, <4>2 DEF CallbackSound
    <3> QED
      BY <2>1, <3>1, <3>2
  <2> QED
    BY <2>6, <2>7, <2>10 DEF AnswersInv
<1>4. QED
  BY <1>2, <1>3 DEF ClientCalls, Request, Register, Unregister, IsRequest

(* The service answers a request that is open, so that of the callback.    *)
LEMMA AnswersSelf ==
  ASSUME PlacesInv, AnswersInv, NEW c \in Clients, SelfCallback(c)
  PROVE  AnswersInv'
<1> DEFINE i == Head(inbox[c]).id
<1>0. TypeOK /\ 1 .. Len(sent) \subseteq Ids /\ Len(sent) \in Nat
  BY Lengths DEF PlacesInv
<1>1. /\ c \in alive /\ UNCHANGED <<sent, callback, overlapped, alive>>
      /\ inbox[c] # <<>> /\ Head(inbox[c]).to = "self"
      /\ answers' = [answers EXCEPT ![callback[c]] = Append(@, i)]
      /\ state' = [state EXCEPT ![i] = "answered"]
  BY DEF SelfCallback, Receive, caller
<1>2. i \in 1 .. Len(sent) /\ sent[i].from = c /\ IsRequest(sent[i]) /\ state[i] = "accepted"
  <2>1. inbox[c] \in Seq(Notices)
    BY <1>0 DEF TypeOK, Notices
  <2>2. Head(inbox[c]) = inbox[c][1] /\ 1 \in 1 .. Len(inbox[c])
    BY <1>1, <2>1, HeadAndTail
  <2> QED
    BY <1>1, <2>2 DEF PlacesInv, ResultsSound, IsResult
<1> HIDE DEF i
<1>3. /\ i \in Ids /\ state'[i] = "answered"
      /\ \A x \in Ids \ {i} : state'[x] = state[x]
  BY <1>0, <1>1, <1>2 DEF TypeOK
<1>4. i \in Open(c)
  BY <1>2, <1>3 DEF Open
<1>5. c \notin overlapped => callback[c] = i
  BY <1>1, <1>4 DEF AnswersInv, CallbackSound
<1>6. \A x \in Ids : answers'[x] = IF x = callback[c] THEN Append(answers[x], i) ELSE answers[x]
  BY <1>0, <1>1 DEF TypeOK
<1>7. callback[c] \in Ids => callback[c] \in 1 .. Len(sent) /\ sent[callback[c]].from = c
  BY Constants DEF AnswersInv, CallbackSound, NoMessage
<1>8. CallbackSound'
  <2>1. \A d \in Clients : Open(d)' \subseteq Open(d)
    BY <1>1, <1>3 DEF Open
  <2> QED
    BY <1>0, <1>1, <2>1 DEF AnswersInv, CallbackSound, TypeOK
<1>9. Unsent'
  <2>1. \A x \in Ids : x > Len(sent) => x # i /\ x # callback[c]
    BY <1>0, <1>2, <1>7
  <2> QED
    BY <1>1, <1>3, <1>6, <2>1 DEF AnswersInv, Unsent
<1>10. OwnAnswer'
  <2>1. SUFFICES ASSUME NEW x \in 1 .. Len(sent), sent[x].from \notin overlapped
                 PROVE  answers'[x] = IF state'[x] = "answered" THEN <<x>> ELSE <<>>
    BY <1>1 DEF OwnAnswer
  <2>2. answers[x] = IF state[x] = "answered" THEN <<x>> ELSE <<>>
    BY <2>1 DEF AnswersInv, OwnAnswer
  <2>3. CASE x = i
    <3>1. x = callback[c] /\ answers[x] = <<>>
      BY <1>2, <1>5, <2>1, <2>2, <2>3
    <3>2. answers'[x] = Append(<<>>, x) /\ state'[x] = "answered"
      BY <1>3, <1>6, <2>3, <3>1
    <3>3. Append(<<>>, x) = <<x>>
      OBVIOUS
    <3> QED
      BY <3>2, <3>3
  <2>4. CASE x # i
    <3>1. x # callback[c]
      BY <1>0, <1>5, <1>7, <2>1, <2>4
    <3> QED
      BY <1>0, <1>3, <1>6, <2>2, <2>4, <3>1
  <2> QED
    BY <2>3, <2>4
<1>11. QED
  BY <1>8, <1>9, <1>10 DEF AnswersInv

LEMMA AnswersDie ==
  ASSUME PlacesInv, AnswersInv, NEW c \in Clients, Die(c)
  PROVE  AnswersInv'
<1>1. /\ UNCHANGED <<sent, state, answers, overlapped>> /\ alive' = alive \ {c}
      /\ callback' = [callback EXCEPT ![c] = NoMessage]
  BY DEF Die
<1>2. \A d \in Clients : callback'[d] = IF d = c THEN NoMessage ELSE callback[d]
  BY <1>1 DEF PlacesInv, TypeOK
<1>3. alive \subseteq Clients
  BY DEF PlacesInv, TypeOK
<1>4. CallbackSound'
  BY <1>1, <1>2, <1>3 DEF AnswersInv, CallbackSound, Open
<1>5. QED
  BY <1>1, <1>4 DEF AnswersInv, Unsent, OwnAnswer

LEMMA AnswersStep == PlacesInv /\ AnswersInv /\ [Next]_vars => AnswersInv'
<1> SUFFICES ASSUME PlacesInv, AnswersInv, [Next]_vars PROVE AnswersInv'
  OBVIOUS
<1>0. TypeOK /\ 1 .. Len(sent) \subseteq Ids
  BY Lengths DEF PlacesInv
<1>1. ASSUME NEW c \in Clients, ClientCalls(c) PROVE AnswersInv'
  BY <1>1, AnswersCall
<1>2. ASSUME NEW c \in Clients, ClientContinues(c) PROVE AnswersInv'
  <2>1. UNCHANGED <<sent, callback, answers, overlapped, alive>>
    BY <1>2 DEF ClientContinues, Accept, AcceptWithoutName, Refuse, Registered, history
  <2>2. CASE Registered(c)
    BY <2>1, <2>2, AnswersKept DEF Registered, history
  <2>3. CASE ~Registered(c)
    <3>1. /\ pc[c] = "invoke"
          /\ \/ state' = [state EXCEPT ![current[c]] = "accepted"]
             \/ state' = [state EXCEPT ![current[c]] = "refused"]
      BY <1>2, <2>3 DEF ClientContinues, Accept, AcceptWithoutName, Refuse, Enqueue
    <3>2. current[c] \in 1 .. Len(sent) /\ state[current[c]] = "calling"
      BY <3>1 DEF PlacesInv, CallsSend
    <3>3. \A x \in Ids :
            \/ state'[x] = state[x]
            \/ x \in 1 .. Len(sent) /\ state[x] = "calling" /\ state'[x] \in {"accepted", "refused"}
      BY <1>0, <3>1, <3>2 DEF TypeOK
    <3> QED
      BY <2>1, <3>3, AnswersKept
  <2> QED
    BY <2>2, <2>3
<1>3. ASSUME NEW c \in Clients, Deliver(c) PROVE AnswersInv'
  <2>1. CASE SelfCallback(c)
    BY <2>1, AnswersSelf
  <2>2. CASE StateCallback(c)
    BY <2>2, AnswersKept DEF StateCallback, caller
  <2> QED
    BY <1>3, <2>1, <2>2 DEF Deliver
<1>4. ASSUME NEW c \in Clients, Die(c) PROVE AnswersInv'
  BY <1>4, AnswersDie
<1>5. CASE ServiceTask
  <2>1. UNCHANGED <<sent, callback, answers, overlapped, alive>>
    BY <1>5 DEF ServiceTask, ChangeCallback, DropNameless, Execute, Answer, caller, history
  <2>2. CASE DropNameless
    <3>1. PICK i \in Ids : Take(i) /\ state' = [state EXCEPT ![i] = "dropped"]
      BY <2>2 DEF DropNameless
    <3>2. i \in 1 .. Len(sent) /\ state[i] = "accepted"
      BY <1>0, <3>1, Taken DEF PlacesInv, QueueSound, Pending
    <3>3. \A x \in Ids :
            \/ state'[x] = state[x]
            \/ x \in 1 .. Len(sent) /\ state[x] = "accepted" /\ state'[x] = "dropped"
      BY <1>0, <3>1, <3>2 DEF TypeOK
    <3> QED
      BY <2>1, <3>3, AnswersKept
  <2>3. CASE state' = state
    BY <2>1, <2>3, AnswersKept
  <2> QED
    BY <1>5, <2>2, <2>3 DEF ServiceTask, ChangeCallback, Execute, Answer, history
<1>6. CASE UNCHANGED vars
  BY <1>6, AnswersKept DEF vars, caller, history
<1>7. QED
  BY <1>1, <1>2, <1>3, <1>4, <1>5, <1>6 DEF Next

LEMMA AnswersInit == Init => AnswersInv
<1> SUFFICES ASSUME Init PROVE AnswersInv
  OBVIOUS
<1>1. /\ Len(sent) = 0 /\ 1 .. 0 = {}
      /\ \A i \in Ids : state[i] = "unused" /\ answers[i] = <<>>
      /\ \A c \in Clients : callback[c] = NoMessage
  BY DEF Init
<1>2. QED
  BY <1>1 DEF Init, AnswersInv, CallbackSound, Unsent, OwnAnswer, Open

(* A client that makes one request at a time hears of each, once, by the   *)
(* callback it gave for it: whatever the other clients do, and whoever     *)
(* dies.                                                                   *)
THEOREM CallbacksHearTheirOwn == Spec => []OwnAnswer
<1>1. AnswersInv => OwnAnswer
  BY DEF AnswersInv
<1>2. Spec => []AnswersInv
  BY AnswersInit, AnswersStep, PlacesInvariant, PTL DEF Spec
<1>3. QED
  BY <1>1, <1>2, PTL
-----------------------------------------------------------------------------
(* Who hears of a request.                                                 *)

IsAdd(c, i)    == sent[i].kind = "add" /\ sent[i].from = c
IsRemove(c, i) == sent[i].kind = "remove" /\ sent[i].from = c

(* The service tells c after the first n messages of the queue: it has     *)
(* subscribed, now or in one of them, and not unsubscribed after that.     *)
SubscribedAfter(c, n) ==
  \E j \in 0 .. n :
    /\ j = 0 => Contains(subscribers, c)
    /\ j # 0 => IsAdd(c, queue[j])
    /\ \A k \in 1 .. n : k > j => ~IsRemove(c, queue[k])

Watching(c) == watch[c] # Nothing \/ pc[c] = "store"

(* A client that watches stays subscribed, one that has a listener watches *)
(* or is in the call that gave it one, and one that unregisters does not.  *)
WatchersSubscribe ==
  \A c \in Clients :
    /\ Watching(c) => SubscribedAfter(c, Len(queue))
    /\ pc[c] = "invoke" /\ sent[current[c]].kind = "remove" => watch[c] = Nothing
    /\ listener[c] => Watching(c) \/ (pc[c] = "invoke" /\ ~IsRequest(sent[current[c]]))

(* The service hears of a client of the audience before it runs a request. *)
AudienceSubscribes ==
  /\ \A i \in Ids : \A c \in audience[i] :
       c \in alive /\ i \in 1 .. Len(sent) /\ Watches(c, sent[i].about)
  /\ \A p \in 1 .. Len(queue) : IsRequest(sent[queue[p]]) =>
       \A c \in audience[queue[p]] : SubscribedAfter(c, p)
  /\ task # NoMessage => \A c \in audience[task] : Contains(subscribers, c)

(* Subscribers have registered, and are entered once.                      *)
SubscribersSound ==
  /\ \A k \in 1 .. Len(subscribers) : \E i \in 1 .. Len(sent) : IsAdd(subscribers[k], i)
  /\ \A j, k \in 1 .. Len(subscribers) : subscribers[j] = subscribers[k] => j = k

(* What the installer ran is no longer in the queue; the last of it is the *)
(* request being handled, unless its hap could not be read.                *)
LogSound ==
  /\ \A k \in 1 .. Len(log) :
       /\ log[k] \in 1 .. Len(sent) /\ state[log[k]] \in {"accepted", "answered"}
       /\ ~Contains(queue, log[k])
  /\ task # NoMessage /\ parsed => log # <<>> /\ log[Len(log)] = task
  /\ task # NoMessage /\ ~parsed => ~Contains(log, task)

(* No client that registered has died.                                     *)
RegistrantsLive ==
  \A i \in 1 .. Len(sent) : sent[i].kind = "add" => sent[i].from \in alive

(* Who is to hear of a run that is over, has heard of it or soon will.     *)
AudienceTold ==
  RegistrantsLive => \A i \in Ids : Done(i) => \A c \in audience[i] : i \in Told(c)

(* x was run before y.                                                     *)
Before(x, y) == \E j, k \in 1 .. Len(log) : j < k /\ log[j] = x /\ log[k] = y

(* A result under way to the status callbacks of c.                        *)
IsNews(c, k) == k \in 1 .. Len(inbox[c]) /\ inbox[c][k].to = "all"

(* What a client was told and what is on its way to it, in this order.     *)
NewsInOrder ==
  \A c \in Clients :
    /\ \A j \in 1 .. Len(heard[c]) : Done(heard[c][j])
    /\ \A k \in 1 .. Len(inbox[c]) : IsNews(c, k) => Done(inbox[c][k].id)
    /\ \A j, k \in 1 .. Len(heard[c]) : j < k => Before(heard[c][j], heard[c][k])
    /\ \A j \in 1 .. Len(heard[c]), k \in 1 .. Len(inbox[c]) :
         IsNews(c, k) => Before(heard[c][j], inbox[c][k].id)
    /\ \A j, k \in 1 .. Len(inbox[c]) :
         IsNews(c, j) /\ IsNews(c, k) /\ j < k => Before(inbox[c][j].id, inbox[c][k].id)
-----------------------------------------------------------------------------
(* What a subscription is, as the queue changes.                           *)

LEMMA QueuedSent ==
  ASSUME PlacesInv
  PROVE  \A k \in 1 .. Len(queue) : queue[k] \in 1 .. Len(sent)
BY Lengths DEF PlacesInv, QueueSound, Pending, Contains

(* It stays when nobody touches the queue.                                 *)
LEMMA SubscribedSame ==
  ASSUME PlacesInv, UNCHANGED <<queue, subscribers>>,
         \A i \in 1 .. Len(sent) : sent'[i] = sent[i],
         NEW c, NEW n \in 0 .. Len(queue), SubscribedAfter(c, n)
  PROVE  SubscribedAfter(c, n)'
<1>1. PICK j \in 0 .. n : /\ j = 0 => Contains(subscribers, c)
                          /\ j # 0 => IsAdd(c, queue[j])
                          /\ \A k \in 1 .. n : k > j => ~IsRemove(c, queue[k])
  BY DEF SubscribedAfter
<1>2. \A k \in 1 .. n : sent'[queue[k]] = sent[queue[k]]
  BY QueuedSent, Lengths DEF PlacesInv
<1>3. /\ j = 0 => Contains(subscribers', c)
      /\ j # 0 => IsAdd(c, queue[j])'
      /\ \A k \in 1 .. n : k > j => ~IsRemove(c, queue[k])'
  BY <1>1, <1>2 DEF IsAdd, IsRemove
<1>4. QED
  BY <1>3 DEF SubscribedAfter

(* A message at the end of the queue says what happens to it next.         *)
LEMMA SubscribedLonger ==
  ASSUME PlacesInv, UNCHANGED <<sent, subscribers>>,
         NEW i \in Ids, queue' = Append(queue, i), NEW c
  PROVE  /\ \A n \in 0 .. Len(queue) : SubscribedAfter(c, n) => SubscribedAfter(c, n)'
         /\ \/ IsAdd(c, i)
            \/ ~IsRemove(c, i) /\ SubscribedAfter(c, Len(queue))
            => SubscribedAfter(c, Len(queue))'
<1>1. /\ Len(queue') = Len(queue) + 1 /\ Len(queue) \in Nat
      /\ \A k \in 1 .. Len(queue) : queue'[k] = queue[k]
      /\ queue'[Len(queue) + 1] = i
  BY Appended DEF PlacesInv, TypeOK
<1>2. \A n \in 0 .. Len(queue) : SubscribedAfter(c, n) => SubscribedAfter(c, n)'
  <2>1. SUFFICES ASSUME NEW n \in 0 .. Len(queue), SubscribedAfter(c, n)
                 PROVE  SubscribedAfter(c, n)'
    OBVIOUS
  <2>2. \A k \in 1 .. n : queue'[k] = queue[k]
    BY <1>1
  <2> QED
    BY <2>1, <2>2 DEF SubscribedAfter, IsAdd, IsRemove
<1>3. PICK n \in Nat : n = Len(queue')
  BY <1>1
<1>4. ASSUME IsAdd(c, i) PROVE SubscribedAfter(c, n)'
  <2>1. n \in 0 .. n /\ n # 0 /\ IsAdd(c, queue[n])' /\ \A k \in 1 .. n : ~(k > n)
    BY <1>1, <1>3, <1>4 DEF IsAdd
  <2> QED
    BY <2>1 DEF SubscribedAfter
<1>5. ASSUME ~IsRemove(c, i), SubscribedAfter(c, Len(queue))
      PROVE  SubscribedAfter(c, n)'
  <2>1. PICK j \in 0 .. Len(queue) :
          /\ j = 0 => Contains(subscribers, c)
          /\ j # 0 => IsAdd(c, queue[j])
          /\ \A k \in 1 .. Len(queue) : k > j => ~IsRemove(c, queue[k])
    BY <1>5 DEF SubscribedAfter
  <2>2. \A k \in 1 .. n : k > j => ~IsRemove(c, queue[k])'
    BY <1>1, <1>3, <1>5, <2>1 DEF IsRemove
  <2>3. j \in 0 .. n /\ (j # 0 => IsAdd(c, queue[j])') /\ (j = 0 => Contains(subscribers, c)')
    BY <1>1, <1>3, <2>1 DEF IsAdd
  <2> QED
    BY <2>2, <2>3 DEF SubscribedAfter
<1>6. QED
  BY <1>2, <1>3, <1>4, <1>5

(* The first message of the queue comes into force.                        *)
LEMMA SubscribedTaken ==
  ASSUME PlacesInv, NEW i \in Ids, Take(i), sent' = sent, NEW c,
         IsAdd(c, i) \/ (Contains(subscribers, c) /\ ~IsRemove(c, i))
           => Contains(subscribers', c),
         NEW n \in 0 .. Len(queue'), SubscribedAfter(c, n + 1)
  PROVE  SubscribedAfter(c, n)'
<1>1. /\ i = queue[1] /\ Len(queue') = Len(queue) - 1 /\ Len(queue) \in Nat \ {0}
      /\ \A k \in 1 .. Len(queue') : queue'[k] = queue[k + 1]
  BY HeadAndTail DEF Take, PlacesInv, TypeOK
<1>2. PICK j \in 0 .. n + 1 :
        /\ j = 0 => Contains(subscribers, c)
        /\ j # 0 => IsAdd(c, queue[j])
        /\ \A k \in 1 .. n + 1 : k > j => ~IsRemove(c, queue[k])
  BY DEF SubscribedAfter
<1>3. CASE j > 1
  <2>1. j - 1 \in 0 .. n /\ j - 1 # 0 /\ queue'[j - 1] = queue[j]
    <3>1. j - 1 \in 1 .. Len(queue') /\ (j - 1) + 1 = j
      BY <1>1, <1>3
    <3> QED
      BY <1>1, <1>3, <3>1
  <2>2. \A k \in 1 .. n : k > j - 1 => ~IsRemove(c, queue[k])'
    <3>1. \A k \in 1 .. n : k > j - 1 => k + 1 \in 1 .. n + 1 /\ k + 1 > j /\ k \in 1 .. Len(queue')
      BY <1>1
    <3> QED
      BY <1>1, <1>2, <3>1 DEF IsRemove
  <2> QED
    BY <1>2, <1>3, <2>1, <2>2 DEF SubscribedAfter, IsAdd
<1>4. CASE j <= 1
  <2>1. Contains(subscribers', c)
    BY <1>1, <1>2, <1>4
  <2>2. \A k \in 1 .. n : ~IsRemove(c, queue[k])'
    <3>1. \A k \in 1 .. n : k + 1 \in 1 .. n + 1 /\ k + 1 > j /\ k \in 1 .. Len(queue')
      BY <1>1, <1>4
    <3> QED
      BY <1>1, <1>2, <3>1 DEF IsRemove
  <2> QED
    BY <2>1, <2>2 DEF SubscribedAfter
<1>5. QED
  BY <1>3, <1>4

-----------------------------------------------------------------------------
(* What each group of steps touches of all this.                           *)

(* A call leaves the service alone and what was sent before as it is.      *)
LEMMA CallEffect ==
  ASSUME PlacesInv, NEW c \in Clients, ClientCalls(c)
  PROVE  /\ UNCHANGED <<queue, task, parsed, subscribers, inbox, alive, log, heard>>
         /\ Len(sent) \in Nat /\ Len(sent') \in Nat /\ Len(sent) <= Len(sent')
         /\ \A i \in 1 .. Len(sent) : sent'[i] = sent[i] /\ state'[i] = state[i]
         /\ \A i \in Ids : audience'[i] \subseteq audience[i]
<1>0. TypeOK
  BY DEF PlacesInv
<1>1. UNCHANGED <<queue, task, parsed, subscribers, inbox, alive, log, heard>>
  BY DEF ClientCalls, Request, Register, RegisterMore, Unregister, server, history
<1>2. \A i \in Ids : audience'[i] \subseteq audience[i]
  BY <1>0 DEF ClientCalls, Request, Register, RegisterMore, Unregister, history, TypeOK
<1>3. CASE UNCHANGED <<sent, state>>
  BY <1>0, <1>1, <1>2, <1>3, Lengths
<1>4. CASE \E m \in Uses[c] : Compose(c, m)
  <2>1. PICK m \in Uses[c] : Compose(c, m)
    BY <1>4
  <2>2. /\ Len(sent') = Len(sent) + 1 /\ Len(sent) \in Nat
        /\ \A i \in 1 .. Len(sent) : sent'[i] = sent[i]
        /\ state' = [state EXCEPT ![Len(sent) + 1] = "calling"]
    BY <1>0, <2>1, SentGrows, Lengths DEF Compose
  <2>3. \A i \in 1 .. Len(sent) : i \in Ids /\ i # Len(sent) + 1
    BY <1>0, <2>2, Lengths
  <2>4. \A i \in 1 .. Len(sent) : state'[i] = state[i]
    BY <1>0, <2>2, <2>3 DEF TypeOK
  <2> QED
    BY <1>1, <1>2, <2>2, <2>4
<1>5. QED
  BY <1>3, <1>4 DEF ClientCalls, Request, Register, RegisterMore, Unregister, history

(* A call that ends is refused, or puts its message, which nobody else     *)
(* knows, at the end of the queue.                                         *)
Ends(c, i) ==
  /\ pc[c] = "invoke" /\ current[c] = i
  /\ i \in 1 .. Len(sent) /\ i \in Ids
  /\ sent[i].from = c /\ state[i] = "calling"
  /\ ~Contains(queue, i) /\ task # i
  /\ \A x \in Ids \ {i} : state'[x] = state[x]
  /\ UNCHANGED watch
  /\ \/ Return(c, FALSE) /\ UNCHANGED <<queue, audience>>
     \/ /\ Return(c, TRUE) /\ queue' = Append(queue, i) /\ state'[i] = "accepted"
        /\ audience' = [audience EXCEPT ![i] = {d \in alive : Watches(d, sent[i].about)}]

LEMMA ContinueEffect ==
  ASSUME PlacesInv, NEW c \in Clients, ClientContinues(c)
  PROVE  /\ UNCHANGED <<sent, inbox, task, parsed, subscribers, alive, log, heard>>
         /\ \/ Registered(c) /\ UNCHANGED <<queue, state, audience, sent>>
            \/ \E i \in Ids : Ends(c, i)
<1>0. TypeOK
  BY DEF PlacesInv
<1>1. UNCHANGED <<sent, inbox, task, parsed, subscribers, alive, log, heard>>
  BY DEF ClientContinues, Accept, AcceptWithoutName, Refuse, Registered, server, history
<1>2. CASE Registered(c)
  BY <1>1, <1>2 DEF Registered, server, history
<1>3. CASE Accept(c) \/ AcceptWithoutName(c) \/ Refuse(c)
  <2>1. pc[c] = "invoke" /\ UNCHANGED watch
    BY <1>3 DEF Accept, AcceptWithoutName, Refuse
  <2>2. PICK i \in Ids : /\ i = current[c] /\ i \in 1 .. Len(sent)
                         /\ sent[i].from = c /\ state[i] = "calling"
    BY <1>0, <2>1, Lengths DEF PlacesInv, CallsSend
  <2>3. ~Contains(queue, i) /\ task # i
    BY <2>2 DEF PlacesInv, QueueSound, Pending
  <2>4. CASE Refuse(c)
    BY <1>0, <2>1, <2>2, <2>3, <2>4 DEF Refuse, Ends, TypeOK
  <2>5. CASE Accept(c) \/ AcceptWithoutName(c)
    BY <1>0, <2>1, <2>2, <2>3, <2>5 DEF Accept, AcceptWithoutName, Enqueue, Ends, TypeOK
  <2> QED
    BY <1>3, <2>4, <2>5
<1>4. QED
  BY <1>1, <1>2, <1>3 DEF ClientContinues

(* A delivery takes the first notice of a client, and notes what it says.  *)
LEMMA DeliverEffect ==
  ASSUME PlacesInv, NEW c \in Clients, Deliver(c)
  PROVE  /\ UNCHANGED <<sent, queue, task, parsed, subscribers, alive, log, audience>>
         /\ UNCHANGED <<pc, current, listener, watch>>
         /\ \A i \in Ids : state'[i] = state[i] \/ (state[i] = "accepted" /\ state'[i] = "answered")
<1>0. TypeOK
  BY DEF PlacesInv
<1>1. /\ UNCHANGED <<sent, queue, task, parsed, subscribers, alive, log, audience>>
      /\ UNCHANGED <<pc, current, listener, watch>>
  BY DEF Deliver, SelfCallback, StateCallback, server, caller
<1>2. CASE StateCallback(c)
  BY <1>1, <1>2 DEF StateCallback
<1>3. CASE SelfCallback(c)
  <2>1. /\ inbox[c] # <<>> /\ Head(inbox[c]).to = "self"
        /\ state' = [state EXCEPT ![Head(inbox[c]).id] = "answered"]
    BY <1>3 DEF SelfCallback, Receive
  <2>2. inbox[c] \in Seq(Notices)
    BY <1>0 DEF TypeOK, Notices
  <2>3. Head(inbox[c]) = inbox[c][1] /\ 1 \in 1 .. Len(inbox[c])
    BY <2>1, <2>2, HeadAndTail
  <2>4. state[Head(inbox[c]).id] = "accepted"
    BY <2>1, <2>3 DEF PlacesInv, ResultsSound, IsResult
  <2> QED
    BY <1>0, <1>1, <2>1, <2>4 DEF TypeOK
<1>4. QED
  BY <1>2, <1>3 DEF Deliver

(* The service takes a message: it changes the subscribers, or drops it, or*)
(* lets the installer run, if the hap can be read.                         *)
Takes(i) ==
  /\ i \in 1 .. Len(sent) /\ Take(i)
  /\ ~Contains(log, i) /\ Contains(queue, i) /\ ~Contains(queue', i)
  /\ \A x \in Ids : Contains(queue', x) => Contains(queue, x)
  /\ \A x \in Ids \ {i} : state'[x] = state[x]
  /\ UNCHANGED <<pc, current, listener, watch, inbox, sent, audience, heard, alive>>
  /\ \/ /\ ~IsRequest(sent[i]) /\ UNCHANGED <<task, parsed, log>>
        /\ subscribers' = IF sent[i].kind = "add" THEN WithSubscriber(sent[i].from)
                          ELSE WithoutSubscriber(sent[i].from)
     \/ /\ IsRequest(sent[i])
        /\ UNCHANGED <<task, parsed, log, subscribers>>
     \/ /\ IsRequest(sent[i]) /\ UNCHANGED <<state, subscribers>> /\ task' = i
        /\ \/ parsed' = TRUE /\ log' = Append(log, i)
           \/ parsed' = FALSE /\ log' = log

LEMMA ServiceEffect ==
  ASSUME PlacesInv, LogSound, ServiceTask
  PROVE  Answer \/ \E i \in Ids : Takes(i)
<1>0. TypeOK
  BY DEF PlacesInv
<1>1. ASSUME NEW i \in Ids, Take(i)
      PROVE  /\ i \in 1 .. Len(sent) /\ Contains(queue, i) /\ ~Contains(queue', i)
             /\ ~Contains(log, i) /\ \A x \in Ids : Contains(queue', x) => Contains(queue, x)
  <2>1. /\ Contains(queue, i) /\ ~Contains(queue', i)
        /\ \A x \in Ids : Contains(queue', x) => Contains(queue, x)
    BY <1>0, <1>1, Taken DEF PlacesInv
  <2>2. i \in 1 .. Len(sent)
    BY <2>1 DEF PlacesInv, QueueSound, Pending
  <2>3. ~Contains(log, i)
    BY <2>1 DEF LogSound, Contains
  <2> QED
    BY <2>1, <2>2, <2>3
<1>2. CASE ChangeCallback
  <2>1. PICK i \in Ids :
          /\ Take(i) /\ ~IsRequest(sent[i])
          /\ subscribers' = IF sent[i].kind = "add" THEN WithSubscriber(sent[i].from)
                            ELSE WithoutSubscriber(sent[i].from)
          /\ UNCHANGED <<task, parsed, alive, caller, inbox, history>>
    BY <1>2 DEF ChangeCallback
  <2> QED
    BY <1>1, <2>1 DEF Takes, caller, history
<1>3. CASE DropNameless
  <2>1. PICK i \in Ids :
          /\ Take(i) /\ IsRequest(sent[i])
          /\ state' = [state EXCEPT ![i] = "dropped"]
          /\ UNCHANGED <<task, parsed, subscribers, alive, caller, inbox, sent, log,
                         audience, heard>>
    BY <1>3 DEF DropNameless
  <2> QED
    BY <1>0, <1>1, <2>1 DEF Takes, caller, TypeOK
<1>4. CASE Execute
  <2>1. PICK i \in 1 .. Len(sent) : \E r \in BOOLEAN :
          /\ Take(i) /\ IsRequest(sent[i]) /\ task' = i /\ parsed' = r
          /\ log' = IF r THEN Append(log, i) ELSE log
          /\ UNCHANGED <<subscribers, alive, caller, inbox, sent, state, audience, heard>>
    BY <1>4 DEF Execute, Readable
  <2>2. i \in Ids
    BY <1>0, Lengths
  <2> QED
    BY <1>1, <2>1, <2>2 DEF Takes, caller
<1>5. QED
  BY <1>2, <1>3, <1>4 DEF ServiceTask

-----------------------------------------------------------------------------
(* Who watches has subscribed.                                             *)

LEMMA WatchingSomething ==
  /\ \A c \in Clients : \A x : Watches(c, x) => Watching(c)
  /\ \A w, x : x \in Bundles \cup {All} /\ w \in [all : BOOLEAN, names : SUBSET Bundles]
       => WithWatch(w, x) # Nothing
<1>1. \A c \in Clients : \A x : Watches(c, x) => Watching(c)
  BY DEF Watches, Watching, Nothing
<1>2. ASSUME NEW w \in [all : BOOLEAN, names : SUBSET Bundles], NEW x \in Bundles \cup {All}
      PROVE  WithWatch(w, x) # Nothing
  <2>1. CASE x = All \/ w.all
    BY <2>1 DEF WithWatch, Nothing
  <2>2. CASE x # All /\ ~w.all
    <3>1. WithWatch(w, x).names = w.names \cup {x}
      BY <2>2 DEF WithWatch
    <3> QED
      BY <3>1 DEF Nothing
  <2> QED
    BY <2>1, <2>2
<1>3. QED
  BY <1>1, <1>2

(* Another callback takes nothing away.                                    *)
LEMMA WatchGrows ==
  ASSUME NEW w \in [all : BOOLEAN, names : SUBSET Bundles], NEW x, NEW y,
         w.all \/ y \in w.names
  PROVE  WithWatch(w, x).all \/ y \in WithWatch(w, x).names
<1>1. CASE x = All
  BY <1>1 DEF WithWatch
<1>2. CASE x # All /\ w.all
  BY <1>2 DEF WithWatch
<1>3. CASE x # All /\ ~w.all
  <2>1. WithWatch(w, x) = [w EXCEPT !.names = w.names \cup {x}]
    BY <1>3 DEF WithWatch
  <2>2. WithWatch(w, x).names = w.names \cup {x}
    BY <2>1
  <2> QED
    BY <1>3, <2>2
<1>4. QED
  BY <1>1, <1>2, <1>3

(* Those whose thread and callbacks stay as they are.                      *)
LEMMA OthersWatch ==
  ASSUME PlacesInv, WatchersSubscribe, NEW d \in Clients,
         pc'[d] = pc[d], current'[d] = current[d], listener'[d] = listener[d],
         watch'[d] = watch[d],
         \A i \in 1 .. Len(sent) : sent'[i] = sent[i],
         SubscribedAfter(d, Len(queue)) => SubscribedAfter(d, Len(queue))'
  PROVE  /\ Watching(d)' => SubscribedAfter(d, Len(queue))'
         /\ (pc[d] = "invoke" /\ sent[current[d]].kind = "remove" => watch[d] = Nothing)'
         /\ (listener[d] => Watching(d) \/ (pc[d] = "invoke" /\ ~IsRequest(sent[current[d]])))'
<1>1. pc[d] = "invoke" => sent'[current[d]] = sent[current[d]]
  BY DEF PlacesInv, CallsSend
<1>2. QED
  BY <1>1 DEF WatchersSubscribe, Watching, IsRequest

LEMMA WatchersCall ==
  ASSUME PlacesInv, WatchersSubscribe, NEW c \in Clients, ClientCalls(c)
  PROVE  WatchersSubscribe'
<1>0. TypeOK /\ Len(queue) \in Nat
  BY Lengths DEF PlacesInv
<1>1. UNCHANGED <<queue, subscribers>> /\ \A i \in 1 .. Len(sent) : sent'[i] = sent[i]
  BY CallEffect
<1>2. \A d \in Clients : SubscribedAfter(d, Len(queue)) => SubscribedAfter(d, Len(queue))'
  <2>1. PICK n \in 0 .. Len(queue) : n = Len(queue)
    BY <1>0
  <2>2. \A d \in Clients : SubscribedAfter(d, n) => SubscribedAfter(d, n)'
    BY <1>1, SubscribedSame
  <2> QED
    BY <1>1, <2>1, <2>2
<1>3. SUFFICES ASSUME NEW d \in Clients
      PROVE  /\ Watching(d)' => SubscribedAfter(d, Len(queue))'
             /\ (pc[d] = "invoke" /\ sent[current[d]].kind = "remove" => watch[d] = Nothing)'
             /\ (listener[d] => Watching(d) \/ (pc[d] = "invoke" /\ ~IsRequest(sent[current[d]])))'
  BY DEF WatchersSubscribe
<1>4. PICK m \in Uses[c] : Request(c, m) \/ Register(c, m) \/ RegisterMore(c, m) \/ Unregister(c, m)
  BY DEF ClientCalls
<1>5. CASE d # c
  <2>1. /\ pc'[d] = pc[d] /\ current'[d] = current[d]
        /\ listener'[d] = listener[d] /\ watch'[d] = watch[d]
    BY <1>0, <1>4, <1>5 DEF Request, Register, RegisterMore, Unregister, Compose, TypeOK
  <2> QED
    BY <1>1, <1>2, <2>1, OthersWatch
<1>6. CASE d = c /\ RegisterMore(c, m)
  <2>1. m.about \in Bundles \cup {All} /\ watch[c] \in [all : BOOLEAN, names : SUBSET Bundles]
    BY <1>0, Constants DEF Messages, TypeOK
  <2>2. watch'[c] # Nothing
    BY <1>0, <1>6, <2>1, WatchingSomething DEF RegisterMore, TypeOK
  <2>3. pc'[c] = "idle" /\ listener[c] /\ pc[c] = "idle"
    BY <1>6 DEF RegisterMore, Idle
  <2>4. SubscribedAfter(c, Len(queue))
    BY <2>3 DEF WatchersSubscribe
  <2> QED
    BY <1>2, <1>6, <2>2, <2>3, <2>4 DEF Watching
<1>7. CASE d = c /\ ~RegisterMore(c, m)
  <2>1. Compose(c, m) /\ pc[c] = "idle"
    BY <1>4, <1>7 DEF Request, Register, Unregister, Idle
  <2>2. pc'[c] = "invoke" /\ sent'[current'[c]] = m
    BY <1>0, <2>1, SentGrows DEF Compose, TypeOK
  <2>3. CASE Request(c, m)
    <3>1. UNCHANGED <<listener, watch>> /\ IsRequest(m)
      BY <2>3 DEF Request
    <3> QED
      BY <1>2, <1>7, <2>1, <2>2, <3>1 DEF WatchersSubscribe, Watching, IsRequest
  <2>4. CASE Register(c, m)
    <3>1. UNCHANGED watch /\ m.kind = "add"
      BY <2>4 DEF Register
    <3> QED
      BY <1>2, <1>7, <2>1, <2>2, <3>1 DEF WatchersSubscribe, Watching, IsRequest
  <2>5. CASE Unregister(c, m)
    <3>1. watch'[c] = Nothing /\ m.kind = "remove"
      BY <1>0, <2>5 DEF Unregister, TypeOK
    <3> QED
      BY <1>7, <2>2, <3>1 DEF Watching, IsRequest
  <2> QED
    BY <1>4, <1>7, <2>3, <2>4, <2>5
<1>8. QED
  BY <1>5, <1>6, <1>7

LEMMA WatchersContinue ==
  ASSUME PlacesInv, WatchersSubscribe, NEW c \in Clients, ClientContinues(c)
  PROVE  WatchersSubscribe'
<1>0. TypeOK /\ Len(queue) \in Nat
  BY Lengths DEF PlacesInv
<1>1. UNCHANGED <<sent, subscribers>>
  BY ContinueEffect
<1>2. PICK n \in 0 .. Len(queue) : n = Len(queue)
  BY <1>0
<1>3. SUFFICES ASSUME NEW d \in Clients
      PROVE  /\ Watching(d)' => SubscribedAfter(d, Len(queue))'
             /\ (pc[d] = "invoke" /\ sent[current[d]].kind = "remove" => watch[d] = Nothing)'
             /\ (listener[d] => Watching(d) \/ (pc[d] = "invoke" /\ ~IsRequest(sent[current[d]])))'
  BY DEF WatchersSubscribe
<1>4. CASE UNCHANGED queue
  <2>1. SubscribedAfter(d, Len(queue)) => SubscribedAfter(d, Len(queue))'
    <3>1. SubscribedAfter(d, n) => SubscribedAfter(d, n)'
      BY <1>1, <1>4, SubscribedSame
    <3> QED
      BY <1>2, <1>4, <3>1
  <2>2. CASE d # c
    <3>1. /\ pc'[d] = pc[d] /\ current'[d] = current[d]
          /\ listener'[d] = listener[d] /\ watch'[d] = watch[d]
      <4>1. CASE Registered(c)
        BY <1>0, <2>2, <4>1 DEF Registered, TypeOK
      <4>2. CASE \E i \in Ids : Ends(c, i)
        <5>1. \E b \in BOOLEAN : Return(c, b) /\ UNCHANGED watch
          BY <4>2 DEF Ends
        <5> QED
          BY <1>0, <2>2, <5>1 DEF Return, TypeOK
      <4> QED
        BY <4>1, <4>2, ContinueEffect
    <3> QED
      BY <1>1, <2>1, <3>1, OthersWatch
  <2>3. CASE d = c /\ Registered(c)
    <3>1. pc[c] = "store" /\ pc'[c] = "idle" /\ sent[current[c]] \in Messages
      BY <1>0, <2>3, ElementOfSeq DEF Registered, PlacesInv, CallsSend, TypeOK
    <3>2. watch'[c] # Nothing
      BY <1>0, <2>3, <3>1, WatchingSomething DEF Registered, TypeOK, Messages
    <3> QED
      BY <2>1, <2>3, <3>1, <3>2 DEF WatchersSubscribe, Watching
  <2>4. CASE d = c /\ ~Registered(c)
    <3>1. PICK i \in Ids : Ends(c, i)
      BY <2>4, ContinueEffect
    <3>2. Return(c, FALSE)
      <4>1. queue' # Append(queue, i)
        BY <1>0, <1>4, Appended DEF TypeOK
      <4> QED
        BY <3>1, <4>1 DEF Ends
    <3>3. pc[c] = "invoke" /\ pc'[c] = "idle" /\ watch' = watch
      BY <1>0, <3>1, <3>2 DEF Ends, Return, TypeOK
    <3>4. listener'[c] => IsRequest(sent[current[c]]) /\ listener[c]
      BY <1>0, <3>2 DEF Return, TypeOK
    <3> QED
      BY <2>1, <2>4, <3>3, <3>4 DEF WatchersSubscribe, Watching
  <2> QED
    BY <2>2, <2>3, <2>4
<1>5. CASE ~UNCHANGED queue
  <2>1. PICK i \in Ids : Ends(c, i)
    BY <1>5, ContinueEffect
  <2>2. /\ pc[c] = "invoke" /\ current[c] = i /\ sent[i].from = c /\ UNCHANGED watch
        /\ i \in 1 .. Len(sent) /\ Return(c, TRUE) /\ queue' = Append(queue, i)
    BY <1>5, <2>1 DEF Ends
  <2>3. IsAdd(d, i) \/ (~IsRemove(d, i) /\ SubscribedAfter(d, Len(queue)))
          => SubscribedAfter(d, Len(queue))'
    BY <1>1, <2>2, SubscribedLonger
  <2>4. CASE d # c
    <3>1. /\ pc'[d] = pc[d] /\ current'[d] = current[d]
          /\ listener'[d] = listener[d] /\ watch'[d] = watch[d]
      BY <1>0, <2>2, <2>4 DEF Return, TypeOK
    <3>2. ~IsRemove(d, i)
      BY <2>2, <2>4 DEF IsRemove
    <3> QED
      BY <1>1, <2>3, <3>1, <3>2, OthersWatch
  <2>5. CASE d = c
    <3>1. /\ pc'[c] = IF sent[i].kind = "add" THEN "store" ELSE "idle"
          /\ listener'[c] = IF IsRequest(sent[i]) THEN listener[c] ELSE sent[i].kind = "add"
      BY <1>0, <2>2 DEF Return, TypeOK
    <3>2. sent[i].kind \in Kinds
      BY <1>0, <2>2, Lengths DEF Messages
    <3>3. CASE sent[i].kind = "add"
      BY <2>2, <2>3, <2>5, <3>1, <3>3 DEF IsAdd, Watching
    <3>4. CASE sent[i].kind = "remove"
      <4>1. watch'[c] = Nothing /\ pc'[c] = "idle" /\ ~listener'[c]
        BY <2>2, <3>1, <3>4 DEF WatchersSubscribe, IsRequest
      <4> QED
        BY <2>5, <4>1 DEF Watching
    <3>5. CASE IsRequest(sent[i])
      <4>1. pc'[c] = "idle" /\ listener'[c] = listener[c] /\ ~IsRemove(c, i)
        BY <3>1, <3>5 DEF IsRequest, IsRemove
      <4> QED
        BY <2>2, <2>3, <2>5, <3>5, <4>1 DEF WatchersSubscribe, Watching
    <3> QED
      BY <3>2, <3>3, <3>4, <3>5 DEF Kinds, IsRequest
  <2> QED
    BY <2>4, <2>5
<1>6. QED
  BY <1>4, <1>5

LEMMA WatchersDie ==
  ASSUME PlacesInv, WatchersSubscribe, NEW c \in Clients, Die(c)
  PROVE  WatchersSubscribe'
<1>0. TypeOK /\ Len(queue) \in Nat
  BY Lengths DEF PlacesInv
<1>1. /\ UNCHANGED <<queue, subscribers, sent>>
      /\ \A d \in Clients \ {c} : /\ pc'[d] = pc[d] /\ current'[d] = current[d]
                                  /\ listener'[d] = listener[d] /\ watch'[d] = watch[d]
      /\ pc'[c] = "idle" /\ ~listener'[c] /\ watch'[c] = Nothing
  BY <1>0 DEF Die, server, TypeOK
<1>2. PICK n \in 0 .. Len(queue) : n = Len(queue)
  BY <1>0
<1>3. \A d \in Clients : SubscribedAfter(d, n) => SubscribedAfter(d, n)'
  BY <1>1, SubscribedSame
<1>4. \A d \in Clients \ {c} :
        /\ Watching(d)' => SubscribedAfter(d, Len(queue))'
        /\ (pc[d] = "invoke" /\ sent[current[d]].kind = "remove" => watch[d] = Nothing)'
        /\ (listener[d] => Watching(d) \/ (pc[d] = "invoke" /\ ~IsRequest(sent[current[d]])))'
  BY <1>1, <1>2, <1>3, OthersWatch
<1>5. ~Watching(c)'
  BY <1>1 DEF Watching
<1>6. QED
  BY <1>1, <1>4, <1>5 DEF WatchersSubscribe

-----------------------------------------------------------------------------
(* Who is to hear of a request has subscribed when it is run.              *)

(* Nobody is added to an audience, and those in one stay alive and watch.  *)
LEMMA AudienceKept ==
  ASSUME PlacesInv, AudienceSubscribes,
         UNCHANGED <<queue, subscribers, task>>,
         Len(sent) <= Len(sent'), Len(sent') \in Nat,
         \A i \in 1 .. Len(sent) : sent'[i] = sent[i],
         \A i \in Ids : audience'[i] \subseteq audience[i],
         \A i \in Ids : \A d \in audience'[i] :
           d \in alive' /\ \A x : Watches(d, x) => Watches(d, x)'
  PROVE  AudienceSubscribes'
<1>0. TypeOK /\ Len(queue) \in Nat /\ Len(sent) \in Nat
  BY Lengths DEF PlacesInv
<1>1. \A i \in Ids : \A d \in audience'[i] :
        d \in alive' /\ i \in 1 .. Len(sent') /\ Watches(d, sent[i].about)'
  BY <1>0 DEF AudienceSubscribes
<1>2. ASSUME NEW p \in 1 .. Len(queue), IsRequest(sent[queue[p]])', NEW d \in audience'[queue[p]]
      PROVE  SubscribedAfter(d, p)'
  <2>1. queue[p] \in Ids /\ sent'[queue[p]] = sent[queue[p]] /\ queue' = queue
    BY <1>0, QueuedSent, Lengths
  <2>2. SubscribedAfter(d, p)
    BY <1>2, <2>1 DEF AudienceSubscribes, IsRequest
  <2> QED
    BY <1>0, <2>2, SubscribedSame
<1>3. task' # NoMessage => \A d \in audience'[task'] : Contains(subscribers', d)
  BY <1>0 DEF AudienceSubscribes, TypeOK
<1>4. QED
  BY <1>1, <1>2, <1>3 DEF AudienceSubscribes

LEMMA AudienceCall ==
  ASSUME PlacesInv, AudienceSubscribes, NEW c \in Clients, ClientCalls(c)
  PROVE  AudienceSubscribes'
<1>0. TypeOK
  BY DEF PlacesInv
<1>1. /\ UNCHANGED <<queue, subscribers, task, alive>>
      /\ Len(sent) <= Len(sent') /\ Len(sent') \in Nat
      /\ \A i \in 1 .. Len(sent) : sent'[i] = sent[i]
      /\ \A i \in Ids : audience'[i] \subseteq audience[i]
  BY CallEffect
<1>2. PICK m \in Uses[c] : Request(c, m) \/ Register(c, m) \/ RegisterMore(c, m) \/ Unregister(c, m)
  BY DEF ClientCalls
<1>3. \A i \in Ids : \A d \in audience'[i] : \A x : Watches(d, x) => Watches(d, x)'
  <2>1. SUFFICES ASSUME NEW i \in Ids, NEW d \in audience'[i], NEW x, Watches(d, x)
                 PROVE  Watches(d, x)'
    OBVIOUS
  <2>2. d \in Clients
    BY <1>0, <1>1 DEF TypeOK
  <2>3. CASE UNCHANGED watch
    BY <2>1, <2>3 DEF Watches
  <2>4. CASE RegisterMore(c, m)
    <3>1. watch' = [watch EXCEPT ![c] = WithWatch(@, m.about)]
      BY <2>4 DEF RegisterMore
    <3>2. watch'[d] = watch[d] \/ watch'[d] = WithWatch(watch[d], m.about)
      BY <1>0, <2>2, <3>1 DEF TypeOK
    <3>3. watch[d] \in [all : BOOLEAN, names : SUBSET Bundles]
      BY <1>0, <2>2 DEF TypeOK
    <3> QED
      BY <2>1, <3>2, <3>3, WatchGrows DEF Watches
  <2>5. CASE Unregister(c, m)
    <3>1. d # c
      BY <2>1, <2>5 DEF Unregister
    <3>2. watch'[d] = watch[d]
      BY <1>0, <2>2, <2>5, <3>1 DEF Unregister, TypeOK
    <3> QED
      BY <2>1, <3>2 DEF Watches
  <2> QED
    BY <1>2, <2>3, <2>4, <2>5 DEF Request, Register
<1>4. \A i \in Ids : \A d \in audience'[i] : d \in alive'
  BY <1>1 DEF AudienceSubscribes
<1>5. QED
  BY <1>1, <1>3, <1>4, AudienceKept

LEMMA AudienceContinue ==
  ASSUME PlacesInv, WatchersSubscribe, AudienceSubscribes, NEW c \in Clients, ClientContinues(c)
  PROVE  AudienceSubscribes'
<1>0. TypeOK /\ Len(queue) \in Nat /\ Len(sent) \in Nat
  BY Lengths DEF PlacesInv
<1>1. UNCHANGED <<sent, inbox, task, parsed, subscribers, alive, log, heard>>
  BY ContinueEffect
<1>2. CASE Registered(c) /\ UNCHANGED <<queue, audience>>
  <2>1. \A d \in Clients : \A x : Watches(d, x) => Watches(d, x)'
    <3>1. SUFFICES ASSUME NEW d \in Clients, NEW x, Watches(d, x)
                   PROVE  Watches(d, x)'
      OBVIOUS
    <3>2. watch'[d] = watch[d] \/ watch'[d] = WithWatch(watch[d], sent[current[c]].about)
      BY <1>0, <1>2 DEF Registered, TypeOK
    <3>3. watch[d] \in [all : BOOLEAN, names : SUBSET Bundles]
      BY <1>0 DEF TypeOK
    <3> QED
      BY <3>1, <3>2, <3>3, WatchGrows DEF Watches
  <2>2. \A i \in Ids : \A d \in audience'[i] :
          d \in alive' /\ \A x : Watches(d, x) => Watches(d, x)'
    BY <1>0, <1>1, <1>2, <2>1 DEF AudienceSubscribes, TypeOK
  <2> QED
    BY <1>0, <1>1, <1>2, <2>2, AudienceKept
<1>3. CASE \E i \in Ids : Ends(c, i) /\ UNCHANGED <<queue, audience>>
  <2>1. UNCHANGED watch
    BY <1>3 DEF Ends
  <2>2. \A i \in Ids : \A d \in audience'[i] :
          d \in alive' /\ \A x : Watches(d, x) => Watches(d, x)'
    BY <1>1, <1>3, <2>1 DEF AudienceSubscribes, Watches
  <2> QED
    BY <1>0, <1>1, <1>3, <2>2, AudienceKept
<1>4. ASSUME NEW i \in Ids, Ends(c, i), queue' = Append(queue, i),
             audience' = [audience EXCEPT ![i] = {d \in alive : Watches(d, sent[i].about)}]
      PROVE  AudienceSubscribes'
  <2>1. /\ i \in 1 .. Len(sent) /\ ~Contains(queue, i) /\ task # i /\ UNCHANGED watch
    BY <1>4 DEF Ends
  <2>2. /\ Len(queue') = Len(queue) + 1
        /\ \A k \in 1 .. Len(queue) : queue'[k] = queue[k] /\ queue[k] \in Ids
        /\ queue'[Len(queue) + 1] = i
    BY <1>0, <1>4, Appended, Lengths DEF TypeOK
  <2>3. /\ audience'[i] = {d \in alive : Watches(d, sent[i].about)}
        /\ \A x \in Ids \ {i} : audience'[x] = audience[x]
    BY <1>0, <1>4 DEF TypeOK
  <2>4. \A x \in Ids : \A d \in audience'[x] :
          d \in alive' /\ x \in 1 .. Len(sent') /\ Watches(d, sent[x].about)'
    BY <1>1, <2>1, <2>3 DEF AudienceSubscribes, Watches
  <2>5. ASSUME NEW p \in 1 .. Len(queue'), IsRequest(sent[queue[p]])',
               NEW d \in audience'[queue'[p]]
        PROVE  SubscribedAfter(d, p)'
    <3>1. CASE p \in 1 .. Len(queue)
      <4>1. queue[p] \in Ids \ {i} /\ queue'[p] = queue[p]
        BY <2>1, <2>2, <3>1 DEF Contains
      <4>2. SubscribedAfter(d, p)
        BY <1>1, <2>3, <2>5, <3>1, <4>1 DEF AudienceSubscribes, IsRequest
      <4>3. p \in 0 .. Len(queue)
        BY <3>1
      <4> QED
        BY <1>1, <1>4, <4>2, <4>3, SubscribedLonger
    <3>2. CASE p \notin 1 .. Len(queue)
      <4>1. p = Len(queue') /\ queue'[p] = i
        BY <1>0, <2>2, <3>2
      <4>2. IsRequest(sent[i]) /\ d \in Clients /\ Watches(d, sent[i].about)
        BY <1>0, <1>1, <2>3, <2>5, <4>1 DEF IsRequest, TypeOK
      <4>3. SubscribedAfter(d, Len(queue)) /\ ~IsRemove(d, i)
        BY <4>2, WatchingSomething DEF WatchersSubscribe, IsRequest, IsRemove
      <4>4. SubscribedAfter(d, Len(queue))'
        BY <1>1, <1>4, <4>3, SubscribedLonger
      <4> QED
        BY <4>1, <4>4
    <3> QED
      BY <3>1, <3>2
  <2>6. task' # NoMessage => \A d \in audience'[task'] : Contains(subscribers', d)
    BY <1>0, <1>1, <2>1, <2>3 DEF AudienceSubscribes, TypeOK
  <2> QED
    BY <2>4, <2>5, <2>6 DEF AudienceSubscribes
<1>5. CASE \E i \in Ids : Ends(c, i)
  <2>1. PICK i \in Ids : Ends(c, i)
    BY <1>5
  <2>2. \/ UNCHANGED <<queue, audience>>
        \/ /\ queue' = Append(queue, i)
           /\ audience' = [audience EXCEPT ![i] = {d \in alive : Watches(d, sent[i].about)}]
    BY <2>1 DEF Ends
  <2> QED
    BY <1>3, <1>4, <2>1, <2>2
<1>6. QED
  BY <1>2, <1>5, ContinueEffect

LEMMA AudienceDie ==
  ASSUME PlacesInv, AudienceSubscribes, NEW c \in Clients, Die(c)
  PROVE  AudienceSubscribes'
<1>0. TypeOK /\ Len(sent) \in Nat
  BY Lengths DEF PlacesInv
<1>1. /\ UNCHANGED <<queue, subscribers, task, sent>>
      /\ alive' = alive \ {c} /\ audience' = [i \in Ids |-> audience[i] \ {c}]
      /\ watch' = [watch EXCEPT ![c] = Nothing]
  BY DEF Die, server
<1>2. \A i \in Ids : \A d \in audience'[i] : d \in audience[i] /\ d # c /\ d \in Clients
  BY <1>0, <1>1 DEF TypeOK
<1>3. \A d \in Clients \ {c} : watch'[d] = watch[d]
  BY <1>0, <1>1 DEF TypeOK
<1>4. \A i \in Ids : \A d \in audience'[i] :
        d \in alive' /\ \A x : Watches(d, x) => Watches(d, x)'
  BY <1>1, <1>2, <1>3 DEF AudienceSubscribes, Watches
<1>5. QED
  BY <1>0, <1>1, <1>2, <1>4, AudienceKept

(* AddCallbackServiceId and RemoveCallbackServiceId.                       *)
LEMMA SubscriberAdded ==
  ASSUME TypeOK, NEW d \in Clients
  PROVE  LET s == WithSubscriber(d) IN
         /\ Contains(s, d)
         /\ \A x : Contains(subscribers, x) => Contains(s, x)
         /\ \A k \in 1 .. Len(s) : s[k] = d \/ Contains(subscribers, s[k])
         /\ (\A j, k \in 1 .. Len(subscribers) : subscribers[j] = subscribers[k] => j = k)
              => \A j, k \in 1 .. Len(s) : s[j] = s[k] => j = k
<1>1. CASE Contains(subscribers, d)
  BY <1>1 DEF WithSubscriber, Contains
<1>2. CASE ~Contains(subscribers, d)
  <2> DEFINE s == Append(subscribers, d)
  <2>1. /\ WithSubscriber(d) = s
        /\ Len(s) = Len(subscribers) + 1 /\ Len(subscribers) \in Nat
        /\ \A k \in 1 .. Len(subscribers) : s[k] = subscribers[k]
        /\ s[Len(subscribers) + 1] = d
    BY <1>2, Appended DEF WithSubscriber, TypeOK
  <2> HIDE DEF s
  <2> QED
    BY <1>2, <2>1 DEF Contains
<1>3. QED
  BY <1>1, <1>2

LEMMA SubscriberRemoved ==
  ASSUME TypeOK, NEW d \in Clients
  PROVE  LET s == WithoutSubscriber(d) IN
         /\ \A x : x # d /\ Contains(subscribers, x) => Contains(s, x)
         /\ \A k \in 1 .. Len(s) : Contains(subscribers, s[k])
         /\ (\A j, k \in 1 .. Len(subscribers) : subscribers[j] = subscribers[k] => j = k)
              => \A j, k \in 1 .. Len(s) : s[j] = s[k] => j = k
<1>1. CASE ~Contains(subscribers, d)
  BY <1>1 DEF WithoutSubscriber, Contains
<1>2. CASE Contains(subscribers, d)
  <2>1. PICK i \in 1 .. Len(subscribers) :
          /\ subscribers[i] = d /\ WithoutSubscriber(d) = RemoveAt(subscribers, i)
    BY <1>2, RemoveFirstIndex DEF WithoutSubscriber, Contains, TypeOK
  <2> DEFINE s == RemoveAt(subscribers, i)
  <2>2. /\ Len(s) = Len(subscribers) - 1 /\ Len(subscribers) \in Nat
        /\ \A j \in 1 .. Len(subscribers) - 1 :
             s[j] = IF j < i THEN subscribers[j] ELSE subscribers[j + 1]
    BY RemoveAtItems DEF TypeOK
  <2> HIDE DEF s
  <2>3. \A k \in 1 .. Len(s) : Contains(subscribers, s[k])
    <3>1. ASSUME NEW k \in 1 .. Len(s)
          PROVE  \E j \in 1 .. Len(subscribers) : s[k] = subscribers[j]
      <4>1. /\ k \in 1 .. Len(subscribers) - 1
            /\ k \in 1 .. Len(subscribers) /\ k + 1 \in 1 .. Len(subscribers)
        BY <2>2
      <4> QED
        BY <2>2, <4>1
    <3> QED
      BY <3>1 DEF Contains
  <2>4. ASSUME NEW x, x # d, Contains(subscribers, x)
        PROVE  Contains(s, x)
    <3>1. PICK j \in 1 .. Len(subscribers) : subscribers[j] = x
      BY <2>4 DEF Contains
    <3>2. CASE j < i
      <4>1. j \in 1 .. Len(s) /\ s[j] = x
        BY <2>2, <3>1, <3>2
      <4> QED
        BY <4>1 DEF Contains
    <3>3. CASE j > i
      <4>1. j - 1 \in 1 .. Len(s) /\ ~(j - 1 < i) /\ (j - 1) + 1 = j
        BY <2>2, <3>3
      <4>2. s[j - 1] = x
        BY <2>2, <3>1, <4>1
      <4> QED
        BY <4>1, <4>2 DEF Contains
    <3> QED
      BY <2>1, <2>4, <3>1, <3>2, <3>3
  <2>5. ASSUME \A j, k \in 1 .. Len(subscribers) : subscribers[j] = subscribers[k] => j = k,
               NEW j \in 1 .. Len(s), NEW k \in 1 .. Len(s), s[j] = s[k]
        PROVE  j = k
    <3>1. /\ j \in 1 .. Len(subscribers) /\ j + 1 \in 1 .. Len(subscribers)
          /\ k \in 1 .. Len(subscribers) /\ k + 1 \in 1 .. Len(subscribers)
          /\ s[j] = IF j < i THEN subscribers[j] ELSE subscribers[j + 1]
          /\ s[k] = IF k < i THEN subscribers[k] ELSE subscribers[k + 1]
      BY <2>2
    <3>2. CASE j < i /\ k < i
      BY <2>5, <3>1, <3>2
    <3>3. CASE j < i /\ ~(k < i)
      <4>1. j = k + 1
        BY <2>5, <3>1, <3>3
      <4> QED
        BY <3>3, <4>1
    <3>4. CASE ~(j < i) /\ k < i
      <4>1. j + 1 = k
        BY <2>5, <3>1, <3>4
      <4> QED
        BY <3>4, <4>1
    <3>5. CASE ~(j < i) /\ ~(k < i)
      <4>1. j + 1 = k + 1
        BY <2>5, <3>1, <3>5
      <4> QED
        BY <4>1
    <3> QED
      BY <3>2, <3>3, <3>4, <3>5
  <2> QED
    BY <2>1, <2>3, <2>4, <2>5 DEF s
<1>3. QED
  BY <1>1, <1>2

LEMMA SubscribersService ==
  ASSUME PlacesInv, SubscribersSound, NEW i \in Ids, Takes(i)
  PROVE  /\ SubscribersSound'
         /\ \A d \in Clients : IsAdd(d, i) \/ (Contains(subscribers, d) /\ ~IsRemove(d, i))
              => Contains(subscribers', d)
<1>0. TypeOK
  BY DEF PlacesInv
<1>1. i \in 1 .. Len(sent) /\ sent' = sent /\ sent[i].from \in Clients /\ sent[i].kind \in Kinds
  BY <1>0, Lengths DEF Takes, Messages
<1>2. CASE UNCHANGED subscribers /\ IsRequest(sent[i])
  BY <1>1, <1>2 DEF SubscribersSound, IsAdd, IsRemove, IsRequest
<1>3. CASE ~IsRequest(sent[i])
  <2>1. subscribers' = IF sent[i].kind = "add" THEN WithSubscriber(sent[i].from)
                       ELSE WithoutSubscriber(sent[i].from)
    BY <1>3 DEF Takes
  <2>2. CASE sent[i].kind = "add"
    <3>1. /\ Contains(subscribers', sent[i].from)
          /\ \A x : Contains(subscribers, x) => Contains(subscribers', x)
          /\ \A k \in 1 .. Len(subscribers') :
               subscribers'[k] = sent[i].from \/ Contains(subscribers, subscribers'[k])
          /\ \A j, k \in 1 .. Len(subscribers') : subscribers'[j] = subscribers'[k] => j = k
      BY <1>0, <1>1, <2>1, <2>2, SubscriberAdded DEF SubscribersSound
    <3>2. \A k \in 1 .. Len(subscribers') : \E x \in 1 .. Len(sent') : IsAdd(subscribers[k], x)'
      BY <1>1, <2>2, <3>1 DEF SubscribersSound, IsAdd, Contains
    <3> QED
      BY <2>2, <3>1, <3>2 DEF SubscribersSound, IsAdd
  <2>3. CASE sent[i].kind = "remove"
    <3>1. /\ \A x : x # sent[i].from /\ Contains(subscribers, x) => Contains(subscribers', x)
          /\ \A k \in 1 .. Len(subscribers') : Contains(subscribers, subscribers'[k])
          /\ \A j, k \in 1 .. Len(subscribers') : subscribers'[j] = subscribers'[k] => j = k
      BY <1>0, <1>1, <2>1, <2>3, SubscriberRemoved DEF SubscribersSound
    <3>2. \A k \in 1 .. Len(subscribers') : \E x \in 1 .. Len(sent') : IsAdd(subscribers[k], x)'
      BY <1>1, <3>1 DEF SubscribersSound, IsAdd, Contains
    <3> QED
      BY <2>3, <3>1, <3>2 DEF SubscribersSound, IsAdd, IsRemove
  <2> QED
    BY <1>1, <1>3, <2>2, <2>3 DEF Kinds, IsRequest
<1>4. QED
  BY <1>2, <1>3 DEF Takes

LEMMA AudienceService ==
  ASSUME PlacesInv, AudienceSubscribes, SubscribersSound, NEW i \in Ids, Takes(i)
  PROVE  AudienceSubscribes'
<1>0. TypeOK
  BY DEF PlacesInv
<1>1. UNCHANGED <<sent, audience, alive, watch>> /\ Take(i) /\ i \in 1 .. Len(sent)
  BY DEF Takes
<1>2. /\ i = queue[1] /\ Len(queue') = Len(queue) - 1 /\ Len(queue) \in Nat \ {0}
      /\ \A k \in 1 .. Len(queue') : queue'[k] = queue[k + 1]
      /\ task = NoMessage
  BY <1>0, <1>1, HeadAndTail DEF Take, TypeOK
<1>3. \A x \in Ids : \A d \in audience'[x] :
        d \in alive' /\ x \in 1 .. Len(sent') /\ Watches(d, sent[x].about)'
  BY <1>1 DEF AudienceSubscribes, Watches
<1>4. ASSUME NEW p \in 1 .. Len(queue'), IsRequest(sent[queue[p]])',
               NEW d \in audience'[queue'[p]]
      PROVE  SubscribedAfter(d, p)'
  <2>1. /\ p + 1 \in 1 .. Len(queue) /\ queue'[p] = queue[p + 1] /\ queue[p + 1] \in Ids
        /\ p \in 0 .. Len(queue')
    BY <1>0, <1>2, Lengths
  <2>2. SubscribedAfter(d, p + 1) /\ d \in Clients
    BY <1>0, <1>1, <1>4, <2>1 DEF AudienceSubscribes, IsRequest, TypeOK
  <2>3. IsAdd(d, i) \/ (Contains(subscribers, d) /\ ~IsRemove(d, i)) => Contains(subscribers', d)
    BY <2>2, SubscribersService
  <2> QED
    BY <1>1, <2>1, <2>2, <2>3, SubscribedTaken
<1>5. ASSUME task' # NoMessage, NEW d \in audience'[task']
      PROVE  Contains(subscribers', d)
  <2>1. IsRequest(sent[i]) /\ task' = i /\ subscribers' = subscribers
    BY <1>2, <1>5 DEF Takes
  <2>2. SubscribedAfter(d, 1)
    BY <1>1, <1>2, <1>5, <2>1 DEF AudienceSubscribes
  <2>3. PICK j \in 0 .. 1 : (j = 0 => Contains(subscribers, d)) /\ (j # 0 => IsAdd(d, queue[j]))
    BY <2>2 DEF SubscribedAfter
  <2>4. ~IsAdd(d, queue[1])
    BY <1>2, <2>1 DEF IsAdd, IsRequest
  <2> QED
    BY <2>1, <2>3, <2>4
<1>6. QED
  BY <1>3, <1>4, <1>5 DEF AudienceSubscribes

LEMMA WatchersTaken ==
  ASSUME PlacesInv, WatchersSubscribe, SubscribersSound, NEW i \in Ids, Takes(i)
  PROVE  WatchersSubscribe'
<1>0. TypeOK
  BY DEF PlacesInv
<1>1. UNCHANGED <<sent, pc, current, listener, watch>> /\ Take(i)
  BY DEF Takes
<1>2. Len(queue') = Len(queue) - 1 /\ Len(queue) \in Nat \ {0}
  BY <1>0, <1>1, HeadAndTail DEF Take, TypeOK
<1>3. PICK n \in 0 .. Len(queue') : n = Len(queue')
  BY <1>2
<1>4. n + 1 = Len(queue)
  BY <1>2, <1>3
<1>5. ASSUME NEW d \in Clients, SubscribedAfter(d, Len(queue))
      PROVE  SubscribedAfter(d, n)'
  <2>1. IsAdd(d, i) \/ (Contains(subscribers, d) /\ ~IsRemove(d, i)) => Contains(subscribers', d)
    BY SubscribersService
  <2>2. SubscribedAfter(d, n + 1)
    BY <1>4, <1>5
  <2> QED
    BY <1>1, <2>1, <2>2, SubscribedTaken
<1>6. \A d \in Clients : SubscribedAfter(d, Len(queue)) => SubscribedAfter(d, Len(queue))'
  BY <1>3, <1>5
<1>7. QED
  BY <1>1, <1>6, OthersWatch DEF WatchersSubscribe

-----------------------------------------------------------------------------
(* What the installer ran.                                                 *)

(* Nothing that was run comes back into the queue.                         *)
LEMMA LogKept ==
  ASSUME PlacesInv, LogSound, UNCHANGED <<log, task, parsed>>,
         Len(sent) <= Len(sent'), Len(sent') \in Nat,
         \A x \in 1 .. Len(sent) : state[x] \in {"accepted", "answered"} =>
           /\ state'[x] \in {"accepted", "answered"}
           /\ ~Contains(queue, x) => ~Contains(queue', x)
  PROVE  LogSound'
<1>1. TypeOK /\ Len(sent) \in Nat
  BY Lengths DEF PlacesInv
<1>2. ASSUME NEW k \in 1 .. Len(log)
      PROVE  log[k] \in 1 .. Len(sent') /\ state'[log[k]] \in {"accepted", "answered"}
             /\ ~Contains(queue', log[k])
  <2>1. log[k] \in 1 .. Len(sent) /\ state[log[k]] \in {"accepted", "answered"}
        /\ ~Contains(queue, log[k])
    BY DEF LogSound
  <2> QED
    BY <1>1, <2>1
<1>3. QED
  BY <1>2 DEF LogSound, Contains

LEMMA LogService ==
  ASSUME PlacesInv, LogSound, NEW i \in Ids, Takes(i)
  PROVE  /\ LogSound'
         /\ Len(log) \in Nat /\ Len(log') \in Nat /\ Len(log) <= Len(log')
         /\ \A k \in 1 .. Len(log) : log'[k] = log[k]
         /\ \A k \in 1 .. Len(log') : k \in 1 .. Len(log) \/ (log'[k] = i /\ task' = i)
<1>0. TypeOK /\ Len(log) \in Nat /\ Len(sent) \in Nat
  BY Lengths, LenProperties DEF PlacesInv, TypeOK
<1>1. /\ i \in 1 .. Len(sent) /\ sent' = sent /\ task = NoMessage
      /\ ~Contains(log, i) /\ Contains(queue, i) /\ ~Contains(queue', i)
      /\ \A x \in Ids : Contains(queue', x) => Contains(queue, x)
      /\ \A x \in Ids \ {i} : state'[x] = state[x]
  BY DEF Takes, Take
<1>2. CASE UNCHANGED <<task, parsed, log>>
  <2>1. ASSUME NEW k \in 1 .. Len(log)
        PROVE  log[k] \in 1 .. Len(sent) /\ state'[log[k]] \in {"accepted", "answered"}
               /\ ~Contains(queue', log[k])
    <3>1. log[k] \in Ids /\ log[k] # i
      BY <1>0, <1>1, <2>1, ElementOfSeq DEF TypeOK, Contains
    <3> QED
      BY <1>1, <3>1 DEF LogSound
  <2> QED
    BY <1>0, <1>1, <1>2, <2>1 DEF LogSound
<1>3. CASE /\ UNCHANGED <<state, subscribers>> /\ task' = i
           /\ \/ parsed' = TRUE /\ log' = Append(log, i)
              \/ parsed' = FALSE /\ log' = log
  <2>1. Contains(queue, i) => state[i] = "accepted"
    BY DEF PlacesInv, QueueSound, Pending
  <2>2. ASSUME NEW k \in 1 .. Len(log)
        PROVE  log[k] \in 1 .. Len(sent) /\ state'[log[k]] \in {"accepted", "answered"}
               /\ ~Contains(queue', log[k])
    <3>1. log[k] \in Ids
      BY <1>0, <2>2, ElementOfSeq DEF TypeOK
    <3> QED
      BY <1>1, <1>3, <3>1 DEF LogSound
  <2>3. CASE parsed' = FALSE /\ log' = log
    BY <1>0, <1>1, <1>3, <2>2, <2>3 DEF LogSound, Contains
  <2>4. CASE parsed' = TRUE /\ log' = Append(log, i)
    <3>0. i \in Ids /\ log \in Seq(Ids)
      BY <1>0 DEF TypeOK
    <3>1. /\ Len(log') = Len(log) + 1 /\ log' # <<>>
          /\ \A k \in 1 .. Len(log) : log'[k] = log[k]
          /\ log'[Len(log')] = i
      <4>1. /\ Len(log') = Len(log) + 1
            /\ \A k \in 1 .. Len(log) : log'[k] = log[k]
            /\ log'[Len(log) + 1] = i
        BY <2>4, <3>0, Appended
      <4>2. Len(log') # 0 /\ Len(<<>>) = 0
        BY <1>0, <4>1
      <4> QED
        BY <4>1, <4>2
    <3>2. \A k \in 1 .. Len(log') : k \in 1 .. Len(log) \/ k = Len(log')
      BY <1>0, <3>1
    <3>3. \A k \in 1 .. Len(log') :
            log'[k] \in 1 .. Len(sent') /\ state'[log'[k]] \in {"accepted", "answered"}
            /\ ~Contains(queue', log'[k])
      BY <1>1, <1>3, <2>1, <2>2, <3>1, <3>2
    <3>4. LogSound'
      BY <1>3, <2>4, <3>1, <3>3 DEF LogSound
    <3> QED
      BY <1>0, <1>3, <3>1, <3>2, <3>4
  <2> QED
    BY <1>3, <2>3, <2>4
<1>4. QED
  BY <1>2, <1>3 DEF Takes

LEMMA LogAnswer ==
  ASSUME PlacesInv, LogSound, Answer
  PROVE  LogSound'
<1>1. UNCHANGED <<log, queue, sent, state>> /\ task' = NoMessage
  BY DEF Answer, caller, history
<1>2. QED
  BY <1>1 DEF LogSound, Contains

-----------------------------------------------------------------------------
(* What the status callbacks of a client get.                              *)

(* Answer adds at most one result, at the end; every subscriber gets it    *)
(* unless one before it has died.                                          *)
LEMMA AllArrives ==
  ASSUME PlacesInv, SubscribersSound, Answer, NEW c \in Clients
  PROVE  /\ Len(inbox[c]) \in Nat /\ Len(inbox[c]) <= Len(inbox'[c])
         /\ \A k \in 1 .. Len(inbox[c]) : inbox'[c][k] = inbox[c][k]
         /\ \A k \in 1 .. Len(inbox'[c]) : inbox'[c][k].to = "all" =>
              \/ k \in 1 .. Len(inbox[c])
              \/ parsed /\ k = Len(inbox'[c]) /\ inbox'[c][k].id = task
         /\ c \in alive /\ parsed /\ (\E k \in Reached : subscribers[k] = c) =>
              \E k \in 1 .. Len(inbox'[c]) : inbox'[c][k].to = "all" /\ inbox'[c][k].id = task
<1> DEFINE mine == {j \in Reached : subscribers[j] = c}
           n    == Cardinality(mine)
           notice == [to |-> "all", id |-> task]
           old  == inbox[c] \o ToSelf(c)
<1>0. TypeOK /\ task # NoMessage
  BY DEF PlacesInv, Answer
<1>1. /\ inbox[c] \in Seq(Notices) /\ ToSelf(c) \in Seq(Notices) /\ ToAll(c) \in Seq(Notices)
      /\ Len(inbox[c]) \in Nat
  BY <1>0, ToAllType, ToSelfType, LenProperties DEF TypeOK, Notices
<1>2. inbox'[c] = IF c \in alive THEN old \o ToAll(c) ELSE inbox[c]
  BY DEF Answer
<1>3. /\ Len(subscribers) \in Nat /\ DOMAIN subscribers = 1 .. Len(subscribers)
      /\ mine \subseteq 1 .. Len(subscribers)
  <2>1. Len(subscribers) \in Nat /\ DOMAIN subscribers = 1 .. Len(subscribers)
    BY <1>0, LenProperties DEF TypeOK
  <2> QED
    BY <2>1 DEF Reached
<1>4. mine = {} \/ \E j \in 1 .. Len(subscribers) : mine = {j}
  <2>1. \A j, k \in mine : j = k
    BY <1>3 DEF SubscribersSound
  <2> QED
    BY <1>3, <2>1
<1>5. n = (IF mine = {} THEN 0 ELSE 1)
  <2>1. Cardinality({}) = 0 /\ \A j : Cardinality({j}) = 1
    BY FS_EmptySet, FS_Singleton
  <2> QED
    BY <1>4, <2>1
<1>6. ToAll(c) = IF parsed THEN [k \in 1 .. n |-> notice] ELSE <<>>
  BY DEF ToAll
<1>7. mine # {} <=> \E k \in Reached : subscribers[k] = c
  OBVIOUS
<1>8. notice.to = "all" /\ notice.id = task
  OBVIOUS
<1> HIDE DEF mine, n, notice, old
<1>9. /\ old \in Seq(Notices) /\ Len(old) = Len(inbox[c]) + Len(ToSelf(c))
      /\ Len(ToSelf(c)) \in Nat /\ Len(old) \in Nat
      /\ \A k \in 1 .. Len(inbox[c]) : old[k] = inbox[c][k]
      /\ \A k \in 1 .. Len(old) : k \in 1 .. Len(inbox[c]) \/ old[k].to = "self"
  <2>1. /\ old \in Seq(Notices) /\ Len(old) = Len(inbox[c]) + Len(ToSelf(c))
        /\ Len(ToSelf(c)) \in Nat
        /\ \A k \in 1 .. Len(old) :
             \/ k \in 1 .. Len(inbox[c]) /\ old[k] = inbox[c][k]
             \/ /\ k - Len(inbox[c]) \in 1 .. Len(ToSelf(c)) /\ k > Len(inbox[c])
                /\ old[k] = ToSelf(c)[k - Len(inbox[c])]
    BY <1>1, Concatenated DEF old
  <2>2. \A k \in 1 .. Len(ToSelf(c)) : ToSelf(c)[k].to = "self"
    BY DEF ToSelf
  <2>3. \A k \in 1 .. Len(inbox[c]) : old[k] = inbox[c][k]
    BY <1>1, <2>1
  <2> QED
    BY <1>1, <2>1, <2>2, <2>3
<1>10. CASE c \notin alive
  BY <1>1, <1>2, <1>10
<1>11. CASE c \in alive /\ ~(parsed /\ mine # {})
  <2>1. ToAll(c) = <<>>
    <3>1. CASE ~parsed
      BY <1>6, <3>1
    <3>2. CASE mine = {}
      <4>1. n = 0
        BY <1>5, <3>2
      <4>2. [k \in 1 .. 0 |-> notice] = <<>>
        OBVIOUS
      <4> QED
        BY <1>6, <4>1, <4>2
    <3> QED
      BY <1>11, <3>1, <3>2
  <2>2. inbox'[c] = old
    <3>1. old \o <<>> = old
      BY <1>9, ConcatEmptySeq
    <3> QED
      BY <1>2, <1>11, <2>1, <3>1
  <2>3. Len(inbox[c]) <= Len(old)
    BY <1>1, <1>9
  <2>4. \A k \in 1 .. Len(old) : old[k].to = "all" => k \in 1 .. Len(inbox[c])
    BY <1>9
  <2> QED
    BY <1>1, <1>7, <1>9, <1>11, <2>2, <2>3, <2>4
<1>12. CASE c \in alive /\ parsed /\ mine # {}
  <2>1. ToAll(c) = [k \in 1 .. 1 |-> notice]
    BY <1>5, <1>6, <1>12
  <2>2. Len(ToAll(c)) = 1 /\ ToAll(c)[1] = notice
    BY <2>1
  <2>3. inbox'[c] = old \o ToAll(c)
    BY <1>2, <1>12
  <2>4. /\ Len(inbox'[c]) = Len(old) + 1
        /\ \A k \in 1 .. Len(inbox'[c]) :
             \/ k \in 1 .. Len(old) /\ inbox'[c][k] = old[k]
             \/ k = Len(old) + 1 /\ inbox'[c][k] = notice
    <3>0. old \in Seq(Notices) /\ ToAll(c) \in Seq(Notices) /\ Len(old) \in Nat
      BY <1>1, <1>9
    <3>1. /\ Len(old \o ToAll(c)) = Len(old) + Len(ToAll(c))
          /\ \A k \in 1 .. Len(old \o ToAll(c)) :
               \/ k \in 1 .. Len(old) /\ (old \o ToAll(c))[k] = old[k]
               \/ /\ k - Len(old) \in 1 .. Len(ToAll(c)) /\ k > Len(old)
                  /\ (old \o ToAll(c))[k] = ToAll(c)[k - Len(old)]
      BY <3>0, Concatenated
    <3>2. \A k \in 1 .. Len(old) + 1 :
            k - Len(old) \in 1 .. 1 => k = Len(old) + 1 /\ k - Len(old) = 1
      BY <3>0
    <3> QED
      BY <2>2, <2>3, <3>1, <3>2
  <2>5. /\ inbox'[c][Len(old) + 1] = notice
        /\ \A k \in 1 .. Len(old) : inbox'[c][k] = old[k]
    <3>1. /\ Len(old) + 1 \in 1 .. Len(old) + 1 /\ Len(old) + 1 \notin 1 .. Len(old)
          /\ \A k \in 1 .. Len(old) : k \in 1 .. Len(old) + 1 /\ k # Len(old) + 1
      BY <1>9
    <3> QED
      BY <2>4, <3>1
  <2>6. \A k \in 1 .. Len(inbox'[c]) : k \in 1 .. Len(old) \/ k = Len(inbox'[c])
    BY <1>9, <2>4
  <2>7. \A k \in 1 .. Len(inbox[c]) : k \in 1 .. Len(old) /\ inbox'[c][k] = inbox[c][k]
    BY <1>1, <1>9, <2>5
  <2>8. \A k \in 1 .. Len(inbox'[c]) : inbox'[c][k].to = "all" =>
          \/ k \in 1 .. Len(inbox[c])
          \/ parsed /\ k = Len(inbox'[c]) /\ inbox'[c][k].id = task
    BY <1>8, <1>9, <1>12, <2>4, <2>5, <2>6
  <2>9. Len(inbox[c]) <= Len(inbox'[c]) /\ Len(inbox'[c]) \in 1 .. Len(inbox'[c])
    BY <1>1, <1>9, <2>4
  <2> QED
    BY <1>1, <1>8, <2>4, <2>5, <2>7, <2>8, <2>9
<1>13. QED
  BY <1>10, <1>11, <1>12

(* A delivery shortens the inbox by its first notice.                      *)
LEMMA DeliverMoves ==
  ASSUME PlacesInv, NEW c \in Clients, Deliver(c)
  PROVE  /\ \A d \in Clients \ {c} : inbox'[d] = inbox[d] /\ heard'[d] = heard[d]
         /\ Len(inbox'[c]) \in Nat /\ Len(inbox[c]) = Len(inbox'[c]) + 1
         /\ \A k \in 1 .. Len(inbox'[c]) : inbox'[c][k] = inbox[c][k + 1]
         /\ \/ inbox[c][1].to = "self" /\ heard'[c] = heard[c]
            \/ /\ inbox[c][1].to = "all"
               /\ heard'[c] = IF Watches(c, sent[inbox[c][1].id].about)
                              THEN Append(heard[c], inbox[c][1].id) ELSE heard[c]
<1>0. TypeOK
  BY DEF PlacesInv
<1>1. /\ inbox[c] # <<>> /\ inbox' = [inbox EXCEPT ![c] = Tail(@)]
      /\ inbox[c] \in Seq(Notices)
  BY <1>0 DEF Deliver, SelfCallback, StateCallback, Receive, TypeOK, Notices
<1>2. /\ Head(inbox[c]) = inbox[c][1] /\ Len(Tail(inbox[c])) = Len(inbox[c]) - 1
      /\ \A k \in 1 .. Len(Tail(inbox[c])) : Tail(inbox[c])[k] = inbox[c][k + 1]
      /\ Len(inbox[c]) \in Nat \ {0}
  <2>1. /\ Head(inbox[c]) = inbox[c][1] /\ Len(Tail(inbox[c])) = Len(inbox[c]) - 1
        /\ \A k \in 1 .. Len(Tail(inbox[c])) : Tail(inbox[c])[k] = inbox[c][k + 1]
        /\ 1 \in 1 .. Len(inbox[c]) /\ Len(inbox[c]) \in Nat
    BY <1>1, HeadAndTail
  <2> QED
    BY <2>1
<1>3. inbox'[c] = Tail(inbox[c]) /\ \A d \in Clients \ {c} : inbox'[d] = inbox[d]
  BY <1>0, <1>1 DEF TypeOK
<1>4. CASE SelfCallback(c)
  BY <1>2, <1>3, <1>4 DEF SelfCallback, Receive
<1>5. CASE StateCallback(c)
  <2>1. \A d \in Clients \ {c} : heard'[d] = heard[d]
    BY <1>0, <1>5 DEF StateCallback, TypeOK
  <2>2. /\ Head(inbox[c]).to = "all"
        /\ heard'[c] = IF Watches(c, sent[Head(inbox[c]).id].about)
                       THEN Append(heard[c], Head(inbox[c]).id) ELSE heard[c]
    BY <1>0, <1>5 DEF StateCallback, Receive, TypeOK
  <2> QED
    BY <1>2, <1>3, <2>1, <2>2
<1>6. QED
  BY <1>4, <1>5 DEF Deliver

(* The results in what was told, h, and in what is on its way, b.          *)
ToldIn(h, b) == {h[k] : k \in DOMAIN h} \cup
                {n.id : n \in {b[k] : k \in {j \in DOMAIN b : b[j].to = "all"}}}

HeldIn(h, b, i) ==
  \/ \E k \in 1 .. Len(h) : h[k] = i
  \/ \E k \in 1 .. Len(b) : b[k].to = "all" /\ b[k].id = i

LEMMA ToldAs ==
  ASSUME NEW h \in Seq(Ids), NEW b \in Seq(Notices), NEW i
  PROVE  i \in ToldIn(h, b) <=> HeldIn(h, b, i)
<1>1. DOMAIN h = 1 .. Len(h) /\ DOMAIN b = 1 .. Len(b)
  BY LenProperties
<1>2. QED
  BY <1>1 DEF ToldIn, HeldIn

(* What a client was told, before a step and after it.                     *)
LEMMA ToldBoth ==
  ASSUME TypeOK, TypeOK', NEW c \in Clients, NEW i
  PROVE  /\ i \in Told(c) <=> \/ \E k \in 1 .. Len(heard[c]) : heard[c][k] = i
                              \/ \E k \in 1 .. Len(inbox[c]) :
                                   inbox[c][k].to = "all" /\ inbox[c][k].id = i
         /\ i \in Told(c)' <=> \/ \E k \in 1 .. Len(heard'[c]) : heard'[c][k] = i
                               \/ \E k \in 1 .. Len(inbox'[c]) :
                                    inbox'[c][k].to = "all" /\ inbox'[c][k].id = i
<1>1. /\ Told(c) = ToldIn(heard[c], inbox[c])
      /\ Told(c)' = ToldIn(heard'[c], inbox'[c])
  BY DEF Told, ToldIn
<1>2. /\ heard[c] \in Seq(Ids) /\ inbox[c] \in Seq(Notices)
      /\ heard'[c] \in Seq(Ids) /\ inbox'[c] \in Seq(Notices)
  BY DEF TypeOK, Notices
<1>3. i \in Told(c) <=> HeldIn(heard[c], inbox[c], i)
  BY <1>1, <1>2, ToldAs
<1>4. i \in Told(c)' <=> HeldIn(heard'[c], inbox'[c], i)
  BY <1>1, <1>2, ToldAs
<1>5. QED
  BY <1>3, <1>4, Zenon DEF HeldIn

(* Registrants that live have always lived.                                *)
LEMMA RegistrantsLived ==
  ASSUME Len(sent) <= Len(sent'), Len(sent) \in Nat, Len(sent') \in Nat,
         \A i \in 1 .. Len(sent) : sent'[i] = sent[i],
         alive' \subseteq alive, RegistrantsLive'
  PROVE  RegistrantsLive
<1>1. \A i \in 1 .. Len(sent) : i \in 1 .. Len(sent')
  OBVIOUS
<1>2. QED
  BY <1>1 DEF RegistrantsLive

(* Nothing is taken from a client that is to hear of it.                   *)
LEMMA ToldKept ==
  ASSUME AudienceTold, RegistrantsLive' => RegistrantsLive,
         \A i \in Ids : Done(i)' => \A d \in audience'[i] :
           i \in Told(d)' \/ (Done(i) /\ d \in audience[i] /\ (i \in Told(d) => i \in Told(d)'))
  PROVE  AudienceTold'
BY DEF AudienceTold

LEMMA ToldCall ==
  ASSUME PlacesInv, AudienceTold, NEW c \in Clients, ClientCalls(c)
  PROVE  AudienceTold'
<1>1. /\ UNCHANGED <<task, inbox, alive, log, heard>>
      /\ Len(sent) <= Len(sent') /\ Len(sent) \in Nat /\ Len(sent') \in Nat
      /\ \A i \in 1 .. Len(sent) : sent'[i] = sent[i]
      /\ \A i \in Ids : audience'[i] \subseteq audience[i]
  BY CallEffect
<1>2. \A d, i : i \in Told(d) => i \in Told(d)'
  BY <1>1 DEF Told
<1>3. \A i \in Ids : Done(i)' => Done(i)
  BY <1>1 DEF Done, Contains
<1>4. QED
  BY <1>1, <1>2, <1>3, RegistrantsLived, ToldKept

LEMMA ToldContinue ==
  ASSUME PlacesInv, LogSound, AudienceTold, NEW c \in Clients, ClientContinues(c)
  PROVE  AudienceTold'
<1>0. TypeOK /\ Len(sent) \in Nat
  BY Lengths DEF PlacesInv
<1>1. UNCHANGED <<sent, inbox, task, alive, log, heard>>
  BY ContinueEffect
<1>2. \A d, i : i \in Told(d) => i \in Told(d)'
  BY <1>1 DEF Told
<1>3. \A i \in Ids : Done(i)' => Done(i)
  BY <1>1 DEF Done, Contains
<1>4. RegistrantsLive' => RegistrantsLive
  BY <1>1 DEF RegistrantsLive
<1>5. CASE UNCHANGED audience
  BY <1>2, <1>3, <1>4, <1>5, ToldKept
<1>6. CASE \E i \in Ids : Ends(c, i) /\ ~UNCHANGED audience
  <2>1. PICK i \in Ids : Ends(c, i) /\ ~UNCHANGED audience
    BY <1>6
  <2>2. \A x \in Ids \ {i} : audience'[x] = audience[x]
    BY <1>0, <2>1 DEF Ends, TypeOK
  <2>3. ~Done(i)
    BY <2>1 DEF Ends, Done, LogSound, Contains
  <2> QED
    BY <1>2, <1>3, <1>4, <2>2, <2>3, ToldKept
<1>7. QED
  BY <1>5, <1>6, ContinueEffect

LEMMA ToldDeliver ==
  ASSUME PlacesInv, TypeOK', AudienceSubscribes, AudienceTold, NEW c \in Clients, Deliver(c)
  PROVE  AudienceTold'
<1>0. TypeOK
  BY DEF PlacesInv
<1>1. UNCHANGED <<sent, task, alive, log, audience>>
  BY DeliverEffect
<1>2. \A i \in Ids : Done(i)' => Done(i)
  BY <1>1 DEF Done, Contains
<1>3. RegistrantsLive' => RegistrantsLive
  BY <1>1 DEF RegistrantsLive
<1>4. ASSUME NEW i \in Ids, NEW d \in audience[i], i \in Told(d)
      PROVE  i \in Told(d)'
  <2>0. d \in Clients
    BY <1>0 DEF TypeOK
  <2>1. CASE d # c
    <3>1. inbox'[d] = inbox[d] /\ heard'[d] = heard[d]
      BY <2>0, <2>1, DeliverMoves
    <3> QED
      BY <1>4, <3>1 DEF Told
  <2>2. CASE d = c
    <3>1. /\ Len(inbox'[c]) \in Nat /\ Len(inbox[c]) = Len(inbox'[c]) + 1
          /\ \A k \in 1 .. Len(inbox'[c]) : inbox'[c][k] = inbox[c][k + 1]
      BY DeliverMoves
    <3>2. /\ Len(heard[c]) \in Nat /\ Len(heard[c]) <= Len(heard'[c]) /\ Len(heard'[c]) \in Nat
          /\ \A k \in 1 .. Len(heard[c]) : heard'[c][k] = heard[c][k]
      <4>1. heard[c] \in Seq(Ids) /\ Len(heard[c]) \in Nat
        BY <1>0, LenProperties DEF TypeOK
      <4>2. inbox[c][1].id \in Ids
        <5>1. 1 \in 1 .. Len(inbox[c])
          BY <3>1
        <5> QED
          BY <1>0, <5>1, Lengths DEF Notices
      <4>3. CASE heard'[c] = heard[c]
        BY <4>1, <4>3
      <4>4. CASE heard'[c] = Append(heard[c], inbox[c][1].id)
        <5>1. /\ Len(heard'[c]) = Len(heard[c]) + 1
              /\ \A k \in 1 .. Len(heard[c]) : heard'[c][k] = heard[c][k]
          BY <4>1, <4>2, <4>4, Appended
        <5> QED
          BY <4>1, <5>1
      <4> QED
        BY <4>3, <4>4, DeliverMoves
    <3>3. CASE \E k \in 1 .. Len(heard[c]) : heard[c][k] = i
      <4>1. \E k \in 1 .. Len(heard'[c]) : heard'[c][k] = i
        BY <3>2, <3>3
      <4> QED
        BY <1>0, <2>2, <4>1, ToldBoth
    <3>4. CASE \E k \in 1 .. Len(inbox[c]) : k # 1 /\ inbox[c][k].to = "all" /\ inbox[c][k].id = i
      <4>1. PICK k \in 1 .. Len(inbox[c]) : k # 1 /\ inbox[c][k].to = "all" /\ inbox[c][k].id = i
        BY <3>4
      <4>2. k - 1 \in 1 .. Len(inbox'[c]) /\ (k - 1) + 1 = k
        BY <3>1, <4>1
      <4>3. inbox'[c][k - 1] = inbox[c][k]
        BY <3>1, <4>2
      <4> QED
        BY <1>0, <2>2, <4>1, <4>2, <4>3, ToldBoth
    <3>5. CASE inbox[c][1].to = "all" /\ inbox[c][1].id = i
      <4>1. Watches(c, sent[i].about)
        BY <1>4, <2>2 DEF AudienceSubscribes
      <4>2. heard'[c] = Append(heard[c], i)
        BY <3>5, <4>1, DeliverMoves
      <4>3. heard'[c][Len(heard[c]) + 1] = i /\ Len(heard'[c]) = Len(heard[c]) + 1
        BY <1>0, <4>2, Appended DEF TypeOK
      <4>4. Len(heard[c]) + 1 \in 1 .. Len(heard'[c])
        BY <3>2, <4>3
      <4> QED
        BY <1>0, <2>2, <4>3, <4>4, ToldBoth
    <3> QED
      BY <1>0, <1>4, <2>2, <3>3, <3>4, <3>5, ToldBoth
  <2> QED
    BY <2>1, <2>2
<1>5. QED
  BY <1>1, <1>2, <1>3, <1>4, ToldKept

LEMMA ToldDie ==
  ASSUME PlacesInv, AudienceTold, NEW c \in Clients, Die(c)
  PROVE  AudienceTold'
<1>0. TypeOK /\ Len(sent) \in Nat
  BY Lengths DEF PlacesInv
<1>1. /\ UNCHANGED <<sent, task, log, heard>> /\ alive' = alive \ {c}
      /\ audience' = [i \in Ids |-> audience[i] \ {c}]
      /\ inbox' = [inbox EXCEPT ![c] = <<>>]
  BY DEF Die, server
<1>2. RegistrantsLive' => RegistrantsLive
  BY <1>1 DEF RegistrantsLive
<1>3. \A i \in Ids : Done(i)' => Done(i)
  BY <1>1 DEF Done, Contains
<1>4. \A i \in Ids : \A d \in audience'[i] :
        d \in audience[i] /\ d # c /\ d \in Clients
  BY <1>0, <1>1 DEF TypeOK
<1>5. \A d \in Clients \ {c} : inbox'[d] = inbox[d]
  BY <1>0, <1>1 DEF TypeOK
<1>6. \A d \in Clients \ {c} : \A i : i \in Told(d) => i \in Told(d)'
  BY <1>1, <1>5 DEF Told
<1>7. QED
  BY <1>2, <1>3, <1>4, <1>6, ToldKept

LEMMA ToldService ==
  ASSUME PlacesInv, LogSound, AudienceTold, NEW i \in Ids, Takes(i)
  PROVE  AudienceTold'
<1>0. TypeOK
  BY DEF PlacesInv
<1>1. UNCHANGED <<sent, inbox, alive, audience, heard>> /\ task = NoMessage
  BY DEF Takes, Take
<1>2. \A d, x : x \in Told(d) => x \in Told(d)'
  BY <1>1 DEF Told
<1>3. RegistrantsLive' => RegistrantsLive
  BY <1>1 DEF RegistrantsLive
<1>4. ASSUME NEW x \in Ids, Done(x)' PROVE Done(x)
  <2>1. PICK k \in 1 .. Len(log') : log'[k] = x
    BY <1>4 DEF Done, Contains
  <2>2. k \in 1 .. Len(log) /\ log'[k] = log[k]
    BY <1>4, <2>1, LogService DEF Done
  <2>3. x # NoMessage
    BY Constants DEF NoMessage
  <2> QED
    BY <1>1, <2>1, <2>2, <2>3 DEF Done, Contains
<1>5. QED
  BY <1>1, <1>2, <1>3, <1>4, ToldKept

LEMMA ToldAnswer ==
  ASSUME PlacesInv, TypeOK', SubscribersSound, AudienceSubscribes, LogSound, AudienceTold, Answer
  PROVE  AudienceTold'
<1>0. TypeOK
  BY DEF PlacesInv
<1>1. /\ UNCHANGED <<sent, alive, audience, heard, log>>
      /\ task # NoMessage /\ task' = NoMessage /\ task \in Ids
  BY <1>0 DEF Answer, caller, history, TypeOK
<1>2. RegistrantsLive' => RegistrantsLive
  BY <1>1 DEF RegistrantsLive
<1>3. ASSUME NEW d \in Clients, NEW x, x \in Told(d)
      PROVE  x \in Told(d)'
  <2>1. /\ Len(inbox[d]) \in Nat /\ Len(inbox[d]) <= Len(inbox'[d])
        /\ \A k \in 1 .. Len(inbox[d]) : inbox'[d][k] = inbox[d][k]
    BY AllArrives
  <2>2. \A k \in 1 .. Len(inbox[d]) : k \in 1 .. Len(inbox'[d])
    <3>1. Len(inbox'[d]) \in Nat
      BY LenProperties DEF TypeOK
    <3> QED
      BY <2>1, <3>1
  <2> QED
    BY <1>0, <1>1, <1>3, <2>1, <2>2, ToldBoth
<1>5. ASSUME RegistrantsLive', Contains(log, task), NEW d \in audience[task]
      PROVE  task \in Told(d)'
  <2>1. d \in alive /\ Contains(subscribers, d) /\ d \in Clients
    BY <1>0, <1>1 DEF AudienceSubscribes, TypeOK
  <2>2. parsed
    BY <1>1, <1>5 DEF LogSound
  <2>3. \A k \in 1 .. Len(subscribers) : subscribers[k] \in alive
    BY <1>1, <1>2, <1>5 DEF SubscribersSound, RegistrantsLive, IsAdd
  <2>4. DOMAIN subscribers = 1 .. Len(subscribers) /\ Len(subscribers) \in Nat
    BY <1>0, LenProperties DEF TypeOK
  <2>5. \E k \in Reached : subscribers[k] = d
    BY <2>1, <2>3, <2>4 DEF Reached, Contains
  <2>6. \E k \in 1 .. Len(inbox'[d]) : inbox'[d][k].to = "all" /\ inbox'[d][k].id = task
    BY <2>1, <2>2, <2>5, AllArrives
  <2> QED
    BY <1>0, <2>1, <2>6, ToldBoth
<1>6. SUFFICES ASSUME RegistrantsLive', NEW x \in Ids, Done(x)', NEW d \in audience'[x]
               PROVE  x \in Told(d)'
  BY DEF AudienceTold
<1>7. Contains(log, x) /\ d \in audience[x] /\ d \in Clients
  BY <1>0, <1>1, <1>6 DEF Done, Contains, TypeOK
<1>8. CASE x = task
  BY <1>5, <1>6, <1>7, <1>8
<1>9. CASE x # task
  BY <1>2, <1>3, <1>6, <1>7, <1>9 DEF AudienceTold, Done
<1>10. QED
  BY <1>8, <1>9

-----------------------------------------------------------------------------
(* The order in which a client hears of the runs.                          *)

(* The parts of NewsInOrder that are about one client.                     *)
NewsOf(c) ==
  /\ \A j \in 1 .. Len(heard[c]) : Done(heard[c][j])
  /\ \A k \in 1 .. Len(inbox[c]) : IsNews(c, k) => Done(inbox[c][k].id)
  /\ \A j, k \in 1 .. Len(heard[c]) : j < k => Before(heard[c][j], heard[c][k])
  /\ \A j \in 1 .. Len(heard[c]), k \in 1 .. Len(inbox[c]) :
       IsNews(c, k) => Before(heard[c][j], inbox[c][k].id)
  /\ \A j, k \in 1 .. Len(inbox[c]) :
       IsNews(c, j) /\ IsNews(c, k) /\ j < k => Before(inbox[c][j].id, inbox[c][k].id)

LEMMA NewsOfAll == NewsInOrder <=> \A c \in Clients : NewsOf(c)
BY DEF NewsInOrder, NewsOf

(* A client that is sent nothing, and told nothing, when the log at most   *)
(* grows.                                                                  *)
LEMMA NewsKept ==
  ASSUME NEW c \in Clients, NewsOf(c), inbox'[c] = inbox[c], heard'[c] = heard[c],
         \A x : Done(x) => Done(x)',
         \A x, y : Before(x, y) => Before(x, y)'
  PROVE  NewsOf(c)'
BY DEF NewsOf, IsNews

LEMMA NewsSame ==
  ASSUME NewsInOrder, UNCHANGED <<inbox, heard, log, task>>
  PROVE  NewsInOrder'
BY DEF NewsInOrder, IsNews, Done, Before, Contains

LEMMA NewsDeliver ==
  ASSUME PlacesInv, TypeOK', NewsInOrder, NEW c \in Clients, Deliver(c)
  PROVE  NewsInOrder'
<1>0. TypeOK
  BY DEF PlacesInv
<1>1. UNCHANGED <<task, log>>
  BY DeliverEffect
<1>2. /\ \A x : Done(x) => Done(x)'
      /\ \A x, y : Before(x, y) => Before(x, y)'
  BY <1>1 DEF Done, Before, Contains
<1>3. \A d \in Clients \ {c} : NewsOf(d)'
  <2>1. \A d \in Clients \ {c} : inbox'[d] = inbox[d] /\ heard'[d] = heard[d]
    BY DeliverMoves
  <2> QED
    BY <1>2, <2>1, NewsOfAll, NewsKept
<1>4. NewsOf(c)
  BY NewsOfAll
<1> DEFINE h == inbox[c][1]
<1>5. /\ Len(inbox'[c]) \in Nat /\ Len(inbox[c]) = Len(inbox'[c]) + 1
      /\ \A k \in 1 .. Len(inbox'[c]) : inbox'[c][k] = inbox[c][k + 1]
  BY DeliverMoves
<1>6. \A k \in 1 .. Len(inbox'[c]) :
        /\ k + 1 \in 1 .. Len(inbox[c]) /\ 1 \in 1 .. Len(inbox[c]) /\ 1 < k + 1
        /\ IsNews(c, k)' => IsNews(c, k + 1)
  BY <1>5 DEF IsNews
<1>7. /\ \A k \in 1 .. Len(inbox'[c]) : IsNews(c, k)' => Done(inbox[c][k].id)'
      /\ \A j, k \in 1 .. Len(inbox'[c]) :
           IsNews(c, j)' /\ IsNews(c, k)' /\ j < k => Before(inbox[c][j].id, inbox[c][k].id)'
  <2>1. \A k \in 1 .. Len(inbox'[c]) : IsNews(c, k)' => Done(inbox[c][k].id)'
    <3>1. \A k \in 1 .. Len(inbox'[c]) : IsNews(c, k)' => Done(inbox[c][k + 1].id)
      BY <1>4, <1>6 DEF NewsOf
    <3> QED
      BY <1>1, <1>5, <3>1 DEF Done, Contains
  <2>2. ASSUME NEW j \in 1 .. Len(inbox'[c]), NEW k \in 1 .. Len(inbox'[c]),
               IsNews(c, j)', IsNews(c, k)', j < k
        PROVE  Before(inbox[c][j].id, inbox[c][k].id)'
    <3>1. j + 1 < k + 1
      BY <2>2
    <3>2. Before(inbox[c][j + 1].id, inbox[c][k + 1].id)
      BY <1>4, <1>6, <2>2, <3>1 DEF NewsOf
    <3> QED
      BY <1>1, <1>5, <3>2 DEF Before
  <2> QED
    BY <2>1, <2>2
<1>8. CASE heard'[c] = heard[c]
  <2>1. ASSUME NEW j \in 1 .. Len(heard'[c]), NEW k \in 1 .. Len(inbox'[c]), IsNews(c, k)'
        PROVE  Before(heard[c][j], inbox[c][k].id)'
    <3>1. Before(heard[c][j], inbox[c][k + 1].id)
      BY <1>4, <1>6, <1>8, <2>1 DEF NewsOf
    <3> QED
      BY <1>1, <1>5, <1>8, <3>1 DEF Before
  <2>2. /\ \A j \in 1 .. Len(heard'[c]) : Done(heard[c][j])'
        /\ \A j, k \in 1 .. Len(heard'[c]) : j < k => Before(heard[c][j], heard[c][k])'
    BY <1>1, <1>4, <1>8 DEF NewsOf, Done, Before, Contains
  <2>3. NewsOf(c)'
    BY <1>7, <2>1, <2>2 DEF NewsOf
  <2> QED
    BY <1>3, <2>3, NewsOfAll DEF NewsInOrder, NewsOf
<1>9. CASE IsNews(c, 1) /\ heard'[c] = Append(heard[c], h.id)
  <2>1. /\ Len(heard'[c]) = Len(heard[c]) + 1 /\ Len(heard[c]) \in Nat
        /\ \A j \in 1 .. Len(heard[c]) : heard'[c][j] = heard[c][j]
        /\ heard'[c][Len(heard[c]) + 1] = h.id
    <3>1. h \in Notices /\ heard[c] \in Seq(Ids)
      BY <1>0, <1>9, Lengths DEF IsNews, TypeOK
    <3>2. h.id \in Ids
      BY <3>1 DEF Notices
    <3> HIDE DEF h
    <3> QED
      BY <1>9, <3>1, <3>2, Appended
  <2>2. \A j \in 1 .. Len(heard'[c]) :
          \/ j \in 1 .. Len(heard[c]) /\ heard'[c][j] = heard[c][j]
          \/ j = Len(heard[c]) + 1 /\ heard'[c][j] = h.id
    BY <2>1
  <2>3. 1 \in 1 .. Len(inbox[c])
    BY <1>5
  <2>4. Done(h.id) /\ \A j \in 1 .. Len(heard[c]) : Before(heard[c][j], h.id)
    BY <1>4, <1>9, <2>3 DEF NewsOf
  <2>5. \A k \in 1 .. Len(inbox'[c]) : IsNews(c, k)' => Before(h.id, inbox'[c][k].id)
    <3>1. SUFFICES ASSUME NEW k \in 1 .. Len(inbox'[c]), IsNews(c, k)'
                   PROVE  Before(h.id, inbox[c][k + 1].id)
      BY <1>5
    <3> QED
      BY <1>4, <1>6, <1>9, <3>1 DEF NewsOf
  <2>6. \A j \in 1 .. Len(heard'[c]) : Done(heard'[c][j])
    BY <1>4, <2>2, <2>4 DEF NewsOf
  <2>7. ASSUME NEW j \in 1 .. Len(heard'[c]), NEW k \in 1 .. Len(heard'[c]), j < k
        PROVE  Before(heard'[c][j], heard'[c][k])
    <3>1. j \in 1 .. Len(heard[c]) /\ heard'[c][j] = heard[c][j]
      BY <2>1, <2>7
    <3>2. CASE k \in 1 .. Len(heard[c])
      BY <1>4, <2>1, <2>7, <3>1, <3>2 DEF NewsOf
    <3>3. CASE heard'[c][k] = h.id
      BY <2>4, <3>1, <3>3
    <3> QED
      BY <2>2, <3>2, <3>3
  <2>8. ASSUME NEW j \in 1 .. Len(heard'[c]), NEW k \in 1 .. Len(inbox'[c]), IsNews(c, k)'
        PROVE  Before(heard'[c][j], inbox'[c][k].id)
    <3>1. CASE j \in 1 .. Len(heard[c])
      <4>1. Before(heard[c][j], inbox[c][k + 1].id)
        BY <1>4, <1>6, <2>8, <3>1 DEF NewsOf
      <4> QED
        BY <1>5, <2>1, <3>1, <4>1
    <3>2. CASE heard'[c][j] = h.id
      BY <2>5, <2>8, <3>2
    <3> QED
      BY <2>2, <3>1, <3>2
  <2>9. NewsOf(c)'
    <3>1. /\ \A j \in 1 .. Len(heard'[c]) : Done(heard[c][j])'
          /\ \A j, k \in 1 .. Len(heard'[c]) : j < k => Before(heard[c][j], heard[c][k])'
          /\ \A j \in 1 .. Len(heard'[c]), k \in 1 .. Len(inbox'[c]) :
               IsNews(c, k)' => Before(heard[c][j], inbox[c][k].id)'
      BY <1>1, <2>6, <2>7, <2>8 DEF Done, Before, Contains
    <3> QED
      BY <1>7, <3>1 DEF NewsOf
  <2> QED
    BY <1>3, <2>9, NewsOfAll DEF NewsInOrder, NewsOf
<1>10. QED
  <2>1. inbox[c][1].to = "all" => IsNews(c, 1)
    BY <1>5 DEF IsNews
  <2> QED
    BY <1>8, <1>9, <2>1, DeliverMoves

LEMMA NewsDie ==
  ASSUME PlacesInv, NewsInOrder, NEW c \in Clients, Die(c)
  PROVE  NewsInOrder'
<1>1. UNCHANGED <<task, log, heard>> /\ inbox' = [inbox EXCEPT ![c] = <<>>]
  BY DEF Die, server
<1>2. inbox'[c] = <<>> /\ \A d \in Clients \ {c} : inbox'[d] = inbox[d]
  BY <1>1 DEF PlacesInv, TypeOK
<1>3. /\ \A x : Done(x) => Done(x)'
      /\ \A x, y : Before(x, y) => Before(x, y)'
  BY <1>1 DEF Done, Before, Contains
<1>4. \A d \in Clients \ {c} : NewsOf(d)'
  BY <1>1, <1>2, <1>3, NewsOfAll, NewsKept
<1>5. NewsOf(c)'
  <2>1. 1 .. Len(inbox'[c]) = {}
    BY <1>2
  <2>2. NewsOf(c)
    BY NewsOfAll
  <2>3. /\ \A j \in 1 .. Len(heard'[c]) : Done(heard[c][j])'
        /\ \A j, k \in 1 .. Len(heard'[c]) : j < k => Before(heard[c][j], heard[c][k])'
    BY <1>1, <2>2 DEF NewsOf, Done, Before, Contains
  <2> QED
    BY <2>1, <2>3 DEF NewsOf
<1>6. QED
  BY <1>4, <1>5 DEF NewsInOrder, NewsOf

LEMMA NewsService ==
  ASSUME PlacesInv, LogSound, NewsInOrder, NEW i \in Ids, Takes(i)
  PROVE  NewsInOrder'
<1>1. UNCHANGED <<inbox, heard>> /\ ~Contains(log, i) /\ (task' = task \/ task' = i)
  BY DEF Takes
<1>2. /\ Len(log) \in Nat /\ Len(log') \in Nat /\ Len(log) <= Len(log')
      /\ \A k \in 1 .. Len(log) : log'[k] = log[k]
  BY LogService
<1>4. \A k \in 1 .. Len(log) : k \in 1 .. Len(log')
  BY <1>2
<1>5. \A x : Done(x) => Done(x)'
  BY <1>1, <1>2, <1>4 DEF Done, Contains
<1>6. \A x, y : Before(x, y) => Before(x, y)'
  BY <1>2, <1>4 DEF Before
<1>7. \A c \in Clients : NewsOf(c)'
  BY <1>1, <1>5, <1>6, NewsOfAll, NewsKept
<1>8. QED
  BY <1>7 DEF NewsInOrder, NewsOf

LEMMA NewsAnswer ==
  ASSUME PlacesInv, SubscribersSound, LogSound, NewsInOrder, Answer
  PROVE  NewsInOrder'
<1>0. TypeOK /\ Len(log) \in Nat
  BY LenProperties DEF PlacesInv, TypeOK
<1>1. UNCHANGED <<heard, log>> /\ task # NoMessage /\ task' = NoMessage /\ task \in Ids
  BY <1>0 DEF Answer, caller, history, TypeOK
<1>2. NoMessage \notin Ids
  BY Constants DEF NoMessage
<1>3. PICK t \in Ids : t = task
  BY <1>1
<1>4. /\ \A x \in Ids : Done(x) => Done(x)'
      /\ \A x, y : Before(x, y) => Before(x, y)'
  BY <1>1, <1>2 DEF Done, Before, Contains
<1>5. ASSUME parsed
      PROVE  Done(t)' /\ \A x \in Ids : Done(x) => Before(x, t)'
  <2>1. log # <<>> /\ log[Len(log)] = t
    BY <1>1, <1>3, <1>5 DEF LogSound
  <2>2. Len(log) \in 1 .. Len(log)
    BY <1>0, <2>1, EmptySeq DEF TypeOK
  <2>3. Done(t)'
    BY <1>1, <1>2, <2>1, <2>2 DEF Done, Contains
  <2>4. ASSUME NEW x \in Ids, Done(x) PROVE Before(x, t)
    <3>1. PICK j \in 1 .. Len(log) : log[j] = x
      BY <2>4 DEF Done, Contains
    <3>2. x # t
      BY <1>3, <2>4 DEF Done
    <3>3. j < Len(log)
      BY <1>0, <2>1, <2>2, <3>1, <3>2
    <3> QED
      BY <2>1, <2>2, <3>1, <3>3 DEF Before
  <2> QED
    BY <1>4, <2>3, <2>4
<1>6. SUFFICES ASSUME NEW c \in Clients PROVE NewsOf(c)'
  BY DEF NewsInOrder, NewsOf
<1>7. NewsOf(c)
  BY NewsOfAll
<1>8. /\ Len(inbox[c]) \in Nat
      /\ \A k \in 1 .. Len(inbox[c]) : inbox'[c][k] = inbox[c][k]
      /\ \A k \in 1 .. Len(inbox'[c]) : IsNews(c, k)' =>
           \/ /\ k \in 1 .. Len(inbox[c]) /\ IsNews(c, k)
              /\ inbox'[c][k].id = inbox[c][k].id /\ inbox[c][k].id \in Ids
           \/ /\ parsed /\ k = Len(inbox'[c]) /\ inbox'[c][k].id = t
              /\ k \notin 1 .. Len(inbox[c])
  <2>1. /\ Len(inbox[c]) \in Nat
        /\ \A k \in 1 .. Len(inbox[c]) : inbox'[c][k] = inbox[c][k]
        /\ \A k \in 1 .. Len(inbox'[c]) : inbox'[c][k].to = "all" =>
             \/ k \in 1 .. Len(inbox[c])
             \/ parsed /\ k = Len(inbox'[c]) /\ inbox'[c][k].id = t
    BY <1>3, AllArrives
  <2>2. \A k \in 1 .. Len(inbox[c]) : inbox[c][k].id \in Ids
    BY <1>0, Lengths DEF Notices
  <2> QED
    BY <2>1, <2>2 DEF IsNews
<1>9. \A j \in 1 .. Len(heard[c]) : heard[c][j] \in Ids
  BY <1>0, ElementOfSeq DEF TypeOK
<1>10. \A j \in 1 .. Len(heard[c]) : Done(heard[c][j]) /\ Done(heard[c][j])'
  <2>1. SUFFICES ASSUME NEW j \in 1 .. Len(heard[c])
                 PROVE  Done(heard[c][j]) /\ Done(heard[c][j])'
    OBVIOUS
  <2>2. Done(heard[c][j])
    BY <1>7 DEF NewsOf
  <2> QED
    BY <1>1, <1>2, <1>9, <2>2 DEF Done, Contains
<1>11. \A k \in 1 .. Len(inbox'[c]) : IsNews(c, k)' => Done(inbox[c][k].id)'
  <2>1. SUFFICES ASSUME NEW k \in 1 .. Len(inbox'[c]), IsNews(c, k)'
                 PROVE  \E x : x = inbox'[c][k].id /\ Done(x)'
    BY DEF Done
  <2>2. CASE k \in 1 .. Len(inbox[c])
    BY <1>4, <1>7, <1>8, <2>1, <2>2 DEF NewsOf
  <2>3. CASE k \notin 1 .. Len(inbox[c])
    BY <1>5, <1>8, <2>1, <2>3
  <2> QED
    BY <2>2, <2>3
<1>12. \A j, k \in 1 .. Len(heard'[c]) : j < k => Before(heard[c][j], heard[c][k])'
  BY <1>1, <1>7 DEF NewsOf, Before
<1>13. \A j \in 1 .. Len(heard'[c]), k \in 1 .. Len(inbox'[c]) :
         IsNews(c, k)' => Before(heard[c][j], inbox[c][k].id)'
  <2>1. SUFFICES ASSUME NEW j \in 1 .. Len(heard[c]), NEW k \in 1 .. Len(inbox'[c]), IsNews(c, k)'
                 PROVE  \E x, y : x = heard[c][j] /\ y = inbox'[c][k].id /\ Before(x, y)'
    BY <1>1 DEF Before
  <2>2. CASE k \in 1 .. Len(inbox[c])
    BY <1>4, <1>7, <1>8, <2>1, <2>2 DEF NewsOf
  <2>3. CASE k \notin 1 .. Len(inbox[c])
    BY <1>5, <1>8, <1>9, <1>10, <2>1, <2>3
  <2> QED
    BY <2>2, <2>3
<1>14. \A j, k \in 1 .. Len(inbox'[c]) :
         IsNews(c, j)' /\ IsNews(c, k)' /\ j < k => Before(inbox[c][j].id, inbox[c][k].id)'
  <2>1. SUFFICES ASSUME NEW j \in 1 .. Len(inbox'[c]), NEW k \in 1 .. Len(inbox'[c]),
                        IsNews(c, j)', IsNews(c, k)', j < k
                 PROVE  \E x, y : x = inbox'[c][j].id /\ y = inbox'[c][k].id /\ Before(x, y)'
    BY DEF Before
  <2>2. j \in 1 .. Len(inbox[c])
    <3>1. j # Len(inbox'[c])
      BY <2>1
    <3> QED
      BY <1>8, <2>1, <3>1
  <2>3. CASE k \in 1 .. Len(inbox[c])
    BY <1>4, <1>7, <1>8, <2>1, <2>2, <2>3 DEF NewsOf
  <2>4. CASE k \notin 1 .. Len(inbox[c])
    <3>1. parsed /\ inbox'[c][k].id = t
      BY <1>8, <2>1, <2>4
    <3>2. inbox'[c][j].id = inbox[c][j].id /\ inbox[c][j].id \in Ids /\ Done(inbox[c][j].id)
      BY <1>7, <1>8, <2>1, <2>2 DEF NewsOf
    <3> QED
      BY <1>5, <3>1, <3>2
  <2> QED
    BY <2>3, <2>4
<1>15. QED
  BY <1>1, <1>10, <1>11, <1>12, <1>13, <1>14 DEF NewsOf

-----------------------------------------------------------------------------
(* All of it together.                                                     *)

HeardInv ==
  /\ WatchersSubscribe /\ AudienceSubscribes /\ SubscribersSound
  /\ LogSound /\ AudienceTold /\ NewsInOrder

LEMMA HeardInit == Init => HeardInv
<1> SUFFICES ASSUME Init PROVE HeardInv
  OBVIOUS
<1>1. /\ Len(<<>>) = 0 /\ 1 .. 0 = {} /\ NoMessage = 0
      /\ \A x : ~Contains(<<>>, x)
  BY DEF NoMessage, Contains
<1>2. WatchersSubscribe
  BY DEF Init, WatchersSubscribe, Watching
<1>3. AudienceSubscribes /\ SubscribersSound
  BY <1>1 DEF Init, AudienceSubscribes, SubscribersSound
<1>4. LogSound
  BY <1>1 DEF Init, LogSound
<1>5. AudienceTold
  BY <1>1 DEF Init, AudienceTold, Done
<1>6. NewsInOrder
  BY <1>1 DEF Init, NewsInOrder
<1>7. QED
  BY <1>2, <1>3, <1>4, <1>5, <1>6 DEF HeardInv

(* Whoever subscribed, did so with a message that is still known.          *)
LEMMA SubscribersKept ==
  ASSUME SubscribersSound, UNCHANGED subscribers,
         Len(sent) <= Len(sent'), Len(sent) \in Nat, Len(sent') \in Nat,
         \A i \in 1 .. Len(sent) : sent'[i] = sent[i]
  PROVE  SubscribersSound'
<1>1. \A i \in 1 .. Len(sent) : i \in 1 .. Len(sent')
  OBVIOUS
<1>2. QED
  BY <1>1 DEF SubscribersSound, IsAdd

LEMMA HeardStep == PlacesInv /\ HeardInv /\ [Next]_vars /\ TypeOK' => HeardInv'
<1> SUFFICES ASSUME PlacesInv, HeardInv, [Next]_vars, TypeOK' PROVE HeardInv'
  OBVIOUS
<1>0. /\ WatchersSubscribe /\ AudienceSubscribes /\ SubscribersSound
      /\ LogSound /\ AudienceTold /\ NewsInOrder
  BY DEF HeardInv
<1>1. TypeOK /\ Len(sent) \in Nat /\ 1 .. Len(sent) \subseteq Ids
  BY Lengths DEF PlacesInv
<1>2. ASSUME NEW c \in Clients, ClientCalls(c) PROVE HeardInv'
  <2>1. /\ UNCHANGED <<queue, task, parsed, subscribers, inbox, log, heard>>
        /\ Len(sent') \in Nat /\ Len(sent) <= Len(sent')
        /\ \A i \in 1 .. Len(sent) : sent'[i] = sent[i] /\ state'[i] = state[i]
    BY <1>2, CallEffect
  <2>2. WatchersSubscribe' /\ AudienceSubscribes' /\ AudienceTold'
    BY <1>0, <1>2, WatchersCall, AudienceCall, ToldCall
  <2>3. SubscribersSound' /\ LogSound' /\ NewsInOrder'
    BY <1>0, <1>1, <2>1, SubscribersKept, LogKept, NewsSame
  <2> QED
    BY <2>2, <2>3 DEF HeardInv
<1>3. ASSUME NEW c \in Clients, ClientContinues(c) PROVE HeardInv'
  <2>1. UNCHANGED <<sent, task, parsed, subscribers, inbox, log, heard>>
    BY <1>3, ContinueEffect
  <2>2. WatchersSubscribe' /\ AudienceSubscribes' /\ AudienceTold'
    BY <1>0, <1>3, WatchersContinue, AudienceContinue, ToldContinue
  <2>3. SubscribersSound' /\ NewsInOrder'
    BY <1>0, <1>1, <2>1, SubscribersKept, NewsSame
  <2>4. \A x \in 1 .. Len(sent) : state[x] \in {"accepted", "answered"} =>
          /\ state'[x] \in {"accepted", "answered"}
          /\ ~Contains(queue, x) => ~Contains(queue', x)
    <3>1. CASE UNCHANGED <<queue, state>>
      BY <3>1
    <3>2. CASE \E i \in Ids : Ends(c, i)
      <4>1. PICK i \in Ids : Ends(c, i)
        BY <3>2
      <4>2. /\ state[i] = "calling" /\ ~Contains(queue, i)
            /\ \A x \in Ids \ {i} : state'[x] = state[x]
            /\ queue' = queue \/ queue' = Append(queue, i)
        BY <4>1 DEF Ends
      <4>3. \A x \in Ids : Contains(queue', x) => Contains(queue, x) \/ x = i
        BY <1>1, <4>2, Enqueued DEF PlacesInv
      <4> QED
        BY <1>1, <4>2, <4>3
    <3> QED
      BY <1>3, <3>1, <3>2, ContinueEffect
  <2>5. LogSound'
    BY <1>0, <1>1, <2>1, <2>4, LogKept
  <2> QED
    BY <2>2, <2>3, <2>5 DEF HeardInv
<1>4. ASSUME NEW c \in Clients, Deliver(c) PROVE HeardInv'
  <2>1. /\ UNCHANGED <<sent, queue, task, parsed, subscribers, alive, log, audience>>
        /\ UNCHANGED <<pc, current, listener, watch>>
        /\ \A i \in Ids : state'[i] = state[i] \/ (state[i] = "accepted" /\ state'[i] = "answered")
    BY <1>4, DeliverEffect
  <2>2. WatchersSubscribe' /\ SubscribersSound'
    BY <1>0, <2>1 DEF WatchersSubscribe, SubscribersSound, Watching, SubscribedAfter, IsAdd,
                      IsRemove, IsRequest, Contains
  <2>3. AudienceSubscribes'
    <3>1. \A i \in Ids : \A d \in audience'[i] :
            d \in alive' /\ \A x : Watches(d, x) => Watches(d, x)'
      BY <1>0, <2>1 DEF AudienceSubscribes, Watches
    <3> QED
      BY <1>0, <1>1, <2>1, <3>1, AudienceKept
  <2>4. LogSound'
    <3>1. \A x \in 1 .. Len(sent) : state[x] \in {"accepted", "answered"} =>
            state'[x] \in {"accepted", "answered"}
      BY <1>1, <2>1
    <3> QED
      BY <1>0, <1>1, <2>1, <3>1, LogKept
  <2>5. AudienceTold' /\ NewsInOrder'
    BY <1>0, <1>4, ToldDeliver, NewsDeliver
  <2> QED
    BY <2>2, <2>3, <2>4, <2>5 DEF HeardInv
<1>5. ASSUME NEW c \in Clients, Die(c) PROVE HeardInv'
  <2>1. UNCHANGED <<queue, task, parsed, subscribers, sent, state, log>>
    BY <1>5 DEF Die, server
  <2>2. SubscribersSound' /\ LogSound'
    BY <1>0, <1>1, <2>1, SubscribersKept, LogKept
  <2>3. WatchersSubscribe' /\ AudienceSubscribes' /\ AudienceTold' /\ NewsInOrder'
    BY <1>0, <1>5, WatchersDie, AudienceDie, ToldDie, NewsDie
  <2> QED
    BY <2>2, <2>3 DEF HeardInv
<1>6. ASSUME NEW i \in Ids, Takes(i) PROVE HeardInv'
  <2>1. WatchersSubscribe'
    BY <1>0, <1>6, WatchersTaken
  <2>2. /\ AudienceSubscribes' /\ SubscribersSound' /\ LogSound'
        /\ AudienceTold' /\ NewsInOrder'
    BY <1>0, <1>6, AudienceService, SubscribersService, LogService, ToldService, NewsService
  <2> QED
    BY <2>1, <2>2 DEF HeardInv
<1>7. CASE Answer
  <2>1. /\ UNCHANGED <<queue, subscribers, sent, audience, alive, watch, pc, current, listener>>
        /\ task' = NoMessage
    BY <1>7 DEF Answer, caller, history
  <2>2. WatchersSubscribe' /\ SubscribersSound' /\ AudienceSubscribes'
    BY <1>0, <2>1 DEF WatchersSubscribe, AudienceSubscribes, SubscribersSound, Watching, Watches,
                      SubscribedAfter, IsAdd, IsRemove, IsRequest, Contains
  <2>3. LogSound' /\ AudienceTold' /\ NewsInOrder'
    BY <1>0, <1>7, LogAnswer, ToldAnswer, NewsAnswer
  <2> QED
    BY <2>2, <2>3 DEF HeardInv
<1>8. CASE UNCHANGED vars
  <2>1. UNCHANGED <<queue, task, parsed, subscribers, sent, state, audience, alive, watch, pc,
                    current, listener, inbox, heard, log>>
    BY <1>8 DEF vars, server, caller, history
  <2>2. WatchersSubscribe' /\ SubscribersSound' /\ AudienceSubscribes'
    BY <1>0, <2>1 DEF WatchersSubscribe, AudienceSubscribes, SubscribersSound, Watching, Watches,
                      SubscribedAfter, IsAdd, IsRemove, IsRequest, Contains
  <2>3. LogSound' /\ NewsInOrder'
    BY <1>0, <1>1, <2>1, LogKept, NewsSame
  <2>4. AudienceTold'
    BY <1>0, <2>1 DEF AudienceTold, RegistrantsLive, Done, Told, Contains
  <2> QED
    BY <2>2, <2>3, <2>4 DEF HeardInv
<1>9. QED
  BY <1>0, <1>2, <1>3, <1>4, <1>5, <1>6, <1>7, <1>8, ServiceEffect DEF Next

LEMMA HeardInvariant == Spec => [](PlacesInv /\ HeardInv)
<1>1. PlacesInv => TypeOK
  BY DEF PlacesInv
<1>2. PlacesInv /\ HeardInv /\ [Next]_vars => (PlacesInv /\ HeardInv)'
  <2>1. SUFFICES ASSUME PlacesInv, HeardInv, [Next]_vars PROVE (PlacesInv /\ HeardInv)'
    OBVIOUS
  <2>2. PlacesInv'
    BY <2>1, PlacesStep
  <2>3. TypeOK'
    BY <2>2 DEF PlacesInv
  <2> QED
    BY <2>1, <2>2, <2>3, HeardStep
<1>3. QED
  BY <1>2, PlacesInit, HeardInit, PTL DEF Spec

(* Whoever has subscribed when a request is accepted, and stays subscribed,*)
(* is told its result, although his registration may still wait in the     *)
(* queue then; unless a client that registered has died.                   *)
THEOREM SubscribersTold == Spec => []NotMissed
<1>1. AudienceTold => NotMissed
  BY DEF AudienceTold, NotMissed, RegistrantsLive
<1>2. QED
  BY <1>1, HeardInvariant, PTL DEF HeardInv

(* The status callbacks of every client are called in the order in which   *)
(* the installer ran, once for each run.                                   *)
THEOREM StatusInOrder == Spec => []HeardInOrder
<1>1. PlacesInv /\ HeardInv => HeardInOrder
  <2>1. SUFFICES ASSUME PlacesInv, HeardInv,
                        NEW c \in Clients,
                        NEW j \in DOMAIN heard[c], NEW k \in DOMAIN heard[c], j < k
                 PROVE  \E a, b \in DOMAIN log :
                          a < b /\ log[a] = heard[c][j] /\ log[b] = heard[c][k]
    BY DEF HeardInOrder
  <2>2. TypeOK /\ NewsInOrder
    BY <2>1 DEF PlacesInv, HeardInv
  <2>3. DOMAIN log = 1 .. Len(log) /\ DOMAIN heard[c] = 1 .. Len(heard[c])
    BY <2>2, LenProperties DEF TypeOK
  <2>4. Before(heard[c][j], heard[c][k])
    BY <2>1, <2>2, <2>3 DEF NewsInOrder
  <2> QED
    BY <2>3, <2>4 DEF Before
<1>2. QED
  BY <1>1, HeardInvariant, PTL
=============================================================================
