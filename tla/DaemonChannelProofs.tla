------------------------- MODULE DaemonChannelProofs ------------------------
(***************************************************************************)
(* Theorems about DaemonChannel, for any number of callers, calls and      *)
(* deaths of the daemon.                                                   *)
(***************************************************************************)
EXTENDS DaemonChannel, ListLemmas

(* What the places of an actor say about the kind of actor it is. *)
PlacesOK ==
  /\ \A c \in Callers : pc[c] \in {"idle", "lock", "invoke", "wait", "read", "reset"}
  /\ pc[Main] \in {"invoke", "wait", "read", "reset", "watch", "done"}
  /\ pc[Ipc] \in {"idle", "check", "post"}

(* Nothing happens before Initialize has linked the death recipient. *)
Starting ==
  InCall(Main) =>
    /\ ~initialized /\ ~watching /\ notices = 0 /\ mutex = Nobody
    /\ \A a \in Callers \cup Threads : pc[a] = "idle"

(* Whoever is in a call holds the mutex, but for Initialize. *)
Holds == \A a \in Callers \cup Threads : InCall(a) => mutex = a

MutexInv == TypeOK /\ PlacesOK /\ Starting /\ Holds

-----------------------------------------------------------------------------
(* Go moves one actor. *)
LEMMA GoMoves ==
  ASSUME pc \in [Actors -> Places], NEW a \in Actors, NEW from, NEW to \in Places,
         Go(a, from, to)
  PROVE  /\ pc' \in [Actors -> Places]
         /\ pc[a] = from /\ pc'[a] = to
         /\ \A x \in Actors : x # a => pc'[x] = pc[x]
BY DEF Go

(* The actors of each kind, apart from each other. *)
LEMMA Kinds ==
  /\ Main \in Actors /\ Ipc \in Actors /\ Main # Ipc
  /\ Callers \subseteq Actors /\ Threads \subseteq Actors /\ Registrars \subseteq Actors
  /\ Main \notin Callers \cup Threads /\ Ipc \notin Callers \cup Threads
  /\ Callers \cap Threads = {} /\ Nobody \notin Actors
  /\ Registrars = Threads \cup {Main}
  /\ MaxCalls \in Nat /\ MaxDeaths \in Nat
BY ChannelAssumption DEF Actors, Registrars

(* Answers and the special ones among them. *)
LEMMA AnswerTypes ==
  /\ Unset \in Answers /\ Canceled \in Answers
  /\ Registration \in Tickets
  /\ \A n \in Tickets : Success(n) \in Answers
BY Kinds DEF Unset, Canceled, Success, Answers, Codes, Tickets, Registration

LEMMA AfterPostType == \A a \in Actors : AfterPost(a) \in Places
BY DEF AfterPost, Places

-----------------------------------------------------------------------------
(* The steps of a thread of the service, with what they share. *)
LEMMA ServiceTypeStep ==
  ASSUME TypeOK, NEW a \in Actors,
         \/ a \in Callers /\ (Call(a) \/ CallerStep(a))
         \/ a \in Registrars /\ RegistrarStep(a)
         \/ a \in Threads /\ DeathStep(a)
         \/ a = Ipc /\ IpcStep
  PROVE  TypeOK'
<1> USE Kinds DEF TypeOK
<1>1. CASE a \in Callers /\ Call(a)
  <2>1. calls' \in Tickets BY <1>1 DEF Call, Tickets
  <2>2. pc' \in [Actors -> Places] BY <1>1, GoMoves DEF Call, Places
  <2> QED BY <1>1, <2>1, <2>2 DEF Call, client, flags, answers, daemon, network
<1>2. CASE a \in Callers \cup Threads /\ Lock(a)
  <2>1. pc' \in [Actors -> Places] BY <1>2, GoMoves DEF Lock, Places
  <2> QED BY <1>2, <2>1 DEF Lock, rest, flags, threads, answers, daemon, network
<1>3. CASE a \in Callers /\ Invoke(a)
  <2>1. pc' \in [Actors -> Places] BY <1>3, GoMoves DEF Invoke, Places
  <2>2. requests' \in Seq(Tickets) BY <1>3 DEF Invoke, Send
  <2> QED BY <1>3, <2>1, <2>2 DEF Invoke, Send, client, flags, threads, answers
<1>4. CASE a \in Callers /\ InvokeFails(a)
  <2>1. pc' \in [Actors -> Places] BY <1>4, GoMoves DEF InvokeFails, Places
  <2> QED BY <1>4, <2>1 DEF InvokeFails, rest, flags, threads, answers, daemon, network
<1>5. CASE SemWait(a)
  <2>1. pc' \in [Actors -> Places] BY <1>5, GoMoves DEF SemWait, Places
  <2> QED BY <1>5, <2>1 DEF SemWait, rest, flags, threads, answers, daemon, network
<1>6. CASE a \in Callers \cup Registrars /\ ReadResult(a)
  <2>1. pc' \in [Actors -> Places] BY <1>6, GoMoves DEF ReadResult, Places
  <2>2. answer' \in [Callers \cup Registrars -> Answers] BY <1>6 DEF ReadResult
  <2>3. given' \subseteq Tickets BY <1>6 DEF ReadResult, Answers
  <2> QED BY <1>6, <2>1, <2>2, <2>3 DEF ReadResult, client, flags, threads, daemon, network
<1>7. CASE a \in Callers /\ Return(a)
  <2>1. pc' \in [Actors -> Places] BY <1>7, GoMoves DEF Return, Places
  <2> QED BY <1>7, <2>1, AnswerTypes
          DEF Return, rest, flags, threads, answers, daemon, network
<1>8. CASE a \in Registrars /\ RegisterInvoke(a)
  <2>1. pc' \in [Actors -> Places] BY <1>8, GoMoves DEF RegisterInvoke, Places
  <2>2. requests' \in Seq(Tickets) BY <1>8, AnswerTypes DEF RegisterInvoke, Send
  <2> QED BY <1>8, <2>1, <2>2 DEF RegisterInvoke, Send, client, flags, threads, answers
<1>9. CASE a \in Registrars /\ RegisterReset(a)
  <2>1. pc' \in [Actors -> Places] BY <1>9, GoMoves DEF RegisterReset, Places
  <2> QED BY <1>9, <2>1, AnswerTypes
          DEF RegisterReset, rest, flags, threads, answers, daemon, network
<1>10. CASE a \in Registrars /\ Watch(a)
  <2>1. pc' \in [Actors -> Places] BY <1>10, GoMoves DEF Watch, Places
  <2> QED BY <1>10, <2>1 DEF Watch, threads, answers, daemon, network
<1>11. CASE a \in Threads /\ DeathCallback(a)
  <2>1. pc' \in [Actors -> Places] BY <1>11, GoMoves DEF DeathCallback, Places
  <2> QED BY <1>11, <2>1 DEF DeathCallback, client, flags, answers
<1>12. CASE a \in Threads /\ Cancel(a)
  <2>1. pc' \in [Actors -> Places] BY <1>12, GoMoves DEF Cancel, Places
  <2> QED BY <1>12, <2>1, AnswerTypes
          DEF Cancel, rest, flags, threads, answers, daemon, network
<1>13. CASE Check(a)
  <2> DEFINE next == IF sem = 0 THEN "post" ELSE AfterPost(a)
  <2>0. next \in Places BY AfterPostType DEF Places
  <2>1. pc' \in [Actors -> Places] BY <2>0, <1>13, GoMoves DEF Check
  <2> QED BY <1>13, <2>1 DEF Check, client, flags, threads, answers, daemon, network
<1>14. CASE Post(a)
  <2>1. pc' \in [Actors -> Places] BY <1>14, GoMoves, AfterPostType DEF Post
  <2> QED BY <1>14, <2>1 DEF Post, rest, flags, threads, answers, daemon, network
<1>15. CASE a = Ipc /\ BundleDaemonCallback
  <2>1. pc' \in [Actors -> Places] BY <1>15, GoMoves DEF BundleDaemonCallback, Places
  <2>2. result' \in Answers /\ replies' \in Seq(Answers) BY <1>15 DEF BundleDaemonCallback
  <2> QED BY <1>15, <2>1, <2>2 DEF BundleDaemonCallback, flags, threads, answers
<1> QED BY <1>1, <1>2, <1>3, <1>4, <1>5, <1>6, <1>7, <1>8, <1>9, <1>10, <1>11, <1>12,
           <1>13, <1>14, <1>15 DEF CallerStep, RegistrarStep, DeathStep, IpcStep

(* The steps of the daemon, its death and its restart. *)
LEMMA DaemonTypeStep ==
  ASSUME TypeOK, DaemonStep \/ Die \/ Restart
  PROVE  TypeOK'
<1> USE Kinds DEF TypeOK
<1>1. CASE Register
  <2>1. requests' \in Seq(Tickets) BY <1>1 DEF Register
  <2>2. ran' \in Seq(Answers) BY <1>1, AnswerTypes DEF Register
  <2> QED BY <1>1, <2>1, <2>2 DEF Register, client, flags, threads, answers
<1>2. CASE Execute
  <2>1. PICK code \in {"EC_SUCCESS", "EC_FAILURE"} :
          /\ ran' = <<[code |-> code, of |-> Head(requests)]>>
          /\ executed' = executed \cup {[code |-> code, of |-> Head(requests)]}
    BY <1>2 DEF Execute
  <2>2. [code |-> code, of |-> Head(requests)] \in Answers
    BY <1>2 DEF Execute, Answers, Codes
  <2>3. requests' \in Seq(Tickets) BY <1>2 DEF Execute
  <2> QED BY <1>2, <2>1, <2>2, <2>3 DEF Execute, client, flags, threads, answers
<1>3. CASE Refuse
  <2>1. requests' \in Seq(Tickets) BY <1>3 DEF Refuse
  <2> QED BY <1>3, <2>1 DEF Refuse, client, flags, threads, answers
<1>4. CASE SendReply
  <2>1. replies' \in Seq(Answers) /\ ran' \in Seq(Answers) BY <1>4 DEF SendReply
  <2> QED BY <1>4, <2>1 DEF SendReply, client, flags, threads, answers
<1>5. CASE Die
  <2>1. deaths' \in 0 .. MaxDeaths BY <1>5 DEF Die
  <2>2. notices' \in Nat BY <1>5 DEF Die
  <2>3. requests' \in Seq(Tickets) /\ ran' \in Seq(Answers) BY <1>5 DEF Die
  <2> QED BY <1>5, <2>1, <2>2, <2>3 DEF Die, threads, answers
<1>6. CASE Restart
  BY <1>6 DEF Restart, client, flags, threads, answers, network
<1> QED BY <1>1, <1>2, <1>3, <1>4, <1>5, <1>6 DEF DaemonStep

LEMMA ChannelTypeInit == Init => TypeOK
<1> SUFFICES ASSUME Init PROVE TypeOK OBVIOUS
<1>1. pc \in [Actors -> Places] BY DEF Init, Places
<1>2. answer \in [Callers \cup Registrars -> Answers] /\ result \in Answers
  BY AnswerTypes DEF Init
<1>3. ticket \in [Callers -> Tickets] BY AnswerTypes DEF Init
<1>4. requests \in Seq(Tickets) /\ ran \in Seq(Answers) /\ replies \in Seq(Answers)
  BY DEF Init
<1>5. calls \in Tickets /\ deaths \in 0 .. MaxDeaths BY Kinds DEF Init, Tickets
<1> QED BY <1>1, <1>2, <1>3, <1>4, <1>5 DEF Init, TypeOK

(* TypeOK holds always: in particular nobody takes the semaphore below     *)
(* zero, whatever posts it.                                                *)
THEOREM ChannelTypeCorrect == Spec => []TypeOK
<1>1. Init => TypeOK BY ChannelTypeInit
<1>2. TypeOK /\ [Next]_vars => TypeOK'
  <2> SUFFICES ASSUME TypeOK, [Next]_vars PROVE TypeOK' OBVIOUS
  <2>1. CASE Next
    BY <2>1, ServiceTypeStep, DaemonTypeStep, Kinds DEF Next
  <2>2. CASE UNCHANGED vars
    BY <2>2 DEF TypeOK, vars, client, flags, threads, answers, daemon, network
  <2> QED BY <2>1, <2>2
<1> QED BY <1>1, <1>2, PTL DEF Spec

-----------------------------------------------------------------------------
(* Mutual exclusion                                                        *)

(* A step of actor a that neither takes nor frees the mutex and does not   *)
(* begin a call keeps every holder. *)
LEMMA HoldsKept ==
  ASSUME MutexInv, NEW a \in Actors, mutex' = mutex,
         \A x \in Actors : x # a => pc'[x] = pc[x],
         InCall(a)' => InCall(a)
  PROVE  Holds'
BY Kinds DEF MutexInv, Holds, InCall

(* A step that ends the call of a frees the mutex that a held, or that     *)
(* nobody held when a is the thread in Initialize. *)
LEMMA HoldsFreed ==
  ASSUME MutexInv, NEW a \in Actors \ {Ipc}, InCall(a), ~InCall(a)',
         \A x \in Actors : x # a => pc'[x] = pc[x]
  PROVE  Holds'
<1>1. CASE a = Main
  BY <1>1, Kinds DEF MutexInv, Holds, Starting, InCall
<1>2. CASE a \in Callers \cup Threads
  BY <1>2, Kinds DEF MutexInv, Holds, InCall
<1> QED BY <1>1, <1>2, Kinds DEF Actors

(* While Initialize runs only its thread and the IPC thread take steps. *)
LEMMA StartingKept ==
  ASSUME MutexInv, NEW a \in Actors,
         \/ a \in Callers /\ (Call(a) \/ CallerStep(a))
         \/ a \in Registrars /\ RegistrarStep(a)
         \/ a \in Threads /\ DeathStep(a)
         \/ a = Ipc /\ IpcStep
  PROVE  Starting'
<1> SUFFICES ASSUME InCall(Main)' PROVE Starting'
  BY DEF Starting
<1> USE Kinds DEF MutexInv
<1>1. a \in Callers \cup Threads => pc[a] # "idle" \/ initialized \/ notices > 0
  BY DEF Call, CallerStep, RegistrarStep, DeathStep, Lock, Invoke, InvokeFails, SemWait,
         ReadResult, Return, RegisterInvoke, RegisterReset, Watch, DeathCallback, Cancel,
         Check, Post, Go
<1>2. CASE a = Main
  <2>1. InCall(Main)
    BY <1>2 DEF RegistrarStep, RegisterInvoke, SemWait, ReadResult, RegisterReset,
                Watch, Go, InCall
  <2>2. ~Watch(Main) BY GoMoves, <1>2 DEF Watch, InCall, TypeOK, Places
  <2>3. \A x \in Actors : x # Main => pc'[x] = pc[x]
    BY <1>2 DEF RegistrarStep, RegisterInvoke, SemWait, ReadResult, RegisterReset,
                Watch, Go, TypeOK
  <2> QED BY <1>2, <2>1, <2>2, <2>3
          DEF Starting, RegistrarStep, RegisterInvoke, SemWait, ReadResult, RegisterReset,
              Send, client, flags, rest, daemon, network
<1>3. CASE a = Ipc
  <2>1. \A x \in Actors : x # Ipc => pc'[x] = pc[x]
    BY <1>3 DEF IpcStep, BundleDaemonCallback, Check, Post, Go, TypeOK
  <2>2. InCall(Main) BY <2>1 DEF InCall
  <2> QED BY <1>3, <2>1, <2>2
          DEF Starting, IpcStep, BundleDaemonCallback, Check, Post, client, flags, rest,
              daemon, network
<1>4. CASE a \in Callers \cup Threads
  <2>1. pc'[Main] = pc[Main]
    BY <1>4 DEF Call, CallerStep, RegistrarStep, DeathStep, Lock, Invoke, InvokeFails,
                SemWait, ReadResult, Return, RegisterInvoke, RegisterReset, Watch,
                DeathCallback, Cancel, Check, Post, Go, TypeOK
  <2>2. InCall(Main) BY <2>1 DEF InCall
  <2> QED BY <1>1, <1>4, <2>2 DEF Starting
<1> QED BY <1>2, <1>3, <1>4 DEF Actors

LEMMA PlacesStep ==
  ASSUME MutexInv, NEW a \in Actors,
         \/ a \in Callers /\ (Call(a) \/ CallerStep(a))
         \/ a \in Registrars /\ RegistrarStep(a)
         \/ a \in Threads /\ DeathStep(a)
         \/ a = Ipc /\ IpcStep
  PROVE  PlacesOK'
<1> USE Kinds DEF MutexInv
<1>1. \A x \in Actors : x # a => pc'[x] = pc[x]
  BY DEF Call, CallerStep, RegistrarStep, DeathStep, IpcStep, Lock, Invoke, InvokeFails,
         SemWait, ReadResult, Return, RegisterInvoke, RegisterReset, Watch, DeathCallback,
         Cancel, Check, Post, BundleDaemonCallback, Go, TypeOK
<1>2. a \in Callers => pc'[a] \in {"idle", "lock", "invoke", "wait", "read", "reset"}
  BY DEF Call, CallerStep, Lock, Invoke, InvokeFails, SemWait, ReadResult, Return, Go, TypeOK
<1>3. a = Main => pc'[a] \in {"invoke", "wait", "read", "reset", "watch", "done"}
  BY DEF RegistrarStep, RegisterInvoke, SemWait, ReadResult, RegisterReset, Watch, Go, TypeOK
<1>4. a = Ipc => pc'[a] \in {"idle", "check", "post"}
  BY DEF IpcStep, BundleDaemonCallback, Check, Post, AfterPost, Go, TypeOK
<1> QED BY <1>1, <1>2, <1>3, <1>4 DEF PlacesOK

LEMMA HoldsStep ==
  ASSUME MutexInv, NEW a \in Actors,
         \/ a \in Callers /\ (Call(a) \/ CallerStep(a))
         \/ a \in Registrars /\ RegistrarStep(a)
         \/ a \in Threads /\ DeathStep(a)
         \/ a = Ipc /\ IpcStep
  PROVE  Holds'
<1> USE Kinds DEF MutexInv
<1>1. \A x \in Actors : x # a => pc'[x] = pc[x]
  BY DEF Call, CallerStep, RegistrarStep, DeathStep, IpcStep, Lock, Invoke, InvokeFails,
         SemWait, ReadResult, Return, RegisterInvoke, RegisterReset, Watch, DeathCallback,
         Cancel, Check, Post, BundleDaemonCallback, Go, TypeOK
<1>2. CASE a \in Callers \cup Threads /\ Lock(a)
  BY <1>1, <1>2 DEF Lock, Holds, InCall
<1>3. CASE \/ a \in Callers /\ (InvokeFails(a) \/ Return(a))
           \/ a \in Registrars /\ Watch(a)
  <2>1. InCall(a) /\ ~InCall(a)' /\ a # Ipc
    BY <1>3, GoMoves DEF InvokeFails, Return, Watch, Go, InCall, TypeOK
  <2> QED BY <1>1, <2>1, HoldsFreed
<1>4. CASE \/ a \in Callers /\ (Call(a) \/ Invoke(a) \/ SemWait(a) \/ ReadResult(a))
           \/ a \in Registrars /\ ( \/ RegisterInvoke(a) \/ SemWait(a) \/ ReadResult(a)
                                   \/ RegisterReset(a) )
           \/ a \in Threads /\ (DeathCallback(a) \/ Cancel(a) \/ Check(a) \/ Post(a))
           \/ a = Ipc /\ IpcStep
  <2>1. mutex' = mutex
    BY <1>4 DEF Call, Invoke, SemWait, ReadResult, RegisterInvoke, RegisterReset,
                DeathCallback, Cancel, Check, Post, IpcStep, BundleDaemonCallback,
                client, flags, rest
  <2>2. InCall(a)' => InCall(a)
    BY <1>4 DEF Call, Invoke, SemWait, ReadResult, RegisterInvoke, RegisterReset,
                DeathCallback, Cancel, Check, Post, IpcStep, BundleDaemonCallback,
                AfterPost, Go, InCall, TypeOK
  <2> QED BY <1>1, <2>1, <2>2, HoldsKept
<1> QED BY <1>2, <1>3, <1>4 DEF CallerStep, RegistrarStep, DeathStep

LEMMA MutexStep == MutexInv /\ [Next]_vars => MutexInv'
<1> SUFFICES ASSUME MutexInv, [Next]_vars PROVE MutexInv' OBVIOUS
<1> USE DEF MutexInv
<1>1. CASE \E c \in Callers : Call(c) \/ CallerStep(c)
  BY <1>1, ServiceTypeStep, PlacesStep, StartingKept, HoldsStep, Kinds
<1>2. CASE \E r \in Registrars : RegistrarStep(r)
  BY <1>2, ServiceTypeStep, PlacesStep, StartingKept, HoldsStep, Kinds
<1>3. CASE \E t \in Threads : DeathStep(t)
  BY <1>3, ServiceTypeStep, PlacesStep, StartingKept, HoldsStep, Kinds
<1>4. CASE IpcStep
  BY <1>4, ServiceTypeStep, PlacesStep, StartingKept, HoldsStep, Kinds
<1>5. CASE DaemonStep \/ Die \/ Restart
  <2>1. TypeOK' BY <1>5, DaemonTypeStep
  <2>2. pc' = pc /\ mutex' = mutex /\ initialized' = initialized
    BY <1>5 DEF DaemonStep, Register, Execute, Refuse, SendReply, Die, Restart, client, flags
  <2>3. ~watching => ~watching' /\ notices' = notices
    BY <1>5 DEF DaemonStep, Register, Execute, Refuse, SendReply, Die, Restart, client,
                flags, network
  <2> QED BY <2>1, <2>2, <2>3 DEF PlacesOK, Starting, Holds, InCall
<1>6. CASE UNCHANGED vars
  BY <1>6 DEF vars, client, flags, threads, answers, daemon, network, TypeOK, PlacesOK,
              Starting, Holds, InCall
<1> QED BY <1>1, <1>2, <1>3, <1>4, <1>5, <1>6 DEF Next

LEMMA MutexInit == Init => MutexInv
<1> SUFFICES ASSUME Init PROVE MutexInv OBVIOUS
<1>1. TypeOK BY ChannelTypeInit
<1>2. PlacesOK BY Kinds DEF Init, PlacesOK
<1>3. Starting BY Kinds DEF Init, Starting
<1>4. Holds BY Kinds DEF Init, Holds, InCall
<1> QED BY <1>1, <1>2, <1>3, <1>4 DEF MutexInv

LEMMA MutexInvariant == Spec => []MutexInv
BY MutexInit, MutexStep, PTL DEF Spec

(* Only one actor is in a call, whatever the daemon does. *)
LEMMA HoldsExclusive == MutexInv => OneInCall
<1> SUFFICES ASSUME MutexInv, NEW x \in Actors, NEW y \in Actors, InCall(x), InCall(y)
             PROVE  x = y
  BY DEF OneInCall
<1>1. x # Ipc /\ y # Ipc BY DEF MutexInv, PlacesOK, InCall
<1>2. CASE x = Main \/ y = Main
  BY <1>1, <1>2, Kinds DEF MutexInv, Starting, InCall, Actors
<1>3. CASE x # Main /\ y # Main
  BY <1>1, <1>3, Kinds DEF MutexInv, Holds, Actors
<1> QED BY <1>2, <1>3

(* The calls of the client exclude each other, and so does the thread that *)
(* registers again after a death of the daemon.                            *)
THEOREM CallsExclude == Spec => []OneInCall
BY MutexInvariant, HoldsExclusive, PTL

-----------------------------------------------------------------------------
(* Whose result a call returns while the daemon lives.  Between a request  *)
(* and the end of its wait there is one token: the request, the result in  *)
(* the daemon, the reply, the callback at work or the posted semaphore.    *)

Waiters == Callers \cup {Main}

Number(a) == IF a = Main THEN Registration ELSE ticket[a]

Own(a, r) == a = Main \/ (r.of = ticket[a] /\ r \in executed)

Rest    == pc[Ipc] = "idle" /\ sem = 0
Quiet   == requests = <<>> /\ ran = <<>> /\ replies = <<>> /\ Rest
Asked(a)  == requests = <<Number(a)>> /\ ran = <<>> /\ replies = <<>> /\ Rest
Served(a) == \E r \in Answers : Own(a, r) /\ requests = <<>> /\ ran = <<r>> /\ replies = <<>> /\ Rest
Replied(a) == \E r \in Answers : Own(a, r) /\ requests = <<>> /\ ran = <<>> /\ replies = <<r>> /\ Rest
Delivered(a) ==
  /\ requests = <<>> /\ ran = <<>> /\ replies = <<>>
  /\ pc[Ipc] \in {"check", "post"} /\ sem = 0 /\ Own(a, result)
Posted(a) ==
  /\ requests = <<>> /\ ran = <<>> /\ replies = <<>>
  /\ pc[Ipc] = "idle" /\ sem = 1 /\ Own(a, result)

Token(a) == Quiet \/ Asked(a) \/ Served(a) \/ Replied(a) \/ Delivered(a) \/ Posted(a)

NoDeath == alive /\ deaths = 0 /\ notices = 0 /\ \A t \in Threads : pc[t] = "idle"

Numbered == \A c \in Callers : pc[c] # "idle" => ticket[c] # Registration

Waiting == \A a \in Waiters : pc[a] = "wait" => Token(a)
Nothing == (\A a \in Waiters : pc[a] # "wait") => Quiet
HasRead == \A a \in Waiters : pc[a] = "read" => Own(a, result)
Returns == \A a \in Waiters : pc[a] = "reset" => Own(a, answer[a])

TokenInv == NoDeath /\ Numbered /\ Waiting /\ Nothing /\ HasRead /\ Returns

TokenUntilDeath == deaths = 0 => TokenInv

LEMMA TokenInit == Init => TokenInv
<1> SUFFICES ASSUME Init PROVE TokenInv OBVIOUS
<1>1. \A a \in Waiters : pc[a] \notin {"wait", "read", "reset"}
  BY Kinds DEF Init, Waiters
<1>2. NoDeath /\ Numbered BY Kinds DEF Init, NoDeath, Numbered
<1>3. Quiet BY Kinds DEF Init, Quiet, Rest
<1> QED BY <1>1, <1>2, <1>3 DEF TokenInv, Waiting, Nothing, HasRead, Returns

(* Someone waits for whatever is under way. *)
LEMMA TokenHasWaiter ==
  ASSUME TokenInv, ~Quiet
  PROVE  \E a \in Waiters : /\ pc[a] = "wait"
                            /\ Asked(a) \/ Served(a) \/ Replied(a) \/ Delivered(a) \/ Posted(a)
BY DEF TokenInv, Nothing, Waiting, Token

(* An actor in a call is the only one. *)
LEMMA OnlyOne ==
  ASSUME MutexInv, NEW a \in Waiters, InCall(a)
  PROVE  \A x \in Waiters : x # a => pc[x] \notin {"wait", "read", "reset"}
<1>1. OneInCall BY HoldsExclusive
<1> QED BY <1>1, Kinds DEF OneInCall, InCall, Waiters

(* Steps of the threads that wait. *)
LEMMA TokenServiceStep ==
  ASSUME MutexInv, TokenInv, NEW a \in Waiters,
         \/ a \in Callers /\ (Call(a) \/ CallerStep(a))
         \/ a = Main /\ RegistrarStep(a)
  PROVE  TokenInv'
<1> USE Kinds DEF Waiters
<1>o. \A x \in Actors : x # a => pc'[x] = pc[x]
  BY DEF Call, CallerStep, RegistrarStep, Lock, Invoke, InvokeFails, SemWait, ReadResult,
         Return, RegisterInvoke, RegisterReset, Watch, Go, MutexInv, TypeOK
<1>p. pc \in [Actors -> Places] BY DEF MutexInv, TypeOK
<1>1. CASE a \in Callers /\ Call(a)
  <2>1. pc[a] = "idle" /\ pc'[a] = "lock" BY <1>1, <1>p DEF Call, Go
  <2>2. ticket'[a] # Registration /\ \A c \in Callers : c # a => ticket'[c] = ticket[c]
    BY <1>1 DEF Call, MutexInv, TypeOK, Tickets, Registration
  <2> QED BY <1>1, <1>o, <2>1, <2>2
          DEF Call, client, flags, answers, daemon, network, TokenInv, NoDeath, Numbered,
              Waiting, Nothing, HasRead, Returns, Token, Quiet, Asked, Served, Replied,
              Delivered, Posted, Rest, Own, Number
<1>2. CASE a \in Callers /\ Lock(a)
  <2>1. pc[a] = "lock" /\ pc'[a] = "invoke" BY <1>2, <1>p DEF Lock, Go
  <2> QED BY <1>2, <1>o, <2>1
          DEF Lock, rest, flags, threads, answers, daemon, network, TokenInv, NoDeath,
              Numbered, Waiting, Nothing, HasRead, Returns, Token, Quiet, Asked, Served,
              Replied, Delivered, Posted, Rest, Own, Number
<1>3. CASE (a \in Callers /\ Invoke(a)) \/ (a = Main /\ RegisterInvoke(a))
  <2>1. pc[a] = "invoke" /\ pc'[a] = "wait" BY <1>3, <1>p DEF Invoke, RegisterInvoke, Go
  <2>2. \A x \in Waiters : x # a => pc[x] \notin {"wait", "read", "reset"}
    BY <2>1, OnlyOne DEF InCall
  <2>3. Quiet BY <2>1, <2>2 DEF TokenInv, Nothing
  <2>4. requests' = <<Number(a)>>
    BY <1>3, <2>3 DEF Invoke, RegisterInvoke, Send, Number, Quiet
  <2>5. Asked(a)'
    BY <1>3, <1>o, <2>3, <2>4
       DEF Invoke, RegisterInvoke, Send, client, flags, threads, Asked, Quiet, Rest, Number
  <2> QED BY <1>3, <1>o, <2>1, <2>2, <2>5
          DEF Invoke, RegisterInvoke, Send, client, flags, threads, answers, TokenInv,
              NoDeath, Numbered, Waiting, Nothing, HasRead, Returns, Token
<1>4. CASE a \in Callers /\ InvokeFails(a)
  BY <1>4 DEF InvokeFails, TokenInv, NoDeath
<1>5. CASE SemWait(a)
  <2>1. pc[a] = "wait" /\ pc'[a] = "read" BY <1>5, <1>p DEF SemWait, Go
  <2>2. \A x \in Waiters : x # a => pc[x] \notin {"wait", "read", "reset"}
    BY <2>1, OnlyOne DEF InCall
  <2>3. Posted(a)
    BY <1>5, <2>1 DEF SemWait, TokenInv, Waiting, Token, Quiet, Asked, Served, Replied,
                      Delivered, Rest
  <2>4. Quiet' /\ Own(a, result)'
    BY <1>5, <1>o, <2>3 DEF SemWait, Posted, Quiet, Rest, Own, rest, flags, threads, answers,
                            daemon, network
  <2> QED BY <1>5, <1>o, <2>1, <2>2, <2>4
          DEF SemWait, rest, flags, threads, answers, daemon, network, TokenInv, NoDeath,
              Numbered, Waiting, Nothing, HasRead, Returns
<1>6. CASE ReadResult(a)
  <2>1. pc[a] = "read" /\ pc'[a] = "reset" BY <1>6, <1>p DEF ReadResult, Go
  <2>2. \A x \in Waiters : x # a => pc[x] \notin {"wait", "read", "reset"}
    BY <2>1, OnlyOne DEF InCall
  <2>3. Quiet BY <2>1, <2>2 DEF TokenInv, Nothing
  <2>4. answer'[a] = result BY <1>6 DEF ReadResult, MutexInv, TypeOK, Registrars
  <2>5. Own(a, answer[a])'
    BY <1>6, <2>1, <2>4 DEF ReadResult, TokenInv, HasRead, Own, threads, daemon
  <2>6. Quiet'
    BY <1>6, <1>o, <2>3 DEF ReadResult, Quiet, Rest, client, daemon, network
  <2> QED BY <1>6, <1>o, <2>1, <2>2, <2>5, <2>6
          DEF ReadResult, client, flags, threads, daemon, network, TokenInv, NoDeath,
              Numbered, Waiting, Nothing, HasRead, Returns
<1>7. CASE (a \in Callers /\ Return(a)) \/ (a = Main /\ RegisterReset(a))
           \/ (a = Main /\ Watch(a))
  <2>1. pc[a] \in {"reset", "watch"} /\ pc'[a] \in {"idle", "watch", "done"}
        /\ (a \in Callers => pc'[a] = "idle")
    BY <1>7, <1>p DEF Return, RegisterReset, Watch, Go
  <2>2. \A x \in Waiters : x # a => pc[x] \notin {"wait", "read", "reset"}
    BY <2>1, OnlyOne DEF InCall
  <2>3. Quiet BY <2>1, <2>2 DEF TokenInv, Nothing
  <2>4. UNCHANGED <<sem, threads, answers, daemon>>
    BY <1>7 DEF Return, RegisterReset, Watch, rest
  <2>5. Quiet' BY <1>o, <2>3, <2>4 DEF Quiet, Rest, daemon, network
  <2> QED BY <1>o, <2>1, <2>2, <2>4, <2>5
          DEF threads, answers, daemon, network, TokenInv, NoDeath, Numbered, Waiting,
              Nothing, HasRead, Returns
<1> QED BY <1>1, <1>2, <1>3, <1>4, <1>5, <1>6, <1>7 DEF CallerStep, RegistrarStep

(* Steps of the IPC thread and of the daemon move the token of the one     *)
(* that waits. *)
LEMMA TokenMoves ==
  ASSUME MutexInv, TokenInv, NEW a \in Waiters, pc[a] = "wait",
         \A x \in Waiters : pc'[x] = pc[x],
         \A t \in Threads : pc'[t] = pc[t],
         alive' = alive, deaths' = deaths, notices' = notices, ticket' = ticket,
         Token(a)'
  PROVE  TokenInv'
<1>1. \A x \in Waiters : x # a => pc[x] \notin {"wait", "read", "reset"}
  BY OnlyOne DEF InCall
<1>2. NoDeath' BY DEF TokenInv, NoDeath
<1>3. Numbered' BY DEF TokenInv, Numbered, Waiters
<1> QED BY <1>1, <1>2, <1>3 DEF TokenInv, Waiting, Nothing, HasRead, Returns

LEMMA TokenIpcStep ==
  ASSUME MutexInv, TokenInv, IpcStep
  PROVE  TokenInv'
<1> USE Kinds
<1>1. ~Quiet
  BY DEF IpcStep, BundleDaemonCallback, Check, Post, Go, Quiet, Rest
<1>2. PICK a \in Waiters :
        /\ pc[a] = "wait"
        /\ Asked(a) \/ Served(a) \/ Replied(a) \/ Delivered(a) \/ Posted(a)
  BY <1>1, TokenHasWaiter
<1>3. \A x \in Actors : x # Ipc => pc'[x] = pc[x]
  BY DEF IpcStep, BundleDaemonCallback, Check, Post, Go, MutexInv, TypeOK
<1>4. \A x \in Waiters \cup Threads : pc'[x] = pc[x] BY <1>3 DEF Waiters
<1>5. UNCHANGED <<alive, deaths, notices, ticket, executed, requests, ran>>
  BY DEF IpcStep, BundleDaemonCallback, Check, Post, client, flags, threads, rest, daemon,
         network
<1>6. Token(a)'
  <2>1. CASE BundleDaemonCallback
    <3>1. Replied(a)
      BY <1>2, <2>1 DEF BundleDaemonCallback, Go, Asked, Served, Delivered, Posted
    <3>2. PICK r \in Answers : /\ Own(a, r) /\ requests = <<>> /\ ran = <<>>
                              /\ replies = <<r>> /\ Rest
      BY <3>1 DEF Replied
    <3>3. result' = r /\ replies' = <<>> BY <2>1, <3>2 DEF BundleDaemonCallback
    <3>4. pc'[Ipc] = "check" /\ sem' = 0
      BY <2>1, <3>2 DEF BundleDaemonCallback, Go, Rest, MutexInv, TypeOK
    <3>5. Own(a, r)' BY <1>5, <3>2 DEF Own
    <3> QED BY <1>5, <3>2, <3>3, <3>4, <3>5 DEF Token, Delivered, Own
  <2>2. CASE Check(Ipc) \/ Post(Ipc)
    <3>1. Delivered(a)
      BY <1>2, <2>2 DEF Check, Post, Go, Asked, Served, Replied, Posted, Rest
    <3>2. result' = result /\ replies' = replies
      BY <2>2 DEF Check, Post, client, rest, daemon, network
    <3>3. \/ pc'[Ipc] = "post" /\ sem' = 0
          \/ pc'[Ipc] = "idle" /\ sem' = 1
      BY <2>2, <3>1 DEF Check, Post, AfterPost, Go, Delivered, client, MutexInv, TypeOK
    <3> QED BY <1>5, <3>1, <3>2, <3>3 DEF Token, Delivered, Posted, Own
  <2> QED BY <2>1, <2>2 DEF IpcStep
<1> QED BY <1>2, <1>4, <1>5, <1>6, TokenMoves

LEMMA TokenDaemonStep ==
  ASSUME MutexInv, TokenInv, DaemonStep
  PROVE  TokenInv'
<1> USE Kinds
<1>1. ~Quiet
  BY DEF DaemonStep, Register, Execute, Refuse, SendReply, Quiet
<1>2. PICK a \in Waiters :
        /\ pc[a] = "wait"
        /\ Asked(a) \/ Served(a) \/ Replied(a) \/ Delivered(a) \/ Posted(a)
  BY <1>1, TokenHasWaiter
<1>3. UNCHANGED <<pc, sem, alive, deaths, notices, ticket>>
  BY DEF DaemonStep, Register, Execute, Refuse, SendReply, client, threads
<1>4. a \in Callers => ticket[a] # Registration
  BY <1>2 DEF TokenInv, Numbered
<1>5. Token(a)'
  <2>1. CASE Register \/ Execute \/ Refuse
    <3>1. Asked(a)
      BY <1>2, <2>1 DEF Register, Execute, Refuse, Served, Replied, Delivered, Posted
    <3>2. requests' = <<>> /\ replies' = <<>> /\ Rest' /\ Head(requests) = Number(a)
      BY <1>3, <2>1, <3>1 DEF Register, Execute, Refuse, Asked, Rest
    <3>3. CASE Register
      <4>1. a = Main BY <1>4, <3>2, <3>3 DEF Register, Number, Waiters
      <4>2. ran' = <<Success(Registration)>> /\ Success(Registration) \in Answers
        BY <3>3, AnswerTypes DEF Register
      <4> QED BY <3>2, <4>1, <4>2 DEF Token, Served, Own
    <3>4. CASE Execute
      <4>1. a # Main /\ Head(requests) = ticket[a]
        BY <3>2, <3>4 DEF Execute, Number
      <4>2. PICK code \in {"EC_SUCCESS", "EC_FAILURE"} :
              /\ ran' = <<[code |-> code, of |-> Head(requests)]>>
              /\ executed' = executed \cup {[code |-> code, of |-> Head(requests)]}
        BY <3>4 DEF Execute
      <4>3. ticket[a] \in Tickets BY <4>1 DEF MutexInv, TypeOK, Waiters
      <4>4. PICK r \in Answers : r = [code |-> code, of |-> ticket[a]]
        BY <4>2, <4>3 DEF Answers, Codes
      <4>5. r.of = ticket[a] /\ r \in executed' /\ ran' = <<r>> BY <4>1, <4>2, <4>4
      <4>6. Own(a, r)' BY <4>5, <1>3 DEF Own
      <4> QED BY <3>2, <4>5, <4>6 DEF Token, Served
    <3>5. CASE Refuse
      BY <3>1, <3>2, <3>5 DEF Refuse, Asked, Token, Quiet
    <3> QED BY <2>1, <3>3, <3>4, <3>5
  <2>2. CASE SendReply
    <3>1. Served(a)
      BY <1>2, <2>2 DEF SendReply, Asked, Replied, Delivered, Posted
    <3>2. PICK r \in Answers : /\ Own(a, r) /\ requests = <<>> /\ ran = <<r>>
                              /\ replies = <<>> /\ Rest
      BY <3>1 DEF Served
    <3>3. requests' = <<>> /\ ran' = <<>> /\ replies' = <<r>> /\ Rest'
      BY <1>3, <2>2, <3>2 DEF SendReply, Rest
    <3>4. Own(a, r)' BY <1>3, <2>2, <3>2 DEF SendReply, Own
    <3> QED BY <3>3, <3>4 DEF Token, Replied
  <2> QED BY <2>1, <2>2 DEF DaemonStep
<1> QED BY <1>2, <1>3, <1>5, TokenMoves

(* The deaths are counted, and never forgotten. *)
LEMMA DeathsGrow == MutexInv /\ [Next]_vars /\ deaths' = 0 => deaths = 0
<1> SUFFICES ASSUME MutexInv, [Next]_vars PROVE deaths' = deaths \/ deaths' = deaths + 1
  BY Kinds DEF MutexInv, TypeOK
<1>1. CASE \E c \in Callers : Call(c) \/ CallerStep(c)
  BY <1>1 DEF Call, CallerStep, Lock, Invoke, InvokeFails, SemWait, ReadResult, Return, Send,
              rest, daemon
<1>2. CASE \E r \in Registrars : RegistrarStep(r)
  BY <1>2 DEF RegistrarStep, RegisterInvoke, SemWait, ReadResult, RegisterReset, Watch, Send,
              rest, daemon
<1>3. CASE \E t \in Threads : DeathStep(t)
  BY <1>3 DEF DeathStep, DeathCallback, Cancel, Check, Post, Lock, rest, daemon
<1>4. CASE IpcStep
  BY <1>4 DEF IpcStep, BundleDaemonCallback, Check, Post, rest, daemon
<1>5. CASE DaemonStep
  BY <1>5 DEF DaemonStep, Register, Execute, Refuse, SendReply
<1>6. CASE Die \/ Restart
  BY <1>6 DEF Die, Restart
<1>7. CASE UNCHANGED vars
  BY <1>7 DEF vars, daemon
<1> QED BY <1>1, <1>2, <1>3, <1>4, <1>5, <1>6, <1>7 DEF Next

LEMMA TokenStep == MutexInv /\ TokenUntilDeath /\ [Next]_vars => TokenUntilDeath'
<1> SUFFICES ASSUME MutexInv, TokenUntilDeath, [Next]_vars, deaths' = 0 PROVE TokenInv'
  BY DEF TokenUntilDeath
<1>0. TokenInv BY DeathsGrow DEF TokenUntilDeath
<1> USE <1>0
<1>1. CASE \E c \in Callers : Call(c) \/ CallerStep(c)
  BY <1>1, TokenServiceStep DEF Waiters
<1>2. CASE \E r \in Registrars : RegistrarStep(r)
  <2>1. PICK r \in Registrars : RegistrarStep(r) BY <1>2
  <2>2. r \notin Threads
    BY <2>1 DEF RegistrarStep, RegisterInvoke, SemWait, ReadResult, RegisterReset, Watch, Go,
                TokenInv, NoDeath
  <2> QED BY <2>1, <2>2, Kinds, TokenServiceStep DEF Waiters
<1>3. CASE \E t \in Threads : DeathStep(t)
  BY <1>3 DEF DeathStep, DeathCallback, Cancel, Check, Post, Lock, Go, TokenInv, NoDeath
<1>4. CASE IpcStep
  BY <1>4, TokenIpcStep
<1>5. CASE DaemonStep
  BY <1>5, TokenDaemonStep
<1>6. CASE Die \/ Restart
  BY <1>6, Kinds DEF Die, Restart, TokenInv, NoDeath
<1>7. CASE UNCHANGED vars
  BY <1>7 DEF vars, client, flags, threads, answers, daemon, network, TokenInv, NoDeath,
              Numbered, Waiting, Nothing, HasRead, Returns, Token, Quiet, Asked, Served,
              Replied, Delivered, Posted, Rest, Own, Number
<1> QED BY <1>1, <1>2, <1>3, <1>4, <1>5, <1>6, <1>7 DEF Next

(* As long as the daemon has not died, a call returns what the daemon      *)
(* returned for this very call, after it was executed.                     *)
THEOREM AnswersAreOwn == Spec => []AnswerIsOwn
<1>1. MutexInv /\ TokenUntilDeath => AnswerIsOwn
  BY Kinds DEF TokenUntilDeath, TokenInv, Returns, Own, AnswerIsOwn, Waiters
<1>2. Init => TokenUntilDeath BY TokenInit DEF TokenUntilDeath
<1>3. MutexInv /\ TokenUntilDeath /\ [Next]_vars => TokenUntilDeath' BY TokenStep
<1> QED BY <1>1, <1>2, <1>3, MutexInvariant, PTL DEF Spec

-----------------------------------------------------------------------------
(* No success is told twice.  A call has its number in one place: it is    *)
(* still to be sent, in a queue, in result_, or the caller has been told.  *)

Requested(n) == \E k \in 1 .. Len(requests) : requests[k] = n
Running(n)   == \E k \in 1 .. Len(ran) : ran[k].of = n
Replying(n)  == \E k \in 1 .. Len(replies) : replies[k].of = n

Unsent(n) ==
  ~Requested(n) /\ ~Running(n) /\ ~Replying(n) /\ result.of # n /\ n \notin given

(* From the number a call is given until the request is sent.              *)
BeforeSend(c) == pc[c] \in {"lock", "invoke"}

NewNumbers ==
  /\ \A n \in Tickets : n > calls => Unsent(n)
  /\ \A c \in Callers : BeforeSend(c) =>
       ticket[c] \in 1 .. calls /\ Unsent(ticket[c])
  /\ \A c, d \in Callers : BeforeSend(c) /\ BeforeSend(d) /\ ticket[c] = ticket[d] => c = d

(* Each is in one queue only, and once.                                    *)
OneQueue ==
  /\ \A j, k \in 1 .. Len(requests) :
       requests[j] = requests[k] /\ requests[j] # Registration => j = k
  /\ Len(ran) <= 1
  /\ \A j, k \in 1 .. Len(replies) :
       replies[j].of = replies[k].of /\ replies[j].of # Registration => j = k
  /\ \A n \in Tickets \ {Registration} :
       /\ ~Requested(n) \/ ~Running(n)
       /\ ~Requested(n) \/ ~Replying(n)
       /\ ~Running(n) \/ ~Replying(n)

(* What the caller was told is in result_ only until he resets it.         *)
ToldOnce ==
  \A n \in Tickets \ {Registration} :
    /\ Requested(n) \/ Running(n) \/ Replying(n) => result.of # n /\ n \notin given
    /\ n \in given /\ result.of = n => \E a \in Actors : pc[a] = "reset"

NumbersInv == NewNumbers /\ OneQueue /\ ToldOnce

Distinct(s) == \A j, k \in 1 .. Len(s) : s[j] = s[k] /\ s[j] # Registration => j = k

DistinctAnswers(s) ==
  \A j, k \in 1 .. Len(s) : s[j].of = s[k].of /\ s[j].of # Registration => j = k

(* A step that puts no number into a queue, into result_ or into given.    *)
LEMMA NothingNew ==
  ASSUME MutexInv, NumbersInv,
         \A n \in Tickets \ {Registration} :
           /\ Requested(n)' => Requested(n)
           /\ Running(n)' => Running(n)
           /\ Replying(n)' => Replying(n),
         Distinct(requests'), Len(ran') <= 1, DistinctAnswers(replies'),
         given' = given, calls' = calls, ticket' = ticket,
         \/ result'.of = Registration
         \/ result' = result /\ \A a \in Actors : pc[a] = "reset" => pc'[a] = "reset",
         \A c \in Callers : BeforeSend(c)' => BeforeSend(c)
  PROVE  NumbersInv'
<1>1. calls \in Nat /\ Registration = 0 /\ Tickets \subseteq Nat
  BY Kinds DEF MutexInv, TypeOK, Tickets, Registration
<1>2. \A n \in Tickets \ {Registration} : Unsent(n) => Unsent(n)'
  BY DEF Unsent
<1>3. \A c \in Callers : ticket[c] \in Tickets
  BY DEF MutexInv, TypeOK
<1>4. NewNumbers'
  <2>1. \A n \in Tickets : n > calls' => Unsent(n)'
    BY <1>1, <1>2 DEF NumbersInv, NewNumbers
  <2>2. ASSUME NEW c \in Callers, BeforeSend(c)'
        PROVE  ticket'[c] \in 1 .. calls' /\ Unsent(ticket[c])'
    <3>1. ticket[c] \in 1 .. calls /\ Unsent(ticket[c])
      BY <2>2 DEF NumbersInv, NewNumbers
    <3> QED
      BY <1>1, <1>2, <1>3, <3>1
  <2> QED
    BY <2>1, <2>2 DEF NumbersInv, NewNumbers
<1>5. OneQueue'
  BY DEF NumbersInv, OneQueue, Distinct, DistinctAnswers
<1>6. ToldOnce'
  BY DEF NumbersInv, ToldOnce
<1>7. QED
  BY <1>4, <1>5, <1>6 DEF NumbersInv

LEMMA RequestSent ==
  ASSUME TypeOK, NEW n \in Tickets, requests' = Append(requests, n)
  PROVE  /\ \A m : Requested(m)' => Requested(m) \/ m = n
         /\ Distinct(requests) /\ (n # Registration => ~Requested(n)) => Distinct(requests')
<1>1. requests \in Seq(Tickets)
  BY DEF TypeOK
<1>2. /\ Len(requests') = Len(requests) + 1 /\ Len(requests) \in Nat
      /\ \A k \in 1 .. Len(requests) : requests'[k] = requests[k]
      /\ requests'[Len(requests) + 1] = n
  BY <1>1, Appended
<1>3. \A k \in 1 .. Len(requests') :
        \/ k \in 1 .. Len(requests) /\ requests'[k] = requests[k]
        \/ k = Len(requests) + 1 /\ requests'[k] = n
  BY <1>2
<1>4. QED
  BY <1>3 DEF Requested, Distinct

LEMMA RequestTaken ==
  ASSUME TypeOK, requests # <<>>, requests' = Tail(requests)
  PROVE  /\ \A m : Requested(m)' => Requested(m)
         /\ Requested(Head(requests)) /\ Head(requests) \in Tickets
         /\ Distinct(requests) =>
              /\ Distinct(requests')
              /\ \A m : Requested(m)' /\ m # Registration => m # Head(requests)
<1>1. requests \in Seq(Tickets)
  BY DEF TypeOK
<1>2. /\ Head(requests) = requests[1] /\ Head(requests) \in Tickets
      /\ \A k \in 1 .. Len(requests') :
           k + 1 \in 1 .. Len(requests) /\ k + 1 # 1 /\ requests'[k] = requests[k + 1]
      /\ 1 \in 1 .. Len(requests)
  BY <1>1, HeadAndTail
<1>3. \A j, k \in 1 .. Len(requests') : j + 1 = k + 1 => j = k
  OBVIOUS
<1>4. QED
  BY <1>2, <1>3 DEF Requested, Distinct

LEMMA ReplyTaken ==
  ASSUME TypeOK, replies # <<>>, replies' = Tail(replies)
  PROVE  /\ \A m : Replying(m)' => Replying(m)
         /\ Replying(Head(replies).of) /\ Head(replies) \in Answers
         /\ DistinctAnswers(replies) =>
              /\ DistinctAnswers(replies')
              /\ \A m : Replying(m)' /\ m # Registration => m # Head(replies).of
<1>1. replies \in Seq(Answers)
  BY DEF TypeOK
<1>2. /\ Head(replies) = replies[1] /\ Head(replies) \in Answers
      /\ \A k \in 1 .. Len(replies') :
           k + 1 \in 1 .. Len(replies) /\ k + 1 # 1 /\ replies'[k] = replies[k + 1]
      /\ 1 \in 1 .. Len(replies)
  BY <1>1, HeadAndTail
<1>3. \A j, k \in 1 .. Len(replies') : j + 1 = k + 1 => j = k
  OBVIOUS
<1>4. QED
  BY <1>2, <1>3 DEF Replying, DistinctAnswers

LEMMA ReplySent ==
  ASSUME TypeOK, Len(ran) <= 1, ran # <<>>, replies' = replies \o ran
  PROVE  /\ \A m : Replying(m)' => Replying(m) \/ Running(m)
         /\ /\ DistinctAnswers(replies)
            /\ \A m \in Tickets \ {Registration} : ~Running(m) \/ ~Replying(m)
            => DistinctAnswers(replies')
<1>1. replies \in Seq(Answers) /\ ran \in Seq(Answers)
  BY DEF TypeOK
<1>2. Len(ran) = 1
  <2>1. 1 \in 1 .. Len(ran) /\ Len(ran) \in Nat
    BY <1>1, HeadAndTail
  <2>2. \A l \in Nat : 1 \in 1 .. l /\ l <= 1 => l = 1
    OBVIOUS
  <2> QED
    BY <2>1, <2>2
<1>3. /\ Len(replies) \in Nat
      /\ \A k \in 1 .. Len(replies') :
           \/ k \in 1 .. Len(replies) /\ replies'[k] = replies[k]
           \/ k - Len(replies) \in 1 .. 1 /\ k > Len(replies)
              /\ replies'[k] = ran[k - Len(replies)]
  BY <1>1, <1>2, Concatenated
<1>4. \A k \in 1 .. Len(replies') :
        \/ k \in 1 .. Len(replies) /\ replies'[k] = replies[k]
        \/ k = Len(replies) + 1 /\ replies'[k] = ran[1]
  BY <1>3
<1>5. 1 \in 1 .. Len(ran) /\ ran[1].of \in Tickets
  <2>1. ran[1] \in Answers
    BY <1>1, <1>2
  <2> QED
    BY <1>2, <2>1 DEF Answers
<1>6. \A m : Replying(m)' => Replying(m) \/ Running(m)
  BY <1>4, <1>5 DEF Replying, Running
<1>7. ASSUME DistinctAnswers(replies),
             \A m \in Tickets \ {Registration} : ~Running(m) \/ ~Replying(m)
      PROVE  DistinctAnswers(replies')
  <2>1. Running(ran[1].of)
    BY <1>5 DEF Running
  <2>2. \A k \in 1 .. Len(replies) : replies[k].of = ran[1].of => ran[1].of = Registration
    BY <1>5, <1>7, <2>1 DEF Replying
  <2> QED
    BY <1>4, <1>7, <2>2 DEF DistinctAnswers
<1>8. QED
  BY <1>6, <1>7

LEMMA CallNumbers ==
  ASSUME MutexInv, NumbersInv, NEW c \in Callers, Call(c)
  PROVE  NumbersInv'
<1>1. calls \in Nat /\ Registration = 0 /\ Tickets \subseteq Nat /\ calls + 1 \in Tickets
  BY Kinds DEF MutexInv, TypeOK, Tickets, Registration, Call
<1>2. \A n : /\ Requested(n)' <=> Requested(n)
             /\ Running(n)' <=> Running(n)
             /\ Replying(n)' <=> Replying(n)
             /\ Unsent(n)' <=> Unsent(n)
  BY DEF Call, client, answers, daemon, network, Requested, Running, Replying, Unsent
<1>3. /\ calls' = calls + 1 /\ ticket'[c] = calls + 1
      /\ \A d \in Callers \ {c} : ticket'[d] = ticket[d]
      /\ \A d \in Callers \ {c} : BeforeSend(d)' => BeforeSend(d)
      /\ \A a \in Actors : pc[a] = "reset" => pc'[a] = "reset"
      /\ UNCHANGED <<requests, ran, replies, result, given>>
  BY Kinds DEF Call, Go, MutexInv, TypeOK, BeforeSend, client, answers, daemon, network
<1>4. \A d \in Callers : ticket'[d] \in Tickets
  BY <1>1, <1>3 DEF MutexInv, TypeOK
<1>5. NewNumbers'
  <2>1. \A n \in Tickets : n > calls' => Unsent(n)'
    BY <1>1, <1>2, <1>3 DEF NumbersInv, NewNumbers
  <2>2. ASSUME NEW d \in Callers, BeforeSend(d)'
        PROVE  ticket'[d] \in 1 .. calls' /\ Unsent(ticket[d])'
    <3>1. CASE d = c
      <4>1. Unsent(calls + 1)
        BY <1>1 DEF NumbersInv, NewNumbers
      <4>2. PICK n : n = ticket'[d]
        OBVIOUS
      <4>3. Unsent(n)'
        BY <1>2, <1>3, <3>1, <4>1, <4>2
      <4> QED
        BY <1>1, <1>3, <3>1, <4>2, <4>3 DEF Unsent, Requested, Running, Replying
    <3>2. CASE d # c
      <4>1. ticket[d] \in 1 .. calls /\ Unsent(ticket[d])
        BY <1>3, <2>2, <3>2 DEF NumbersInv, NewNumbers
      <4>2. PICK n : n = ticket[d]
        OBVIOUS
      <4>3. Unsent(n)' /\ n = ticket'[d]
        BY <1>2, <1>3, <3>2, <4>1, <4>2
      <4> QED
        BY <1>1, <1>3, <4>1, <4>2, <4>3 DEF Unsent, Requested, Running, Replying
    <3> QED
      BY <3>1, <3>2
  <2>3. ASSUME NEW x \in Callers, NEW y \in Callers, BeforeSend(x)', BeforeSend(y)',
               ticket'[x] = ticket'[y]
        PROVE  x = y
    <3>1. \A d \in Callers \ {c} : BeforeSend(d)' => ticket'[d] \in 1 .. calls
      BY <1>3 DEF NumbersInv, NewNumbers
    <3> QED
      BY <1>1, <1>3, <2>3, <3>1 DEF NumbersInv, NewNumbers
  <2> QED
    BY <2>1, <2>2, <2>3 DEF NewNumbers
<1>6. OneQueue'
  BY <1>2, <1>3 DEF NumbersInv, OneQueue
<1>7. ToldOnce'
  BY <1>2, <1>3 DEF NumbersInv, ToldOnce
<1>8. QED
  BY <1>5, <1>6, <1>7 DEF NumbersInv

LEMMA InvokeNumbers ==
  ASSUME MutexInv, NumbersInv, NEW c \in Callers, Invoke(c)
  PROVE  NumbersInv'
<1> DEFINE n == ticket[c]
<1>1. /\ calls \in Nat /\ Registration = 0 /\ Tickets \subseteq Nat /\ n \in Tickets
      /\ TypeOK /\ pc[c] = "invoke"
  BY Kinds DEF MutexInv, TypeOK, Tickets, Registration, Invoke, Go
<1>2. n \in 1 .. calls /\ Unsent(n)
  BY <1>1 DEF NumbersInv, NewNumbers, BeforeSend
<1>3. /\ requests' = Append(requests, n)
      /\ UNCHANGED <<ran, replies, result, given, calls, ticket>>
      /\ ~BeforeSend(c)'
      /\ \A d \in Callers : BeforeSend(d)' => BeforeSend(d)
      /\ \A a \in Actors : pc[a] = "reset" => pc'[a] = "reset"
  BY Kinds DEF Invoke, Send, Go, MutexInv, TypeOK, BeforeSend, client, threads, answers
<1> HIDE DEF n
<1>4. Distinct(requests') /\ \A m : Requested(m)' => Requested(m) \/ m = n
  BY <1>1, <1>2, <1>3, RequestSent DEF Unsent, NumbersInv, OneQueue, Distinct
<1>5. \A m : (Running(m)' <=> Running(m)) /\ (Replying(m)' <=> Replying(m))
  BY <1>3 DEF Running, Replying
<1>6. \A m : m # n /\ Unsent(m) => Unsent(m)'
  BY <1>3, <1>4, <1>5 DEF Unsent
<1>7. NewNumbers'
  <2>1. \A m \in Tickets : m > calls' => Unsent(m)'
    BY <1>1, <1>2, <1>3, <1>6 DEF NumbersInv, NewNumbers
  <2>2. ASSUME NEW d \in Callers, BeforeSend(d)'
        PROVE  ticket'[d] \in 1 .. calls' /\ Unsent(ticket[d])'
    <3>1. ticket[d] \in 1 .. calls /\ Unsent(ticket[d]) /\ BeforeSend(c) /\ BeforeSend(d)
      BY <1>1, <1>3, <2>2 DEF NumbersInv, NewNumbers, BeforeSend
    <3>2. d # c
      BY <1>3, <2>2
    <3>3. PICK m : m = ticket[d]
      OBVIOUS
    <3>4. m # n
      BY <3>1, <3>2, <3>3 DEF NumbersInv, NewNumbers, n
    <3>5. Unsent(m)' /\ m = ticket'[d]
      BY <1>3, <1>6, <3>1, <3>3, <3>4
    <3> QED
      BY <1>3, <3>1, <3>3, <3>5 DEF Unsent, Requested, Running, Replying
  <2> QED
    BY <1>3, <2>1, <2>2 DEF NumbersInv, NewNumbers
<1>8. OneQueue'
  BY <1>2, <1>3, <1>4, <1>5 DEF NumbersInv, OneQueue, Distinct, Unsent
<1>9. ToldOnce'
  BY <1>2, <1>3, <1>4, <1>5 DEF NumbersInv, ToldOnce, Unsent
<1>10. QED
  BY <1>7, <1>8, <1>9 DEF NumbersInv

(* A step that moves numbers from one place to the next, and calls nobody. *)
LEMMA NumbersMove ==
  ASSUME MutexInv, NumbersInv, OneQueue', ToldOnce',
         \A n \in Tickets : Unsent(n) => Unsent(n)',
         calls' = calls, ticket' = ticket,
         \A c \in Callers : BeforeSend(c)' => BeforeSend(c)
  PROVE  NumbersInv'
<1>1. \A c \in Callers : ticket[c] \in Tickets
  BY DEF MutexInv, TypeOK
<1>2. ASSUME NEW c \in Callers, BeforeSend(c)'
      PROVE  ticket'[c] \in 1 .. calls' /\ Unsent(ticket[c])'
  <2>1. ticket[c] \in 1 .. calls /\ Unsent(ticket[c])
    BY <1>2 DEF NumbersInv, NewNumbers
  <2> QED
    BY <1>1, <2>1
<1>3. \A n \in Tickets : n > calls' => Unsent(n)'
  BY DEF NumbersInv, NewNumbers
<1>4. NewNumbers'
  BY <1>2, <1>3 DEF NumbersInv, NewNumbers
<1>5. QED
  BY <1>4 DEF NumbersInv

LEMMA ReadNumbers ==
  ASSUME MutexInv, NumbersInv, NEW a \in Actors, ReadResult(a)
  PROVE  NumbersInv'
<1>1. /\ pc'[a] = "reset" /\ given' \subseteq given \cup {result.of}
      /\ UNCHANGED <<requests, ran, replies, result, calls, ticket>>
      /\ \A c \in Callers : BeforeSend(c)' => BeforeSend(c)
  BY Kinds DEF ReadResult, Go, MutexInv, TypeOK, BeforeSend, client, threads, daemon, network
<1>2. \A n : /\ Requested(n)' <=> Requested(n)
             /\ Running(n)' <=> Running(n)
             /\ Replying(n)' <=> Replying(n)
  BY <1>1 DEF Requested, Running, Replying
<1>3. \A n \in Tickets : Unsent(n) => Unsent(n)'
  BY <1>1, <1>2 DEF Unsent
<1>4. OneQueue' /\ ToldOnce'
  BY <1>1, <1>2 DEF NumbersInv, OneQueue, ToldOnce
<1>5. QED
  BY <1>1, <1>3, <1>4, NumbersMove

LEMMA CallbackNumbers ==
  ASSUME MutexInv, NumbersInv, BundleDaemonCallback
  PROVE  NumbersInv'
<1>1. /\ TypeOK /\ replies # <<>> /\ replies' = Tail(replies) /\ result' = Head(replies)
      /\ UNCHANGED <<requests, ran, given, calls, ticket>>
      /\ \A c \in Callers : BeforeSend(c)' => BeforeSend(c)
  BY Kinds DEF BundleDaemonCallback, Go, MutexInv, TypeOK, BeforeSend, threads, answers
<1>2. /\ \A n : Replying(n)' => Replying(n)
      /\ Replying(result'.of) /\ DistinctAnswers(replies')
      /\ \A n : Replying(n)' /\ n # Registration => n # result'.of
  <2>1. DistinctAnswers(replies)
    BY DEF NumbersInv, OneQueue, DistinctAnswers
  <2> QED
    BY <1>1, <2>1, ReplyTaken
<1>3. \A n : (Requested(n)' <=> Requested(n)) /\ (Running(n)' <=> Running(n))
  BY <1>1 DEF Requested, Running
<1>4. \A n \in Tickets : Unsent(n) => Unsent(n)'
  BY <1>1, <1>2, <1>3 DEF Unsent
<1>5. OneQueue'
  BY <1>1, <1>2, <1>3 DEF NumbersInv, OneQueue, DistinctAnswers
<1>6. ToldOnce'
  BY <1>1, <1>2, <1>3 DEF NumbersInv, OneQueue, ToldOnce
<1>7. QED
  BY <1>1, <1>4, <1>5, <1>6, NumbersMove

LEMMA ExecuteNumbers ==
  ASSUME MutexInv, NumbersInv, Execute
  PROVE  NumbersInv'
<1>1. /\ TypeOK /\ requests # <<>> /\ requests' = Tail(requests)
      /\ UNCHANGED <<pc, replies, result, given, calls, ticket>>
      /\ \E done : ran' = <<done>> /\ done.of = Head(requests)
      /\ Head(requests) # Registration
  BY DEF Execute, MutexInv, client, threads, answers
<1>2. /\ \A n : Requested(n)' => Requested(n)
      /\ Requested(Head(requests)) /\ Head(requests) \in Tickets /\ Distinct(requests')
      /\ \A n : Requested(n)' /\ n # Registration => n # Head(requests)
  <2>1. Distinct(requests)
    BY DEF NumbersInv, OneQueue, Distinct
  <2> QED
    BY <1>1, <2>1, RequestTaken
<1>3. Len(ran') = 1 /\ \A n : Running(n)' <=> n = Head(requests)
  BY <1>1 DEF Running
<1>4. \A n : Replying(n)' <=> Replying(n)
  BY <1>1 DEF Replying
<1>5. \A n \in Tickets : Unsent(n) => Unsent(n)'
  BY <1>1, <1>2, <1>3, <1>4 DEF Unsent
<1>6. OneQueue'
  BY <1>1, <1>2, <1>3, <1>4 DEF NumbersInv, OneQueue, Distinct
<1>7. ToldOnce'
  BY <1>1, <1>2, <1>3, <1>4 DEF NumbersInv, ToldOnce
<1>8. \A c \in Callers : BeforeSend(c)' => BeforeSend(c)
  BY <1>1 DEF BeforeSend
<1>9. QED
  BY <1>1, <1>5, <1>6, <1>7, <1>8, NumbersMove

LEMMA ReplyNumbers ==
  ASSUME MutexInv, NumbersInv, SendReply
  PROVE  NumbersInv'
<1>1. /\ TypeOK /\ ran # <<>> /\ replies' = replies \o ran /\ ran' = <<>>
      /\ UNCHANGED <<pc, requests, result, given, calls, ticket>>
  BY DEF SendReply, MutexInv, client, threads, answers
<1>2. (\A n : Replying(n)' => Replying(n) \/ Running(n)) /\ DistinctAnswers(replies')
  <2>1. /\ Len(ran) <= 1 /\ DistinctAnswers(replies)
        /\ \A m \in Tickets \ {Registration} : ~Running(m) \/ ~Replying(m)
    BY DEF NumbersInv, OneQueue, DistinctAnswers
  <2> QED
    BY <1>1, <2>1, ReplySent
<1>3. Len(ran') = 0 /\ \A n : ~Running(n)'
  BY <1>1 DEF Running
<1>4. \A n : Requested(n)' <=> Requested(n)
  BY <1>1 DEF Requested
<1>5. \A n \in Tickets : Unsent(n) => Unsent(n)'
  BY <1>1, <1>2, <1>3, <1>4 DEF Unsent
<1>6. OneQueue'
  BY <1>1, <1>2, <1>3, <1>4 DEF NumbersInv, OneQueue, DistinctAnswers
<1>7. ToldOnce'
  BY <1>1, <1>2, <1>3, <1>4 DEF NumbersInv, ToldOnce
<1>8. \A c \in Callers : BeforeSend(c)' => BeforeSend(c)
  BY <1>1 DEF BeforeSend
<1>9. QED
  BY <1>1, <1>5, <1>6, <1>7, <1>8, NumbersMove

(* A step that leaves the queues alone, and what is told.                  *)
LEMMA QueuesKept ==
  ASSUME MutexInv, NumbersInv, UNCHANGED <<requests, ran, replies, given, calls, ticket>>,
         \/ result'.of = Registration
         \/ result' = result /\ \A a \in Actors : pc[a] = "reset" => pc'[a] = "reset",
         \A c \in Callers : BeforeSend(c)' => BeforeSend(c)
  PROVE  NumbersInv'
<1>1. \A n : /\ Requested(n)' => Requested(n)
             /\ Running(n)' => Running(n)
             /\ Replying(n)' => Replying(n)
  BY DEF Requested, Running, Replying
<1>2. Distinct(requests') /\ Len(ran') <= 1 /\ DistinctAnswers(replies')
  BY DEF NumbersInv, OneQueue, Distinct, DistinctAnswers
<1>3. QED
  BY <1>1, <1>2, NothingNew

LEMMA RegistrationNumbers ==
  ASSUME MutexInv, NumbersInv, \/ \E r \in Registrars : RegisterInvoke(r)
                               \/ Register \/ Refuse \/ Die
  PROVE  NumbersInv'
<1>0. TypeOK /\ Distinct(requests) /\ Len(ran) <= 1 /\ DistinctAnswers(replies)
      /\ Registration \in Tickets
  BY AnswerTypes DEF MutexInv, NumbersInv, OneQueue, Distinct, DistinctAnswers
<1>1. /\ UNCHANGED <<replies, given, calls, ticket, result>>
      /\ \A a \in Actors : pc[a] = "reset" => pc'[a] = "reset"
      /\ \A c \in Callers : BeforeSend(c)' => BeforeSend(c)
  BY Kinds
     DEF RegisterInvoke, Register, Refuse, Die, Send, Go, BeforeSend, MutexInv, TypeOK,
         client, threads, answers
<1>2. /\ \A n \in Tickets \ {Registration} : Requested(n)' => Requested(n)
      /\ Distinct(requests')
  <2>1. CASE \E r \in Registrars : RegisterInvoke(r)
    <3>1. requests' = Append(requests, Registration)
      BY <2>1 DEF RegisterInvoke, Send
    <3> QED
      BY <1>0, <3>1, RequestSent
  <2>2. CASE Register \/ Refuse
    <3>1. requests # <<>> /\ requests' = Tail(requests)
      BY <2>2 DEF Register, Refuse
    <3> QED
      BY <1>0, <3>1, RequestTaken
  <2>3. CASE Die
    <3>1. requests' = <<>>
      BY <2>3 DEF Die
    <3> QED
      BY <3>1 DEF Requested, Distinct
  <2> QED
    BY <2>1, <2>2, <2>3
<1>3. /\ \A n \in Tickets \ {Registration} : Running(n)' => Running(n)
      /\ Len(ran') <= 1
  <2>1. CASE ran' = ran
    BY <1>0, <2>1 DEF Running
  <2>2. CASE ran' = <<Success(Registration)>>
    BY <2>2 DEF Running, Success
  <2>3. CASE ran' = <<>>
    BY <2>3 DEF Running
  <2> QED
    BY <2>1, <2>2, <2>3 DEF RegisterInvoke, Send, Register, Refuse, Die
<1>4. DistinctAnswers(replies') /\ \A n : Replying(n)' => Replying(n)
  BY <1>0, <1>1 DEF Replying
<1>5. QED
  BY <1>1, <1>2, <1>3, <1>4, NothingNew

LEMMA NumbersStep == MutexInv /\ NumbersInv /\ [Next]_vars => NumbersInv'
<1> SUFFICES ASSUME MutexInv, NumbersInv, [Next]_vars PROVE NumbersInv'
  OBVIOUS
<1> USE Kinds
<1>1. ASSUME NEW c \in Callers, Lock(c) \/ InvokeFails(c) \/ SemWait(c) PROVE NumbersInv'
  <2>1. /\ UNCHANGED <<requests, ran, replies, given, calls, ticket, result>>
        /\ \A a \in Actors : pc[a] = "reset" => pc'[a] = "reset"
        /\ \A d \in Callers : BeforeSend(d)' => BeforeSend(d)
    BY <1>1
       DEF Lock, InvokeFails, SemWait, Go, BeforeSend, MutexInv, TypeOK, rest, flags, threads,
           answers, daemon, network
  <2> QED
    BY <2>1, QueuesKept
<1>2. ASSUME NEW c \in Callers, Return(c) PROVE NumbersInv'
  <2>1. /\ UNCHANGED <<requests, ran, replies, given, calls, ticket>>
        /\ result'.of = Registration
        /\ \A d \in Callers : BeforeSend(d)' => BeforeSend(d)
    BY <1>2
       DEF Return, Unset, Go, BeforeSend, MutexInv, TypeOK, rest, flags, threads, answers,
           daemon, network
  <2> QED
    BY <2>1, QueuesKept
<1>3. ASSUME NEW r \in Registrars, SemWait(r) \/ Watch(r) PROVE NumbersInv'
  <2>1. /\ UNCHANGED <<requests, ran, replies, given, calls, ticket, result>>
        /\ \A a \in Actors : pc[a] = "reset" => pc'[a] = "reset"
        /\ \A d \in Callers : BeforeSend(d)' => BeforeSend(d)
    BY <1>3
       DEF SemWait, Watch, Go, BeforeSend, MutexInv, TypeOK, rest, flags, threads,
           answers, daemon, network
  <2> QED
    BY <2>1, QueuesKept
<1>4. ASSUME NEW r \in Registrars, RegisterReset(r) \/ (r \in Threads /\ Cancel(r))
      PROVE  NumbersInv'
  <2>1. /\ UNCHANGED <<requests, ran, replies, given, calls, ticket>>
        /\ result'.of = Registration
        /\ \A d \in Callers : BeforeSend(d)' => BeforeSend(d)
    BY <1>4
       DEF RegisterReset, Cancel, Unset, Canceled, Go, BeforeSend, MutexInv, TypeOK, rest,
           flags, threads, answers, daemon, network
  <2> QED
    BY <2>1, QueuesKept
<1>5. ASSUME NEW t \in Threads, DeathCallback(t) \/ Lock(t) PROVE NumbersInv'
  <2>1. /\ UNCHANGED <<requests, ran, replies, given, calls, ticket, result>>
        /\ \A a \in Actors : pc[a] = "reset" => pc'[a] = "reset"
        /\ \A d \in Callers : BeforeSend(d)' => BeforeSend(d)
    BY <1>5
       DEF DeathCallback, Lock, Go, BeforeSend, MutexInv, TypeOK, client, rest, flags, threads,
           answers, daemon, network
  <2> QED
    BY <2>1, QueuesKept
<1>6. ASSUME NEW a \in Threads \cup {Ipc}, Check(a) \/ Post(a) PROVE NumbersInv'
  <2>1. /\ UNCHANGED <<requests, ran, replies, given, calls, ticket, result>>
        /\ \A x \in Actors : pc[x] = "reset" => pc'[x] = "reset"
        /\ \A d \in Callers : BeforeSend(d)' => BeforeSend(d)
    BY <1>6
       DEF Check, Post, Go, BeforeSend, MutexInv, TypeOK, client, rest, flags, threads,
           answers, daemon, network
  <2> QED
    BY <2>1, QueuesKept
<1>7. CASE Restart \/ UNCHANGED vars
  <2>1. UNCHANGED <<requests, ran, replies, given, calls, ticket, result, pc>>
    BY <1>7 DEF Restart, vars, client, threads, answers, daemon, network
  <2> QED
    BY <2>1, QueuesKept DEF BeforeSend
<1>8. CASE \E c \in Callers : Call(c) \/ CallerStep(c)
  BY <1>1, <1>2, <1>8, CallNumbers, InvokeNumbers, ReadNumbers DEF CallerStep
<1>9. CASE \E r \in Registrars : RegistrarStep(r)
  BY <1>3, <1>4, <1>9, RegistrationNumbers, ReadNumbers DEF RegistrarStep
<1>10. CASE \E t \in Threads : DeathStep(t)
  BY <1>4, <1>5, <1>6, <1>10 DEF DeathStep
<1>11. CASE IpcStep
  BY <1>6, <1>11, CallbackNumbers DEF IpcStep
<1>12. CASE DaemonStep \/ Die
  BY <1>12, RegistrationNumbers, ExecuteNumbers, ReplyNumbers DEF DaemonStep
<1>13. QED
  BY <1>7, <1>8, <1>9, <1>10, <1>11, <1>12 DEF Next

LEMMA NumbersInit == Init => NumbersInv
<1> SUFFICES ASSUME Init PROVE NumbersInv
  OBVIOUS
<1>1. \A c \in Callers : ~BeforeSend(c)
  BY Kinds DEF Init, BeforeSend
<1>2. \A n : ~Requested(n) /\ ~Running(n) /\ ~Replying(n)
  BY DEF Init, Requested, Running, Replying
<1>3. \A n \in Tickets : n > calls => Unsent(n)
  BY <1>2, Kinds DEF Init, Unsent, Unset, Registration, Tickets
<1>4. NewNumbers
  BY <1>1, <1>3 DEF NewNumbers
<1>5. OneQueue
  BY <1>2 DEF Init, OneQueue
<1>6. ToldOnce
  BY <1>2 DEF Init, ToldOnce
<1>7. QED
  BY <1>4, <1>5, <1>6 DEF NumbersInv

(* No caller is told a success that was told before, of his own call or of *)
(* another's: through any number of deaths, with their left-over posts,    *)
(* late replies and calls that return the result of the one before.        *)
THEOREM SuccessesToldOnce == Spec => SuccessGivenOnce
<1> DEFINE Told == \A c \in Callers :
             pc[c] = "read" /\ pc'[c] = "reset" /\ result.code = "EC_SUCCESS"
             => result.of \notin given \ {Registration}
<1>1. Init => MutexInv /\ NumbersInv
  BY MutexInit, NumbersInit
<1>2. MutexInv /\ NumbersInv /\ [Next]_vars => (MutexInv /\ NumbersInv)'
  BY MutexStep, NumbersStep
<1>3. MutexInv /\ NumbersInv => Told
  <2> SUFFICES ASSUME MutexInv, NumbersInv, NEW c \in Callers, pc[c] = "read",
                      result.of \in given, result.of # Registration
               PROVE  FALSE
    OBVIOUS
  <2>1. result.of \in Tickets
    BY DEF MutexInv, TypeOK, Answers
  <2>2. PICK a \in Actors : pc[a] = "reset"
    BY <2>1 DEF NumbersInv, ToldOnce
  <2>3. a = c
    BY <2>2, Kinds, HoldsExclusive DEF OneInCall, InCall
  <2> QED
    BY <2>2, <2>3
<1>4. QED
  BY <1>1, <1>2, <1>3, PTL DEF Spec, SuccessGivenOnce
=============================================================================
