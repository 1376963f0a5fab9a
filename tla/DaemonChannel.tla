---------------------------- MODULE DaemonChannel ---------------------------
(***************************************************************************)
(* The channel between the Bundle Manager Service and its daemon: requests *)
(* go out one way, the results come back as a callback on an IPC thread,   *)
(* and BundleDaemonClient makes a synchronous call of the two with a mutex,*)
(* a semaphore and the variable result_.  When the daemon dies a new       *)
(* thread wakes whoever waits and registers with the daemon's successor.   *)
(*                                                                         *)
(* This is the build without __LINUX__: there Invoke returns when the      *)
(* request is sent and the daemon answers through BDS_CALLBACK.            *)
(***************************************************************************)
EXTENDS Integers, Sequences

CONSTANTS
  Callers,      (* threads that call the daemon through the client         *)
  Main,         (* the thread in BundleDaemonClient::Initialize            *)
  Ipc,          (* the thread that runs BundleDaemonCallback               *)
  Threads,      (* threads that DeathCallback creates or runs on           *)
  MaxCalls,     (* bound on the calls of a behaviour                       *)
  MaxDeaths     (* bound on the deaths of the daemon                       *)

Nobody == "nobody"   (* the mutex is free *)

ASSUME ChannelAssumption ==
  /\ Main # Ipc
  /\ {Main, Ipc} \cap (Callers \cup Threads) = {}
  /\ Callers \cap Threads = {}
  /\ Nobody \notin Callers \cup Threads \cup {Main, Ipc}
  /\ {MaxCalls, MaxDeaths} \subseteq Nat

Actors     == Callers \cup Threads \cup {Main, Ipc}
Registrars == Threads \cup {Main}

VARIABLES
  (* BundleDaemonClient *)
  mutex,        (* mutex_: who holds it                                    *)
  sem,          (* sem_                                                    *)
  result,       (* result_                                                 *)
  initialized,  (* initialized_                                            *)
  watching,     (* a death recipient is linked to the running daemon       *)
  (* threads of the service *)
  pc,           (* where each of them is                                   *)
  ticket,       (* the call each caller makes                              *)
  answer,       (* local variable result of WaitResultSync                 *)
  calls,        (* calls made so far                                       *)
  created,      (* the death callbacks whose pthread_create succeeded      *)
  (* the daemon and the messages between the two *)
  alive, registered,  (* the process runs; bundleMsClient_ is set          *)
  requests,     (* to the daemon                                           *)
  ran,          (* what it has executed and not answered yet               *)
  replies,      (* to the client                                           *)
  notices,      (* of a death, to DeathCallback                            *)
  deaths,       (* of the daemon so far                                    *)
  (* history *)
  executed,     (* what the functions of the daemon returned               *)
  given         (* the calls whose EC_SUCCESS a caller was given           *)

flags   == <<initialized, watching>>
client  == <<mutex, sem, result, flags>>
threads == <<ticket, calls, created>>
answers == <<answer, given>>
network == <<requests, ran, replies, notices>>
daemon  == <<alive, registered, deaths, executed, network>>
rest    == <<flags, threads, daemon>>
vars    == <<pc, client, threads, answers, daemon>>

-----------------------------------------------------------------------------
(* A request is the number of its call; registrations are number 0.  An    *)
(* answer carries the number of the call it answers, which the code has no *)
(* trace of: it tells properties whose result a caller was given.          *)

Registration == 0
Tickets      == 0 .. MaxCalls
Codes        == {"EC_SUCCESS", "EC_FAILURE", "EC_CANCELED"}
Answers      == [code : Codes, of : Tickets]
Unset        == [code |-> "EC_FAILURE",  of |-> Registration]
Canceled     == [code |-> "EC_CANCELED", of |-> Registration]
Success(n)   == [code |-> "EC_SUCCESS",  of |-> n]

Init ==
  /\ mutex = Nobody /\ sem = 0 /\ result = Unset
  /\ initialized = FALSE /\ watching = FALSE
  /\ pc = [a \in Actors |-> IF a = Main THEN "invoke" ELSE "idle"]
  /\ ticket = [c \in Callers |-> Registration]
  /\ answer = [a \in Callers \cup Registrars |-> Unset]
  /\ calls = 0 /\ created = {}
  /\ alive = TRUE /\ registered = FALSE
  /\ requests = <<>> /\ ran = <<>> /\ replies = <<>>
  /\ notices = 0 /\ deaths = 0 /\ executed = {} /\ given = {}

Go(a, from, to) == pc[a] = from /\ pc' = [pc EXCEPT ![a] = to]

-----------------------------------------------------------------------------
(* BundleDaemonClient: callers                                             *)

Call(c) ==
  /\ initialized /\ calls < MaxCalls
  /\ Go(c, "idle", "lock")
  /\ calls' = calls + 1
  /\ ticket' = [ticket EXCEPT ![c] = calls + 1]
  /\ UNCHANGED <<created, client, answers, daemon>>

NoLock(a) ==   \* a bug: the lock is forgotten
  /\ Go(a, "lock", "invoke")
  /\ UNCHANGED <<client, threads, answers, daemon>>

Lock(a) ==
  /\ mutex = Nobody
  /\ Go(a, "lock", "invoke")
  /\ mutex' = a
  /\ UNCHANGED <<sem, result, rest, answers>>

Send(n) ==
  /\ requests' = Append(requests, n)
  /\ UNCHANGED <<alive, registered, deaths, executed, ran, replies, notices>>

Invoke(c) ==
  /\ alive
  /\ Go(c, "invoke", "wait")
  /\ Send(ticket[c])
  /\ UNCHANGED <<client, threads, answers>>

InvokeFails(c) ==
  /\ ~alive
  /\ Go(c, "invoke", "idle")
  /\ mutex' = Nobody
  /\ UNCHANGED <<sem, result, rest, answers>>

SemWaitAlways(a) ==   \* a bug: the semaphore does not block
  /\ Go(a, "wait", "read")
  /\ sem' = sem - 1
  /\ UNCHANGED <<mutex, result, answers, rest>>

(* WaitResultSync reads result_ and resets it in two steps: the callbacks  *)
(* write it without the mutex.                                             *)
SemWait(a) ==
  /\ sem > 0
  /\ Go(a, "wait", "read")
  /\ sem' = sem - 1
  /\ UNCHANGED <<mutex, result, rest, answers>>

ReadResult(a) ==
  /\ Go(a, "read", "reset")
  /\ answer' = [answer EXCEPT ![a] = result]
  /\ given' = IF result.code = "EC_SUCCESS" THEN given \cup {result.of} ELSE given
  /\ UNCHANGED <<client, threads, daemon>>

ReturnOnly(c) ==   \* a bug: result_ keeps its value
  /\ Go(c, "reset", "idle")
  /\ mutex' = Nobody
  /\ UNCHANGED <<sem, result, rest, answers>>

Return(c) ==
  /\ Go(c, "reset", "idle")
  /\ result' = Unset
  /\ mutex' = Nobody
  /\ UNCHANGED <<sem, rest, answers>>

-----------------------------------------------------------------------------
(* BundleDaemonClient: Initialize and RegisterDeathCallback                *)

(* RegisterCallback tries until the daemon takes the request. *)
RegisterInvoke(r) ==
  /\ alive
  /\ Go(r, "invoke", "wait")
  /\ Send(Registration)
  /\ UNCHANGED <<client, threads, answers>>

RegisterReset(r) ==
  /\ Go(r, "reset", "watch")
  /\ result' = Unset
  /\ UNCHANGED <<mutex, sem, rest, answers>>

(* AddDeathRecipient, which a daemon that is already dead refuses. *)
Watch(r) ==
  /\ Go(r, "watch", "done")
  /\ watching' = alive
  /\ initialized' = (initialized \/ (r = Main /\ answer[r].code = "EC_SUCCESS"))
  /\ mutex' = Nobody
  /\ UNCHANGED <<sem, result, threads, answers, daemon>>

(* DeathCallback runs on the IPC thread; when it can create no thread it   *)
(* cancels the waiting call itself and nobody registers again.             *)
DeathCallback(t) ==
  /\ notices > 0
  /\ Go(t, "idle", "cancel")
  /\ notices' = notices - 1
  /\ created' \in {created, created \cup {t}}
  /\ UNCHANGED <<ticket, calls, alive, registered, deaths,
                 executed, requests, ran, replies, client, answers>>

CancelNobody(t) ==   \* a bug: the waiting call is not woken
  /\ Go(t, "cancel", IF t \in created THEN "lock" ELSE "done")
  /\ result' = Canceled
  /\ UNCHANGED <<mutex, sem, rest, answers>>

Cancel(t) ==
  /\ Go(t, "cancel", "check")
  /\ result' = Canceled
  /\ UNCHANGED <<mutex, sem, rest, answers>>

-----------------------------------------------------------------------------
(* BundleDaemonCallback, and the same check and post in the two functions  *)
(* that cancel: the value is read, then the semaphore is posted.           *)

BundleDaemonCallback ==
  /\ replies # <<>>
  /\ Go(Ipc, "idle", "check")
  /\ result' = Head(replies)
  /\ replies' = Tail(replies)
  /\ UNCHANGED <<mutex, sem, alive, registered, deaths, executed,
                 requests, ran, notices, flags, threads, answers>>

AfterPostUnlocked(a) ==   \* a bug: registers again without the mutex
  IF a = Ipc THEN "idle" ELSE IF a \in created THEN "invoke" ELSE "done"

AfterPost(a) ==
  IF a = Ipc THEN "idle" ELSE IF a \in created THEN "lock" ELSE "done"

Check(a) ==
  /\ Go(a, "check", IF sem = 0 THEN "post" ELSE AfterPost(a))
  /\ UNCHANGED <<client, threads, answers, daemon>>

Post(a) ==
  /\ Go(a, "post", AfterPost(a))
  /\ sem' = sem + 1
  /\ UNCHANGED <<mutex, result, rest, answers>>

-----------------------------------------------------------------------------
(* The daemon: BundleDaemon::Invoke on its single task                     *)

Register ==
  /\ alive /\ ran = <<>> /\ requests # <<>> /\ Head(requests) = Registration
  /\ registered' = TRUE
  /\ requests' = Tail(requests)
  /\ ran' = <<Success(Registration)>>
  /\ UNCHANGED <<pc, alive, deaths, executed,
                 replies, notices, client, threads, answers>>

ExecuteQuietly ==   \* a bug: a failing function returns before SendReply
  /\ alive /\ ran = <<>> /\ requests # <<>> /\ Head(requests) # Registration
  /\ registered
  /\ \/ ran' = <<Success(Head(requests))>> /\ executed' = executed \cup {Success(Head(requests))}
     \/ UNCHANGED <<ran, executed>>
  /\ requests' = Tail(requests)
  /\ UNCHANGED <<pc, alive, registered, deaths,
                 replies, notices, client, threads, answers>>

Execute ==
  /\ alive /\ ran = <<>> /\ requests # <<>> /\ Head(requests) # Registration
  /\ registered
  /\ \E code \in {"EC_SUCCESS", "EC_FAILURE"} :
       LET done == [code |-> code, of |-> Head(requests)]
       IN  ran' = <<done>> /\ executed' = executed \cup {done}
  /\ requests' = Tail(requests)
  /\ UNCHANGED <<pc, alive, registered, deaths,
                 replies, notices, client, threads, answers>>

(* Without a registered callback the request is dropped: EC_NOINIT is the  *)
(* return value of Invoke, which does not travel back.                     *)
Refuse ==
  /\ alive /\ ran = <<>> /\ requests # <<>> /\ Head(requests) # Registration
  /\ ~registered
  /\ requests' = Tail(requests)
  /\ UNCHANGED <<pc, alive, registered, deaths, executed,
                 ran, replies, notices, client, threads, answers>>

SendReply ==
  /\ alive /\ ran # <<>>
  /\ replies' = replies \o ran
  /\ ran' = <<>>
  /\ UNCHANGED <<pc, alive, registered, deaths, executed,
                 requests, notices, client, threads, answers>>

Die ==
  /\ alive /\ deaths < MaxDeaths
  /\ alive' = FALSE /\ registered' = FALSE
  /\ requests' = <<>> /\ ran' = <<>>
  /\ deaths' = deaths + 1
  /\ notices' = IF watching THEN notices + 1 ELSE notices
  /\ watching' = FALSE
  /\ UNCHANGED <<pc, mutex, sem, result,
                 initialized, executed, replies, threads, answers>>

Restart ==
  /\ ~alive
  /\ alive' = TRUE
  /\ UNCHANGED <<pc, registered, deaths, executed,
                 client, threads, answers, network>>

-----------------------------------------------------------------------------
CallerStep(c) ==
  Lock(c) \/ Invoke(c) \/ InvokeFails(c) \/ SemWait(c) \/ ReadResult(c) \/ Return(c)

RegistrarStep(r) ==
  RegisterInvoke(r) \/ SemWait(r) \/ ReadResult(r) \/ RegisterReset(r) \/ Watch(r)

DeathStep(t) == DeathCallback(t) \/ Cancel(t) \/ Check(t) \/ Post(t) \/ Lock(t)

IpcStep == BundleDaemonCallback \/ Check(Ipc) \/ Post(Ipc)

DaemonStep == Register \/ Execute \/ Refuse \/ SendReply

Next ==
  \/ \E c \in Callers : Call(c) \/ CallerStep(c)
  \/ \E r \in Registrars : RegistrarStep(r)
  \/ \E t \in Threads : DeathStep(t)
  \/ IpcStep \/ DaemonStep \/ Die \/ Restart

Spec == Init /\ [][Next]_vars

(* Every thread runs, the daemon serves its queue and is started again.    *)
(* Nobody has to call and the daemon does not have to die.                 *)
Fairness ==
  /\ \A c \in Callers : WF_vars(CallerStep(c))
  /\ \A r \in Registrars : WF_vars(RegistrarStep(r))
  /\ \A t \in Threads : WF_vars(DeathStep(t))
  /\ WF_vars(IpcStep) /\ WF_vars(DaemonStep) /\ WF_vars(Restart)

FairSpec == Spec /\ Fairness

-----------------------------------------------------------------------------
(* Properties                                                              *)

Places == {"idle", "lock", "invoke", "wait", "read", "reset", "watch",
           "cancel", "check", "post", "done"}

(* The variables have their types; the semaphore is never negative. *)
TypeOK ==
  /\ mutex \in Callers \cup Threads \cup {Nobody}
  /\ sem \in Nat /\ result \in Answers
  /\ initialized \in BOOLEAN /\ watching \in BOOLEAN
  /\ pc \in [Actors -> Places]
  /\ ticket \in [Callers -> Tickets]
  /\ answer \in [Callers \cup Registrars -> Answers]
  /\ calls \in Tickets /\ created \subseteq Threads
  /\ alive \in BOOLEAN /\ registered \in BOOLEAN
  /\ requests \in Seq(Tickets) /\ ran \in Seq(Answers) /\ replies \in Seq(Answers)
  /\ notices \in Nat /\ deaths \in 0 .. MaxDeaths
  /\ executed \subseteq Answers /\ given \subseteq Tickets

InCall(a) == pc[a] \in {"invoke", "wait", "read", "reset", "watch"}

(* At most one thread is between the request it sends and the result it    *)
(* reads: mutex_ is held over both, by the thread that registers after a   *)
(* death of the daemon as well.                                            *)
OneInCall == \A x, y \in Actors : InCall(x) /\ InCall(y) => x = y

(* While the daemon lives, WaitResultSync returns the result of the very   *)
(* function the caller asked for, after the daemon has executed it.        *)
AnswerIsOwn ==
  deaths = 0 =>
    \A c \in Callers : pc[c] = "reset" =>
      answer[c].of = ticket[c] /\ answer[c] \in executed

(* While the daemon lives, every call returns. *)
CallsReturn == \A c \in Callers : pc[c] = "lock" ~> (pc[c] = "idle" \/ deaths > 0)

(* No EC_SUCCESS is returned twice: WaitResultSync resets result_, so that *)
(* a post left over by a death or a late answer does not report an earlier *)
(* success again.                                                          *)
SuccessGivenOnce ==
  [][\A c \in Callers :
       pc[c] = "read" /\ pc'[c] = "reset" /\ result.code = "EC_SUCCESS"
       => result.of \notin given \ {Registration}]_vars

(* The death of the daemon wakes the call that waits for it. *)
DeathWakesCaller ==
  \A c \in Callers : (pc[c] = "wait" /\ notices > 0) ~> pc[c] # "wait"

(* "Register invoke callback and death callback again": once the daemon    *)
(* has died, the thread created for it comes to the end of its work.       *)
RegistersAgain ==
  \A t \in Threads : (pc[t] = "cancel" /\ t \in created) ~> pc[t] = "done"
=============================================================================
