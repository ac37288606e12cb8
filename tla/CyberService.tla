---------------------------- MODULE CyberService ----------------------------
(***************************************************************************)
(* Requests and responses of my_cyber: service/client.h, service/service.h *)
(* and how rtps_transmitter.h and sub_listener.cc carry sequence numbers.  *)
(*                                                                         *)
(* Threads of several clients send requests to one service.  A request is  *)
(* on the wire before its client has recorded it as pending; the answers   *)
(* are broadcast to every client.  The service puts requests on a list,    *)
(* from which its own thread takes them; destroy stops that thread.        *)
(*                                                                         *)
(* The wire is RTPS with the reliable profile of the services: a message   *)
(* arrives once, in any order with those of other threads.                 *)
(***************************************************************************)
EXTENDS Integers, Sequences, FiniteSets

CONSTANTS
  Threads, Clients,
  NoThread, NoAnswer,
  Word,                \* 2^32: half of a sequence number on the wire
  Bounds               \* which client each thread calls, and how often at most

ASSUME ServiceConstants ==
  /\ Bounds \subseteq [clientOf : [Threads -> Clients], calls : [Threads -> Nat]]
  /\ NoThread \notin Threads /\ Word \in Nat /\ Word > 1

VARIABLES
  sequence_number_, pending_requests_, pending_requests_mutex_,  \* of each client
  pc, seq, calls,      \* where a thread is, its sequence number, its calls
  answer,              \* what the promise of its call was set to
  requests, responses, \* the wire, to the service and to each client
  request_receiver_,   \* 0 before Init, 1 created, 2 creation failed
  inited_, tasks_,
  spc, task,           \* where Process is, and the task it has taken
  dpc,                 \* where destroy is
  shutdown,            \* cyber::IsShutdown()
  bound                \* the scenario, one of Bounds

client == <<sequence_number_, pending_requests_, pending_requests_mutex_>>
thread == <<pc, seq, calls, answer>>
service == <<request_receiver_, inited_, tasks_, spc, task, dpc, shutdown>>
state == <<client, thread, requests, responses, service>>
vars == <<state, bound>>

ClientOf == bound.clientOf
Receivers == {ClientOf[t] : t \in Threads}

\* What the thread asks for: the service computes its answer from it.
Request(t) == <<t, calls[t]>>

-----------------------------------------------------------------------------
(***************************************************************************)
(* Client::SendRequest and AsyncSendRequest.                               *)
(***************************************************************************)

\* A number crosses the wire in two halves, the upper one as an int32_t and the lower
\* one as a uint32_t.
Halves(n) ==
  LET h == n \div Word IN
  [high |-> IF h < Word \div 2 THEN h ELSE h - Word, low |-> n % Word]

\* They are put together as an int64_t, which is stored as a uint64_t.
Joined(s) ==
  LET n == s.high * Word + s.low IN IF n < 0 THEN n + Word * Word ELSE n

Carried(n) == Joined(Halves(n))

\* The next number is taken and the request transmitted.
SendNext(t) ==
  LET c == ClientOf[t]
      n == sequence_number_[c] + 1
  IN /\ pc[t] = "idle" /\ calls[t] < bound.calls[t]
     /\ pending_requests_mutex_[c] = NoThread
     /\ sequence_number_' = [sequence_number_ EXCEPT ![c] = n]
     /\ seq' = [seq EXCEPT ![t] = n]
     /\ calls' = [calls EXCEPT ![t] = @ + 1]
     /\ requests' = requests \union
          {[client |-> c, seq |-> Carried(n), body |-> <<t, calls[t] + 1>>]}
     /\ pc' = [pc EXCEPT ![t] = "register"]
     /\ UNCHANGED <<pending_requests_, answer, responses, service>>

AsyncSendRequest(t) ==
  /\ SendNext(t)
  /\ pending_requests_mutex_' = [pending_requests_mutex_ EXCEPT ![ClientOf[t]] = t]

Register(t) ==
  LET c == ClientOf[t] IN
  /\ pc[t] = "register"
  /\ pending_requests_' = [pending_requests_ EXCEPT ![c] = @ \union {seq[t]}]
  /\ pending_requests_mutex_' = [pending_requests_mutex_ EXCEPT ![c] = NoThread]
  /\ pc' = [pc EXCEPT ![t] = "wait"]
  /\ UNCHANGED <<sequence_number_, seq, calls, answer, requests, responses, service>>

\* wait_for: the answer is there, or the time is over.  Nobody removes the
\* request then, and its answer may still come.
SendRequestReturns(t) ==
  /\ pc[t] = "wait"
  /\ pc' = [pc EXCEPT ![t] = "idle"]
  /\ seq' = [seq EXCEPT ![t] = 0]
  /\ answer' = [answer EXCEPT ![t] = NoAnswer]
  /\ UNCHANGED <<client, calls, requests, responses, service>>

\* The promise of a pending request is set; its future may have no reader any more.
SetValue(c, m) ==
  answer' = [t \in Threads |->
    IF ClientOf[t] = c /\ pc[t] = "wait" /\ seq[t] = m.seq THEN m.body ELSE answer[t]]

\* A mutant: the answers of other clients are not told apart.
HandleAnyResponse(c, m) ==
  /\ m \in responses[c] /\ pending_requests_mutex_[c] = NoThread
  /\ responses' = [responses EXCEPT ![c] = @ \ {m}]
  /\ IF m.seq \in pending_requests_[c]
     THEN /\ pending_requests_' = [pending_requests_ EXCEPT ![c] = @ \ {m.seq}]
          /\ SetValue(c, m)
     ELSE UNCHANGED <<pending_requests_, answer>>
  /\ UNCHANGED <<sequence_number_, pending_requests_mutex_, pc, seq, calls, requests, service>>

\* An answer for another client, or for no pending request, is dropped.
HandleResponse(c, m) ==
  /\ m \in responses[c] /\ pending_requests_mutex_[c] = NoThread
  /\ responses' = [responses EXCEPT ![c] = @ \ {m}]
  /\ IF m.client = c /\ m.seq \in pending_requests_[c]
     THEN /\ pending_requests_' = [pending_requests_ EXCEPT ![c] = @ \ {m.seq}]
          /\ SetValue(c, m)
     ELSE UNCHANGED <<pending_requests_, answer>>
  /\ UNCHANGED <<sequence_number_, pending_requests_mutex_, pc, seq, calls, requests, service>>

-----------------------------------------------------------------------------
(***************************************************************************)
(* Service.  queue_mutex_ is held by Process from its test to its sleep,   *)
(* its end or its pop; Enqueue and destroy hold it for one step.           *)
(***************************************************************************)

\* Init creates the receiver, which may fail; from now on requests arrive.
CreateReceiver ==
  /\ request_receiver_ = 0
  /\ request_receiver_' \in {1, 2}
  /\ UNCHANGED <<client, thread, requests, responses, inited_, tasks_, spc, task, dpc, shutdown>>

\* Init starts the thread, also when the receiver was not created.
StartProcess ==
  /\ request_receiver_ # 0 /\ spc = "none"
  /\ inited_' = 1 /\ spc' = "top"
  /\ UNCHANGED <<client, thread, requests, responses, request_receiver_, tasks_, task, dpc, shutdown>>

QueueLocked == spc \in {"sleep", "break"}
Notified == IF spc = "asleep" THEN "awake" ELSE spc

\* A mutant: nobody is notified.
EnqueueSilently(m) ==
  /\ m \in requests /\ request_receiver_ = 1 /\ dpc # "done" /\ ~QueueLocked
  /\ requests' = requests \ {m}
  /\ tasks_' = Append(tasks_, m)
  /\ UNCHANGED <<client, thread, responses, request_receiver_, inited_, spc, task, dpc, shutdown>>

\* The receiver's callback, until the service is destroyed.
Enqueue(m) ==
  /\ m \in requests /\ request_receiver_ = 1 /\ dpc # "done" /\ ~QueueLocked
  /\ requests' = requests \ {m}
  /\ tasks_' = Append(tasks_, m)
  /\ spc' = Notified
  /\ UNCHANGED <<client, thread, responses, request_receiver_, inited_, task, dpc, shutdown>>

ProcessAt(l, next) ==
  /\ spc = l /\ spc' = next
  /\ UNCHANGED <<client, thread, requests, request_receiver_, inited_, dpc, shutdown>>

\* The loop ends, or the mutex is locked and the condition of the wait is tested;
\* a thread that was woken has the mutex again and tests it too.
ProcessTop ==
  /\ shutdown = 1
  /\ ProcessAt("top", "ended")
  /\ UNCHANGED <<responses, tasks_, task>>

WaitTest ==
  /\ spc = "top" => shutdown = 0
  /\ \E l \in {"top", "awake"} :
       ProcessAt(l, IF inited_ = 1 /\ tasks_ = <<>> THEN "sleep" ELSE "break")
  /\ UNCHANGED <<responses, tasks_, task>>

\* The mutex is released and the thread sleeps, in one step.
Sleep == ProcessAt("sleep", "asleep") /\ UNCHANGED <<responses, tasks_, task>>

SpuriousWakeup == ProcessAt("asleep", "awake") /\ UNCHANGED <<responses, tasks_, task>>

\* The wait is over.  If inited_ still holds, the list has a task: only destroy
\* takes tasks away, after inited_ and with the mutex.
Break ==
  /\ inited_ = 0
  /\ ProcessAt("break", "ended")
  /\ UNCHANGED <<responses, tasks_, task>>

PopTask ==
  /\ inited_ = 1
  /\ ProcessAt("break", "handle")
  /\ task' = Head(tasks_) /\ tasks_' = Tail(tasks_)
  /\ UNCHANGED responses

\* service_callback_ and SendResponse; every client receives the response.
HandleRequest ==
  /\ ProcessAt("handle", "top")
  /\ responses' = [c \in Clients |->
       IF c \in Receivers THEN responses[c] \union {[task EXCEPT !.seq = Carried(@)]} ELSE {}]
  /\ task' = NoAnswer
  /\ UNCHANGED tasks_

DestroyAt(l, next) ==
  /\ dpc = l /\ dpc' = next
  /\ UNCHANGED <<client, thread, requests, responses, request_receiver_, task, shutdown>>

\* inited_ is written without the mutex.
Destroy ==
  /\ spc # "none"
  /\ DestroyAt("none", "clear")
  /\ inited_' = 0
  /\ UNCHANGED <<tasks_, spc>>

\* A mutant: the list is cleared without the mutex.
ClearUnlocked ==
  /\ DestroyAt("clear", "notify")
  /\ tasks_' = <<>>
  /\ UNCHANGED <<inited_, spc>>

ClearTasks ==
  /\ ~QueueLocked
  /\ DestroyAt("clear", "notify")
  /\ tasks_' = <<>>
  /\ UNCHANGED <<inited_, spc>>

NotifyAll ==
  /\ DestroyAt("notify", "join")
  /\ spc' = Notified
  /\ UNCHANGED <<inited_, tasks_>>

Join ==
  /\ spc = "ended"
  /\ DestroyAt("join", "done")
  /\ UNCHANGED <<inited_, tasks_, spc>>

\* SIGINT or Clear, at any time; once Process has ended nobody looks.
Shutdown ==
  /\ shutdown = 0 /\ shutdown' = 1 /\ spc # "ended"
  /\ UNCHANGED <<client, thread, requests, responses, request_receiver_, inited_, tasks_, spc, task, dpc>>

-----------------------------------------------------------------------------

Init ==
  /\ bound \in Bounds
  /\ sequence_number_ = [c \in Clients |-> 0]
  /\ pending_requests_ = [c \in Clients |-> {}]
  /\ pending_requests_mutex_ = [c \in Clients |-> NoThread]
  /\ pc = [t \in Threads |-> "idle"]
  /\ seq = [t \in Threads |-> 0]
  /\ calls = [t \in Threads |-> 0]
  /\ answer = [t \in Threads |-> NoAnswer]
  /\ requests = {}
  /\ responses = [c \in Clients |-> {}]
  /\ request_receiver_ = 0 /\ inited_ = 0 /\ tasks_ = <<>>
  /\ spc = "none" /\ task = NoAnswer /\ dpc = "none" /\ shutdown = 0

Call(t) == Register(t) \/ SendRequestReturns(t)

Respond(c) == \E m \in responses[c] : HandleResponse(c, m)

Serve == CreateReceiver \/ StartProcess \/ ProcessTop \/ WaitTest \/ Sleep \/ Break \/ PopTask \/ HandleRequest

Receive == \E m \in requests : Enqueue(m)

Destroying == ClearTasks \/ NotifyAll \/ Join

Next ==
  /\ UNCHANGED bound
  /\ \/ \E t \in Threads : AsyncSendRequest(t) \/ Call(t)
     \/ \E c \in Clients : Respond(c)
     \/ Serve \/ Receive \/ SpuriousWakeup \/ Destroy \/ Destroying \/ Shutdown

Spec == Init /\ [][Next]_vars

\* The threads keep executing and the wire delivers; who waits for queue_mutex_
\* while Process wakes for nothing again and again gets it in the end.  Nobody need
\* call, destroy or shut down.
FairSpec ==
  /\ Spec
  /\ \A t \in Threads : WF_state(Call(t))
  /\ \A c \in Clients : WF_state(Respond(c))
  /\ WF_state(Serve) /\ SF_state(Receive) /\ SF_state(Destroying)

-----------------------------------------------------------------------------
(***************************************************************************)
(* Properties.                                                             *)
(***************************************************************************)

\* A caller gets the answer to its own request, or none: not the answer of a
\* thread that shares its client, nor of a client that uses the same number, nor a
\* late one to its previous request.
AnswersMatch ==
  \A t \in Threads : answer[t] \in {NoAnswer, Request(t)}

\* The service is created and neither destroyed nor shut down.
Serving == request_receiver_ # 2 /\ dpc = "none" /\ shutdown = 0

\* As long as it serves, every request is answered, whether or not its sender
\* still waits: the client's map of pending requests becomes empty.
RequestsAnswered == []Serving => []<>(\A c \in Clients : pending_requests_[c] = {})

\* destroy returns, whenever it is called: Process does not miss its notification
\* between the test of inited_ and its sleep.
DestroyReturns == [](dpc # "none" => <>(dpc = "done"))

=============================================================================
