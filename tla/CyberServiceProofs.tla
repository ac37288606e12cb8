------------------------- MODULE CyberServiceProofs -------------------------
(***************************************************************************)
(* Proofs about CyberService, for every number of threads, clients and     *)
(* calls: answers match their requests as long as a uint64_t holds the     *)
(* sequence numbers, and Process never pops an empty list.                 *)
(***************************************************************************)
EXTENDS CyberService, TLAPS

ThreadLocations == {"idle", "register", "wait"}
ProcessLocations == {"none", "top", "sleep", "asleep", "awake", "break", "handle", "ended"}
Messages == [client : Clients, seq : Nat, body : Threads \X Nat]

TypeOK ==
  /\ bound \in Bounds
  /\ sequence_number_ \in [Clients -> Nat]
  /\ pending_requests_ \in [Clients -> SUBSET Nat]
  /\ pending_requests_mutex_ \in [Clients -> Threads \union {NoThread}]
  /\ pc \in [Threads -> ThreadLocations]
  /\ seq \in [Threads -> Nat] /\ calls \in [Threads -> Nat]
  /\ answer \in [Threads -> (Threads \X Nat) \union {NoAnswer}]
  /\ requests \in SUBSET Messages
  /\ responses \in [Clients -> SUBSET Messages]
  /\ request_receiver_ \in 0 .. 2 /\ inited_ \in 0 .. 1 /\ shutdown \in 0 .. 1
  /\ tasks_ \in Seq(Messages)
  /\ spc \in ProcessLocations
  /\ spc = "handle" => task \in Messages
  /\ dpc \in {"none", "clear", "notify", "join", "done"}

\* Process pops a task only when there is one.
PopsATask == spc = "break" /\ inited_ = 1 => tasks_ # <<>>

\* The messages on their way, in either direction or in the service.
InFlight ==
  requests \union {tasks_[j] : j \in 1 .. Len(tasks_)}
    \union {m \in {task} : spc = "handle"} \union UNION {responses[c] : c \in Clients}

\* The numbers that a uint64_t holds.
Numbers == Word * Word
NumbersFit == \A c \in Clients : sequence_number_[c] < Numbers

\* A number on the wire was given out.
Numbered(m) == m.seq <= sequence_number_[m.client]

\* Who waits for this number sent this message.
Matches(m) ==
  \A t \in Threads :
    pc[t] # "idle" /\ ClientOf[t] = m.client /\ seq[t] = m.seq => m.body = Request(t)

CallsInv ==
  /\ \A t \in Threads : seq[t] <= sequence_number_[ClientOf[t]]
  /\ \A t \in Threads : pc[t] # "wait" => answer[t] = NoAnswer

IInv ==
  /\ TypeOK /\ PopsATask /\ CallsInv
  /\ NumbersFit => AnswersMatch /\ \A m \in InFlight : Numbered(m) /\ Matches(m)
-----------------------------------------------------------------------------

\* What the scenario says of the threads has its type.
LEMMA BoundType ==
  ASSUME TypeOK
  PROVE  /\ ClientOf \in [Threads -> Clients] /\ bound.calls \in [Threads -> Nat]
         /\ Receivers \subseteq Clients
BY ServiceConstants DEF TypeOK, ClientOf, Receivers

\* The halves of a number that a uint64_t holds, put together again, are the number.
LEMMA CarriedNumber ==
  ASSUME NEW n \in Nat
  PROVE  /\ Carried(n) \in Nat
         /\ n < Numbers => Carried(n) = n
<1> DEFINE q == n \div Word
           r == n % Word
           h == IF q < Word \div 2 THEN q ELSE q - Word
           j == h * Word + r
<1>1. q \in Nat /\ r \in Nat /\ n = q * Word + r
  BY SMTT(30), ServiceConstants
<1>2. Carried(n) = IF j < 0 THEN j + Word * Word ELSE j
  BY DEF Carried, Joined, Halves
<1> HIDE DEF q, r
<1>3. CASE h = q
  <2>1. j = n
    BY <1>1, <1>3
  <2> QED
    BY <1>2, <2>1
<1>4. CASE h = q - Word
  <2>1. (q - Word) * Word = q * Word - Word * Word
    BY <1>1, ServiceConstants
  <2>2. Word * Word \in Nat /\ q * Word \in Nat
    BY <1>1, ServiceConstants
  <2>3. j = n - Word * Word
    BY <1>1, <1>4, <2>1, <2>2
  <2> HIDE DEF j
  <2> QED
    BY <1>2, <2>2, <2>3 DEF Numbers
<1> QED
  BY Zenon, <1>3, <1>4

-----------------------------------------------------------------------------
(* Every step keeps the types, and Process pops a task only when there is one. *)

\* The types hold at the start.
LEMMA InitType == Init => TypeOK /\ PopsATask
BY ServiceConstants DEF Init, TypeOK, PopsATask, ThreadLocations, ProcessLocations

\* A step of a thread of a client.
LEMMA ClientType ==
  ASSUME TypeOK, NEW t \in Threads, AsyncSendRequest(t) \/ Call(t), UNCHANGED bound
  PROVE  TypeOK'
<1> USE BoundType
<1>1. CASE AsyncSendRequest(t)
  <2> DEFINE c == ClientOf[t]
             n == sequence_number_[c] + 1
             m == [client |-> c, seq |-> Carried(n), body |-> <<t, calls[t] + 1>>]
  <2>1. c \in Clients /\ n \in Nat /\ calls[t] + 1 \in Nat
    BY DEF TypeOK
  <2>2. m \in Messages
    BY <2>1, CarriedNumber DEF Messages
  <2> QED
    BY ZenonT(60), <1>1, <2>1, <2>2 DEF AsyncSendRequest, SendNext, TypeOK, ThreadLocations, service
<1>2. CASE Register(t)
  BY ZenonT(60), <1>2 DEF Register, TypeOK, ThreadLocations, service
<1>3. CASE SendRequestReturns(t)
  BY ZenonT(60), <1>3 DEF SendRequestReturns, TypeOK, ThreadLocations, service, client
<1> QED
  BY SMTT(60), <1>1, <1>2, <1>3 DEF Call

\* A response is handled by its client.
LEMMA ResponseType ==
  ASSUME TypeOK, NEW c \in Clients, NEW m \in responses[c], HandleResponse(c, m), UNCHANGED bound
  PROVE  TypeOK'
<1>1. m \in Messages /\ m.seq \in Nat /\ m.body \in Threads \X Nat
  BY DEF TypeOK, Messages
<1>2. responses' \in [Clients -> SUBSET Messages]
  BY DEF TypeOK, HandleResponse
<1>3. pending_requests_' \in [Clients -> SUBSET Nat]
  BY ZenonT(60) DEF TypeOK, HandleResponse
<1>4. answer' \in [Threads -> (Threads \X Nat) \union {NoAnswer}]
  BY ZenonT(60), <1>1 DEF TypeOK, HandleResponse, SetValue
<1> QED
  BY SMTT(60), <1>2, <1>3, <1>4 DEF HandleResponse, TypeOK, service

\* What the service does with its own state.
ServiceStep ==
  \/ Serve \/ Receive \/ SpuriousWakeup \/ Destroy \/ Destroying \/ Shutdown

\* A step of the service, of its receiver or of its thread.
LEMMA ServiceType ==
  ASSUME TypeOK, PopsATask, ServiceStep, UNCHANGED bound
  PROVE  TypeOK' /\ PopsATask'
<1> USE DEF client, thread, ProcessLocations
<1>1. CASE CreateReceiver
  BY <1>1 DEF CreateReceiver, TypeOK, PopsATask
<1>2. CASE StartProcess
  BY <1>2 DEF StartProcess, TypeOK, PopsATask
<1>3. CASE ProcessTop \/ Sleep \/ SpuriousWakeup \/ Break
  BY <1>3 DEF ProcessTop, Sleep, SpuriousWakeup, Break, ProcessAt, TypeOK, PopsATask
<1>4. CASE WaitTest
  BY <1>4 DEF WaitTest, ProcessAt, TypeOK, PopsATask
<1>5. CASE PopTask
  <2>1. tasks_ # <<>>
    BY <1>5 DEF PopTask, ProcessAt, PopsATask
  <2>2. task' \in Messages /\ tasks_' \in Seq(Messages)
    BY <1>5, <2>1 DEF PopTask, TypeOK
  <2> QED
    BY SMTT(60), <1>5, <2>2 DEF PopTask, ProcessAt, TypeOK, PopsATask
<1>6. CASE HandleRequest
  <2>1. task \in Messages
    BY <1>6 DEF HandleRequest, ProcessAt, TypeOK
  <2>2. [task EXCEPT !.seq = Carried(@)] \in Messages
    BY <2>1, CarriedNumber DEF Messages
  <2>3. responses' \in [Clients -> SUBSET Messages]
    BY <1>6, <2>2 DEF HandleRequest, TypeOK
  <2> QED
    BY <1>6, <2>3 DEF HandleRequest, ProcessAt, TypeOK, PopsATask
<1>7. CASE Receive
  <2> PICK m \in requests : Enqueue(m)
    BY <1>7 DEF Receive
  <2>1. tasks_' \in Seq(Messages) /\ requests' \in SUBSET Messages
    BY DEF Enqueue, TypeOK
  <2>2. Len(tasks_') = Len(tasks_) + 1 /\ Len(tasks_) \in Nat
    BY DEF Enqueue, TypeOK
  <2>3. tasks_' # <<>>
    BY <2>2
  <2> QED
    BY <2>1, <2>3 DEF Enqueue, Notified, TypeOK, PopsATask
<1>8. CASE Destroy
  BY <1>8 DEF Destroy, DestroyAt, TypeOK, PopsATask
<1>9. CASE ClearTasks
  BY <1>9 DEF ClearTasks, DestroyAt, QueueLocked, TypeOK, PopsATask
<1>10. CASE NotifyAll \/ Join
  BY <1>10 DEF NotifyAll, Join, DestroyAt, Notified, TypeOK, PopsATask
<1>11. CASE Shutdown
  BY <1>11 DEF Shutdown, TypeOK, PopsATask
<1> QED
  BY <1>1, <1>2, <1>3, <1>4, <1>5, <1>6, <1>7, <1>8, <1>9, <1>10, <1>11
     DEF ServiceStep, Serve, Destroying

-----------------------------------------------------------------------------
(* Every step keeps the rest of IInv. *)

\* The part of IInv that is about the messages and who waits for them.
Core ==
  /\ CallsInv
  /\ NumbersFit => AnswersMatch /\ \A m \in InFlight : Numbered(m) /\ Matches(m)

\* What is on its way is a message.
LEMMA InFlightType ==
  ASSUME TypeOK
  PROVE  InFlight \subseteq Messages
<1>1. \A j \in 1 .. Len(tasks_) : tasks_[j] \in Messages
  BY DEF TypeOK
<1> QED
  BY <1>1 DEF TypeOK, InFlight

\* Messages that only go from place to place change nothing for their senders.
LEMMA Carry ==
  ASSUME TypeOK, Core, UNCHANGED <<client, thread, bound>>,
         NumbersFit => InFlight' \subseteq InFlight
  PROVE  Core'
BY DEF Core, CallsInv, NumbersFit, AnswersMatch, Numbered, Matches, Request, ClientOf, client, thread

\* The service takes a message from one place to another, and adds none.
LEMMA ServiceCarries ==
  ASSUME TypeOK, PopsATask, Core, ServiceStep
  PROVE  UNCHANGED <<client, thread>> /\ (NumbersFit => InFlight' \subseteq InFlight)
<1> USE DEF client, thread
<1>1. CASE PopTask
  <2>1. tasks_ # <<>> /\ tasks_ \in Seq(Messages)
    BY <1>1 DEF PopTask, ProcessAt, PopsATask, TypeOK
  <2>2. task' = tasks_[1] /\ 1 \in 1 .. Len(tasks_)
    BY <1>1, <2>1 DEF PopTask
  <2>3. \A j \in 1 .. Len(tasks_') : j + 1 \in 1 .. Len(tasks_) /\ tasks_'[j] = tasks_[j + 1]
    BY <1>1, <2>1 DEF PopTask
  <2> QED
    BY <1>1, <2>2, <2>3 DEF PopTask, ProcessAt, InFlight
<1>2. CASE HandleRequest
  <2>1. UNCHANGED <<client, thread>>
    BY <1>2 DEF HandleRequest, ProcessAt
  <2> SUFFICES ASSUME NumbersFit PROVE InFlight' \subseteq InFlight
    BY <2>1
  <2>2. spc = "handle" /\ task \in Messages /\ task \in InFlight
    BY <1>2 DEF HandleRequest, ProcessAt, TypeOK, InFlight
  <2>3. Carried(task.seq) = task.seq
    <3>1. task.seq \in Nat /\ task.client \in Clients /\ task.seq <= sequence_number_[task.client]
      BY <2>2 DEF Messages, Core, Numbered
    <3>2. sequence_number_[task.client] \in Nat /\ sequence_number_[task.client] < Numbers
      BY <3>1 DEF TypeOK, NumbersFit
    <3>3. Numbers \in Nat
      BY ServiceConstants DEF Numbers
    <3> QED
      BY <3>1, <3>2, <3>3, CarriedNumber
  <2>4. [task EXCEPT !.seq = Carried(@)] = task
    BY <2>2, <2>3 DEF Messages
  <2>5. \A c \in Clients : responses'[c] \subseteq responses[c] \union {task}
    BY <1>2, <2>4 DEF HandleRequest, TypeOK
  <2> QED
    BY <1>2, <2>5 DEF HandleRequest, ProcessAt, InFlight
<1>3. CASE Receive
  <2> PICK m \in requests : Enqueue(m)
    BY <1>3 DEF Receive
  <2>1. m \in Messages /\ tasks_ \in Seq(Messages)
    BY DEF TypeOK
  <2>2. \A j \in 1 .. Len(tasks_') : tasks_'[j] = m \/ (j \in 1 .. Len(tasks_) /\ tasks_'[j] = tasks_[j])
    BY <2>1 DEF Enqueue
  <2>3. requests' \subseteq requests /\ (spc' = "handle" => spc = "handle")
    BY DEF Enqueue, Notified
  <2> QED
    BY <2>2, <2>3 DEF Enqueue, InFlight
<1>4. CASE ClearTasks
  <2>1. Len(tasks_') = 0
    BY <1>4 DEF ClearTasks
  <2> QED
    BY <1>4, <2>1 DEF ClearTasks, DestroyAt, InFlight
<1>5. CASE CreateReceiver \/ StartProcess \/ Shutdown
  BY <1>5 DEF CreateReceiver, StartProcess, Shutdown, InFlight
<1>6. CASE ProcessTop \/ WaitTest \/ Sleep \/ SpuriousWakeup \/ Break
  BY SMTT(60), <1>6 DEF ProcessTop, WaitTest, Sleep, SpuriousWakeup, Break, ProcessAt, InFlight
<1>7. CASE Destroy \/ NotifyAll \/ Join
  BY <1>7 DEF Destroy, NotifyAll, Join, DestroyAt, Notified, InFlight
<1> QED
  BY <1>1, <1>2, <1>3, <1>4, <1>5, <1>6, <1>7 DEF ServiceStep, Serve, Destroying

\* A new request: nobody else has its number, and no message that is on its way.
LEMMA SendKeeps ==
  ASSUME TypeOK, TypeOK', Core, NEW t \in Threads, AsyncSendRequest(t), UNCHANGED bound
  PROVE  Core'
<1> DEFINE c == ClientOf[t]
           n == sequence_number_[c] + 1
           new == [client |-> c, seq |-> Carried(n), body |-> <<t, calls[t] + 1>>]
<1>1. /\ c \in Clients /\ n \in Nat
      /\ sequence_number_' = [sequence_number_ EXCEPT ![c] = n]
      /\ sequence_number_ \in [Clients -> Nat]
      /\ \A u \in Threads : ClientOf[u] \in Clients /\ seq[u] \in Nat
      /\ ClientOf' = ClientOf
  BY ZenonT(60), BoundType DEF AsyncSendRequest, SendNext, TypeOK, ClientOf
<1>2. /\ pc[t] = "idle" /\ pc'[t] = "register"
      /\ seq'[t] = n /\ calls'[t] = calls[t] + 1
      /\ \A u \in Threads \ {t} : pc'[u] = pc[u] /\ seq'[u] = seq[u] /\ calls'[u] = calls[u]
      /\ answer' = answer
  BY DEF AsyncSendRequest, SendNext, TypeOK
<1>3. InFlight' \subseteq InFlight \union {new}
  <2>1. /\ requests' = requests \union {new}
        /\ UNCHANGED <<responses, tasks_, task, spc>>
    BY DEF AsyncSendRequest, SendNext, service
  <2> HIDE DEF new
  <2> QED
    BY <2>1 DEF InFlight
<1> HIDE DEF c, n
<1>4. CallsInv'
  <2>1. seq'[t] <= sequence_number_'[ClientOf'[t]]
    BY <1>1, <1>2 DEF c
  <2>2. ASSUME NEW u \in Threads, u # t PROVE seq'[u] <= sequence_number_'[ClientOf'[u]]
    BY <1>1, <1>2 DEF c, n, Core, CallsInv
  <2>3. \A u \in Threads : pc'[u] # "wait" => answer'[u] = NoAnswer
    BY <1>2 DEF Core, CallsInv
  <2> QED
    BY <2>1, <2>2, <2>3 DEF CallsInv
<1> SUFFICES ASSUME NumbersFit'
             PROVE  AnswersMatch' /\ \A m \in InFlight' : Numbered(m)' /\ Matches(m)'
  BY <1>4 DEF Core
<1>5. n < Numbers /\ NumbersFit
  <2>1. n < Numbers
    BY <1>1 DEF NumbersFit
  <2>2. ASSUME NEW d \in Clients PROVE sequence_number_[d] < Numbers
    <3>1. sequence_number_'[d] < Numbers
      BY DEF NumbersFit
    <3>2. CASE d = c
      BY <1>1, <2>1, <3>2, ServiceConstants DEF n, Numbers
    <3>3. CASE d # c
      BY <1>1, <3>1, <3>3
    <3> QED
      BY <3>2, <3>3
  <2> QED
    BY <2>1, <2>2 DEF NumbersFit
<1>6. Carried(n) = n
  BY <1>1, <1>5, CarriedNumber
<1>7. AnswersMatch'
  <2>1. answer[t] = NoAnswer
    BY SMTT(60), <1>2 DEF Core, CallsInv
  <2> QED
    BY SMTT(60), <1>2, <1>5, <2>1 DEF Core, AnswersMatch, Request
<1>8. ASSUME NEW m \in InFlight, m \in Messages PROVE Numbered(m)' /\ Matches(m)'
  <2>1. Numbered(m) /\ Matches(m)
    BY <1>5 DEF Core
  <2>2. m.client \in Clients /\ m.seq \in Nat
    BY SMTT(60), <1>8 DEF Messages
  <2>3. Numbered(m)'
    BY <1>1, <2>1, <2>2 DEF Numbered, n
  <2>4. ~(m.client = c /\ m.seq = n)
    BY SMTT(60), <1>1, <1>5, <1>6, <2>1, <2>2 DEF Numbered, n
  <2> QED
    BY <1>1, <1>2, <2>1, <2>3, <2>4 DEF Matches, Request, c
<1>9. ASSUME NEW m, m = new PROVE Numbered(m)' /\ Matches(m)'
  <2>0. m.client = c /\ m.seq = Carried(n) /\ m.body = <<t, calls[t] + 1>>
    BY <1>9
  <2> HIDE DEF new
  <2>1. Numbered(m)'
    BY <1>1, <1>6, <2>0 DEF Numbered
  <2>2. ASSUME NEW u \in Threads, u # t, ClientOf[u] = c PROVE seq[u] # Carried(n)
    BY <1>1, <1>5, <1>6, <2>2 DEF Core, CallsInv, n
  <2> QED
    BY <1>1, <1>2, <2>0, <2>1, <2>2 DEF Matches, Request, c
<1> HIDE DEF new
<1> SUFFICES ASSUME NEW m \in InFlight' PROVE Numbered(m)' /\ Matches(m)'
  BY <1>7
<1>10. m \in InFlight => m \in Messages
  BY InFlightType
<1> QED
  BY SMTT(60), <1>3, <1>8, <1>9, <1>10

\* Recording the request, and returning with an answer or without one.
LEMMA CallKeeps ==
  ASSUME TypeOK, Core, NEW t \in Threads, Call(t), UNCHANGED bound
  PROVE  Core'
<1>1. /\ UNCHANGED <<sequence_number_, calls, requests, responses, tasks_, task, spc, bound>>
      /\ \/ /\ pc[t] = "register" /\ pc' = [pc EXCEPT ![t] = "wait"]
            /\ UNCHANGED <<seq, answer>>
         \/ /\ pc[t] = "wait" /\ pc' = [pc EXCEPT ![t] = "idle"]
            /\ seq' = [seq EXCEPT ![t] = 0] /\ answer' = [answer EXCEPT ![t] = NoAnswer]
  BY DEF Call, Register, SendRequestReturns, client, service
<1>2. InFlight' = InFlight /\ NumbersFit' = NumbersFit /\ ClientOf' = ClientOf
  BY <1>1 DEF InFlight, NumbersFit, ClientOf
<1>3. \A u \in Threads : pc'[u] # "idle" => pc[u] # "idle" /\ seq'[u] = seq[u]
  BY <1>1 DEF TypeOK
<1>4. CallsInv'
  <2>1. ASSUME NEW u \in Threads
        PROVE  /\ seq'[u] <= sequence_number_'[ClientOf'[u]]
               /\ pc'[u] # "wait" => answer'[u] = NoAnswer
    <3>1. ClientOf[u] \in Clients /\ sequence_number_[ClientOf[u]] \in Nat
      BY SMTT(60), BoundType DEF TypeOK
    <3>2. seq'[u] \in {seq[u], 0} /\ answer'[u] \in {answer[u], NoAnswer}
      BY <1>1 DEF TypeOK
    <3>3. seq[u] <= sequence_number_[ClientOf[u]]
      BY DEF Core, CallsInv
    <3>4. seq'[u] <= sequence_number_'[ClientOf'[u]]
      BY <1>1, <1>2, <3>1, <3>2, <3>3
    <3>5. pc'[u] # "wait" => answer'[u] = NoAnswer
      BY <1>1, <3>2 DEF Core, CallsInv, TypeOK
    <3> QED
      BY SMTT(60), <3>4, <3>5
  <2> QED
    BY <2>1 DEF CallsInv
<1>5. AnswersMatch => AnswersMatch'
  BY SMTT(60), <1>1 DEF TypeOK, AnswersMatch, Request
<1>6. ASSUME NEW m, Numbered(m), Matches(m) PROVE Numbered(m)' /\ Matches(m)'
  BY SMTT(60), <1>1, <1>2, <1>3, <1>6 DEF Numbered, Matches, Request
<1> QED
  BY SMTT(60), <1>2, <1>4, <1>5, <1>6 DEF Core

\* An answer reaches the thread that waits for its number, which sent the request.
LEMMA ResponseKeeps ==
  ASSUME TypeOK, Core, NEW c \in Clients, NEW m \in responses[c], HandleResponse(c, m), UNCHANGED bound
  PROVE  Core'
<1>1. UNCHANGED <<sequence_number_, pc, seq, calls, requests, tasks_, task, spc, bound>>
  BY DEF HandleResponse, service
<1>2. InFlight' \subseteq InFlight
  <2>1. \A d \in Clients : responses'[d] \subseteq responses[d]
    BY DEF HandleResponse, TypeOK
  <2> QED
    BY SMTT(60), <1>1, <2>1 DEF InFlight
<1>3. NumbersFit' = NumbersFit /\ ClientOf' = ClientOf
  BY SMTT(60), <1>1 DEF NumbersFit, ClientOf
<1>4. ASSUME NEW t \in Threads
      PROVE  \/ answer'[t] = answer[t]
             \/ m.client = c /\ ClientOf[t] = c /\ pc[t] = "wait" /\ seq[t] = m.seq /\ answer'[t] = m.body
  BY SMTT(60) DEF HandleResponse, SetValue
<1>5. CallsInv'
  BY SMTT(60), <1>1, <1>3, <1>4 DEF Core, CallsInv
<1>6. NumbersFit => AnswersMatch'
  <2> SUFFICES ASSUME NumbersFit, NEW t \in Threads PROVE answer'[t] \in {NoAnswer, Request(t)}
    BY <1>1 DEF AnswersMatch, Request
  <2>1. m \in InFlight
    BY DEF InFlight
  <2> QED
    BY <1>4, <2>1 DEF Core, AnswersMatch, Matches
<1>7. ASSUME NEW k, Numbered(k), Matches(k) PROVE Numbered(k)' /\ Matches(k)'
  BY <1>1, <1>3, <1>7 DEF Numbered, Matches, Request
<1> QED
  BY <1>2, <1>3, <1>5, <1>6, <1>7 DEF Core

-----------------------------------------------------------------------------

\* IInv is an inductive invariant.
THEOREM Inductive == Spec => []IInv
<1>1. Init => IInv
  <2> SUFFICES ASSUME Init PROVE Core
    BY InitType DEF IInv, Core
  <2>1. InFlight = {}
    BY SMTT(60) DEF Init, InFlight
  <2>2. CallsInv
    BY InitType, BoundType DEF Init, CallsInv
  <2> QED
    BY <2>1, <2>2 DEF Init, Core, AnswersMatch
<1>2. IInv /\ [Next]_vars => IInv'
  <2> SUFFICES ASSUME TypeOK, PopsATask, Core, [Next]_vars PROVE TypeOK' /\ PopsATask' /\ Core'
    BY DEF IInv, Core
  <2>1. CASE UNCHANGED vars
    <3>1. TypeOK' /\ PopsATask'
      BY SMTT(60), <2>1 DEF TypeOK, PopsATask, vars, state, client, thread, service
    <3>2. InFlight' = InFlight /\ UNCHANGED <<client, thread, bound>>
      BY <2>1 DEF InFlight, vars, state, service
    <3> QED
      BY <3>1, <3>2, Carry
  <2>2. CASE UNCHANGED bound /\ \E t \in Threads : AsyncSendRequest(t) \/ Call(t)
    <3> PICK t \in Threads : AsyncSendRequest(t) \/ Call(t)
      BY <2>2
    <3>1. TypeOK'
      BY SMTT(60), <2>2, ClientType
    <3>2. PopsATask'
      BY DEF PopsATask, AsyncSendRequest, SendNext, Call, Register, SendRequestReturns, service
    <3> QED
      BY <2>2, <3>1, <3>2, SendKeeps, CallKeeps
  <2>3. CASE UNCHANGED bound /\ \E c \in Clients : Respond(c)
    <3> PICK c \in Clients : Respond(c)
      BY <2>3
    <3> PICK m \in responses[c] : HandleResponse(c, m)
      BY DEF Respond
    <3>1. TypeOK'
      BY SMTT(60), <2>3, ResponseType
    <3>2. PopsATask'
      BY DEF PopsATask, HandleResponse, service
    <3> QED
      BY <2>3, <3>1, <3>2, ResponseKeeps
  <2>4. CASE UNCHANGED bound /\ ServiceStep
    BY <2>4, ServiceType, ServiceCarries, Carry
  <2> QED
    BY <2>1, <2>2, <2>3, <2>4 DEF Next, ServiceStep
<1> QED
  BY <1>1, <1>2, PTL DEF Spec

\* A caller gets the answer to its own request or none, as long as a uint64_t holds
\* the numbers its client has given out: the halves on the wire (rtps_transmitter.h,
\* sub_listener.cc) tell them all apart.
THEOREM Answers == Spec => [](NumbersFit => AnswersMatch)
<1>1. IInv => (NumbersFit => AnswersMatch)
  BY DEF IInv
<1> QED
  BY <1>1, Inductive, PTL

\* Process takes the front of its list only when there is one, although destroy
\* writes inited_ without the mutex and clears the list.
THEOREM Pops == Spec => []PopsATask
<1>1. IInv => PopsATask
  BY DEF IInv
<1> QED
  BY <1>1, Inductive, PTL
=============================================================================
