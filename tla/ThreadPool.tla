----------------------------- MODULE ThreadPool -----------------------------
(***************************************************************************)
(* The loops around BoundedQueue: workers that call WaitDequeue until they *)
(* are stopped, and an owner that stops them and joins.  This is           *)
(* ThreadPool, whose queue blocks on a condition variable, and             *)
(* PerfEventCache, whose queue sleeps and looks again; a strategy tells    *)
(* them apart.  A third, "poll", is TaskManager, whose routines call       *)
(* Dequeue and never wait.                                                 *)
(***************************************************************************)
EXTENDS BoundedQueue

CONSTANT
  Uses              \* how the queue may be used: by which strategy, and bounds on
                    \* who enqueues and on the calls they make

ASSUME UsesAssumption ==
  Uses \subseteq [strategy : {"block", "sleep", "poll"}, producers : SUBSET Producers, calls : 0..Calls]

VARIABLES
  use,              \* which of them it is
  stop_,            \* ThreadPool::stop_, PerfEventCache::shutdown_
  break_all_wait_,
  owner             \* where the destructor or Shutdown is

strategy == use.strategy
poolVars == <<use, stop_, break_all_wait_, owner>>
vars == <<queueVars, poolVars>>

OnlyPc == UNCHANGED <<head_, tail_, commit_, pool, old, copy, taken, item, calls>>

Init ==
  /\ QueueInit
  /\ use \in Uses
  /\ pc = [t \in Producers \cup Consumers |->
             IF t \in Producers THEN "idle" ELSE IF strategy = "poll" THEN "dequeue" ELSE "loop"]
  /\ stop_ = FALSE /\ break_all_wait_ = FALSE /\ owner = "up"

\* ThreadPool::Enqueue returns at once when the pool is stopped, and goes on to
\* the queue when it was not stopped yet; PerfEventCache does not look.
Enqueue(p) ==
  /\ p \in use.producers
  /\ calls + Cardinality({q \in Producers : pc[q] = "submit"}) < use.calls
  /\ stop_ => strategy = "sleep"
  /\ Goto(p, "idle", "submit")
  /\ OnlyPc /\ UNCHANGED poolVars

\* notify_one wakes a thread that waits, if there is one.
NotifyOne(p) ==
  /\ pc[p] = "notify"
  /\ LET blocked == {c \in Consumers : pc[c] = "blocked"}
     IN \/ blocked = {} /\ Goto(p, "notify", "idle")
        \/ \E c \in blocked : pc' = [pc EXCEPT ![p] = "idle", ![c] = "while"]
  /\ OnlyPc /\ UNCHANGED poolVars

WorkerLoop(c) ==
  /\ IF stop_ THEN Goto(c, "loop", "exited") ELSE Goto(c, "loop", "while")
  /\ OnlyPc /\ UNCHANGED poolVars

WaitDequeue(c) ==
  /\ IF break_all_wait_ THEN Goto(c, "while", "loop") ELSE Goto(c, "while", "dequeue")
  /\ OnlyPc /\ UNCHANGED poolVars

\* Mutant: every strategy waits to be notified.
AlwaysBlock(c) ==
  /\ Goto(c, "wait", "blocked")
  /\ OnlyPc /\ UNCHANGED poolVars

\* The condition variable has no predicate: what was notified before the
\* thread blocks is lost on it.
EmptyWait(c) ==
  /\ IF strategy = "block" THEN Goto(c, "wait", "blocked") ELSE Goto(c, "wait", "while")
  /\ OnlyPc /\ UNCHANGED poolVars

SpuriousWakeup(c) ==
  /\ Goto(c, "blocked", "while")
  /\ OnlyPc /\ UNCHANGED poolVars

RunTask(c) ==
  /\ Goto(c, "run", "loop")
  /\ taken' = [taken EXCEPT ![c] = Nothing]
  /\ UNCHANGED <<head_, tail_, commit_, pool, old, copy, item, calls, poolVars>>

Stop ==
  /\ owner = "up" /\ owner' = "break"
  /\ stop_' = TRUE
  /\ UNCHANGED <<queueVars, use, break_all_wait_>>

\* Mutant: only the wait strategy is told, not the queue.
BreakOnlyStrategy ==
  /\ owner = "break" /\ owner' = "notify"
  /\ UNCHANGED <<queueVars, use, stop_, break_all_wait_>>

BreakAllWait ==
  /\ owner = "break" /\ owner' = "notify"
  /\ break_all_wait_' = TRUE
  /\ UNCHANGED <<queueVars, use, stop_>>

NotifyAll ==
  /\ owner = "notify" /\ owner' = "join"
  /\ pc' = [t \in DOMAIN pc |-> IF pc[t] = "blocked" THEN "while" ELSE pc[t]]
  /\ OnlyPc /\ UNCHANGED <<use, stop_, break_all_wait_>>

Join ==
  /\ owner = "join" /\ owner' = "gone"
  /\ \A c \in Consumers : pc[c] = "exited"
  /\ UNCHANGED <<queueVars, use, stop_, break_all_wait_>>

Producer(p) ==
  \/ (EnqueueLoadTail(p, "submit") \/ EnqueueStep(p)) /\ UNCHANGED poolVars
  \/ NotifyOne(p)

Worker(c) ==
  \/ DequeueStep(c) /\ UNCHANGED poolVars
  \/ WorkerLoop(c) \/ WaitDequeue(c) \/ EmptyWait(c) \/ RunTask(c)

Shutdown == Stop \/ BreakAllWait \/ NotifyAll \/ Join

\* A routine of TaskManager runs its task, or hangs until it is notified, and asks
\* again.  Whether it is notified is the subject of module TaskManager.
Polled(c) ==
  /\ pc[c] \in {"wait", "run"}
  /\ pc' = [pc EXCEPT ![c] = "dequeue"]
  /\ taken' = [taken EXCEPT ![c] = Nothing]
  /\ UNCHANGED <<head_, tail_, commit_, pool, old, copy, item, calls>>

Poller(c) == (DequeueStep(c) \/ Polled(c)) /\ UNCHANGED poolVars

PolledEnqueue(p) ==
  /\ p \in use.producers /\ calls < use.calls
  /\ EnqueueLoadTail(p, "idle")
  /\ UNCHANGED poolVars

Pooled ==
  /\ strategy # "poll"
  /\ \/ \E p \in Producers : Enqueue(p) \/ Producer(p)
     \/ \E c \in Consumers : Worker(c) \/ SpuriousWakeup(c)
     \/ Shutdown

Polling ==
  /\ strategy = "poll"
  /\ \/ \E p \in Producers : PolledEnqueue(p) \/ Producer(p)
     \/ \E c \in Consumers : Poller(c)

Next == Pooled \/ Polling

\* Every thread is scheduled; a routine need not be.  Nobody need call, stop the
\* pool or be woken for no reason.
FairSpec ==
  /\ Init /\ [][Next]_vars
  /\ \A p \in Producers : WF_vars(Producer(p))
  /\ \A c \in Consumers : WF_vars(strategy # "poll" /\ Worker(c))
  /\ WF_vars(owner # "up" /\ Shutdown)

-----------------------------------------------------------------------------
(* Properties *)

\* With a strategy that looks again, as that of PerfEventCache's queue, no
\* element waits for ever while the workers are up.
SleepersServe ==
  strategy = "sleep" ~> (commit_ = head_ + 1 \/ stop_)

\* With such a strategy whoever stops the workers gets them joined, wherever
\* the stop finds them in WaitDequeue.
SleepersJoin == (strategy = "sleep" /\ owner # "up") ~> owner = "gone"

\* What ThreadPool says of its destructor ("the destructor joins all threads").
DestructorJoins == owner # "up" ~> owner = "gone"

=============================================================================
