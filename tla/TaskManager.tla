---------------------------- MODULE TaskManager ----------------------------
(***************************************************************************)
(* TaskManager of my_cyber: routines that take tasks from a BoundedQueue   *)
(* and hang up when there is none; Enqueue puts a task in the queue and    *)
(* then notifies every routine.  The queue is taken as what it promises    *)
(* (module BoundedFifo).                                                   *)
(***************************************************************************)
EXTENDS ClassicScheduler

VARIABLES
  tasks,      \* the tasks in task_queue_
  enqueued,   \* calls of Enqueue
  notifying,  \* the thread in Enqueue: the routine it notifies, and whether it waits
  taskAt,     \* routine -> where it is
  ran         \* tasks that have run

taskVars == <<tasks, enqueued, notifying, taskAt, ran>>
vars == <<schedVars, taskVars>>

NotNotifying == [at |-> "idle", k |-> 0]

Init ==
  /\ SchedInit
  /\ tasks = <<>> /\ enqueued = 0 /\ ran = {}
  /\ notifying = NotNotifying
  /\ taskAt = [r \in Routines |-> "loop"]

\* The constructor creates the routines one after the other.
TaskManagerCreates ==
  /\ CreateTask(Owner)
  /\ UNCHANGED taskVars

TaskCreated ==
  /\ admin[Owner].at = "register" /\ AdminDone(Owner)
  /\ UNCHANGED <<cr, lock_, queue, readers, writer, id_cr_, id_mutex, proc, running_, ctx_stop, stop_, closing, bound, created, removals, removed>>
  /\ UNCHANGED taskVars

Enqueue ==
  /\ created = Cardinality(Routines) /\ admin[Owner].at = "idle"
  /\ notifying.at = "idle" /\ enqueued < bound.tasks
  /\ enqueued' = enqueued + 1
  /\ tasks' = Append(tasks, enqueued')
  /\ notifying' = [at |-> "look", k |-> 1]
  /\ UNCHANGED <<schedVars, taskAt, ran>>

\* Scheduler::NotifyTask, for a routine that is in id_cr_.
NotifyTask ==
  /\ notifying.at = "look"
  /\ notifying' = IF notifying.k > Cardinality(Routines) THEN NotNotifying
                  ELSE IF cr[notifying.k].state = "DATA_WAIT" THEN [notifying EXCEPT !.at = "flag"]
                  ELSE [notifying EXCEPT !.k = @ + 1]
  /\ UNCHANGED <<schedVars, tasks, enqueued, taskAt, ran>>

SetUpdateFlag ==
  /\ notifying.at = "flag"
  /\ cr' = [cr EXCEPT ![notifying.k].updated = FALSE]
  /\ notifying' = [at |-> "look", k |-> notifying.k + 1]
  /\ UNCHANGED <<lock_, queue, readers, writer, id_cr_, id_mutex, proc, admin, running_, ctx_stop, stop_, closing, bound, created, removals, removed>>
  /\ UNCHANGED <<tasks, enqueued, taskAt, ran>>

\* Nothing in the queue: the routine goes on to hang up.
Dequeue(p) ==
  /\ proc[p].at = "run" /\ taskAt[proc[p].cr] = "loop"
  /\ IF tasks = <<>>
     THEN taskAt' = [taskAt EXCEPT ![proc[p].cr] = "hangup"] /\ UNCHANGED <<tasks, ran>>
     ELSE ran' = ran \cup {Head(tasks)} /\ tasks' = Tail(tasks) /\ UNCHANGED taskAt
  /\ UNCHANGED <<schedVars, enqueued, notifying>>

HangUp(p) ==
  /\ proc[p].at = "run" /\ taskAt[proc[p].cr] = "hangup"
  /\ Yield(p, "DATA_WAIT")
  /\ taskAt' = [taskAt EXCEPT ![proc[p].cr] = "loop"]
  /\ UNCHANGED <<tasks, enqueued, notifying, ran>>

Processor(p) == (ProcessorStep(p) /\ UNCHANGED taskVars) \/ Dequeue(p) \/ HangUp(p)
Caller == NotifyTask \/ SetUpdateFlag
Main == (AdminStep(Owner, TRUE) /\ UNCHANGED taskVars) \/ TaskManagerCreates \/ TaskCreated

Next == Enqueue \/ Caller \/ Main \/ (\E p \in Processors : Processor(p))

\* Every thread is scheduled; nobody need call Enqueue.
FairSpec ==
  /\ Init /\ [][Next]_vars
  /\ WF_vars(Caller) /\ WF_vars(Main) /\ SF_vars(EnqueueTask(Owner) /\ UNCHANGED taskVars)
  /\ \A p \in Processors : WF_vars(Processor(p))

-----------------------------------------------------------------------------
(* Properties *)

\* What the tests of Async expect: the future of every task that was enqueued
\* becomes ready, since some routine runs the task.
TasksRun == (enqueued = bound.tasks) ~> (ran = 1..bound.tasks)

=============================================================================
