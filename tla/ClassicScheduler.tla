-------------------------- MODULE ClassicScheduler --------------------------
(***************************************************************************)
(* Routines and the classic scheduler of my_cyber: processors that look    *)
(* for a routine that may run (ClassicContext::NextRoutine), resume it and *)
(* release it; threads that create a routine (DispatchTask), remove it     *)
(* (RemoveCRoutine) and shut the scheduler down.  What a routine does when *)
(* it runs is in the modules that extend this one.                         *)
(*                                                                         *)
(* A routine is an object, named by a member of Routines; several objects  *)
(* may have the same id (IdOf), one after the other.  One group of         *)
(* processors, several priorities.  The read-write locks are taken as what *)
(* AtomicRWLock promises (module RWLocks).                                 *)
(*                                                                         *)
(* ClassicContext::Wait returns after at most 1000 ms whatever was         *)
(* notified, so the count notify_grp_ only shortens a wait: it is left     *)
(* out, and a processor that found nothing may look again at any time.     *)
(***************************************************************************)
EXTENDS Naturals, FiniteSets, Sequences

CONSTANTS
  Processors,
  Admins,      \* threads that create and remove routines
  Owner,       \* the one of them that calls Scheduler::Shutdown
  Routines,    \* 1..n, in the order they are made
  Ids,
  IdOf,        \* routine -> its id, the hash of its name
  Prio,        \* id -> its priority
  MAX_PRIO,
  None,
  Bounds       \* sets of bounds: processors, calls of RemoveTask, of Shutdown, and others

ASSUME SchedulerConstants ==
  /\ MAX_PRIO \in Nat \ {0} /\ Owner \in Admins
  /\ Cardinality(Routines) \in Nat /\ Routines = 1..Cardinality(Routines)
  /\ IdOf \in [Routines -> Ids]
  /\ None \notin Routines /\ None \notin Processors /\ None \notin Admins
  /\ Prio \in [Ids -> 0..MAX_PRIO - 1]

VARIABLES
  cr,        \* routine -> state_, updated_, force_stop_, wake_time_ passed
  lock_,     \* routine -> the processor that has acquired it
  queue,     \* priority -> the routines in cr_group_, in order
  readers,   \* priority -> processors that hold rq_locks_ for reading
  writer,    \* priority -> the thread that holds it for writing
  id_cr_,    \* id -> routine
  id_mutex,  \* id -> the thread that holds the id's MutexWrapper
  proc,      \* processor -> where it is, the priority and place it looks at, its routine
  admin,     \* thread -> where it is, the routine or id it is about
  running_,  \* processors that were not told to stop
  ctx_stop,  \* processors whose context was shut down
  stop_,     \* Scheduler::stop_
  closing,   \* where Shutdown is, and what it has still to do there
  bound,     \* the bounds of this behaviour
  created,   \* routines made
  removals,  \* calls of RemoveTask
  removed    \* routines whose removal has returned

schedVars == <<cr, lock_, queue, readers, writer, id_cr_, id_mutex, proc, admin,
               running_, ctx_stop, stop_, closing, bound, created, removals, removed>>

NewRoutine == [state |-> "READY", updated |-> TRUE, force_stop |-> FALSE, due |-> FALSE]

SchedInit ==
  /\ bound \in Bounds
  /\ cr = [r \in Routines |-> NewRoutine]
  /\ lock_ = [r \in Routines |-> None]
  /\ queue = [i \in 0..MAX_PRIO - 1 |-> <<>>]
  /\ readers = [i \in 0..MAX_PRIO - 1 |-> {}]
  /\ writer = [i \in 0..MAX_PRIO - 1 |-> None]
  /\ id_cr_ = [d \in Ids |-> None]
  /\ id_mutex = [d \in Ids |-> None]
  /\ proc = [p \in Processors |-> [at |-> IF p \in bound.processors THEN "top" ELSE "exit", prio |-> 0, pos |-> 0, cr |-> None]]
  /\ admin = [a \in Admins |-> [at |-> "idle", cr |-> None, id |-> None]]
  /\ running_ = bound.processors /\ ctx_stop = {}
  /\ stop_ = FALSE /\ closing = [at |-> "no", todo |-> {}]
  /\ created = 0 /\ removals = 0 /\ removed = {}

-----------------------------------------------------------------------------
(* Processor::Run and ClassicContext::NextRoutine. *)

\* Where p looks for a routine; the routine it takes there.
Look(p, at, prio, pos) == proc' = [proc EXCEPT ![p] = [at |-> at, prio |-> prio, pos |-> pos, cr |-> None]]
Take(p, at, r) == proc' = [proc EXCEPT ![p] = [at |-> at, prio |-> @.prio, pos |-> @.pos, cr |-> r]]

\* A processor whose context was shut down finds nothing until it is stopped.
Top(p) ==
  /\ proc[p].at = "top"
  /\ p \in running_ => p \notin ctx_stop
  /\ Look(p, IF p \in running_ THEN "lock" ELSE "exit", MAX_PRIO - 1, 0)
  /\ UNCHANGED <<cr, lock_, queue, readers, writer, id_cr_, id_mutex, admin, running_, ctx_stop, stop_, closing, removals, bound, created, removed>>

ReadLock(p) ==
  /\ proc[p].at = "lock"
  /\ writer[proc[p].prio] = None
  /\ readers' = [readers EXCEPT ![proc[p].prio] = @ \cup {p}]
  /\ Look(p, "try", proc[p].prio, 1)
  /\ UNCHANGED <<cr, lock_, queue, writer, id_cr_, id_mutex, admin, running_, ctx_stop, stop_, closing, removals, bound, created, removed>>

\* Mutant: only a sleeper is made ready.
UpdateSleepers(c) ==
  IF c.state = "SLEEP" /\ c.due THEN [c EXCEPT !.state = "READY", !.due = FALSE] ELSE c

\* The flag is taken even when the state does not let it wake the routine.
UpdateState(c) ==
  IF c.state = "SLEEP" /\ c.due THEN [c EXCEPT !.state = "READY", !.due = FALSE]
  ELSE [c EXCEPT !.updated = TRUE,
                 !.state = IF ~c.updated /\ @ = "DATA_WAIT" THEN "READY" ELSE @]

\* The next priority, or nothing to run.
NextPrio(p) ==
  /\ proc[p].at = "try" /\ proc[p].pos > Len(queue[proc[p].prio])
  /\ readers' = [readers EXCEPT ![proc[p].prio] = @ \ {p}]
  /\ IF proc[p].prio = 0 THEN Look(p, "top", 0, 0) ELSE Look(p, "lock", proc[p].prio - 1, 0)
  /\ UNCHANGED <<cr, lock_, queue, writer, id_cr_, id_mutex, admin, running_, ctx_stop, stop_, closing, removals, bound, created, removed>>

\* Mutant: the routine's own flag is not tested.
TryWithoutAcquire(p) ==
  /\ proc[p].at = "try" /\ proc[p].pos <= Len(queue[proc[p].prio])
  /\ LET r == queue[proc[p].prio][proc[p].pos]
         c == UpdateState(cr[r])
     IN /\ cr' = [cr EXCEPT ![r] = c] /\ lock_' = [lock_ EXCEPT ![r] = p]
        /\ Take(p, IF c.state = "READY" THEN "resume" ELSE "pass", r)
        /\ readers' = IF c.state = "READY" THEN [readers EXCEPT ![proc[p].prio] = @ \ {p}] ELSE readers
  /\ UNCHANGED <<queue, writer, id_cr_, id_mutex, admin, running_, ctx_stop, stop_, closing, bound, created, removals, removed>>

\* Acquire and UpdateState; a routine that is not ready is released in a step
\* of its own, and until then others pass it over.
TryRoutine(p) ==
  /\ proc[p].at = "try" /\ proc[p].pos <= Len(queue[proc[p].prio])
  /\ LET r == queue[proc[p].prio][proc[p].pos]
         c == UpdateState(cr[r])
     IN IF lock_[r] # None
        THEN Look(p, "try", proc[p].prio, proc[p].pos + 1) /\ UNCHANGED <<cr, lock_, readers>>
        ELSE /\ cr' = [cr EXCEPT ![r] = c] /\ lock_' = [lock_ EXCEPT ![r] = p]
             /\ Take(p, IF c.state = "READY" THEN "resume" ELSE "pass", r)
             /\ readers' = IF c.state = "READY" THEN [readers EXCEPT ![proc[p].prio] = @ \ {p}] ELSE readers
  /\ UNCHANGED <<queue, writer, id_cr_, id_mutex, admin, running_, ctx_stop, stop_, closing, removals, bound, created, removed>>

PassOver(p) ==
  /\ proc[p].at = "pass"
  /\ lock_' = [lock_ EXCEPT ![proc[p].cr] = None]
  /\ Look(p, "try", proc[p].prio, proc[p].pos + 1)
  /\ UNCHANGED <<cr, queue, readers, writer, id_cr_, id_mutex, admin, running_, ctx_stop, stop_, closing, removals, bound, created, removed>>

\* CRoutine::Resume: a routine that was stopped does not go on.
Resume(p) ==
  /\ proc[p].at = "resume"
  /\ LET r == proc[p].cr
     IN IF cr[r].force_stop
        THEN /\ cr' = [cr EXCEPT ![r].state = "FINISHED"]
             /\ proc' = [proc EXCEPT ![p].at = "yielded"]
        ELSE /\ proc' = [proc EXCEPT ![p].at = "run"]
             /\ UNCHANGED cr
  /\ UNCHANGED <<lock_, queue, readers, writer, id_cr_, id_mutex, admin, running_, ctx_stop, stop_, closing, removals, bound, created, removed>>

\* The routine p runs gives the processor back, in the state given.
Yield(p, state) ==
  /\ cr' = [cr EXCEPT ![proc[p].cr].state = state]
  /\ proc' = [proc EXCEPT ![p].at = "yielded"]
  /\ UNCHANGED <<lock_, queue, readers, writer, id_cr_, id_mutex, admin, running_, ctx_stop, stop_, closing, removals, bound, created, removed>>

Release(p) ==
  /\ proc[p].at = "yielded"
  /\ lock_' = [lock_ EXCEPT ![proc[p].cr] = None]
  /\ Look(p, "top", 0, 0)
  /\ UNCHANGED <<cr, queue, readers, writer, id_cr_, id_mutex, admin, running_, ctx_stop, stop_, closing, removals, bound, created, removed>>

WakeTimePasses(r) ==
  /\ cr[r].state = "SLEEP" /\ ~cr[r].due
  /\ cr' = [cr EXCEPT ![r].due = TRUE]
  /\ UNCHANGED <<lock_, queue, readers, writer, id_cr_, id_mutex, proc, admin, running_, ctx_stop, stop_, closing, removals, bound, created, removed>>

-----------------------------------------------------------------------------
(* CreateTask and SchedulerClassic::DispatchTask by thread a. *)

AdminGoto(a, at) == admin' = [admin EXCEPT ![a].at = at]
AdminDone(a) == admin' = [admin EXCEPT ![a] = [at |-> "idle", cr |-> None, id |-> None]]
Unlock(d) == id_mutex' = [id_mutex EXCEPT ![d] = None]

CreateTask(a) ==
  /\ admin[a].at = "idle" /\ created < Cardinality(Routines)
  /\ ~stop_
  /\ created' = created + 1
  /\ admin' = [admin EXCEPT ![a] = [at |-> "create", cr |-> created + 1, id |-> IdOf[created + 1]]]
  /\ UNCHANGED <<cr, lock_, queue, readers, writer, id_cr_, id_mutex, proc, running_, ctx_stop, stop_, closing, removals, bound, removed>>

LockId(a, from, to) ==
  /\ admin[a].at = from /\ AdminGoto(a, to)
  /\ id_mutex[admin[a].id] = None
  /\ id_mutex' = [id_mutex EXCEPT ![admin[a].id] = a]
  /\ UNCHANGED <<cr, lock_, queue, readers, writer, id_cr_, proc, running_, ctx_stop, stop_, closing, removals, bound, created, removed>>

\* An id that is taken makes DispatchTask fail; the object is then dropped.
InsertId(a) ==
  /\ admin[a].at = "insert"
  /\ LET d == admin[a].id
     IN IF id_cr_[d] # None
        THEN AdminDone(a) /\ Unlock(d) /\ removed' = removed \cup {admin[a].cr} /\ UNCHANGED id_cr_
        ELSE AdminGoto(a, "enqueue") /\ id_cr_' = [id_cr_ EXCEPT ![d] = admin[a].cr] /\ UNCHANGED <<id_mutex, removed>>
  /\ UNCHANGED <<cr, lock_, queue, readers, writer, proc, running_, ctx_stop, stop_, closing, bound, created, removals>>

\* Under the write lock, which is held for this step only; the id's mutex is
\* released when DispatchTask returns.
EnqueueTask(a) ==
  /\ admin[a].at = "enqueue" /\ AdminGoto(a, "register")
  /\ LET i == Prio[admin[a].id]
     IN /\ readers[i] = {} /\ writer[i] = None
        /\ queue' = [queue EXCEPT ![i] = Append(@, admin[a].cr)]
  /\ Unlock(admin[a].id)
  /\ UNCHANGED <<cr, lock_, readers, writer, id_cr_, proc, running_, ctx_stop, stop_, closing, removals, bound, created, removed>>

-----------------------------------------------------------------------------
(* RemoveTask, SchedulerClassic::RemoveCRoutine and                          *)
(* ClassicContext::RemoveCRoutine by thread a.  to is where a goes on.       *)

RemoveTask(a, d) ==
  /\ admin[a].at = "idle"
  /\ ~stop_
  /\ a \in bound.removers /\ removals < bound.removals /\ removals' = removals + 1
  /\ admin' = [admin EXCEPT ![a] = [at |-> "remove", cr |-> None, id |-> d]]
  /\ UNCHANGED <<cr, lock_, queue, readers, writer, id_cr_, id_mutex, proc, running_, ctx_stop, stop_, closing, bound, created, removed>>

\* idle: no thread is between looking a routine up and notifying it, which it
\* does under id_cr_lock_.
EraseId(a, idle) ==
  /\ admin[a].at = "erase" /\ idle
  /\ LET d == admin[a].id
         r == id_cr_[d]
     IN IF r = None
        THEN AdminDone(a) /\ Unlock(d) /\ UNCHANGED <<cr, id_cr_>>
        ELSE /\ admin' = [admin EXCEPT ![a].at = "writelock"]
             /\ cr' = [cr EXCEPT ![r].force_stop = TRUE]
             /\ id_cr_' = [id_cr_ EXCEPT ![d] = None]
             /\ UNCHANGED id_mutex
  /\ UNCHANGED <<lock_, queue, readers, writer, proc, running_, ctx_stop, stop_, closing, removals, bound, created, removed>>

\* The routine is found by its id among those of the priority: it is there,
\* since DispatchTask held the id's mutex until it was.
WriteLock(a) ==
  /\ admin[a].at = "writelock"
  /\ LET i == Prio[admin[a].id]
     IN /\ readers[i] = {} /\ writer[i] = None
        /\ writer' = [writer EXCEPT ![i] = a]
        /\ \E k \in DOMAIN queue[i] :
             /\ IdOf[queue[i][k]] = admin[a].id
             /\ \A j \in 1..k - 1 : IdOf[queue[i][j]] # admin[a].id
             /\ admin' = [admin EXCEPT ![a] = [at |-> "acquire", cr |-> queue[i][k], id |-> @.id]]
             /\ cr' = [cr EXCEPT ![queue[i][k]].force_stop = TRUE]
  /\ UNCHANGED <<lock_, queue, readers, id_cr_, id_mutex, proc, running_, ctx_stop, stop_, closing, removals, bound, created, removed>>

\* The routine is erased where it was found, and the later ones move up.
Erase(i, r) ==
  \E k \in 1..Len(queue[i]) :
    /\ queue[i][k] = r
    /\ queue' = [queue EXCEPT ![i] = [j \in 1..Len(@) - 1 |-> @[IF j < k THEN j ELSE j + 1]]]

\* Mutant: the removal does not wait for the processor that has the routine.
EraseAtOnce(a) ==
  /\ admin[a].at = "acquire" /\ AdminDone(a)
  /\ LET i == Prio[admin[a].id]
     IN /\ Erase(i, admin[a].cr)
        /\ writer' = [writer EXCEPT ![i] = None]
  /\ removed' = removed \cup {admin[a].cr}
  /\ Unlock(admin[a].id)
  /\ UNCHANGED <<cr, lock_, readers, id_cr_, proc, running_, ctx_stop, stop_, closing, bound, created, removals>>

\* Mutant: the write lock is not given back.
KeepWriteLock(a) ==
  /\ admin[a].at = "acquire" /\ AdminDone(a)
  /\ lock_[admin[a].cr] = None
  /\ Erase(Prio[admin[a].id], admin[a].cr)
  /\ removed' = removed \cup {admin[a].cr}
  /\ Unlock(admin[a].id)
  /\ UNCHANGED <<cr, lock_, readers, writer, id_cr_, proc, running_, ctx_stop, stop_, closing, bound, created, removals>>

\* Waits, with the write lock, for the processor that runs the routine.
AcquireAndErase(a) ==
  /\ admin[a].at = "acquire" /\ AdminDone(a)
  /\ LET i == Prio[admin[a].id]
         r == admin[a].cr
     IN /\ lock_[r] = None
        /\ Erase(i, r)
        /\ writer' = [writer EXCEPT ![i] = None]
        /\ removed' = removed \cup {r}
  /\ Unlock(admin[a].id)
  /\ UNCHANGED <<cr, lock_, readers, id_cr_, proc, running_, ctx_stop, stop_, closing, bound, created, removals>>

-----------------------------------------------------------------------------
(* Scheduler::Shutdown. *)

Shutdown ==
  /\ bound.shutdown
  /\ admin[Owner].at = "idle" /\ ~stop_
  /\ stop_' = TRUE
  /\ closing' = [at |-> "contexts", todo |-> bound.processors]
  /\ UNCHANGED <<cr, lock_, queue, readers, writer, id_cr_, id_mutex, proc, admin, running_, ctx_stop, removals, bound, created, removed>>

ShutdownContext(p) ==
  /\ closing.at = "contexts" /\ p \in closing.todo
  /\ ctx_stop' = ctx_stop \cup {p}
  /\ closing' = [closing EXCEPT !.todo = @ \ {p}]
  /\ UNCHANGED <<cr, lock_, queue, readers, writer, id_cr_, id_mutex, proc, admin, running_, stop_, removals, bound, created, removed>>

ListRoutines ==
  /\ closing = [at |-> "contexts", todo |-> {}]
  /\ closing' = [at |-> "remove", todo |-> {d \in Ids : id_cr_[d] # None}]
  /\ UNCHANGED <<cr, lock_, queue, readers, writer, id_cr_, id_mutex, proc, admin, running_, ctx_stop, stop_, removals, bound, created, removed>>

ShutdownRemove(d) ==
  /\ closing.at = "remove" /\ d \in closing.todo
  /\ admin[Owner].at = "idle"
  /\ closing' = [closing EXCEPT !.todo = @ \ {d}]
  /\ admin' = [admin EXCEPT ![Owner] = [at |-> "remove", cr |-> None, id |-> d]]
  /\ UNCHANGED <<cr, lock_, queue, readers, writer, id_cr_, id_mutex, proc, running_, ctx_stop, stop_, removals, bound, created, removed>>

\* Processor::Stop for each in turn: it is told to stop, then joined.
StopProcessor(p) ==
  /\ admin[Owner].at = "idle"
  /\ \/ closing = [at |-> "remove", todo |-> {}] /\ closing' = [at |-> "join", todo |-> bound.processors]
     \/ closing.at = "join" /\ UNCHANGED closing
  /\ p \in running_ /\ p \in closing'.todo
  /\ \A q \in closing'.todo : q \in running_
  /\ running_' = running_ \ {p}
  /\ UNCHANGED <<cr, lock_, queue, readers, writer, id_cr_, id_mutex, proc, admin, ctx_stop, stop_, removals, bound, created, removed>>

Join(p) ==
  /\ closing.at = "join" /\ p \in closing.todo \ running_
  /\ proc[p].at = "exit"
  /\ closing' = [closing EXCEPT !.todo = @ \ {p}]
  /\ UNCHANGED <<cr, lock_, queue, readers, writer, id_cr_, id_mutex, proc, admin, running_, ctx_stop, stop_, removals, bound, created, removed>>

ShutdownReturned == closing = [at |-> "join", todo |-> {}]

-----------------------------------------------------------------------------
ProcessorStep(p) ==
  \/ Top(p) \/ ReadLock(p) \/ NextPrio(p) \/ TryRoutine(p) \/ PassOver(p)
  \/ Resume(p) \/ Release(p)

\* The rest of a call that has begun.
AdminStep(a, idle) ==
  \/ LockId(a, "create", "insert") \/ InsertId(a) \/ EnqueueTask(a)
  \/ LockId(a, "remove", "erase") \/ EraseId(a, idle) \/ WriteLock(a) \/ AcquireAndErase(a)

ShutdownStep ==
  \/ ListRoutines
  \/ \E p \in Processors : ShutdownContext(p) \/ StopProcessor(p) \/ Join(p)
  \/ \E d \in Ids : ShutdownRemove(d)

=============================================================================
