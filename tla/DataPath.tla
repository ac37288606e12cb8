------------------------------ MODULE DataPath ------------------------------
(***************************************************************************)
(* Messages from a writer to the callbacks of readers: DataDispatcher      *)
(* fills the buffer of every visitor of the channel and DataNotifier then  *)
(* calls every visitor's callback, which is Scheduler::NotifyProcessor for *)
(* the reader's routine; the routine of RoutineFactory fetches a message   *)
(* and calls the reader's function.  One channel, one writing thread.      *)
(***************************************************************************)
EXTENDS ClassicScheduler, CacheBuffer

CONSTANT
  QueueSize    \* the reader's pending queue

ASSUME QueueAssumption == QueueSize \in Nat

VARIABLES
  visitors,    \* the visitors of the channel, each named by its routine, in order
  callback,    \* routines whose visitor has a notify callback
  buffer,      \* visitor -> its CacheBuffer
  reader,      \* routine -> where it is, next_msg_index_, the message it has
  writing,     \* the thread in Dispatch
  written,     \* messages written
  sleeps,      \* callbacks that have called SleepFor
  since,       \* visitor -> messages in its buffer when its callback was set
  latest       \* routine -> the last message its function was called with

dataVars == <<visitors, callback, buffer, reader, writing, written, sleeps, since, latest>>
vars == <<schedVars, dataVars>>

NotWriting == [at |-> "idle", k |-> 0, cr |-> None]

Init ==
  /\ SchedInit
  /\ visitors = <<>> /\ callback = {}
  /\ buffer = [r \in Routines |-> NewBuffer(QueueSize, 0)]
  /\ reader = [r \in Routines |-> [at |-> "loop", index |-> 0, msg |-> 0]]
  /\ writing = NotWriting
  /\ written = 0 /\ sleeps = 0
  /\ since = [r \in Routines |-> 0]
  /\ latest = [r \in Routines |-> 0]

-----------------------------------------------------------------------------
(* A reader is made: first its visitor, then its routine, and only then is   *)
(* the visitor given its callback.                                           *)

CreateReader(a) ==
  /\ a \in bound.admins /\ created < bound.routines
  /\ CreateTask(a)
  /\ visitors' = Append(visitors, created')
  /\ UNCHANGED <<callback, buffer, reader, writing, written, sleeps, since, latest>>

RegisterNotifyCallback(a) ==
  /\ admin[a].at = "register" /\ AdminDone(a)
  /\ callback' = callback \cup {admin[a].cr}
  /\ since' = [since EXCEPT ![admin[a].cr] = buffer[admin[a].cr].tail]
  /\ UNCHANGED <<cr, lock_, queue, readers, writer, id_cr_, id_mutex, proc, running_, ctx_stop, stop_, closing, bound, created, removals, removed>>
  /\ UNCHANGED <<visitors, buffer, reader, writing, written, sleeps, latest>>

-----------------------------------------------------------------------------
(* DataDispatcher::Dispatch and DataNotifier::Notify. *)

Dispatch ==
  /\ writing.at = "idle" /\ written < bound.messages /\ visitors # <<>>
  /\ written' = written + 1
  /\ writing' = [at |-> "fill", k |-> 1, cr |-> None]
  /\ UNCHANGED <<schedVars, visitors, callback, buffer, reader, sleeps, since, latest>>

\* A buffer whose reader is gone has expired.
FillBuffer ==
  /\ writing.at = "fill"
  /\ IF writing.k > Len(visitors)
     THEN writing' = [at |-> "notify", k |-> 1, cr |-> None] /\ UNCHANGED buffer
     ELSE LET r == visitors[writing.k]
          IN /\ buffer' = IF r \in removed THEN buffer ELSE [buffer EXCEPT ![r] = Fill(@, written)]
             /\ writing' = [writing EXCEPT !.k = @ + 1]
  /\ UNCHANGED <<schedVars, visitors, callback, reader, written, sleeps, since, latest>>

\* NotifyProcessor: the routine that has the id now, if it waits.
NotifyProcessor ==
  /\ writing.at = "notify"
  /\ IF writing.k > Len(visitors) THEN writing' = NotWriting
     ELSE LET r == visitors[writing.k]
              c == id_cr_[IdOf[r]]
          IN writing' = IF r \in callback /\ ~stop_ /\ c # None /\ cr[c].state = "DATA_WAIT"
                        THEN [at |-> "flag", k |-> writing.k, cr |-> c]
                        ELSE [writing EXCEPT !.k = @ + 1]
  /\ UNCHANGED <<schedVars, visitors, callback, buffer, reader, written, sleeps, since, latest>>

SetUpdateFlag ==
  /\ writing.at = "flag"
  /\ cr' = [cr EXCEPT ![writing.cr].updated = FALSE]
  /\ writing' = [at |-> "notify", k |-> writing.k + 1, cr |-> None]
  /\ UNCHANGED <<lock_, queue, readers, writer, id_cr_, id_mutex, proc, admin, running_, ctx_stop, stop_, closing, bound, created, removals, removed>>
  /\ UNCHANGED <<visitors, callback, buffer, reader, written, sleeps, since, latest>>

-----------------------------------------------------------------------------
(* The routine of a reader, run by processor p. *)

Runs(p, at) == proc[p].at = "run" /\ reader[proc[p].cr].at = at

SetDataWait(p) ==
  /\ Runs(p, "loop")
  /\ cr' = [cr EXCEPT ![proc[p].cr].state = "DATA_WAIT"]
  /\ reader' = [reader EXCEPT ![proc[p].cr].at = "fetch"]
  /\ UNCHANGED <<lock_, queue, readers, writer, id_cr_, id_mutex, proc, admin, running_, ctx_stop, stop_, closing, bound, created, removals, removed>>
  /\ UNCHANGED <<visitors, callback, buffer, writing, written, sleeps, since, latest>>

TryFetch(p) ==
  /\ Runs(p, "fetch")
  /\ LET r == proc[p].cr
         b == buffer[r]
         i == reader[r].index
     IN IF CanFetch(b, i)
        THEN /\ reader' = [reader EXCEPT ![r] = [at |-> "call", index |-> FetchIndex(b, i) + 1, msg |-> Fetched(b, i)]]
             /\ UNCHANGED schedVars
        ELSE /\ reader' = [reader EXCEPT ![r].at = "loop"]
             /\ Yield(p, cr[r].state)
  /\ UNCHANGED <<visitors, callback, buffer, writing, written, sleeps, since, latest>>

CallFunction(p) ==
  /\ Runs(p, "call")
  /\ LET r == proc[p].cr
     IN /\ latest' = [latest EXCEPT ![r] = reader[r].msg]
        /\ \/ /\ Yield(p, "READY")
              /\ reader' = [reader EXCEPT ![r] = [at |-> "loop", index |-> @.index, msg |-> 0]]
              /\ UNCHANGED sleeps
           \/ /\ sleeps < bound.sleeps /\ sleeps' = sleeps + 1
              /\ Yield(p, "SLEEP")
              /\ reader' = [reader EXCEPT ![r] = [at |-> "slept", index |-> @.index, msg |-> 0]]
  /\ UNCHANGED <<visitors, callback, buffer, writing, written, since>>

FunctionReturns(p) ==
  /\ Runs(p, "slept")
  /\ Yield(p, "READY")
  /\ reader' = [reader EXCEPT ![proc[p].cr].at = "loop"]
  /\ UNCHANGED <<visitors, callback, buffer, writing, written, sleeps, since, latest>>

RoutineStep(p) == SetDataWait(p) \/ TryFetch(p) \/ CallFunction(p) \/ FunctionReturns(p)
WriterStep == FillBuffer \/ NotifyProcessor \/ SetUpdateFlag

\* Nobody is inside NotifyProcessor's use of id_cr_lock_.
LookupIdle == writing.at # "flag"

Processor(p) == (ProcessorStep(p) /\ UNCHANGED dataVars) \/ RoutineStep(p)
Admin(a) == (AdminStep(a, LookupIdle) /\ UNCHANGED dataVars) \/ RegisterNotifyCallback(a)
OwnerStep(a) == a = Owner /\ ShutdownStep /\ UNCHANGED dataVars

Next ==
  \/ \E p \in Processors : Processor(p)
  \/ \E a \in Admins :
       \/ Admin(a) \/ OwnerStep(a) \/ CreateReader(a)
       \/ \E d \in Ids : RemoveTask(a, d) /\ UNCHANGED dataVars
  \/ Dispatch \/ WriterStep
  \/ Shutdown /\ UNCHANGED dataVars
  \/ \E r \in Routines : WakeTimePasses(r) /\ UNCHANGED dataVars

\* Processors and threads are scheduled, a wait of a processor ends after a
\* second, a sleep ends; AtomicRWLock puts a waiting writer first, so a writer
\* that finds the lock free again and again gets it.  Nobody need write a
\* message, create, remove or shut down.
FairSpec ==
  /\ Init /\ [][Next]_vars
  /\ \A p \in Processors : WF_vars(Processor(p))
  /\ \A a \in Admins : WF_vars(Admin(a) \/ OwnerStep(a))
  /\ \A a \in Admins : SF_vars((EnqueueTask(a) \/ WriteLock(a)) /\ UNCHANGED dataVars)
  /\ WF_vars(WriterStep)
  /\ WF_vars(\E r \in Routines : WakeTimePasses(r) /\ UNCHANGED dataVars)

-----------------------------------------------------------------------------
(* Properties *)

\* No two processors have the same routine in hand: the run queue is shared and
\* its lock only read, the routine's own flag is what keeps them apart.
OneProcessorPerRoutine ==
  \A p, q \in Processors : p # q /\ proc[p].cr # None => proc[p].cr # proc[q].cr

\* When RemoveTask has returned, or CreateTask has failed, no processor has the
\* routine and none will find it: its function and what it captured may go.
RemovedIsGone ==
  \A r \in removed :
    /\ \A p \in Processors : proc[p].cr # r
    /\ \A i \in DOMAIN queue : \A k \in 1..Len(queue[i]) : queue[i][k] # r
    /\ r \notin {id_cr_[d] : d \in Ids}

\* A message came after the callback was set, and it has not been fetched.
Unread(r) == r \in callback /\ buffer[r].tail > since[r] /\ CanFetch(buffer[r], reader[r].index)

Leaving(r) == r \in removed \/ cr[r].force_stop \/ stop_

\* A reader's function is called with newer and newer messages, whatever the
\* ring has overwritten and however far the reader fell behind.
NewerAndNewer == \A r \in Routines : reader[r].at = "call" => reader[r].msg > latest[r]

\* Every message that comes after the reader was made is fetched, or an even
\* newer one is.  (Finitely many are written.)
MessagesArrive == []<>(\A r \in Routines : ~Unread(r) \/ Leaving(r))

\* Shutdown returns: it waits for each routine that runs, with the write lock
\* of the run queue, and for each processor.
ShutdownEnds == stop_ ~> ShutdownReturned

=============================================================================
