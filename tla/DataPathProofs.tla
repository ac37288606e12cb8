--------------------------- MODULE DataPathProofs ---------------------------
(***************************************************************************)
(* Proofs about DataPath, for every number of processors, threads,         *)
(* routines, ids, priorities and messages, and for every size of a queue.  *)
(***************************************************************************)
EXTENDS DataPath, Integers, TLAPS

Prios == 0 .. (MAX_PRIO - 1)

\* Where a processor has a routine in hand.
Holding == {"pass", "resume", "run", "yielded"}
ProcLocations == Holding \cup {"top", "exit", "lock", "try"}

\* Where a thread has an object that nobody else knows, or only its id's holder.
Making == {"create", "insert", "enqueue"}

\* Where a thread holds the mutex of its id.
Locked == {"insert", "enqueue", "erase", "writelock", "acquire"}
AdminLocations == Making \cup Locked \cup {"idle", "remove", "register"}

\* What is known of a processor and of a thread.
ProcRecords == [at : ProcLocations, prio : Prios, pos : Nat, cr : Routines \cup {None}]
AdminRecords == [at : AdminLocations, cr : Routines \cup {None}, id : Ids \cup {None}]

SchedType ==
  /\ lock_ \in [Routines -> Processors \cup {None}]
  /\ queue \in [Prios -> Seq(Routines)]
  /\ id_cr_ \in [Ids -> Routines \cup {None}]
  /\ id_mutex \in [Ids -> Admins \cup {None}]
  /\ proc \in [Processors -> ProcRecords]
  /\ admin \in [Admins -> AdminRecords]
  /\ created \in Nat /\ removed \subseteq Routines

Queued(r) == \E k \in 1 .. Len(queue[Prio[IdOf[r]]]) : queue[Prio[IdOf[r]]][k] = r

\* A processor that has a routine has its lock, and found it in its queue.
HoldInv ==
  \A p \in Processors :
    /\ proc[p].at = "try" => proc[p].pos > 0
    /\ proc[p].at \in Holding =>
         proc[p].cr \in Routines /\ lock_[proc[p].cr] = p /\ Queued(proc[p].cr)
    /\ proc[p].at \notin Holding => proc[p].cr = None

\* A routine stands in the queue of its priority, and no other one with its id does.
QueueInv ==
  /\ \A i \in Prios : \A k \in 1 .. Len(queue[i]) : Prio[IdOf[queue[i][k]]] = i
  /\ \A i \in Prios : \A k, l \in 1 .. Len(queue[i]) :
       IdOf[queue[i][k]] = IdOf[queue[i][l]] => k = l

\* The mutex of an id is held by one thread, in a call that is about the id.
MutexInv ==
  /\ \A a \in Admins : admin[a].at \notin {"idle", "register"} => admin[a].id \in Ids
  /\ \A a \in Admins : admin[a].at \in Locked => id_mutex[admin[a].id] = a
  /\ \A d \in Ids : id_mutex[d] # None => admin[id_mutex[d]].at \in Locked /\ admin[id_mutex[d]].id = d

\* The map of the ids and the queues say the same, but for what the holder of the
\* id's mutex is about to do.
IdInv(d) ==
  LET a == id_mutex[d]
      at == IF a = None THEN "none" ELSE admin[a].at
  IN /\ id_cr_[d] # None => IdOf[id_cr_[d]] = d
     /\ at \in {"none", "insert", "erase"} =>
          \A r \in Routines : IdOf[r] = d => (Queued(r) <=> id_cr_[d] = r)
     /\ at = "enqueue" =>
          id_cr_[d] = admin[a].cr /\ \A r \in Routines : IdOf[r] = d => ~Queued(r)
     /\ at \in {"writelock", "acquire"} => id_cr_[d] = None
     /\ at = "acquire" => admin[a].cr \in Routines /\ IdOf[admin[a].cr] = d /\ Queued(admin[a].cr)

\* An object that is being made is nowhere else; one that was removed is nowhere.
ObjectInv ==
  /\ \A a \in Admins : admin[a].at \in Making =>
       /\ admin[a].cr \in Routines /\ admin[a].cr <= created /\ IdOf[admin[a].cr] = admin[a].id
       /\ ~Queued(admin[a].cr) /\ admin[a].cr \notin removed
       /\ admin[a].at # "enqueue" => \A d \in Ids : id_cr_[d] # admin[a].cr
       /\ \A b \in Admins : b # a /\ admin[b].at \in Making => admin[b].cr # admin[a].cr
  /\ \A r \in Routines : r > created =>
       ~Queued(r) /\ r \notin removed /\ \A d \in Ids : id_cr_[d] # r
  /\ \A r \in removed : ~Queued(r) /\ \A d \in Ids : id_cr_[d] # r

SchedInv == SchedType /\ HoldInv /\ QueueInv /\ MutexInv /\ (\A d \in Ids : IdInv(d)) /\ ObjectInv

-----------------------------------------------------------------------------
(* The scheduler: processors. *)

\* What is about ids and objects and not about processors.
IdsInv == QueueInv /\ MutexInv /\ (\A d \in Ids : IdInv(d)) /\ ObjectInv

idVars == <<queue, id_cr_, id_mutex, admin, created, removed>>

\* What there is to know of the constants.
LEMMA Constants ==
  /\ MAX_PRIO \in Nat \ {0} /\ 0 \in Prios /\ MAX_PRIO - 1 \in Prios
  /\ None \notin Processors /\ None \notin Routines /\ None \notin Admins
  /\ \A r \in Routines : IdOf[r] \in Ids /\ Prio[IdOf[r]] \in Prios
  /\ \A d \in Ids : Prio[d] \in Prios
BY SchedulerConstants DEF Prios

\* A step of a processor, of a routine or of the writer leaves ids and objects alone.
LEMMA IdsStay ==
  ASSUME IdsInv, UNCHANGED idVars
  PROVE  IdsInv'
<1>1. QueueInv'
  BY DEF IdsInv, QueueInv, idVars
<1>2. MutexInv'
  BY Zenon DEF IdsInv, MutexInv, idVars
<1>3. ASSUME NEW r PROVE Queued(r)' <=> Queued(r)
  BY Zenon DEF Queued, idVars
<1>4. ASSUME NEW d \in Ids PROVE IdInv(d)'
  BY Zenon, <1>3 DEF IdsInv, IdInv, idVars
<1>5. ObjectInv'
  BY Zenon, <1>3 DEF IdsInv, ObjectInv, idVars
<1> QED
  BY Zenon, <1>1, <1>2, <1>4, <1>5 DEF IdsInv

\* A processor keeps what it has in hand when only other parts change.
LEMMA HoldStays ==
  ASSUME HoldInv, UNCHANGED <<proc, lock_>>,
         \A r \in Routines : Queued(r) /\ lock_[r] # None => Queued(r)'
  PROVE  HoldInv'
<1>1. \A p \in Processors : p # None
  BY Zenon, Constants
<1> QED
  BY Zenon, <1>1 DEF HoldInv

\* A step in which processor p looks on, or goes on with the routine it has.
LEMMA ProcessorGoes ==
  ASSUME SchedType, HoldInv, UNCHANGED <<idVars, lock_>>, NEW p \in Processors,
         NEW x \in ProcRecords, proc' = [proc EXCEPT ![p] = x],
         x.at = "try" => x.pos > 0,
         x.at \in Holding => proc[p].at \in Holding /\ x.cr = proc[p].cr,
         x.at \notin Holding => x.cr = None
  PROVE  SchedType' /\ HoldInv'
<1>1. proc' \in [Processors -> ProcRecords] /\ \A q \in Processors : proc'[q] = IF q = p THEN x ELSE proc[q]
  BY Zenon DEF SchedType
<1>2. SchedType'
  BY Zenon, <1>1 DEF SchedType, idVars
<1>3. ASSUME NEW r PROVE Queued(r)' <=> Queued(r)
  BY Zenon DEF Queued, idVars
<1> QED
  BY Zenon, <1>1, <1>2, <1>3 DEF HoldInv

\* A step in which processor p looks for a routine, resumes it or releases it.
LEMMA ProcessorKeeps ==
  ASSUME SchedType, HoldInv, QueueInv, NEW p \in Processors, ProcessorStep(p)
  PROVE  SchedType' /\ HoldInv' /\ UNCHANGED idVars
<1>0. /\ proc[p] \in ProcRecords /\ proc \in [Processors -> ProcRecords]
      /\ proc[p].prio \in Prios /\ proc[p].pos \in Nat
  BY Zenon DEF SchedType, ProcRecords
<1>1. ASSUME NEW l \in {"top", "exit", "lock", "try"}, NEW i \in Prios, NEW k \in Nat, Look(p, l, i, k),
             l = "try" => k > 0, UNCHANGED <<idVars, lock_>>
      PROVE  SchedType' /\ HoldInv' /\ UNCHANGED idVars
  <2> DEFINE x == [at |-> l, prio |-> i, pos |-> k, cr |-> None]
  <2>1. x \in ProcRecords /\ x.at = l /\ x.pos = k /\ x.cr = None /\ x.at \notin Holding
    BY Zenon DEF ProcRecords, ProcLocations, Holding
  <2>2. proc' = [proc EXCEPT ![p] = x]
    BY Zenon, <1>1 DEF Look
  <2> HIDE DEF x
  <2> QED
    BY Zenon, <1>1, <2>1, <2>2, ProcessorGoes
<1>2. CASE Top(p)
  BY Zenon, <1>1, <1>2, Constants DEF Top, idVars
<1>3. CASE ReadLock(p)
  BY <1>0, <1>1, <1>3 DEF ReadLock, idVars
<1>4. CASE NextPrio(p)
  <2>1. proc[p].prio # 0 => proc[p].prio - 1 \in Prios
    BY <1>0, Constants DEF Prios
  <2> QED
    BY Zenon, <1>1, <1>4, <2>1, Constants DEF NextPrio, idVars
<1>5. CASE Resume(p)
  <2> DEFINE l == IF cr[proc[p].cr].force_stop THEN "yielded" ELSE "run"
             x == [proc[p] EXCEPT !.at = l]
  <2>1. proc' = [proc EXCEPT ![p] = x] /\ UNCHANGED <<idVars, lock_>> /\ proc[p].at = "resume"
    BY Zenon, <1>5 DEF Resume, idVars
  <2>2. l \in {"yielded", "run"}
    BY Zenon
  <2> HIDE DEF l
  <2>3. x \in ProcRecords /\ x.at = l /\ x.cr = proc[p].cr
    BY Zenon, <1>0, <2>2 DEF ProcRecords, ProcLocations, Holding
  <2> HIDE DEF x
  <2> QED
    BY Zenon, <2>1, <2>2, <2>3, ProcessorGoes DEF Holding
<1>6. CASE TryRoutine(p)
  <2> DEFINE r == queue[proc[p].prio][proc[p].pos]
  <2>1. /\ proc[p].at = "try" /\ proc[p].pos <= Len(queue[proc[p].prio]) /\ UNCHANGED idVars
        /\ proc[p].pos > 0
    BY Zenon, <1>6 DEF TryRoutine, idVars, HoldInv
  <2>2. CASE lock_[r] # None
    <3>1. Look(p, "try", proc[p].prio, proc[p].pos + 1) /\ UNCHANGED lock_
      BY Zenon, <1>6, <2>2 DEF TryRoutine
    <3> QED
      BY <1>0, <1>1, <2>1, <3>1
  <2>3. CASE lock_[r] = None
    <3>1. r \in Routines /\ Queued(r)
      <4>1. queue[proc[p].prio] \in Seq(Routines) /\ proc[p].pos \in 1 .. Len(queue[proc[p].prio])
        BY <1>0, <2>1 DEF SchedType
      <4>2. r \in Routines
        BY <4>1
      <4>3. Prio[IdOf[r]] = proc[p].prio
        BY Zenon, <1>0, <4>1 DEF QueueInv
      <4> QED
        BY Zenon, <4>1, <4>2, <4>3 DEF Queued
    <3>2. PICK l \in {"resume", "pass"} : Take(p, l, r) /\ lock_' = [lock_ EXCEPT ![r] = p]
      BY Zenon, <1>6, <2>3 DEF TryRoutine
    <3> DEFINE x == [at |-> l, prio |-> proc[p].prio, pos |-> proc[p].pos, cr |-> r]
    <3>3. x \in ProcRecords /\ x.at = l /\ x.cr = r
      BY Zenon, <1>0, <3>1 DEF ProcRecords, ProcLocations, Holding
    <3>4. proc' = [proc EXCEPT ![p] = x]
      BY Zenon, <3>2 DEF Take
    <3> HIDE DEF r, x
    <3>5. proc' \in [Processors -> ProcRecords] /\ \A q \in Processors : proc'[q] = IF q = p THEN x ELSE proc[q]
      BY Zenon, <1>0, <3>3, <3>4
    <3>6. /\ lock_' \in [Routines -> Processors \cup {None}]
          /\ \A s \in Routines : lock_'[s] = IF s = r THEN p ELSE lock_[s]
      BY Zenon, <3>2 DEF SchedType
    <3>7. SchedType'
      BY Zenon, <2>1, <3>5, <3>6 DEF SchedType, idVars
    <3>8. \A s : Queued(s)' <=> Queued(s)
      BY Zenon, <2>1 DEF Queued, idVars
    <3>9. HoldInv'
      BY <2>3, <3>1, <3>3, <3>5, <3>6, <3>8, Constants DEF HoldInv, Holding
    <3> QED
      BY Zenon, <2>1, <3>7, <3>9
  <2> QED
    BY Zenon, <2>2, <2>3
<1>7. CASE PassOver(p) \/ Release(p)
  <2> DEFINE r == proc[p].cr
             x == IF proc[p].at = "pass" THEN [at |-> "try", prio |-> proc[p].prio, pos |-> proc[p].pos + 1, cr |-> None]
                  ELSE [at |-> "top", prio |-> 0, pos |-> 0, cr |-> None]
  <2>1. /\ proc' = [proc EXCEPT ![p] = x] /\ lock_' = [lock_ EXCEPT ![r] = None] /\ UNCHANGED idVars
        /\ proc[p].at \in Holding
    BY Zenon, <1>7 DEF PassOver, Release, Look, idVars, Holding
  <2>2. r \in Routines /\ lock_[r] = p
    BY Zenon, <2>1 DEF HoldInv
  <2>3. x \in ProcRecords /\ x.at \in {"top", "try"} /\ (x.at = "try" => x.pos > 0) /\ x.cr = None
    BY <1>0, Constants DEF ProcRecords, ProcLocations
  <2>4. \A q \in Processors \ {p} : proc[q].at \in Holding => proc[q].cr # r
    BY Zenon, <2>2 DEF HoldInv
  <2> HIDE DEF r, x
  <2>5. proc' \in [Processors -> ProcRecords] /\ \A q \in Processors : proc'[q] = IF q = p THEN x ELSE proc[q]
    BY Zenon, <1>0, <2>1, <2>3
  <2>6. /\ lock_' \in [Routines -> Processors \cup {None}]
        /\ \A s \in Routines : s # r => lock_'[s] = lock_[s]
    BY Zenon, <2>1 DEF SchedType
  <2>7. SchedType'
    BY Zenon, <2>1, <2>5, <2>6 DEF SchedType, idVars
  <2>8. \A s : Queued(s)' <=> Queued(s)
    BY Zenon, <2>1 DEF Queued, idVars
  <2>9. HoldInv'
    BY <2>3, <2>4, <2>5, <2>6, <2>8 DEF HoldInv, Holding
  <2> QED
    BY Zenon, <2>1, <2>7, <2>9
<1> QED
  BY Zenon, <1>2, <1>3, <1>4, <1>5, <1>6, <1>7 DEF ProcessorStep

\* A step of the routine that processor p runs.
LEMMA RoutineKeeps ==
  ASSUME SchedType, HoldInv, NEW p \in Processors, RoutineStep(p)
  PROVE  SchedType' /\ HoldInv' /\ UNCHANGED idVars
<1>1. /\ UNCHANGED <<idVars, lock_>> /\ proc[p].at = "run"
      /\ proc' = proc \/ proc' = [proc EXCEPT ![p].at = "yielded"]
  BY Zenon DEF RoutineStep, SetDataWait, TryFetch, CallFunction, FunctionReturns, Runs, Yield, idVars, schedVars
<1>2. CASE proc' = proc
  <2>1. \A r \in Routines : Queued(r) => Queued(r)'
    BY Zenon, <1>1 DEF Queued, idVars
  <2> QED
    BY Zenon, <1>1, <1>2, <2>1, HoldStays DEF SchedType, idVars
<1>3. CASE proc' = [proc EXCEPT ![p].at = "yielded"]
  <2> DEFINE x == [proc[p] EXCEPT !.at = "yielded"]
  <2>1. x \in ProcRecords /\ x.at = "yielded" /\ x.cr = proc[p].cr
    BY Zenon DEF SchedType, ProcRecords, ProcLocations, Holding
  <2>2. proc' = [proc EXCEPT ![p] = x]
    BY Zenon, <1>3
  <2> HIDE DEF x
  <2> QED
    BY Zenon, <1>1, <2>1, <2>2, ProcessorGoes DEF Holding
<1> QED
  BY Zenon, <1>1, <1>2, <1>3

\* What the scheduler does not notice: the writer, the time, and Shutdown, apart
\* from the removals it begins.
Elsewhere ==
  \/ Dispatch \/ WriterStep \/ Shutdown \/ ListRoutines
  \/ \E p \in Processors : ShutdownContext(p) \/ StopProcessor(p) \/ Join(p)
  \/ \E r \in Routines : WakeTimePasses(r)

\* Such a step changes nothing that SchedInv is about.
LEMMA ElsewhereKeeps ==
  ASSUME SchedInv, Elsewhere \/ UNCHANGED vars
  PROVE  SchedInv'
<1>1. UNCHANGED <<idVars, lock_, proc>>
  <2>1. CASE UNCHANGED vars \/ Dispatch
    BY Zenon, <2>1 DEF vars, schedVars, Dispatch, idVars
  <2>2. CASE WriterStep
    BY Zenon, <2>2 DEF WriterStep, FillBuffer, NotifyProcessor, SetUpdateFlag, schedVars, idVars
  <2>3. CASE Shutdown \/ ListRoutines \/ \E r \in Routines : WakeTimePasses(r)
    BY Zenon, <2>3 DEF Shutdown, ListRoutines, WakeTimePasses, idVars
  <2>4. ASSUME NEW p \in Processors, ShutdownContext(p) \/ StopProcessor(p) \/ Join(p)
        PROVE  UNCHANGED <<idVars, lock_, proc>>
    BY Zenon, <2>4 DEF ShutdownContext, StopProcessor, Join, idVars
  <2> QED
    BY Zenon, <2>1, <2>2, <2>3, <2>4 DEF Elsewhere
<1>2. \A r \in Routines : Queued(r) => Queued(r)'
  BY Zenon, <1>1 DEF Queued, idVars
<1>3. SchedType' /\ HoldInv'
  BY Zenon, <1>1, <1>2, HoldStays DEF SchedInv, SchedType, idVars
<1>4. IdsInv'
  BY Zenon, <1>1, IdsStay DEF SchedInv, IdsInv
<1> QED
  BY Zenon, <1>3, <1>4 DEF SchedInv, IdsInv

-----------------------------------------------------------------------------
(* The scheduler: threads that create and remove. *)

\* An id that a step does not touch.
LEMMA OtherId ==
  ASSUME NEW d \in Ids, IdInv(d), id_mutex'[d] = id_mutex[d], id_cr_'[d] = id_cr_[d],
         id_mutex[d] # None => admin'[id_mutex[d]] = admin[id_mutex[d]],
         \A r \in Routines : IdOf[r] = d => (Queued(r)' <=> Queued(r))
  PROVE  IdInv(d)'
BY Zenon DEF IdInv

\* The thread that is about to put its routine into the queue.
LEMMA EnqueuerSees ==
  ASSUME NEW d \in Ids, IdInv(d), NEW a \in Admins, id_mutex[d] = a, admin[a].at = "enqueue"
  PROVE  id_cr_[d] = admin[a].cr /\ \A r \in Routines : IdOf[r] = d => ~Queued(r)
<1>1. a # None
  BY Zenon, Constants
<1> QED
  BY Zenon, <1>1 DEF IdInv

\* The thread that has taken the id out of the map.
LEMMA EraserSees ==
  ASSUME NEW d \in Ids, IdInv(d), NEW a \in Admins, id_mutex[d] = a, admin[a].at \in {"writelock", "acquire"}
  PROVE  /\ id_cr_[d] = None
         /\ admin[a].at = "acquire" =>
              admin[a].cr \in Routines /\ IdOf[admin[a].cr] = d /\ Queued(admin[a].cr)
<1>1. a # None
  BY Zenon, Constants
<1> QED
  BY Zenon, <1>1 DEF IdInv

\* Where the queues are left alone they are in order afterwards.
LEMMA QueueStays ==
  ASSUME QueueInv, UNCHANGED queue
  PROVE  QueueInv' /\ \A s : Queued(s)' <=> Queued(s)
<1>1. QueueInv'
  BY DEF QueueInv
<1> QED
  BY Zenon, <1>1 DEF Queued

\* An id whose mutex is released is left in order.
LEMMA FreeId ==
  ASSUME NEW d \in Ids, id_mutex'[d] = None, id_cr_'[d] # None => IdOf[id_cr_'[d]] = d,
         \A r \in Routines : IdOf[r] = d => (Queued(r)' <=> id_cr_'[d] = r)
  PROVE  IdInv(d)'
BY Zenon DEF IdInv

\* An id whose routine was found in the queue and is about to be erased.
LEMMA FoundId ==
  ASSUME NEW d \in Ids, NEW a \in Admins, id_mutex'[d] = a, admin'[a].at = "acquire", id_cr_'[d] = None,
         admin'[a].cr \in Routines, IdOf[admin'[a].cr] = d, Queued(admin[a].cr)'
  PROVE  IdInv(d)'
<1>1. a # None
  BY Zenon, Constants
<1> QED
  BY Zenon, <1>1 DEF IdInv

\* A step that makes no object: those that are being made are as they were.
LEMMA MakersStay ==
  ASSUME ObjectInv, UNCHANGED created,
         \A b \in Admins : admin'[b].at \in Making =>
           /\ admin[b].at \in Making /\ (admin'[b].at # "enqueue" => admin[b].at # "enqueue")
           /\ admin'[b].cr = admin[b].cr /\ admin'[b].id = admin[b].id
           /\ ~Queued(admin[b].cr)' /\ admin[b].cr \notin removed',
         \A s \in Routines : \A e \in Ids : id_cr_[e] # s => id_cr_'[e] # s,
         \A s \in Routines : s > created => ~Queued(s)' /\ s \notin removed',
         \A s \in removed' : s \in Routines /\ ~Queued(s)' /\ \A e \in Ids : id_cr_[e] # s
  PROVE  ObjectInv'
<1>1. ASSUME NEW b \in Admins, admin'[b].at \in Making
      PROVE  /\ admin'[b].cr \in Routines /\ admin'[b].cr <= created' /\ IdOf[admin'[b].cr] = admin'[b].id
             /\ ~Queued(admin[b].cr)' /\ admin'[b].cr \notin removed'
             /\ admin'[b].at # "enqueue" => \A e \in Ids : id_cr_'[e] # admin'[b].cr
  <2>1. /\ admin[b].at \in Making /\ (admin'[b].at # "enqueue" => admin[b].at # "enqueue")
        /\ admin'[b].cr = admin[b].cr /\ admin'[b].id = admin[b].id
        /\ ~Queued(admin[b].cr)' /\ admin'[b].cr \notin removed'
    BY Zenon, <1>1
  <2>2. /\ admin[b].cr \in Routines /\ admin[b].cr <= created /\ IdOf[admin[b].cr] = admin[b].id
        /\ admin[b].at # "enqueue" => \A e \in Ids : id_cr_[e] # admin[b].cr
    BY Zenon, <2>1 DEF ObjectInv
  <2> QED
    BY Zenon, <2>1, <2>2
<1>2. ASSUME NEW b \in Admins, NEW c \in Admins, b # c, admin'[b].at \in Making, admin'[c].at \in Making
      PROVE  admin'[b].cr # admin'[c].cr
  <2>1. admin[b].at \in Making /\ admin[c].at \in Making /\ admin'[b].cr = admin[b].cr /\ admin'[c].cr = admin[c].cr
    BY Zenon, <1>2
  <2>2. admin[b].cr # admin[c].cr
    BY Zenon, <1>2, <2>1 DEF ObjectInv
  <2> QED
    BY Zenon, <2>1, <2>2
<1>3. \A s \in Routines : s > created' => ~Queued(s)' /\ s \notin removed' /\ \A e \in Ids : id_cr_'[e] # s
  BY Zenon DEF ObjectInv
<1>4. \A s \in removed' : ~Queued(s)' /\ \A e \in Ids : id_cr_'[e] # s
  BY Zenon
<1> QED
  BY Zenon, <1>1, <1>2, <1>3, <1>4 DEF ObjectInv

\* A step that makes no object and puts none anywhere.
LEMMA ObjectsStay ==
  ASSUME ObjectInv, removed \subseteq Routines, UNCHANGED <<created, removed>>,
         \A b \in Admins : admin'[b].at \in Making =>
           /\ admin[b].at \in Making /\ (admin'[b].at # "enqueue" => admin[b].at # "enqueue")
           /\ admin'[b].cr = admin[b].cr /\ admin'[b].id = admin[b].id,
         \A s \in Routines : Queued(s)' => Queued(s),
         \A s \in Routines : \A e \in Ids : id_cr_[e] # s => id_cr_'[e] # s
  PROVE  ObjectInv'
<1>1. ASSUME NEW b \in Admins, admin'[b].at \in Making
      PROVE  ~Queued(admin[b].cr)' /\ admin[b].cr \notin removed'
  <2>1. admin[b].at \in Making /\ admin'[b].cr = admin[b].cr
    BY Zenon, <1>1
  <2>2. admin[b].cr \in Routines /\ ~Queued(admin[b].cr) /\ admin[b].cr \notin removed
    BY Zenon, <2>1 DEF ObjectInv
  <2> QED
    BY Zenon, <2>1, <2>2
<1>2. \A s \in Routines : s > created => ~Queued(s)' /\ s \notin removed'
  BY Zenon DEF ObjectInv
<1>3. \A s \in removed' : s \in Routines /\ ~Queued(s)' /\ \A e \in Ids : id_cr_[e] # s
  BY Zenon DEF ObjectInv
<1> QED
  BY Zenon, <1>1, <1>2, <1>3, MakersStay

\* A thread that holds no mutex, before and after: nothing changes for the ids.
LEMMA ThreadGoes ==
  ASSUME SchedType, IdsInv, NEW a \in Admins, NEW x, UNCHANGED <<queue, id_cr_, id_mutex>>,
         \A b \in Admins : admin'[b] = IF b = a THEN x ELSE admin[b],
         admin[a].at \notin Locked, x.at \notin Locked, x.at \notin {"idle", "register"} => x.id \in Ids
  PROVE  MutexInv' /\ \A d \in Ids : IdInv(d)'
<1>1. ASSUME NEW d \in Ids, id_mutex[d] # None
      PROVE  /\ id_mutex[d] \in Admins /\ admin[id_mutex[d]].at \in Locked /\ admin[id_mutex[d]].id = d
             /\ admin'[id_mutex[d]] = admin[id_mutex[d]]
  <2>1. id_mutex[d] \in Admins
    BY <1>1 DEF SchedType
  <2>2. admin[id_mutex[d]].at \in Locked /\ admin[id_mutex[d]].id = d
    BY Zenon, <1>1 DEF IdsInv, MutexInv
  <2> QED
    BY Zenon, <2>1, <2>2
<1>2. MutexInv'
  <2>1. \A b \in Admins : admin'[b].at \notin {"idle", "register"} => admin'[b].id \in Ids
    BY Zenon DEF IdsInv, MutexInv
  <2>2. \A b \in Admins : admin'[b].at \in Locked => id_mutex'[admin'[b].id] = b
    BY Zenon DEF IdsInv, MutexInv
  <2> QED
    BY ZenonT(60), <1>1, <2>1, <2>2 DEF MutexInv
<1>3. ASSUME NEW d \in Ids PROVE IdInv(d)'
  <2>1. \A s : Queued(s)' <=> Queued(s)
    BY Zenon DEF Queued
  <2> QED
    BY Zenon, <1>1, <2>1, OtherId DEF IdsInv
<1> QED
  BY Zenon, <1>2, <1>3

\* A thread that holds no mutex and makes no object, before and after.
LEMMA IdleKeeps ==
  ASSUME SchedType, IdsInv, NEW a \in Admins, NEW x \in AdminRecords,
         admin' = [admin EXCEPT ![a] = x], UNCHANGED <<queue, id_cr_, id_mutex, created, removed, lock_, proc>>,
         admin[a].at \notin Locked, x.at \in {"idle", "remove"}, x.at = "remove" => x.id \in Ids
  PROVE  SchedType' /\ IdsInv'
<1>1. admin' \in [Admins -> AdminRecords] /\ \A b \in Admins : admin'[b] = IF b = a THEN x ELSE admin[b]
  BY Zenon DEF SchedType
<1>2. QueueInv' /\ \A r : Queued(r)' <=> Queued(r)
  BY Zenon, QueueStays DEF IdsInv
<1>3. MutexInv' /\ \A d \in Ids : IdInv(d)'
  BY Zenon, <1>1, ThreadGoes DEF Locked
<1>4. ObjectInv'
  <2>1. \A b \in Admins : admin'[b].at \in Making => admin'[b] = admin[b]
    BY Zenon, <1>1 DEF Making
  <2> QED
    BY Zenon, <1>2, <2>1, ObjectsStay DEF IdsInv, SchedType
<1> QED
  BY Zenon, <1>1, <1>2, <1>3, <1>4 DEF SchedType, IdsInv

\* A new object: nobody has seen it.
LEMMA CreateKeeps ==
  ASSUME SchedType, IdsInv, NEW a \in Admins, CreateTask(a)
  PROVE  SchedType' /\ IdsInv'
<1> DEFINE r == created + 1
           x == [at |-> "create", cr |-> r, id |-> IdOf[r]]
<1>1. created \in Nat /\ r \in Nat /\ r \in Routines /\ IdOf[r] \in Ids /\ x \in AdminRecords /\ r > created
  BY SchedulerConstants DEF CreateTask, SchedType, AdminRecords, AdminLocations, Making
<1>2. /\ admin[a].at = "idle" /\ created' = r /\ UNCHANGED <<queue, id_cr_, id_mutex, removed, lock_, proc>>
      /\ \A b \in Admins : admin'[b] = IF b = a THEN x ELSE admin[b]
      /\ admin' \in [Admins -> AdminRecords]
  BY Zenon, <1>1 DEF CreateTask, SchedType
<1>3. x.at = "create" /\ x.cr = r /\ x.id = IdOf[r]
  BY Zenon
<1> HIDE DEF x
<1>4. QueueInv' /\ \A s : Queued(s)' <=> Queued(s)
  BY Zenon, <1>2, QueueStays DEF IdsInv
<1>5. MutexInv' /\ \A d \in Ids : IdInv(d)'
  BY Zenon, <1>1, <1>2, <1>3, ThreadGoes DEF Locked
<1>6. SchedType'
  BY Zenon, <1>1, <1>2 DEF SchedType
<1>7. \A b \in Admins : admin[b].at \in Making => admin[b].cr \in Nat /\ admin[b].cr <= created
  BY SchedulerConstants DEF IdsInv, ObjectInv
<1>8. ObjectInv'
  <2>1. \A s \in Routines : s \in Nat
    BY SchedulerConstants
  <2>2. ASSUME NEW b \in Admins, admin'[b].at \in Making
        PROVE  /\ admin'[b].cr \in Routines /\ admin'[b].cr <= created' /\ IdOf[admin'[b].cr] = admin'[b].id
               /\ ~Queued(admin[b].cr)' /\ admin'[b].cr \notin removed'
               /\ admin'[b].at # "enqueue" => \A d \in Ids : id_cr_'[d] # admin'[b].cr
    <3>1. CASE b = a
      <4>1. r <= r /\ admin'[b] = x /\ ~Queued(r)
        BY <1>1, <1>2, <3>1 DEF IdsInv, ObjectInv
      <4> HIDE DEF r
      <4> QED
        BY Zenon, <1>1, <1>2, <1>3, <1>4, <3>1, <4>1 DEF IdsInv, ObjectInv
    <3>2. CASE b # a
      <4>1. admin[b].at \in Making /\ admin'[b] = admin[b] /\ admin[b].cr <= r
        BY <1>1, <1>2, <1>7, <2>2, <3>2
      <4> QED
        BY ZenonT(60), <1>2, <1>4, <4>1 DEF IdsInv, ObjectInv
    <3> QED
      BY Zenon, <3>1, <3>2
  <2>3. ASSUME NEW b \in Admins, NEW c \in Admins, b # c, admin'[b].at \in Making, admin'[c].at \in Making
        PROVE  admin'[b].cr # admin'[c].cr
    <3>1. admin[b].at \in Making /\ b # a => admin[b].cr # r
      BY <1>1, <1>7
    <3>2. admin[c].at \in Making /\ c # a => admin[c].cr # r
      BY <1>1, <1>7
    <3>3. b # a /\ c # a /\ admin[b].at \in Making /\ admin[c].at \in Making => admin[b].cr # admin[c].cr
      BY Zenon, <2>3 DEF IdsInv, ObjectInv
    <3> HIDE DEF r
    <3>4. CASE b = a
      BY Zenon, <1>2, <1>3, <2>3, <3>2, <3>4
    <3>5. CASE c = a
      BY Zenon, <1>2, <1>3, <2>3, <3>1, <3>5
    <3> QED
      BY Zenon, <1>2, <2>3, <3>3, <3>4, <3>5
  <2>4. \A s \in Routines : s > created' => ~Queued(s)' /\ s \notin removed' /\ \A d \in Ids : id_cr_'[d] # s
    BY <1>1, <1>2, <1>4, <2>1 DEF IdsInv, ObjectInv
  <2>5. \A s \in removed' : ~Queued(s)' /\ \A d \in Ids : id_cr_'[d] # s
    BY Zenon, <1>2, <1>4 DEF IdsInv, ObjectInv
  <2> QED
    BY Zenon, <2>2, <2>3, <2>4, <2>5 DEF ObjectInv
<1> QED
  BY Zenon, <1>4, <1>5, <1>6, <1>8 DEF IdsInv

\* The mutex of the id is taken; what it protects is as it should be.
LEMMA LockKeeps ==
  ASSUME SchedType, IdsInv, NEW a \in Admins,
         LockId(a, "create", "insert") \/ LockId(a, "remove", "erase")
  PROVE  SchedType' /\ IdsInv'
<1> DEFINE d == admin[a].id
<1>1. /\ admin[a].at \in {"create", "remove"} /\ id_mutex[d] = None /\ id_mutex' = [id_mutex EXCEPT ![d] = a]
      /\ UNCHANGED <<queue, id_cr_, created, removed, lock_, proc>>
  BY Zenon DEF LockId
<1>2. d \in Ids
  BY Zenon, <1>1 DEF IdsInv, MutexInv
<1>3. PICK l \in {"insert", "erase"} :
         /\ admin' = [admin EXCEPT ![a].at = l]
         /\ l = "insert" <=> admin[a].at = "create"
  BY Zenon DEF LockId, AdminGoto
<1> DEFINE x == [admin[a] EXCEPT !.at = l]
<1>4. x \in AdminRecords /\ x.at = l /\ x.cr = admin[a].cr /\ x.id = d
  BY Zenon DEF SchedType, AdminRecords, AdminLocations, Locked, Making
<1>5. admin' = [admin EXCEPT ![a] = x]
  BY Zenon, <1>3
<1> HIDE DEF x, d
<1>6. admin' \in [Admins -> AdminRecords] /\ \A b \in Admins : admin'[b] = IF b = a THEN x ELSE admin[b]
  BY Zenon, <1>4, <1>5 DEF SchedType
<1>7. id_mutex' \in [Ids -> Admins \cup {None}] /\ \A e \in Ids : id_mutex'[e] = IF e = d THEN a ELSE id_mutex[e]
  BY Zenon, <1>1 DEF SchedType
<1>8. QueueInv' /\ \A s : Queued(s)' <=> Queued(s)
  BY Zenon, <1>1, QueueStays DEF IdsInv
<1>10. MutexInv'
  <2>1. \A b \in Admins : admin'[b].at \notin {"idle", "register"} => admin'[b].id \in Ids
    BY Zenon, <1>2, <1>4, <1>6 DEF IdsInv, MutexInv
  <2>2. \A b \in Admins : admin'[b].at \in Locked => id_mutex'[admin'[b].id] = b
    <3>1. \A b \in Admins : admin[b].at \in Locked => admin[b].id \in Ids /\ id_mutex[admin[b].id] = b /\ admin[b].id # d
      BY <1>1, Constants DEF IdsInv, MutexInv, Locked
    <3>2. ASSUME NEW b \in Admins, admin'[b].at \in Locked, b # a PROVE id_mutex'[admin'[b].id] = b
      BY Zenon, <1>6, <1>7, <3>1, <3>2
    <3>3. id_mutex'[admin'[a].id] = a
      BY Zenon, <1>2, <1>4, <1>6, <1>7
    <3> QED
      BY Zenon, <3>2, <3>3
  <2>3. ASSUME NEW e \in Ids, id_mutex'[e] # None
        PROVE  admin'[id_mutex'[e]].at \in Locked /\ admin'[id_mutex'[e]].id = e
    <3>1. CASE e = d
      BY Zenon, <1>4, <1>6, <1>7, <3>1 DEF Locked
    <3>2. CASE e # d
      <4>1. id_mutex'[e] = id_mutex[e] /\ id_mutex[e] \in Admins
        BY <1>7, <2>3, <3>2 DEF SchedType
      <4>2. admin[id_mutex[e]].at \in Locked /\ admin[id_mutex[e]].id = e
        BY Zenon, <2>3, <4>1 DEF IdsInv, MutexInv
      <4>3. admin[a].at \notin Locked
        BY Zenon, <1>1 DEF Locked
      <4> QED
        BY Zenon, <1>6, <4>1, <4>2, <4>3
    <3> QED
      BY Zenon, <3>1, <3>2
  <2> QED
    BY Zenon, <2>1, <2>2, <2>3 DEF MutexInv
<1>11. ASSUME NEW e \in Ids PROVE IdInv(e)'
  <2>1. CASE e = d
    BY SMTT(60), <1>1, <1>2, <1>4, <1>6, <1>7, <1>8, <2>1, Constants DEF IdsInv, IdInv
  <2>2. CASE e # d
    <3>1. id_mutex[e] # None => id_mutex[e] \in Admins /\ id_mutex[e] # a
      BY <1>1 DEF SchedType, IdsInv, MutexInv, Locked
    <3> QED
      BY Zenon, <1>1, <1>6, <1>7, <1>8, <2>2, <3>1, OtherId DEF IdsInv
  <2> QED
    BY ZenonT(60), <2>1, <2>2
<1>12. ObjectInv'
  <2>1. \A b \in Admins : admin'[b].at \in Making =>
          /\ admin[b].at \in Making /\ (admin'[b].at # "enqueue" => admin[b].at # "enqueue")
          /\ admin'[b].cr = admin[b].cr /\ admin'[b].id = admin[b].id
    BY Zenon, <1>1, <1>3, <1>4, <1>6 DEF Making, d
  <2> QED
    BY Zenon, <1>1, <1>8, <2>1, ObjectsStay DEF IdsInv, SchedType
<1> QED
  BY Zenon, <1>1, <1>6, <1>7, <1>8, <1>10, <1>11, <1>12 DEF SchedType, IdsInv

\* The thread that holds the mutex of an id goes on, or releases it: the other ids
\* are left alone.
LEMMA HolderKeeps ==
  ASSUME SchedType, IdsInv, NEW a \in Admins, admin[a].at \in Locked,
         NEW x \in AdminRecords, admin' = [admin EXCEPT ![a] = x],
         \/ x.at \in Locked /\ x.id = admin[a].id /\ id_mutex' = id_mutex
         \/ x.at \in {"idle", "register"} /\ id_mutex' = [id_mutex EXCEPT ![admin[a].id] = None],
         \A e \in Ids : e # admin[a].id => id_cr_'[e] = id_cr_[e],
         \A r \in Routines : IdOf[r] # admin[a].id => (Queued(r)' <=> Queued(r))
  PROVE  /\ admin' \in [Admins -> AdminRecords] /\ id_mutex' \in [Ids -> Admins \cup {None}]
         /\ \A b \in Admins : admin'[b] = IF b = a THEN x ELSE admin[b]
         /\ admin[a].id \in Ids /\ id_mutex[admin[a].id] = a
         /\ id_mutex'[admin[a].id] = IF x.at \in Locked THEN a ELSE None
         /\ MutexInv'
         /\ \A e \in Ids : e # admin[a].id => IdInv(e)'
<1> DEFINE d == admin[a].id
<1>1. d \in Ids /\ id_mutex[d] = a
  BY Zenon DEF IdsInv, MutexInv, Locked
<1>2. admin' \in [Admins -> AdminRecords] /\ \A b \in Admins : admin'[b] = IF b = a THEN x ELSE admin[b]
  BY Zenon DEF SchedType
<1> HIDE DEF d
<1>3. /\ id_mutex' \in [Ids -> Admins \cup {None}]
      /\ \A e \in Ids : id_mutex'[e] = IF e = d THEN (IF x.at \in Locked THEN a ELSE None) ELSE id_mutex[e]
      /\ x.at \in Locked => x.id = d
      /\ x.at \notin Locked => x.at \in {"idle", "register"}
  BY ZenonT(60), <1>1 DEF SchedType, d, Locked
<1>4. ASSUME NEW e \in Ids, e # d
      PROVE  /\ id_mutex'[e] = id_mutex[e]
             /\ id_mutex[e] # None =>
                  id_mutex[e] \in Admins /\ admin'[id_mutex[e]] = admin[id_mutex[e]]
  BY <1>2, <1>3, <1>4 DEF IdsInv, MutexInv, SchedType, d
<1>5. MutexInv'
  <2>1. \A b \in Admins : admin'[b].at \notin {"idle", "register"} => admin'[b].id \in Ids
    BY <1>1, <1>2, <1>3 DEF IdsInv, MutexInv
  <2>2. ASSUME NEW b \in Admins, admin'[b].at \in Locked PROVE id_mutex'[admin'[b].id] = b
    <3>1. CASE b = a
      BY ZenonT(60), <1>1, <1>2, <1>3, <2>2, <3>1
    <3>2. CASE b # a
      BY SMTT(60), <1>1, <1>2, <1>3, <2>1, <2>2, <3>2 DEF IdsInv, MutexInv, Locked
    <3> QED
      BY Zenon, <3>1, <3>2
  <2>3. ASSUME NEW e \in Ids, id_mutex'[e] # None
        PROVE  admin'[id_mutex'[e]].at \in Locked /\ admin'[id_mutex'[e]].id = e
    <3>1. CASE e = d
      BY ZenonT(60), <1>2, <1>3, <2>3, <3>1
    <3>2. CASE e # d
      BY <1>4, <2>3, <3>2 DEF IdsInv, MutexInv
    <3> QED
      BY Zenon, <3>1, <3>2
  <2> QED
    BY ZenonT(60), <2>1, <2>2, <2>3 DEF MutexInv
<1>6. ASSUME NEW e \in Ids, e # d PROVE IdInv(e)'
  BY Zenon, <1>4, <1>6, OtherId DEF IdsInv, d
<1> QED
  BY Zenon, <1>1, <1>2, <1>3, <1>5, <1>6 DEF d

\* The id is entered into the map, or the object is given up.
LEMMA InsertKeeps ==
  ASSUME SchedType, IdsInv, NEW a \in Admins, InsertId(a)
  PROVE  SchedType' /\ IdsInv'
<1> DEFINE d == admin[a].id
           r == admin[a].cr
           fail == id_cr_[d] # None
           x == IF fail THEN [at |-> "idle", cr |-> None, id |-> None] ELSE [admin[a] EXCEPT !.at = "enqueue"]
<1>1. /\ admin[a].at = "insert" /\ UNCHANGED <<queue, created, lock_, proc>>
      /\ admin' = [admin EXCEPT ![a] = x]
      /\ id_mutex' = IF fail THEN [id_mutex EXCEPT ![d] = None] ELSE id_mutex
      /\ removed' = IF fail THEN removed \cup {r} ELSE removed
      /\ id_cr_' = IF fail THEN id_cr_ ELSE [id_cr_ EXCEPT ![d] = r]
  BY Zenon DEF InsertId, AdminDone, AdminGoto, Unlock
<1>2. /\ x \in AdminRecords /\ (fail => x.at = "idle")
      /\ ~fail => x.at = "enqueue" /\ x.cr = r /\ x.id = d
  BY Zenon DEF SchedType, AdminRecords, AdminLocations, Making, Locked
<1>3. /\ d \in Ids /\ r \in Routines /\ r <= created /\ IdOf[r] = d /\ ~Queued(r) /\ r \notin removed
      /\ \A e \in Ids : id_cr_[e] # r
      /\ \A b \in Admins : b # a /\ admin[b].at \in Making => admin[b].cr # r
  BY Zenon, <1>1 DEF IdsInv, MutexInv, ObjectInv, Making
<1>4. QueueInv' /\ \A s : Queued(s)' <=> Queued(s)
  BY Zenon, <1>1, QueueStays DEF IdsInv
<1>5. /\ id_cr_' \in [Ids -> Routines \cup {None}]
      /\ \A e \in Ids : id_cr_'[e] = IF e = d /\ ~fail THEN r ELSE id_cr_[e]
  BY Zenon, <1>1, <1>3 DEF SchedType
<1> HIDE DEF x, r
<1>6. /\ admin' \in [Admins -> AdminRecords] /\ id_mutex' \in [Ids -> Admins \cup {None}]
      /\ \A b \in Admins : admin'[b] = IF b = a THEN x ELSE admin[b]
      /\ id_mutex[d] = a /\ id_mutex'[d] = IF fail THEN None ELSE a
      /\ MutexInv' /\ \A e \in Ids : e # d => IdInv(e)'
  BY ZenonT(60), <1>1, <1>2, <1>4, <1>5, HolderKeeps DEF Locked
<1> HIDE DEF fail, d
<1>7. SchedType'
  BY Zenon, <1>1, <1>3, <1>5, <1>6 DEF SchedType
<1>9. \A s \in Routines : IdOf[s] = d => (Queued(s) <=> id_cr_[d] = s)
  BY Zenon, <1>1, <1>3, <1>6, Constants DEF IdsInv, IdInv
<1>10. ASSUME NEW e \in Ids, e = d PROVE IdInv(e)'
  <2>1. CASE fail
    <3>1. id_mutex'[e] = None /\ id_cr_'[e] = id_cr_[d]
      BY Zenon, <1>3, <1>5, <1>6, <1>10, <2>1
    <3>2. id_cr_[d] # None => IdOf[id_cr_[d]] = d
      BY Zenon, <1>3 DEF IdsInv, IdInv
    <3> QED
      BY Zenon, <1>4, <1>9, <1>10, <3>1, <3>2, FreeId
  <2>2. CASE ~fail
    BY SMTT(60), <1>2, <1>3, <1>4, <1>5, <1>6, <1>9, <1>10, <2>2, Constants DEF fail, IdInv
  <2> QED
    BY Zenon, <2>1, <2>2
<1>11. ObjectInv'
  <2>1. ASSUME NEW b \in Admins, admin'[b].at \in Making
        PROVE  /\ admin'[b].cr \in Routines /\ admin'[b].cr <= created' /\ IdOf[admin'[b].cr] = admin'[b].id
               /\ ~Queued(admin[b].cr)' /\ admin'[b].cr \notin removed'
               /\ admin'[b].at # "enqueue" => \A e \in Ids : id_cr_'[e] # admin'[b].cr
    <3>1. CASE b = a
      BY ZenonT(60), <1>1, <1>2, <1>3, <1>4, <1>6, <2>1, <3>1 DEF Making
    <3>2. CASE b # a
      <4>1. admin'[b] = admin[b] /\ admin[b].at \in Making
        BY Zenon, <1>6, <2>1, <3>2
      <4>2. /\ admin[b].cr \in Routines /\ admin[b].cr <= created /\ IdOf[admin[b].cr] = admin[b].id
            /\ ~Queued(admin[b].cr) /\ admin[b].cr \notin removed
            /\ admin[b].at # "enqueue" => \A e \in Ids : id_cr_[e] # admin[b].cr
        BY Zenon, <4>1 DEF IdsInv, ObjectInv
      <4>3. admin[b].cr # r
        BY Zenon, <1>3, <3>2, <4>1
      <4>4. \A e \in Ids : id_cr_[e] # admin[b].cr => id_cr_'[e] # admin[b].cr
        BY Zenon, <1>5, <4>3
      <4>5. admin[b].cr \notin removed'
        BY Zenon, <1>1, <4>2, <4>3
      <4> QED
        BY Zenon, <1>1, <1>4, <4>1, <4>2, <4>4, <4>5
    <3> QED
      BY Zenon, <3>1, <3>2
  <2>2. ASSUME NEW b \in Admins, NEW c \in Admins, b # c, admin'[b].at \in Making, admin'[c].at \in Making
        PROVE  admin'[b].cr # admin'[c].cr
    <3>1. b # a => admin[b].at \in Making /\ admin[b].cr # r /\ admin'[b].cr = admin[b].cr
      BY Zenon, <1>3, <1>6, <2>2
    <3>2. c # a => admin[c].at \in Making /\ admin[c].cr # r /\ admin'[c].cr = admin[c].cr
      BY Zenon, <1>3, <1>6, <2>2
    <3>3. admin'[a].at \in Making => admin'[a].cr = r
      BY Zenon, <1>2, <1>6 DEF Making
    <3>4. b # a /\ c # a => admin[b].cr # admin[c].cr
      BY Zenon, <2>2, <3>1, <3>2 DEF IdsInv, ObjectInv
    <3> QED
      BY Zenon, <2>2, <3>1, <3>2, <3>3, <3>4
  <2>3. \A s \in Routines : s > created' => ~Queued(s)' /\ s \notin removed' /\ \A e \in Ids : id_cr_'[e] # s
    <3>1. \A s \in Routines : s > created => s # r
      BY SMTT(60), <1>3, SchedulerConstants DEF SchedType
    <3> QED
      BY ZenonT(60), <1>1, <1>4, <1>5, <3>1 DEF IdsInv, ObjectInv
  <2>4. \A s \in removed' : ~Queued(s)' /\ \A e \in Ids : id_cr_'[e] # s
    BY <1>1, <1>3, <1>4, <1>5 DEF IdsInv, ObjectInv
  <2> QED
    BY Zenon, <2>1, <2>2, <2>3, <2>4 DEF ObjectInv
<1> QED
  BY Zenon, <1>4, <1>6, <1>7, <1>10, <1>11 DEF IdsInv

\* The routine is put at the end of the queue of its priority.
LEMMA EnqueueKeeps ==
  ASSUME SchedType, IdsInv, NEW a \in Admins, EnqueueTask(a)
  PROVE  SchedType' /\ IdsInv' /\ \A s \in Routines : Queued(s) => Queued(s)'
<1> DEFINE d == admin[a].id
           r == admin[a].cr
           i == Prio[d]
           x == [admin[a] EXCEPT !.at = "register"]
<1>1. /\ admin[a].at = "enqueue" /\ UNCHANGED <<id_cr_, created, removed, lock_, proc>>
      /\ admin' = [admin EXCEPT ![a] = x] /\ id_mutex' = [id_mutex EXCEPT ![d] = None]
      /\ queue' = [queue EXCEPT ![i] = Append(@, r)]
  BY Zenon DEF EnqueueTask, AdminGoto, Unlock
<1>2. x \in AdminRecords /\ x.at = "register"
  BY Zenon DEF SchedType, AdminRecords, AdminLocations, Making
<1>3. /\ d \in Ids /\ r \in Routines /\ r <= created /\ IdOf[r] = d /\ r \notin removed
      /\ \A b \in Admins : b # a /\ admin[b].at \in Making => admin[b].cr # r
      /\ i \in Prios
  BY Zenon, <1>1, Constants DEF IdsInv, MutexInv, ObjectInv, Making
<1>4. id_mutex[d] = a /\ id_cr_[d] = r /\ \A s \in Routines : IdOf[s] = d => ~Queued(s)
  <2>1. id_mutex[d] = a
    BY ZenonT(60), <1>1, <1>3 DEF IdsInv, MutexInv, Locked
  <2> QED
    <3>1. IdInv(d)
      BY Zenon, <1>3 DEF IdsInv
    <3> QED
      BY Zenon, <1>1, <1>3, <2>1, <3>1, EnqueuerSees
<1> HIDE DEF x, r, i
<1>5. /\ queue' \in [Prios -> Seq(Routines)] /\ queue[i] \in Seq(Routines)
      /\ Len(queue'[i]) = Len(queue[i]) + 1 /\ queue'[i][Len(queue[i]) + 1] = r
      /\ \A k \in 1 .. Len(queue[i]) : queue'[i][k] = queue[i][k]
      /\ \A j \in Prios : j # i => queue'[j] = queue[j]
  BY <1>1, <1>3 DEF SchedType
<1>6. \A s \in Routines : Queued(s)' <=> Queued(s) \/ s = r
  <2> TAKE s \in Routines
  <2>1. CASE Prio[IdOf[s]] = i
    <3>1. Len(queue[i]) \in Nat
      BY <1>5
    <3>2. /\ Queued(s) <=> \E k \in 1 .. Len(queue[i]) : queue[i][k] = s
          /\ Queued(s)' <=> \E k \in 1 .. Len(queue[i]) + 1 : queue'[i][k] = s
      BY Zenon, <1>5, <2>1 DEF Queued
    <3> DEFINE n == Len(queue[i])
    <3>3. n + 1 \in 1 .. n + 1 /\ \A k \in 1 .. n + 1 : k \in 1 .. n \/ k = n + 1
      BY <3>1
    <3>4. \A k \in 1 .. n : k \in 1 .. n + 1
      BY <3>1
    <3> HIDE DEF n
    <3>5. ASSUME Queued(s)' PROVE Queued(s) \/ s = r
      BY Zenon, <1>5, <3>2, <3>3, <3>5 DEF n
    <3>6. ASSUME Queued(s) \/ s = r PROVE Queued(s)'
      BY Zenon, <1>5, <3>2, <3>3, <3>4, <3>6 DEF n
    <3> QED
      BY Zenon, <3>5, <3>6
  <2>2. CASE Prio[IdOf[s]] # i
    <3>1. s # r
      BY Zenon, <1>3, <2>2 DEF i
    <3> QED
      BY Zenon, <1>5, <2>2, <3>1, Constants DEF Queued
  <2> QED
    BY Zenon, <2>1, <2>2
<1>7. /\ admin' \in [Admins -> AdminRecords] /\ id_mutex' \in [Ids -> Admins \cup {None}]
      /\ \A b \in Admins : admin'[b] = IF b = a THEN x ELSE admin[b]
      /\ id_mutex'[d] = None
      /\ MutexInv' /\ \A e \in Ids : e # d => IdInv(e)'
  <2>1. \A s \in Routines : IdOf[s] # d => (Queued(s)' <=> Queued(s))
    BY Zenon, <1>3, <1>6
  <2> QED
    BY ZenonT(60), <1>1, <1>2, <2>1, HolderKeeps DEF Locked
<1>8. SchedType'
  BY Zenon, <1>1, <1>5, <1>7 DEF SchedType
<1>9. QueueInv'
  <2>1. ASSUME NEW j \in Prios, NEW k \in 1 .. Len(queue[j])
        PROVE  queue[j][k] \in Routines /\ Prio[IdOf[queue[j][k]]] = j /\ IdOf[queue[j][k]] # d
    <3>1. queue[j][k] \in Routines /\ Prio[IdOf[queue[j][k]]] = j
      BY DEF SchedType, IdsInv, QueueInv
    <3> QED
      BY Zenon, <1>4, <3>1 DEF Queued
  <2>2. ASSUME NEW j \in Prios, NEW k \in 1 .. Len(queue'[j]) PROVE Prio[IdOf[queue'[j][k]]] = j
    <3>1. CASE j = i /\ k = Len(queue[i]) + 1
      BY Zenon, <1>3, <1>5, <3>1 DEF i
    <3>2. CASE ~(j = i /\ k = Len(queue[i]) + 1)
      <4>1. k \in 1 .. Len(queue[j]) /\ queue'[j][k] = queue[j][k]
        BY <1>5, <3>2
      <4> QED
        BY Zenon, <2>1, <4>1
    <3> QED
      BY Zenon, <3>1, <3>2
  <2>3. ASSUME NEW j \in Prios, NEW k \in 1 .. Len(queue'[j]), NEW l \in 1 .. Len(queue'[j]),
               IdOf[queue'[j][k]] = IdOf[queue'[j][l]]
        PROVE  k = l
    <3>1. CASE j = i
      <4>1. /\ \A m \in 1 .. Len(queue[i]) : IdOf[queue[i][m]] # d
            /\ \A m, n \in 1 .. Len(queue[i]) : IdOf[queue[i][m]] = IdOf[queue[i][n]] => m = n
        BY ZenonT(60), <1>3, <2>1 DEF IdsInv, QueueInv
      <4>2. k \in 1 .. Len(queue[i]) \/ k = Len(queue[i]) + 1
        BY <1>5, <3>1
      <4>3. l \in 1 .. Len(queue[i]) \/ l = Len(queue[i]) + 1
        BY <1>5, <3>1
      <4> HIDE DEF d
      <4> QED
        BY Zenon, <1>3, <1>5, <2>3, <3>1, <4>1, <4>2, <4>3
    <3>2. CASE j # i
      BY <1>5, <2>3, <3>2 DEF IdsInv, QueueInv
    <3> QED
      BY Zenon, <3>1, <3>2
  <2> QED
    BY Zenon, <2>2, <2>3 DEF QueueInv
<1> HIDE DEF d
<1>10. ASSUME NEW e \in Ids, e = d PROVE IdInv(e)'
  <2>1. id_mutex'[e] = None /\ id_cr_'[e] = r /\ IdOf[r] = e
    BY Zenon, <1>1, <1>3, <1>4, <1>7, <1>10
  <2>2. \A s \in Routines : IdOf[s] = e => (Queued(s)' <=> id_cr_'[e] = s)
    BY Zenon, <1>4, <1>6, <1>10, <2>1
  <2> QED
    BY Zenon, <2>1, <2>2, FreeId
<1>11. ObjectInv'
  <2>1. ASSUME NEW b \in Admins, admin'[b].at \in Making
        PROVE  b # a /\ admin'[b] = admin[b] /\ admin[b].cr # r
    BY Zenon, <1>2, <1>3, <1>7, <2>1 DEF Making
  <2>2. ASSUME NEW b \in Admins, admin'[b].at \in Making
        PROVE  ~Queued(admin[b].cr)' /\ admin[b].cr \notin removed'
    <3>1. admin[b].at \in Making /\ admin'[b].cr = admin[b].cr /\ admin[b].cr # r
      BY Zenon, <2>1, <2>2
    <3>2. admin[b].cr \in Routines /\ ~Queued(admin[b].cr) /\ admin[b].cr \notin removed
      BY Zenon, <3>1 DEF IdsInv, ObjectInv
    <3> QED
      BY Zenon, <1>1, <1>6, <3>1, <3>2
  <2>3. \A s \in Routines : s > created => s # r
    BY <1>3, SchedulerConstants DEF SchedType
  <2>4. \A s \in Routines : s > created => ~Queued(s)' /\ s \notin removed'
    BY Zenon, <1>1, <1>6, <2>3 DEF IdsInv, ObjectInv
  <2>5. \A s \in removed' : s \in Routines /\ ~Queued(s)' /\ \A e \in Ids : id_cr_[e] # s
    BY Zenon, <1>1, <1>3, <1>6 DEF IdsInv, ObjectInv, SchedType
  <2> QED
    BY Zenon, <1>1, <2>1, <2>2, <2>4, <2>5, MakersStay DEF IdsInv
<1> QED
  BY Zenon, <1>6, <1>7, <1>8, <1>9, <1>10, <1>11 DEF IdsInv

\* The id is taken out of the map, if it is there.
LEMMA EraseIdKeeps ==
  ASSUME SchedType, IdsInv, NEW a \in Admins, NEW idle, EraseId(a, idle)
  PROVE  SchedType' /\ IdsInv' /\ UNCHANGED queue
<1> DEFINE d == admin[a].id
           fail == id_cr_[d] = None
           x == IF fail THEN [at |-> "idle", cr |-> None, id |-> None] ELSE [admin[a] EXCEPT !.at = "writelock"]
<1>1. /\ admin[a].at = "erase" /\ UNCHANGED <<queue, created, removed, lock_, proc>>
      /\ admin' = [admin EXCEPT ![a] = x]
      /\ id_mutex' = IF fail THEN [id_mutex EXCEPT ![d] = None] ELSE id_mutex
      /\ id_cr_' = IF fail THEN id_cr_ ELSE [id_cr_ EXCEPT ![d] = None]
  BY Zenon DEF EraseId, AdminDone, Unlock
<1>2. /\ x \in AdminRecords /\ (fail => x.at = "idle")
      /\ ~fail => x.at = "writelock" /\ x.id = d
  BY Zenon DEF SchedType, AdminRecords, AdminLocations, Making, Locked
<1>3. QueueInv' /\ \A s : Queued(s)' <=> Queued(s)
  BY Zenon, <1>1, QueueStays DEF IdsInv
<1>4. /\ id_cr_' \in [Ids -> Routines \cup {None}]
      /\ \A e \in Ids : id_cr_'[e] = IF e = d THEN None ELSE id_cr_[e]
  BY Zenon, <1>1 DEF SchedType
<1> HIDE DEF x
<1>5. /\ admin' \in [Admins -> AdminRecords] /\ id_mutex' \in [Ids -> Admins \cup {None}]
      /\ \A b \in Admins : admin'[b] = IF b = a THEN x ELSE admin[b]
      /\ d \in Ids /\ id_mutex[d] = a /\ id_mutex'[d] = IF fail THEN None ELSE a
      /\ MutexInv' /\ \A e \in Ids : e # d => IdInv(e)'
  BY ZenonT(60), <1>1, <1>2, <1>3, <1>4, HolderKeeps DEF Locked
<1> HIDE DEF fail, d
<1>6. SchedType'
  BY Zenon, <1>1, <1>4, <1>5 DEF SchedType
<1>8. \A s \in Routines : IdOf[s] = d => (Queued(s) <=> id_cr_[d] = s)
  BY Zenon, <1>1, <1>5, Constants DEF IdsInv, IdInv
<1>9. ASSUME NEW e \in Ids, e = d PROVE IdInv(e)'
  <2>1. CASE fail
    <3>1. id_mutex'[e] = None /\ id_cr_'[e] = None /\ id_cr_[d] = None
      BY Zenon, <1>4, <1>5, <1>9, <2>1 DEF fail
    <3> QED
      BY Zenon, <1>3, <1>8, <1>9, <3>1, FreeId
  <2>2. CASE ~fail
    BY <1>2, <1>4, <1>5, <1>9, <2>2, Constants DEF IdInv
  <2> QED
    BY Zenon, <2>1, <2>2
<1>10. ObjectInv'
  <2>1. ASSUME NEW b \in Admins, admin'[b].at \in Making
        PROVE  b # a /\ admin'[b] = admin[b]
    BY Zenon, <1>2, <1>5, <2>1 DEF Making
  <2>2. \A s \in Routines : \A e \in Ids : id_cr_[e] # s => id_cr_'[e] # s
    BY Zenon, <1>4, Constants
  <2> QED
    BY Zenon, <1>1, <1>3, <2>1, <2>2, ObjectsStay DEF IdsInv, SchedType
<1> QED
  BY Zenon, <1>1, <1>3, <1>5, <1>6, <1>9, <1>10 DEF IdsInv

\* The routine is found by its id in the queue.
LEMMA WriteLockKeeps ==
  ASSUME SchedType, IdsInv, NEW a \in Admins, WriteLock(a)
  PROVE  SchedType' /\ IdsInv' /\ UNCHANGED queue
<1> DEFINE d == admin[a].id
           i == Prio[d]
<1>1. admin[a].at = "writelock" /\ UNCHANGED <<queue, id_cr_, id_mutex, created, removed, lock_, proc>>
  BY Zenon DEF WriteLock
<1>2. d \in Ids /\ i \in Prios /\ queue[i] \in Seq(Routines)
  BY ZenonT(60), <1>1, Constants DEF IdsInv, MutexInv, SchedType
<1>3. PICK k \in 1 .. Len(queue[i]) :
         /\ IdOf[queue[i][k]] = d
         /\ admin' = [admin EXCEPT ![a] = [at |-> "acquire", cr |-> queue[i][k], id |-> d]]
  <2>1. DOMAIN queue[i] = 1 .. Len(queue[i])
    BY <1>2
  <2>2. PICK k \in DOMAIN queue[i] :
           /\ IdOf[queue[i][k]] = d
           /\ admin' = [admin EXCEPT ![a] = [at |-> "acquire", cr |-> queue[i][k], id |-> @.id]]
    BY Zenon DEF WriteLock
  <2> QED
    BY Zenon, <2>1, <2>2
<1> DEFINE r == queue[i][k]
           x == [at |-> "acquire", cr |-> r, id |-> d]
<1>4. r \in Routines /\ IdOf[r] = d /\ Queued(r)
  <2>1. r \in Routines /\ IdOf[r] = d
    BY <1>2, <1>3
  <2> QED
    BY ZenonT(60), <2>1 DEF Queued
<1>5. x \in AdminRecords /\ x.at = "acquire" /\ x.cr = r /\ x.id = d
  BY Zenon, <1>2, <1>4 DEF AdminRecords, AdminLocations, Locked
<1>6. QueueInv' /\ \A s : Queued(s)' <=> Queued(s)
  BY Zenon, <1>1, QueueStays DEF IdsInv
<1> HIDE DEF x, r, i
<1>7. /\ admin' \in [Admins -> AdminRecords]
      /\ \A b \in Admins : admin'[b] = IF b = a THEN x ELSE admin[b]
      /\ id_mutex[d] = a
      /\ MutexInv' /\ \A e \in Ids : e # d => IdInv(e)'
  BY ZenonT(60), <1>1, <1>3, <1>5, <1>6, HolderKeeps DEF Locked, r, x
<1> HIDE DEF d
<1>8. SchedType'
  BY Zenon, <1>1, <1>7 DEF SchedType
<1>10. ASSUME NEW e \in Ids, e = d PROVE IdInv(e)'
  <2>1. id_cr_[d] = None
    BY Zenon, <1>1, <1>2, <1>7, EraserSees DEF IdsInv
  <2> QED
    <3>1. admin'[a] = x /\ id_mutex'[e] = a /\ id_cr_'[e] = None /\ a # None
      BY Zenon, <1>1, <1>7, <1>10, <2>1, Constants
    <3> QED
      BY Zenon, <1>4, <1>5, <1>6, <1>10, <3>1, FoundId
<1>11. ObjectInv'
  <2>1. ASSUME NEW b \in Admins, admin'[b].at \in Making
        PROVE  b # a /\ admin'[b] = admin[b]
    BY Zenon, <1>5, <1>7, <2>1 DEF Making
  <2> QED
    BY Zenon, <1>1, <1>6, <2>1, ObjectsStay DEF IdsInv, SchedType
<1> QED
  BY Zenon, <1>1, <1>6, <1>7, <1>8, <1>10, <1>11 DEF IdsInv

\* The routine is erased, by a thread that found it free.
LEMMA AcquireKeeps ==
  ASSUME SchedType, IdsInv, NEW a \in Admins, AcquireAndErase(a)
  PROVE  SchedType' /\ IdsInv' /\ \A s \in Routines : Queued(s) /\ lock_[s] # None => Queued(s)'
<1> DEFINE d == admin[a].id
           r == admin[a].cr
           i == Prio[d]
           x == [at |-> "idle", cr |-> None, id |-> None]
<1>1. /\ admin[a].at = "acquire" /\ UNCHANGED <<id_cr_, created, lock_, proc>> /\ lock_[r] = None
      /\ admin' = [admin EXCEPT ![a] = x] /\ id_mutex' = [id_mutex EXCEPT ![d] = None]
      /\ removed' = removed \cup {r} /\ Erase(i, r)
  BY Zenon DEF AcquireAndErase, AdminDone, Unlock
<1>2. x \in AdminRecords /\ x.at = "idle"
  BY Zenon DEF AdminRecords, AdminLocations
<1>3. d \in Ids /\ id_mutex[d] = a /\ i \in Prios
  BY Zenon, <1>1, Constants DEF IdsInv, MutexInv, Locked
<1>4. id_cr_[d] = None /\ r \in Routines /\ IdOf[r] = d /\ Queued(r)
  <2>1. IdInv(d)
    BY Zenon, <1>3 DEF IdsInv
  <2> QED
    BY Zenon, <1>1, <1>3, <2>1, EraserSees
<1> HIDE DEF x, r, i
<1> DEFINE q == queue[i]
           n == Len(q)
<1>5. q \in Seq(Routines) /\ n \in Nat /\ DOMAIN q = 1 .. n
  BY <1>3 DEF SchedType
<1>6. PICK k \in 1 .. n : q[k] = r /\ queue' = [queue EXCEPT ![i] = [j \in 1 .. n - 1 |-> q[IF j < k THEN j ELSE j + 1]]]
  BY Zenon, <1>1 DEF Erase
<1> DEFINE Old(j) == IF j < k THEN j ELSE j + 1
           qq == [j \in 1 .. n - 1 |-> q[Old(j)]]
<1>7. /\ n - 1 \in Nat
      /\ \A j \in 1 .. n - 1 : Old(j) \in 1 .. n /\ Old(j) # k
      /\ \A j \in 1 .. n : j # k => \E l \in 1 .. n - 1 : Old(l) = j
      /\ \A j, l \in 1 .. n - 1 : Old(j) = Old(l) => j = l
  <2>1. n - 1 \in Nat /\ \A j \in 1 .. n - 1 : Old(j) \in 1 .. n /\ Old(j) # k
    BY <1>5, <1>6
  <2>2. ASSUME NEW j \in 1 .. n, j # k PROVE \E l \in 1 .. n - 1 : Old(l) = j
    <3>1. CASE j < k
      BY <1>5, <1>6, <3>1
    <3>2. CASE j > k
      <4>1. j - 1 \in 1 .. n - 1 /\ Old(j - 1) = j
        BY <1>5, <1>6, <3>2
      <4> QED
        BY Zenon, <4>1
    <3> QED
      BY <1>5, <1>6, <2>2, <3>1, <3>2
  <2>3. \A j, l \in 1 .. n - 1 : Old(j) = Old(l) => j = l
    BY <1>5, <1>6
  <2> QED
    BY Zenon, <2>1, <2>2, <2>3
<1> HIDE DEF n, Old
<1>8. qq \in Seq(Routines) /\ Len(qq) = n - 1 /\ \A j \in 1 .. n - 1 : qq[j] = q[Old(j)]
  <2>1. \A j \in 1 .. n - 1 : q[Old(j)] \in Routines
    BY <1>5, <1>7
  <2> QED
    BY <1>7, <2>1
<1> HIDE DEF q, qq
<1>9. /\ queue' \in [Prios -> Seq(Routines)] /\ queue'[i] = qq
      /\ \A j \in Prios : j # i => queue'[j] = queue[j]
  BY Zenon, <1>3, <1>6, <1>8 DEF SchedType, qq, Old
<1>10. \A j, l \in 1 .. n : IdOf[q[j]] = IdOf[q[l]] => j = l
  BY Zenon, <1>3 DEF IdsInv, QueueInv, q, n
<1>11. \A s \in Routines : Queued(s)' <=> Queued(s) /\ s # r
  <2> TAKE s \in Routines
  <2>1. CASE Prio[IdOf[s]] = i
    <3>1. Queued(s) <=> \E j \in 1 .. n : q[j] = s
      BY Zenon, <2>1 DEF Queued, q, n
    <3>2. Queued(s)' <=> \E j \in 1 .. n - 1 : q[Old(j)] = s
      BY Zenon, <1>8, <1>9, <2>1 DEF Queued
    <3>3. ASSUME NEW j \in 1 .. n - 1, q[Old(j)] = s PROVE Queued(s) /\ s # r
      BY Zenon, <1>6, <1>7, <1>10, <3>1, <3>3
    <3>4. ASSUME NEW j \in 1 .. n, q[j] = s, s # r PROVE Queued(s)'
      BY Zenon, <1>6, <1>7, <3>2, <3>4
    <3> QED
      BY Zenon, <3>1, <3>2, <3>3, <3>4
  <2>2. CASE Prio[IdOf[s]] # i
    <3>1. s # r
      BY Zenon, <1>4, <2>2 DEF i
    <3> QED
      BY Zenon, <1>9, <2>2, <3>1, Constants DEF Queued
  <2> QED
    BY Zenon, <2>1, <2>2
<1>12. \A s \in Routines : IdOf[s] = d => ~Queued(s)'
  <2> SUFFICES ASSUME NEW s \in Routines, IdOf[s] = d, Queued(s) PROVE s = r
    BY Zenon, <1>11
  <2>1. PICK j \in 1 .. n : q[j] = s
    BY Zenon DEF Queued, q, n, i
  <2> QED
    BY Zenon, <1>4, <1>6, <1>10, <2>1
<1>13. /\ admin' \in [Admins -> AdminRecords] /\ id_mutex' \in [Ids -> Admins \cup {None}]
       /\ \A b \in Admins : admin'[b] = IF b = a THEN x ELSE admin[b]
       /\ id_mutex'[d] = None
       /\ MutexInv' /\ \A e \in Ids : e # d => IdInv(e)'
  <2>1. \A s \in Routines : IdOf[s] # d => (Queued(s)' <=> Queued(s))
    BY Zenon, <1>4, <1>11
  <2> QED
    BY ZenonT(60), <1>1, <1>2, <2>1, HolderKeeps DEF Locked
<1> HIDE DEF d
<1>14. SchedType'
  BY Zenon, <1>1, <1>4, <1>9, <1>13 DEF SchedType
<1>15. QueueInv'
  <2>1. ASSUME NEW j \in Prios, NEW l \in 1 .. Len(queue'[j]) PROVE Prio[IdOf[queue'[j][l]]] = j
    <3>1. CASE j = i
      <4>1. \A m \in 1 .. n : Prio[IdOf[q[m]]] = i
        BY Zenon, <1>3 DEF IdsInv, QueueInv, q, n
      <4> QED
        BY <1>7, <1>8, <1>9, <3>1, <4>1
    <3>2. CASE j # i
      BY ZenonT(60), <1>9, <3>2 DEF IdsInv, QueueInv
    <3> QED
      BY Zenon, <3>1, <3>2
  <2>2. ASSUME NEW j \in Prios, NEW l \in 1 .. Len(queue'[j]), NEW m \in 1 .. Len(queue'[j]),
               IdOf[queue'[j][l]] = IdOf[queue'[j][m]]
        PROVE  l = m
    <3>1. CASE j = i
      BY SMTT(60), <1>7, <1>8, <1>9, <1>10, <2>2, <3>1
    <3>2. CASE j # i
      BY Zenon, <1>9, <2>2, <3>2 DEF IdsInv, QueueInv
    <3> QED
      BY Zenon, <3>1, <3>2
  <2> QED
    BY Zenon, <2>1, <2>2 DEF QueueInv
<1>16. ASSUME NEW e \in Ids, e = d PROVE IdInv(e)'
  <2>1. id_mutex'[e] = None /\ id_cr_'[e] = None
    BY Zenon, <1>1, <1>4, <1>13, <1>16
  <2> QED
    BY Zenon, <1>12, <1>16, <2>1, Constants, FreeId
<1>17. ObjectInv'
  <2>1. ASSUME NEW b \in Admins, admin'[b].at \in Making
        PROVE  b # a /\ admin'[b] = admin[b] /\ admin[b].cr # r
    <3>1. b # a /\ admin'[b] = admin[b]
      BY Zenon, <1>2, <1>13, <2>1 DEF Making
    <3> QED
      BY Zenon, <1>4, <2>1, <3>1 DEF IdsInv, ObjectInv
  <2>2. \A e \in Ids : id_cr_[e] # r
    BY ZenonT(60), <1>4, Constants DEF IdsInv, IdInv
  <2>3. ASSUME NEW b \in Admins, admin'[b].at \in Making
        PROVE  ~Queued(admin[b].cr)' /\ admin[b].cr \notin removed'
    <3>1. admin[b].at \in Making /\ admin'[b].cr = admin[b].cr /\ admin[b].cr # r
      BY Zenon, <2>1, <2>3
    <3>2. admin[b].cr \in Routines /\ ~Queued(admin[b].cr) /\ admin[b].cr \notin removed
      BY Zenon, <3>1 DEF IdsInv, ObjectInv
    <3> QED
      BY Zenon, <1>1, <1>11, <3>1, <3>2
  <2>4. \A s \in Routines : s > created => ~Queued(s)' /\ s \notin removed'
    BY Zenon, <1>1, <1>4, <1>11 DEF IdsInv, ObjectInv
  <2>5. \A s \in removed' : s \in Routines /\ ~Queued(s)' /\ \A e \in Ids : id_cr_[e] # s
    BY ZenonT(60), <1>1, <1>4, <1>11, <2>2 DEF IdsInv, ObjectInv, SchedType
  <2> QED
    BY Zenon, <1>1, <2>1, <2>3, <2>4, <2>5, MakersStay DEF IdsInv
<1> QED
  BY Zenon, <1>1, <1>11, <1>13, <1>14, <1>15, <1>16, <1>17 DEF IdsInv

\* What the threads that create and remove do keeps SchedInv.
LEMMA AdminKeeps ==
  ASSUME SchedInv, NEW a \in Admins, AdminStep(a, LookupIdle)
  PROVE  SchedInv'
<1>1. SchedType /\ IdsInv /\ HoldInv
  BY Zenon DEF SchedInv, IdsInv
<1>2. UNCHANGED <<proc, lock_>>
  BY Zenon DEF AdminStep, LockId, InsertId, EnqueueTask, EraseId, WriteLock, AcquireAndErase
<1>3. ASSUME UNCHANGED queue, SchedType' /\ IdsInv' PROVE SchedInv'
  <2>1. \A r \in Routines : Queued(r) => Queued(r)'
    BY Zenon, <1>3 DEF Queued
  <2> QED
    BY Zenon, <1>1, <1>2, <1>3, <2>1, HoldStays DEF SchedInv, IdsInv
<1>4. ASSUME SchedType' /\ IdsInv', \A r \in Routines : Queued(r) /\ lock_[r] # None => Queued(r)'
      PROVE  SchedInv'
  BY Zenon, <1>1, <1>2, <1>4, HoldStays DEF SchedInv, IdsInv
<1>5. CASE LockId(a, "create", "insert") \/ LockId(a, "remove", "erase")
  BY Zenon, <1>1, <1>3, <1>5, LockKeeps DEF LockId
<1>6. CASE InsertId(a)
  BY Zenon, <1>1, <1>3, <1>6, InsertKeeps DEF InsertId
<1>7. CASE EnqueueTask(a)
  BY Zenon, <1>1, <1>4, <1>7, EnqueueKeeps
<1>8. CASE EraseId(a, LookupIdle)
  BY Zenon, <1>1, <1>3, <1>8, EraseIdKeeps
<1>9. CASE WriteLock(a)
  BY Zenon, <1>1, <1>3, <1>9, WriteLockKeeps
<1>10. CASE AcquireAndErase(a)
  BY Zenon, <1>1, <1>4, <1>10, AcquireKeeps
<1> QED
  BY Zenon, <1>5, <1>6, <1>7, <1>8, <1>9, <1>10 DEF AdminStep

\* So does the beginning or the end of a call.
LEMMA CallKeeps ==
  ASSUME SchedInv, NEW a \in Admins,
         \/ CreateReader(a) \/ RegisterNotifyCallback(a)
         \/ \E d \in Ids : RemoveTask(a, d) \/ (a = Owner /\ ShutdownRemove(d))
  PROVE  SchedInv'
<1>1. SchedType /\ IdsInv /\ HoldInv
  BY Zenon DEF SchedInv, IdsInv
<1>2. UNCHANGED <<queue, proc, lock_>>
  BY Zenon DEF CreateReader, CreateTask, RegisterNotifyCallback, RemoveTask, ShutdownRemove
<1>3. SchedType' /\ IdsInv' => SchedInv'
  <2>1. \A r \in Routines : Queued(r) => Queued(r)'
    BY Zenon, <1>2 DEF Queued
  <2> QED
    BY Zenon, <1>1, <1>2, <2>1, HoldStays DEF SchedInv, IdsInv
<1>4. CASE CreateReader(a)
  BY Zenon, <1>1, <1>3, <1>4, CreateKeeps DEF CreateReader
<1>5. CASE RegisterNotifyCallback(a)
  <2> DEFINE x == [at |-> "idle", cr |-> None, id |-> None]
  <2>1. /\ admin[a].at = "register" /\ admin' = [admin EXCEPT ![a] = x]
        /\ UNCHANGED <<queue, id_cr_, id_mutex, created, removed, lock_, proc>>
    BY Zenon, <1>5 DEF RegisterNotifyCallback, AdminDone
  <2>2. x \in AdminRecords /\ x.at = "idle"
    BY Zenon DEF AdminRecords, AdminLocations
  <2> HIDE DEF x
  <2> QED
    BY Zenon, <1>1, <1>3, <2>1, <2>2, IdleKeeps DEF Locked
<1>6. ASSUME NEW d \in Ids, RemoveTask(a, d) \/ (a = Owner /\ ShutdownRemove(d)) PROVE SchedInv'
  <2> DEFINE x == [at |-> "remove", cr |-> None, id |-> d]
  <2>1. /\ admin[a].at = "idle" /\ admin' = [admin EXCEPT ![a] = x]
        /\ UNCHANGED <<queue, id_cr_, id_mutex, created, removed, lock_, proc>>
    BY Zenon, <1>6 DEF RemoveTask, ShutdownRemove
  <2>2. x \in AdminRecords /\ x.at = "remove" /\ x.id = d
    BY Zenon DEF AdminRecords, AdminLocations
  <2> HIDE DEF x
  <2> QED
    BY Zenon, <1>1, <1>3, <2>1, <2>2, IdleKeeps DEF Locked
<1> QED
  BY Zenon, <1>4, <1>5, <1>6

\* The scheduler's invariant holds at every step of the whole, for every number
\* of processors and threads.
THEOREM Scheduling == FairSpec => []SchedInv
<1>1. Init => SchedInv
  <2> SUFFICES ASSUME Init PROVE SchedInv
    BY Zenon
  <2>0. 1 .. Len(<<>>) = {}
    OBVIOUS
  <2> USE DEF Init, SchedInit
  <2>1. \A i \in Prios : queue[i] = <<>>
    BY Zenon DEF Prios
  <2>2. \A r \in Routines : ~Queued(r)
    <3>1. \A r \in Routines : queue[Prio[IdOf[r]]] = <<>>
      BY Zenon, <2>1, Constants
    <3> QED
      BY Zenon, <2>0, <3>1 DEF Queued
  <2>3. SchedType
    <3>1. queue \in [Prios -> Seq(Routines)]
      BY DEF Prios
    <3>2. proc \in [Processors -> ProcRecords]
      BY Zenon, Constants DEF ProcRecords, ProcLocations
    <3>3. admin \in [Admins -> AdminRecords]
      BY Zenon DEF AdminRecords, AdminLocations
    <3> QED
      BY ZenonT(60), <3>1, <3>2, <3>3 DEF SchedType
  <2>4. HoldInv
    BY Zenon DEF HoldInv, Holding
  <2>5. QueueInv /\ MutexInv
    <3>1. \A i \in Prios : 1 .. Len(queue[i]) = {}
      BY Zenon, <2>0, <2>1
    <3>2. QueueInv
      BY Zenon, <3>1 DEF QueueInv
    <3> QED
      BY Zenon, <3>2 DEF MutexInv, Locked
  <2>6. ASSUME NEW d \in Ids PROVE IdInv(d)
    BY Zenon, <2>2, Constants DEF IdInv
  <2>7. ObjectInv
    BY Zenon, <2>2, Constants DEF ObjectInv, Making
  <2> QED
    BY Zenon, <2>3, <2>4, <2>5, <2>6, <2>7 DEF SchedInv
<1>2. SchedInv /\ [Next]_vars => SchedInv'
  <2> SUFFICES ASSUME SchedInv, [Next]_vars PROVE SchedInv'
    BY Zenon
  <2>1. ASSUME NEW p \in Processors, Processor(p) PROVE SchedInv'
    <3>1. SchedType' /\ HoldInv' /\ UNCHANGED idVars
      BY Zenon, <2>1, ProcessorKeeps, RoutineKeeps DEF Processor, SchedInv
    <3> QED
      BY Zenon, <3>1, IdsStay DEF SchedInv, IdsInv
  <2>2. ASSUME NEW a \in Admins, Admin(a) PROVE SchedInv'
    BY Zenon, <2>2, AdminKeeps, CallKeeps DEF Admin
  <2>3. ASSUME NEW a \in Admins, OwnerStep(a) PROVE SchedInv'
    <3>1. Elsewhere \/ \E d \in Ids : a = Owner /\ ShutdownRemove(d)
      BY Zenon, <2>3 DEF OwnerStep, ShutdownStep, Elsewhere
    <3> QED
      BY Zenon, <3>1, CallKeeps, ElsewhereKeeps
  <2>4. ASSUME NEW a \in Admins, CreateReader(a) \/ \E d \in Ids : RemoveTask(a, d) PROVE SchedInv'
    BY Zenon, <2>4, CallKeeps
  <2>5. CASE \/ Dispatch \/ WriterStep \/ Shutdown \/ UNCHANGED vars
             \/ \E r \in Routines : WakeTimePasses(r)
    BY Zenon, <2>5, ElsewhereKeeps DEF Elsewhere
  <2> QED
    BY Zenon, <2>1, <2>2, <2>3, <2>4, <2>5 DEF Next
<1> QED
  BY <1>1, <1>2, PTL DEF FairSpec

\* No two processors ever run, or have in hand, the same routine, whatever the
\* processors, the threads that create and remove, and Shutdown do.
THEOREM OneProcessor == FairSpec => []OneProcessorPerRoutine
<1>1. SchedInv => OneProcessorPerRoutine
  BY Zenon, Constants DEF SchedInv, HoldInv, OneProcessorPerRoutine
<1> QED
  BY <1>1, Scheduling, PTL

\* A routine whose removal has returned is in no queue, in no map and on no
\* processor.
THEOREM Removal == FairSpec => []RemovedIsGone
<1>1. SchedInv => RemovedIsGone
  <2> SUFFICES ASSUME SchedInv, NEW r \in removed PROVE
         /\ \A p \in Processors : proc[p].cr # r
         /\ \A i \in DOMAIN queue : \A k \in 1 .. Len(queue[i]) : queue[i][k] # r
         /\ r \notin {id_cr_[d] : d \in Ids}
    BY Zenon DEF RemovedIsGone
  <2>1. r \in Routines /\ ~Queued(r) /\ \A d \in Ids : id_cr_[d] # r
    BY Zenon DEF SchedInv, SchedType, ObjectInv
  <2>2. \A p \in Processors : proc[p].cr # r
    BY <2>1, Constants DEF SchedInv, HoldInv
  <2>3. ASSUME NEW i \in DOMAIN queue, NEW k \in 1 .. Len(queue[i]), queue[i][k] = r PROVE FALSE
    <3>1. i \in Prios
      BY Zenon DEF SchedInv, SchedType
    <3>2. Prio[IdOf[r]] = i
      BY Zenon, <2>3, <3>1 DEF SchedInv, QueueInv
    <3> QED
      BY Zenon, <2>1, <2>3, <3>2 DEF Queued
  <2> QED
    BY Zenon, <2>1, <2>2, <2>3
<1> QED
  BY <1>1, Scheduling, PTL

-----------------------------------------------------------------------------
(***************************************************************************)
(* The rings between the writer and the readers: no reader sees an older   *)
(* message after a newer one, for every size of a ring and every number of *)
(* readers and messages.                                                   *)
(***************************************************************************)

Slots == 0 .. QueueSize
Buffers == [head : Nat, tail : Nat, capacity : {QueueSize + 1}, slots : [Slots -> Nat]]

\* What is known of a reader's routine and of the writing thread.
ReaderRecords == [at : {"loop", "fetch", "call", "slept"}, index : Nat, msg : Nat]
WriterRecords == [at : {"idle", "fill", "notify", "flag"}, k : Nat, cr : Routines \cup {None}]

\* The visitors are named in the order they were made.
DataType ==
  /\ created <= Cardinality(Routines)
  /\ visitors \in Seq(Nat) /\ Len(visitors) = created /\ \A k \in 1 .. created : visitors[k] = k
  /\ buffer \in [Routines -> Buffers]
  /\ reader \in [Routines -> ReaderRecords]
  /\ writing \in WriterRecords
  /\ written \in Nat /\ latest \in [Routines -> Nat]

\* The indices of a ring whose messages can still be fetched, and a message.
Live(b) == {i \in 1 .. b.tail : i > b.head \/ i = b.tail}
Message(b, i) == b.slots[i % (QueueSize + 1)]

RingInv(b) ==
  /\ b.head <= b.tail /\ b.tail - b.head <= QueueSize
  /\ \A i, j \in Live(b) : i < j => Message(b, i) < Message(b, j)

\* The last message the reader has taken.
Taken(r) == IF reader[r].at = "call" THEN reader[r].msg ELSE latest[r]

\* The writer has still to fill the reader's buffer with the message it writes.
ToFill(r) == writing.at = "fill" /\ r >= writing.k

ReaderInv(r) ==
  /\ RingInv(buffer[r])
  /\ \A i \in Live(buffer[r]) : Message(buffer[r], i) <= written /\ (ToFill(r) => Message(buffer[r], i) < written)
  /\ Taken(r) <= written /\ (ToFill(r) => Taken(r) < written)
  /\ reader[r].index <= buffer[r].tail + 1
  /\ \A i \in Live(buffer[r]) : i >= reader[r].index => Taken(r) < Message(buffer[r], i)
  /\ reader[r].at = "call" => latest[r] < reader[r].msg

DataInv == DataType /\ (\A r \in Routines : ReaderInv(r)) /\ (writing.at = "fill" => written > 0) /\ (writing.at # "idle" => writing.k > 0)
-----------------------------------------------------------------------------
(* The rings. *)

\* Quotient and remainder.
LEMMA Quotients ==
  ASSUME NEW c \in Nat, c > 0, NEW i \in Nat
  PROVE  i % c \in 0 .. (c - 1) /\ i \div c \in Nat /\ i = c * (i \div c) + (i % c)
OBVIOUS

\* A positive multiple of a number is not below it.
LEMMA Multiples ==
  ASSUME NEW c \in Nat, c > 0, NEW x \in Int, x > 0
  PROVE  c * x >= c
OBVIOUS

\* Two indices less than a ring apart have different slots.
LEMMA SlotsDiffer ==
  ASSUME NEW c \in Nat, c > 0, NEW i \in Nat, NEW j \in Nat, i < j, j - i < c
  PROVE  i % c # j % c
<1> SUFFICES ASSUME i % c = j % c PROVE FALSE
  BY Zenon
<1> DEFINE x == i \div c
           y == j \div c
<1>1. x \in Int /\ y \in Int /\ i = c * x + (i % c) /\ j = c * y + (j % c) /\ i % c \in Int /\ j % c \in Int
  BY Quotients
<1> HIDE DEF x, y
<1>2. j - i = c * (y - x)
  BY <1>1
<1>3. y - x > 0
  <2> SUFFICES ASSUME y - x <= 0 PROVE FALSE
    BY <1>1
  <2>1. c * (y - x) <= 0
    BY <1>1
  <2> QED
    BY <1>2, <2>1
<1>4. c * (y - x) >= c
  BY <1>1, <1>3, Multiples
<1> QED
  BY <1>2, <1>4

\* Two indices a ring apart have the same slot.
LEMMA SlotsWrap ==
  ASSUME NEW c \in Nat, c > 0, NEW i \in Nat
  PROVE  (i + c) % c = i % c
<1> DEFINE x == i \div c
           y == (i + c) \div c
           m == i % c
           n == (i + c) % c
<1>1. /\ x \in Int /\ y \in Int /\ m \in 0 .. (c - 1) /\ n \in 0 .. (c - 1)
      /\ i = c * x + m /\ i + c = c * y + n
  BY Quotients
<1> HIDE DEF x, y, m, n
<1>2. c * (y - x) = (c + m) - n
  BY <1>1
<1>3. y - x > 0
  <2> SUFFICES ASSUME y - x <= 0 PROVE FALSE
    BY <1>1
  <2>1. c * (y - x) <= 0
    BY <1>1
  <2> QED
    BY <1>1, <1>2, <2>1
<1>4. y - x = 1
  <2> SUFFICES ASSUME (y - x) - 1 > 0 PROVE FALSE
    BY <1>1, <1>3
  <2>1. c * ((y - x) - 1) >= c
    BY <1>1, Multiples
  <2>2. c * ((y - x) - 1) = c * (y - x) - c
    BY <1>1
  <2> QED
    BY <1>1, <1>2, <2>1, <2>2
<1> QED
  BY <1>1, <1>2, <1>4 DEF m, n
\* A message is a number.
LEMMA MessageIsNat ==
  ASSUME NEW b \in Buffers, NEW i \in Live(b)
  PROVE  Message(b, i) \in Nat
<1>1. b.slots \in [Slots -> Nat] /\ b.tail \in Nat /\ QueueSize \in Nat
  BY Zenon, QueueAssumption DEF Buffers
<1>2. i \in Nat
  BY <1>1 DEF Live
<1>3. i % (QueueSize + 1) \in Slots
  BY <1>1, <1>2, Quotients DEF Slots
<1> QED
  BY Zenon, <1>1, <1>3 DEF Message

\* What Fill writes, and what it leaves of the messages that can be fetched.
LEMMA FillKeeps ==
  ASSUME NEW b \in Buffers, RingInv(b), NEW v \in Nat, \A i \in Live(b) : Message(b, i) < v
  PROVE  /\ Fill(b, v) \in Buffers /\ RingInv(Fill(b, v)) /\ Fill(b, v).tail = b.tail + 1
         /\ \A i \in Live(Fill(b, v)) :
              \/ i = b.tail + 1 /\ Message(Fill(b, v), i) = v
              \/ i \in Live(b) /\ Message(Fill(b, v), i) = Message(b, i)
<1> DEFINE c == QueueSize + 1
           f == Fill(b, v)
           h == IF Full(b) THEN b.head + 1 ELSE b.head
           t == b.tail + 1
           s == [b.slots EXCEPT ![t % c] = v]
<1>1. /\ b.head \in Nat /\ b.tail \in Nat /\ b.capacity = c /\ b.slots \in [Slots -> Nat]
      /\ c \in Nat /\ c > 0 /\ QueueSize \in Nat /\ Slots = 0 .. (c - 1)
  BY QueueAssumption DEF Buffers, Slots
<1>2. Full(b) <=> b.tail - b.head = QueueSize
  BY <1>1 DEF Full
<1>3. Full(b) => b.head % c = t % c
  <2>1. Full(b) => t = b.head + c
    BY SMTT(60), <1>1, <1>2
  <2> HIDE DEF c
  <2> QED
    BY Zenon, <1>1, <2>1, SlotsWrap
<1>4. f = [head |-> h, tail |-> t, capacity |-> c, slots |-> s]
  <2>1. CASE Full(b)
    <3>1. f = [head |-> h, tail |-> t, capacity |-> c, slots |-> [b.slots EXCEPT ![b.head % c] = v]]
      BY Zenon, <1>1, <2>1 DEF Fill, Stored, GetIndex
    <3> QED
      BY Zenon, <1>3, <2>1, <3>1
  <2>2. CASE ~Full(b)
    BY Zenon, <1>1, <2>2 DEF Fill, Stored, GetIndex
  <2> QED
    BY Zenon, <2>1, <2>2
<1>5. h \in Nat /\ b.head <= h /\ h <= t /\ t - h <= QueueSize
  BY SMTT(60), <1>1, <1>2 DEF RingInv
<1>6. \A i \in Nat : i % c \in Slots
  <2> HIDE DEF c
  <2> QED
    BY Zenon, <1>1, Quotients
<1>7. s \in [Slots -> Nat] /\ \A k \in Slots : s[k] = IF k = t % c THEN v ELSE b.slots[k]
  <2>1. t \in Nat /\ t % c \in Slots
    BY SMTT(60), <1>1, <1>6
  <2> HIDE DEF c, t
  <2> QED
    BY Zenon, <1>1, <2>1
<1> HIDE DEF c, f, h, t, s
<1>8. f \in Buffers /\ f.head = h /\ f.tail = t /\ f.slots = s
  BY SMTT(60), <1>1, <1>4, <1>5, <1>7 DEF Buffers, c, t
<1>9. ASSUME NEW i \in Live(f)
      PROVE  \/ i = t /\ Message(f, i) = v
             \/ i \in Live(b) /\ i < t /\ Message(f, i) = Message(b, i)
  <2>1. i \in Nat /\ t \in Nat /\ i <= t /\ (i > h \/ i = t) /\ i >= 1 /\ Message(f, i) = s[i % c]
    BY <1>1, <1>8 DEF Live, Message, c, t
  <2>2. CASE i = t
    BY Zenon, <1>6, <1>7, <2>1, <2>2
  <2>3. CASE i # t
    <3>1. i < t /\ t - i < c
      BY SMTT(60), <1>1, <1>5, <2>1, <2>3 DEF c
    <3>2. i % c # t % c
      <4>1. c \in Nat /\ c > 0
        BY Zenon, <1>1
      <4> QED
        BY Zenon, <2>1, <3>1, <4>1, SlotsDiffer
    <3>3. Message(f, i) = Message(b, i)
      BY Zenon, <1>6, <1>7, <2>1, <3>2 DEF Message, c
    <3>4. i \in 1 .. b.tail /\ i > b.head
      <4>1. i <= b.tail
        BY <1>1, <2>1, <3>1 DEF t
      <4>2. i > h
        BY Zenon, <2>1, <2>3
      <4>3. i > b.head
        BY SMTT(60), <1>1, <1>5, <2>1, <4>2
      <4> QED
        BY SMTT(60), <1>1, <2>1, <4>1, <4>3
    <3>5. i \in Live(b)
      BY Zenon, <3>4 DEF Live
    <3> QED
      BY Zenon, <3>1, <3>3, <3>5
  <2> QED
    BY Zenon, <2>2, <2>3
<1>10. RingInv(f)
  <2>1. ASSUME NEW i \in Live(f), NEW j \in Live(f), i < j PROVE Message(f, i) < Message(f, j)
    <3>1. i \in Live(b) /\ i < t /\ Message(f, i) = Message(b, i)
      <4>1. i \in Nat /\ j \in Nat /\ t \in Nat /\ j <= t
        BY SMTT(60), <1>1, <1>8 DEF Live, t
      <4> QED
        BY SMTT(60), <1>9, <2>1, <4>1
    <3>2. CASE j = t /\ Message(f, j) = v
      BY Zenon, <3>1, <3>2
    <3>3. CASE j \in Live(b) /\ Message(f, j) = Message(b, j)
      BY Zenon, <2>1, <3>1, <3>3 DEF RingInv
    <3> QED
      BY Zenon, <1>9, <3>2, <3>3
  <2> QED
    BY Zenon, <1>5, <1>8, <2>1 DEF RingInv
<1> QED
  BY Zenon, <1>8, <1>9, <1>10 DEF f, t

\* Fetch takes a message that is there and was not taken before.
LEMMA FetchFinds ==
  ASSUME NEW b \in Buffers, RingInv(b), NEW i \in Nat, i <= b.tail + 1, CanFetch(b, i)
  PROVE  /\ FetchIndex(b, i) \in Live(b) /\ FetchIndex(b, i) >= i /\ FetchIndex(b, i) \in Nat
         /\ Fetched(b, i) = Message(b, FetchIndex(b, i)) /\ Fetched(b, i) \in Nat
<1>1. /\ b.head \in Nat /\ b.tail \in Nat /\ b.capacity = QueueSize + 1 /\ b.slots \in [Slots -> Nat]
      /\ QueueSize \in Nat
  BY Zenon, QueueAssumption DEF Buffers
<1>2. FetchIndex(b, i) \in Live(b) /\ FetchIndex(b, i) >= i /\ FetchIndex(b, i) \in Nat
  BY <1>1 DEF CanFetch, FetchIndex, Live, RingInv
<1>3. Fetched(b, i) = Message(b, FetchIndex(b, i))
  BY Zenon, <1>1 DEF Fetched, GetIndex, Message
<1>4. FetchIndex(b, i) % (QueueSize + 1) \in Slots
  BY SMTT(60), <1>1, <1>2, Quotients DEF Slots
<1> QED
  BY Zenon, <1>1, <1>2, <1>3, <1>4 DEF Message

-----------------------------------------------------------------------------
(* Writer and readers. *)

\* A reader whose buffer, index and last message stay.
LEMMA ReaderStays ==
  ASSUME NEW r \in Routines, ReaderInv(r), buffer'[r] = buffer[r],
         reader'[r].index = reader[r].index, Taken(r)' = Taken(r),
         written' = written, ToFill(r)' => ToFill(r),
         reader'[r].at = "call" => latest'[r] < reader'[r].msg
  PROVE  ReaderInv(r)'
BY Zenon DEF ReaderInv, RingInv, Live, Message

\* What is not about messages.
LEMMA DataStays ==
  ASSUME DataInv, UNCHANGED <<visitors, buffer, reader, writing, written, latest, created>>
  PROVE  DataInv'
<1>1. DataType'
  BY Zenon DEF DataInv, DataType
<1>2. ASSUME NEW r \in Routines PROVE ReaderInv(r)'
  BY ZenonT(60) DEF DataInv, ReaderInv, RingInv, Live, Message, Taken, ToFill
<1> QED
  BY Zenon, <1>1, <1>2 DEF DataInv

\* A reader is made; the writer may be filling the buffers.
LEMMA CreateReaderKeeps ==
  ASSUME DataInv, SchedType, NEW a \in Admins, CreateReader(a)
  PROVE  DataInv'
<1>1. /\ visitors' = Append(visitors, created + 1) /\ created' = created + 1
      /\ created < Cardinality(Routines)
      /\ UNCHANGED <<buffer, reader, writing, written, latest>>
  BY Zenon DEF CreateReader, CreateTask
<1>2. DataType'
  <2>1. /\ visitors' \in Seq(Nat) /\ Len(visitors') = created + 1 /\ created \in Nat
        /\ visitors'[created + 1] = created + 1
        /\ \A k \in 1 .. created : visitors'[k] = k
        /\ created + 1 <= Cardinality(Routines)
    <3>1. /\ visitors \in Seq(Nat) /\ Len(visitors) = created /\ \A k \in 1 .. created : visitors[k] = k
          /\ created \in Nat /\ Cardinality(Routines) \in Nat
      BY Zenon, SchedulerConstants DEF DataInv, DataType, SchedType
    <3> QED
      BY <1>1, <3>1
  <2>2. \A k \in 1 .. created + 1 : k \in 1 .. created \/ k = created + 1
    BY <2>1
  <2> QED
    BY Zenon, <1>1, <2>1, <2>2 DEF DataInv, DataType
<1>3. ASSUME NEW r \in Routines PROVE ReaderInv(r)'
  BY ZenonT(60), <1>1 DEF DataInv, ReaderInv, RingInv, Live, Message, Taken, ToFill
<1> QED
  BY Zenon, <1>1, <1>2, <1>3 DEF DataInv

\* A new message is newer than all that are in the buffers or were taken.
LEMMA DispatchKeeps ==
  ASSUME DataInv, Dispatch
  PROVE  DataInv'
<1> DEFINE w == [at |-> "fill", k |-> 1, cr |-> None]
<1>1. /\ written' = written + 1 /\ writing' = w
      /\ UNCHANGED <<visitors, buffer, reader, latest, created>>
  BY Zenon DEF Dispatch, schedVars
<1>2. w \in WriterRecords /\ w.k = 1
  BY Zenon DEF WriterRecords
<1> HIDE DEF w
<1>3. DataType' /\ written \in Nat
  BY <1>1, <1>2 DEF DataInv, DataType
<1>4. ASSUME NEW r \in Routines PROVE ReaderInv(r)'
  <2>1. /\ \A i \in Live(buffer[r]) : Message(buffer[r], i) \in Nat /\ Message(buffer[r], i) <= written
        /\ Taken(r) \in Nat /\ Taken(r) <= written
    <3>1. buffer[r] \in Buffers /\ reader[r] \in ReaderRecords /\ latest[r] \in Nat
      BY Zenon DEF DataInv, DataType, ReaderRecords
    <3>2. Taken(r) \in Nat
      BY Zenon, <3>1 DEF Taken, ReaderRecords
    <3>3. \A i \in Live(buffer[r]) : Message(buffer[r], i) \in Nat
      BY Zenon, <3>1, MessageIsNat
    <3> QED
      BY Zenon, <3>2, <3>3 DEF DataInv, ReaderInv
  <2>2. \A n \in Nat : n <= written => n <= written' /\ n < written'
    BY <1>1, <1>3
  <2>3. /\ \A i \in Live(buffer[r])' : i \in Live(buffer[r]) /\ Message(buffer[r], i)' = Message(buffer[r], i)
        /\ Taken(r)' = Taken(r) /\ (RingInv(buffer[r]) => RingInv(buffer[r])')
    BY Zenon, <1>1 DEF Live, Message, Taken, RingInv
  <2> QED
    BY Zenon, <1>1, <2>1, <2>2, <2>3 DEF DataInv, ReaderInv
<1> QED
  BY <1>1, <1>2, <1>3, <1>4 DEF DataInv

\* One buffer is filled: the message is newer than those that are there and than
\* the one the reader took last.
LEMMA FillBufferKeeps ==
  ASSUME DataInv, SchedType, FillBuffer
  PROVE  DataInv'
<1>1. writing.at = "fill" /\ UNCHANGED <<visitors, reader, written, latest, created>>
  BY Zenon DEF FillBuffer, schedVars
<1>2. /\ created \in Nat /\ Len(visitors) = created /\ \A k \in 1 .. created : visitors[k] = k
      /\ writing.k \in Nat /\ buffer \in [Routines -> Buffers] /\ written \in Nat /\ written > 0 /\ writing.k > 0
      /\ writing \in WriterRecords
      /\ \A r \in Routines : r \in Nat
  <2>1. /\ created \in Nat /\ Len(visitors) = created /\ \A k \in 1 .. created : visitors[k] = k
        /\ writing \in WriterRecords
        /\ buffer \in [Routines -> Buffers] /\ written \in Nat
    BY Zenon DEF DataInv, DataType, SchedType
  <2>2. \A r \in Routines : r \in Nat
    BY SchedulerConstants
  <2> QED
    BY Zenon, <1>1, <2>1, <2>2 DEF DataInv, WriterRecords
<1>3. CASE writing.k > Len(visitors)
  <2> DEFINE w == [at |-> "notify", k |-> 1, cr |-> None]
  <2>1. writing' = w /\ buffer' = buffer
    BY Zenon, <1>3 DEF FillBuffer
  <2>2. w \in WriterRecords /\ w.at = "notify" /\ w.k = 1
    BY Zenon DEF WriterRecords
  <2> HIDE DEF w
  <2>3. DataType'
    BY Zenon, <1>1, <2>1, <2>2 DEF DataInv, DataType
  <2>4. ASSUME NEW r \in Routines PROVE ReaderInv(r)'
    <3>1. Taken(r)' = Taken(r) /\ ~ToFill(r)'
      BY Zenon, <1>1, <2>1, <2>2 DEF Taken, ToFill
    <3> QED
      BY Zenon, <1>1, <2>1, <3>1, ReaderStays DEF DataInv, ReaderInv
  <2> QED
    BY SMTT(60), <2>1, <2>2, <2>3, <2>4 DEF DataInv
<1>4. CASE ~(writing.k > Len(visitors))
  <2> DEFINE v == visitors[writing.k]
             w == [writing EXCEPT !.k = @ + 1]
             f == Fill(buffer[v], written)
  <2>1. buffer' = (IF v \in removed THEN buffer ELSE [buffer EXCEPT ![v] = f]) /\ writing' = w
    BY Zenon, <1>4 DEF FillBuffer
  <2>2. /\ w \in WriterRecords
        /\ w.at = "fill" /\ w.k = writing.k + 1 /\ w.k > 0
    BY SMTT(60), <1>1, <1>2 DEF WriterRecords
  <2>3. v = writing.k
    BY <1>2, <1>4
  <2> HIDE DEF w
  <2>4. \A r \in Routines : ToFill(r)' <=> r >= writing.k + 1
    BY Zenon, <2>1, <2>2 DEF ToFill
  <2>5. \A r \in Routines : ToFill(r) <=> r >= writing.k
    BY Zenon, <1>1 DEF ToFill
  <2>6. \A r \in Routines : Taken(r)' = Taken(r)
    BY Zenon, <1>1 DEF Taken
  <2> HIDE DEF v, f
  <2>7. ASSUME NEW r \in Routines, buffer'[r] = buffer[r] PROVE ReaderInv(r)'
    <3>1. ToFill(r)' => ToFill(r)
      BY <1>2, <2>4, <2>5
    <3> QED
      BY Zenon, <1>1, <2>6, <2>7, <3>1, ReaderStays DEF DataInv, ReaderInv
  <2>8. CASE v \in removed \/ v \notin Routines
    <3>1. buffer' = buffer
      <4>1. CASE v \in removed
        BY Zenon, <2>1, <4>1
      <4>2. CASE v \notin removed
        <5>1. buffer' = [buffer EXCEPT ![v] = f]
          BY Zenon, <2>1, <4>2
        <5> QED
          BY Zenon, <1>2, <2>8, <4>2, <5>1
      <4> QED
        BY Zenon, <4>1, <4>2
    <3> QED
      <4>1. DataType'
        BY Zenon, <1>1, <2>1, <2>2, <3>1 DEF DataInv, DataType
      <4> QED
        BY ZenonT(60), <1>1, <1>2, <2>1, <2>2, <2>7, <3>1, <4>1 DEF DataInv
  <2>9. CASE v \notin removed /\ v \in Routines
    <3>1. buffer[v] \in Buffers /\ RingInv(buffer[v]) /\ ReaderInv(v) /\ ToFill(v)
      BY SMTT(60), <1>2, <2>3, <2>5, <2>9 DEF DataInv, ReaderInv
    <3>2. /\ f \in Buffers /\ RingInv(f) /\ f.tail = buffer[v].tail + 1
          /\ \A i \in Live(f) :
               \/ i = buffer[v].tail + 1 /\ Message(f, i) = written
               \/ i \in Live(buffer[v]) /\ Message(f, i) = Message(buffer[v], i)
      BY Zenon, <1>2, <3>1, FillKeeps DEF ReaderInv, f
    <3>3. buffer' \in [Routines -> Buffers] /\ \A r \in Routines : buffer'[r] = IF r = v THEN f ELSE buffer[r]
      BY Zenon, <1>2, <2>1, <2>9, <3>2
    <3>4. DataType'
      BY Zenon, <1>1, <2>1, <2>2, <3>3 DEF DataInv, DataType
    <3>5. ASSUME NEW r \in Routines, r = v PROVE ReaderInv(r)'
      <4>1. buffer'[r] = f /\ ~ToFill(r)' /\ Taken(r)' = Taken(r)
        BY SMTT(60), <1>2, <2>3, <2>4, <2>6, <3>3, <3>5
      <4>2. /\ Taken(r) < written /\ Taken(r) <= written /\ reader[r].index <= f.tail + 1
            /\ reader[r].at = "call" => latest[r] < reader[r].msg
        <5>1. reader[r] \in ReaderRecords /\ latest[r] \in Nat /\ buffer[v].tail \in Nat
          BY Zenon, <3>1 DEF DataInv, DataType, ReaderRecords, Buffers
        <5>2. Taken(r) \in Nat /\ reader[r].index \in Nat
          BY Zenon, <5>1 DEF Taken, ReaderRecords
        <5> QED
          BY SMTT(60), <1>2, <3>1, <3>2, <3>5, <5>1, <5>2 DEF ReaderInv
      <4>3. ASSUME NEW i \in Live(f)
            PROVE  Message(f, i) <= written /\ (i >= reader[r].index => Taken(r) < Message(f, i))
        BY SMTT(60), <1>2, <3>1, <3>2, <3>5, <4>2, <4>3 DEF ReaderInv
      <4> QED
        BY ZenonT(60), <1>1, <3>2, <4>1, <4>2, <4>3 DEF ReaderInv, RingInv, Live, Message
    <3> QED
      BY ZenonT(60), <1>1, <1>2, <2>1, <2>2, <2>7, <3>3, <3>4, <3>5 DEF DataInv
  <2> QED
    BY Zenon, <2>8, <2>9
<1> QED
  BY Zenon, <1>3, <1>4

\* The notifications change no message.
LEMMA NotifyKeeps ==
  ASSUME DataInv, SchedType, NotifyProcessor \/ SetUpdateFlag
  PROVE  DataInv'
<1>1. /\ writing.at \in {"notify", "flag"}
      /\ UNCHANGED <<visitors, buffer, reader, written, latest, created>>
  BY Zenon DEF NotifyProcessor, SetUpdateFlag, schedVars
<1>2. /\ writing' \in WriterRecords
      /\ writing'.at # "fill" /\ (writing'.at # "idle" => writing'.k > 0)
  <2>0. /\ writing \in WriterRecords
        /\ writing.k \in Nat /\ writing.k > 0 /\ writing.k + 1 \in Nat /\ writing.k + 1 > 0
        /\ created \in Nat /\ created <= Cardinality(Routines) /\ Len(visitors) = created
        /\ \A k \in 1 .. created : visitors[k] = k
    BY <1>1 DEF DataInv, DataType, SchedType, WriterRecords
  <2>1. CASE SetUpdateFlag
    BY Zenon, <2>0, <2>1 DEF SetUpdateFlag, WriterRecords
  <2>2. CASE NotifyProcessor
    <3> DEFINE c == id_cr_[IdOf[visitors[writing.k]]]
    <3>1. CASE writing.k > Len(visitors)
      BY <2>2, <3>1 DEF NotifyProcessor, NotWriting, WriterRecords
    <3>2. CASE ~(writing.k > Len(visitors))
      <4>1. writing' = [at |-> "flag", k |-> writing.k, cr |-> c] \/ writing' = [writing EXCEPT !.k = @ + 1]
        BY Zenon, <2>2, <3>2 DEF NotifyProcessor
      <4>2. visitors[writing.k] \in Routines
        BY <2>0, <3>2, SchedulerConstants
      <4>3. c \in Routines \cup {None}
        BY Zenon, <4>2, Constants DEF SchedType
      <4> HIDE DEF c
      <4> QED
        BY SMTT(60), <1>1, <2>0, <4>1, <4>3 DEF WriterRecords
    <3> QED
      BY ZenonT(60), <3>1, <3>2
  <2> QED
    BY Zenon, <2>1, <2>2
<1>3. DataType'
  BY Zenon, <1>1, <1>2 DEF DataInv, DataType
<1>4. ASSUME NEW r \in Routines PROVE ReaderInv(r)'
  <2>1. Taken(r)' = Taken(r) /\ ~ToFill(r)'
    BY Zenon, <1>1, <1>2 DEF Taken, ToFill
  <2> QED
    BY Zenon, <1>1, <2>1, ReaderStays DEF DataInv, ReaderInv
<1> QED
  BY Zenon, <1>1, <1>2, <1>3, <1>4 DEF DataInv

\* A step of a routine: what it fetches it has not seen, and the function is
\* called with what was fetched.
LEMMA RoutineData ==
  ASSUME DataInv, SchedInv, NEW p \in Processors, RoutineStep(p)
  PROVE  DataInv'
<1> DEFINE v == proc[p].cr
<1>1. v \in Routines /\ UNCHANGED <<visitors, buffer, writing, written, created>> /\ proc[p].at = "run"
  <2>1. UNCHANGED <<visitors, buffer, writing, written, created>> /\ proc[p].at = "run"
    BY Zenon DEF RoutineStep, SetDataWait, TryFetch, CallFunction, FunctionReturns, Runs, Yield, schedVars
  <2> QED
    BY Zenon, <2>1 DEF SchedInv, HoldInv, Holding
<1>2. /\ reader \in [Routines -> ReaderRecords] /\ latest \in [Routines -> Nat] /\ reader[v] \in ReaderRecords
      /\ reader[v].index \in Nat /\ reader[v].msg \in Nat /\ buffer[v] \in Buffers /\ ReaderInv(v)
      /\ latest[v] \in Nat /\ buffer[v].tail \in Nat
  BY Zenon, <1>1 DEF DataInv, DataType, ReaderRecords, Buffers
<1> HIDE DEF v
<1>3. ASSUME NEW x \in ReaderRecords, NEW n \in Nat,
             reader' = [reader EXCEPT ![v] = x], latest' = [latest EXCEPT ![v] = n],
             x.at = "call" => n < x.msg,
             LET t == IF x.at = "call" THEN x.msg ELSE n
             IN /\ t <= written /\ (ToFill(v) => t < written)
                /\ x.index <= buffer[v].tail + 1
                /\ \A i \in Live(buffer[v]) : i >= x.index => t < Message(buffer[v], i)
      PROVE  DataInv'
  <2>1. /\ reader' \in [Routines -> ReaderRecords] /\ latest' \in [Routines -> Nat]
        /\ \A r \in Routines : reader'[r] = (IF r = v THEN x ELSE reader[r])
                               /\ latest'[r] = (IF r = v THEN n ELSE latest[r])
    BY Zenon, <1>2, <1>3
  <2>2. DataType'
    BY Zenon, <1>1, <2>1 DEF DataInv, DataType, ReaderRecords
  <2>3. ASSUME NEW r \in Routines PROVE ReaderInv(r)'
    <3>1. ToFill(r)' <=> ToFill(r)
      BY Zenon, <1>1 DEF ToFill
    <3>2. CASE r # v
      <4>1. Taken(r)' = Taken(r)
        BY Zenon, <2>1, <3>2 DEF Taken
      <4> QED
        BY ZenonT(60), <1>1, <2>1, <3>1, <3>2, <4>1, ReaderStays DEF DataInv, ReaderInv
    <3>3. CASE r = v
      <4>1. /\ Taken(r)' = IF x.at = "call" THEN x.msg ELSE n
            /\ reader'[r] = x /\ latest'[r] = n
        BY Zenon, <2>1, <3>3 DEF Taken
      <4>2. /\ Live(buffer[r])' = Live(buffer[r]) /\ \A i : Message(buffer[r], i)' = Message(buffer[r], i)
            /\ RingInv(buffer[r]) => RingInv(buffer[r])'
        BY Zenon, <1>1 DEF Live, Message, RingInv
      <4>3. /\ \A i \in Live(buffer[v]) : Message(buffer[v], i) <= written /\ (ToFill(v) => Message(buffer[v], i) < written)
            /\ RingInv(buffer[v])
        BY Zenon, <1>2 DEF ReaderInv
      <4> QED
        BY Zenon, <1>1, <1>3, <3>1, <3>3, <4>1, <4>2, <4>3 DEF ReaderInv
    <3> QED
      BY Zenon, <3>2, <3>3
  <2> QED
    BY Zenon, <1>1, <2>2, <2>3 DEF DataInv
<1>4. ASSUME NEW l \in {"loop", "fetch", "slept"}, reader[v].at # "call", UNCHANGED latest,
             reader' = [reader EXCEPT ![v].at = l]
      PROVE  DataInv'
  <2> DEFINE x == [reader[v] EXCEPT !.at = l]
  <2>1. x \in ReaderRecords /\ x.at = l /\ x.index = reader[v].index
    BY Zenon, <1>2 DEF ReaderRecords
  <2>2. reader' = [reader EXCEPT ![v] = x] /\ latest' = [latest EXCEPT ![v] = latest[v]]
    <3>1. latest = [latest EXCEPT ![v] = latest[v]]
      BY Zenon, <1>2
    <3> QED
      BY Zenon, <1>4, <3>1
  <2> HIDE DEF x
  <2> QED
    BY Zenon, <1>2, <1>3, <1>4, <2>1, <2>2 DEF ReaderInv, Taken
<1>5. CASE SetDataWait(p) \/ FunctionReturns(p)
  BY Zenon, <1>4, <1>5 DEF SetDataWait, FunctionReturns, Runs, v
<1>6. CASE TryFetch(p)
  <2> DEFINE b == buffer[v]
             i == reader[v].index
             j == FetchIndex(b, i)
             x == [at |-> "call", index |-> j + 1, msg |-> Fetched(b, i)]
  <2>0. reader[v].at = "fetch" /\ UNCHANGED latest
    BY Zenon, <1>6 DEF TryFetch, Runs, v
  <2>1. CASE CanFetch(b, i)
    <3>1. reader' = [reader EXCEPT ![v] = x]
      BY Zenon, <1>6, <2>1 DEF TryFetch, v
    <3>2. /\ j \in Live(b) /\ j >= i /\ j \in Nat /\ Fetched(b, i) = Message(b, j) /\ Fetched(b, i) \in Nat
      BY Zenon, <1>2, <2>1, FetchFinds DEF ReaderInv
    <3>3. latest = [latest EXCEPT ![v] = latest[v]]
      BY Zenon, <1>2
    <3>4. j <= b.tail
      BY <1>2, <3>2 DEF Live
    <3> HIDE DEF j, i, b
    <3>5. x \in ReaderRecords /\ x.at = "call" /\ x.index = j + 1 /\ x.msg = Message(b, j)
      BY <3>2 DEF ReaderRecords
    <3> HIDE DEF x
    <3>6. \A k \in Live(b) : k \in Nat
      BY SMTT(60), <1>2 DEF Live, b
    <3>7. \A k \in Live(b) : k >= j + 1 => Message(b, j) < Message(b, k)
      BY <1>2, <3>2, <3>6 DEF ReaderInv, RingInv, b
    <3>8. /\ latest[v] < Message(b, j) /\ Message(b, j) <= written
          /\ ToFill(v) => Message(b, j) < written
      BY ZenonT(60), <1>2, <2>0, <3>2 DEF ReaderInv, Taken, b, i
    <3>9. /\ x.index <= buffer[v].tail + 1 /\ latest[v] < x.msg
          /\ x.msg <= written /\ (ToFill(v) => x.msg < written)
          /\ \A k \in Live(buffer[v]) : k >= x.index => x.msg < Message(buffer[v], k)
      BY SMTT(60), <1>2, <3>2, <3>4, <3>5, <3>7, <3>8 DEF b
    <3>10. latest' = [latest EXCEPT ![v] = latest[v]]
      BY Zenon, <2>0, <3>3
    <3> QED
      BY Zenon, <1>2, <1>3, <3>1, <3>5, <3>9, <3>10
  <2>2. CASE ~CanFetch(b, i)
    <3>1. reader' = [reader EXCEPT ![v].at = "loop"]
      BY Zenon, <1>6, <2>2 DEF TryFetch, v
    <3> QED
      BY Zenon, <1>4, <2>0, <3>1
  <2> QED
    BY Zenon, <2>1, <2>2
<1>7. CASE CallFunction(p)
  <2>1. reader[v].at = "call" /\ latest' = [latest EXCEPT ![v] = reader[v].msg]
    BY Zenon, <1>7 DEF CallFunction, Runs, v
  <2>2. PICK l \in {"loop", "slept"} : reader' = [reader EXCEPT ![v] = [at |-> l, index |-> @.index, msg |-> 0]]
    BY Zenon, <1>7 DEF CallFunction, v
  <2> DEFINE x == [at |-> l, index |-> reader[v].index, msg |-> 0]
  <2>3. x \in ReaderRecords /\ x.at = l /\ x.index = reader[v].index
    BY Zenon, <1>2 DEF ReaderRecords
  <2>4. reader' = [reader EXCEPT ![v] = x]
    BY Zenon, <2>2
  <2> HIDE DEF x
  <2> QED
    BY Zenon, <1>2, <1>3, <2>1, <2>3, <2>4 DEF ReaderInv, Taken
<1> QED
  BY Zenon, <1>5, <1>6, <1>7 DEF RoutineStep

\* Every message a reader's function is called with is newer than the one before.
THEOREM Newer == FairSpec => []NewerAndNewer
<1>1. Init => DataInv
  <2> SUFFICES ASSUME Init PROVE DataInv
    BY Zenon
  <2>1. DataType
    <3>1. NewBuffer(QueueSize, 0) \in Buffers
      BY Zenon, QueueAssumption DEF NewBuffer, Buffers, Slots
    <3>2. /\ created = 0 /\ visitors = <<>> /\ buffer = [r \in Routines |-> NewBuffer(QueueSize, 0)]
          /\ reader = [r \in Routines |-> [at |-> "loop", index |-> 0, msg |-> 0]]
          /\ writing = [at |-> "idle", k |-> 0, cr |-> None] /\ written = 0 /\ latest = [r \in Routines |-> 0]
      BY Zenon DEF Init, SchedInit, NotWriting
    <3>3. created <= Cardinality(Routines)
      BY SMTT(60), <3>2, SchedulerConstants
    <3> QED
      BY <3>1, <3>2, <3>3 DEF DataType, WriterRecords, ReaderRecords
  <2>2. ASSUME NEW r \in Routines PROVE ReaderInv(r)
    <3>1. buffer[r].head = 0 /\ buffer[r].tail = 0 /\ reader[r].index = 0 /\ reader[r].at = "loop" /\ latest[r] = 0
      BY Zenon DEF Init, NewBuffer
    <3>2. writing.at = "idle" /\ written = 0
      BY Zenon DEF Init, NotWriting
    <3>3. Live(buffer[r]) = {}
      BY <3>1 DEF Live
    <3> QED
      BY SMTT(60), <3>1, <3>2, <3>3, QueueAssumption DEF ReaderInv, RingInv, Taken, ToFill
  <2> QED
    BY Zenon, <2>1, <2>2 DEF DataInv, Init, NotWriting
<1>2. SchedInv /\ DataInv /\ [Next]_vars => DataInv'
  <2> SUFFICES ASSUME SchedInv, DataInv, [Next]_vars PROVE DataInv'
    BY Zenon
  <2>1. ASSUME UNCHANGED <<dataVars, created>> PROVE DataInv'
    BY Zenon, <2>1, DataStays DEF dataVars
  <2>2. ASSUME NEW p \in Processors, Processor(p) PROVE DataInv'
    <3>1. ProcessorStep(p) => UNCHANGED created
      BY Zenon DEF ProcessorStep, Top, ReadLock, NextPrio, TryRoutine, PassOver, Resume, Release
    <3> QED
      BY Zenon, <2>1, <2>2, <3>1, RoutineData DEF Processor
  <2>3. ASSUME NEW a \in Admins, Admin(a) \/ OwnerStep(a) PROVE DataInv'
    <3>1. AdminStep(a, LookupIdle) \/ ShutdownStep => UNCHANGED created
      BY Zenon DEF AdminStep, LockId, InsertId, EnqueueTask, EraseId, WriteLock, AcquireAndErase,
             ShutdownStep, ListRoutines, ShutdownContext, StopProcessor, Join, ShutdownRemove
    <3>2. CASE RegisterNotifyCallback(a)
      BY Zenon, <3>2, DataStays DEF RegisterNotifyCallback
    <3> QED
      BY Zenon, <2>1, <2>3, <3>1, <3>2 DEF Admin, OwnerStep
  <2>4. ASSUME NEW a \in Admins, CreateReader(a) PROVE DataInv'
    BY Zenon, <2>4, CreateReaderKeeps DEF SchedInv
  <2>5. ASSUME NEW a \in Admins, NEW d \in Ids, RemoveTask(a, d) /\ UNCHANGED dataVars PROVE DataInv'
    BY Zenon, <2>1, <2>5 DEF RemoveTask
  <2>6. CASE Dispatch \/ WriterStep
    BY Zenon, <2>6, DispatchKeeps, FillBufferKeeps, NotifyKeeps DEF WriterStep, SchedInv
  <2>7. CASE (Shutdown /\ UNCHANGED dataVars) \/ \E r \in Routines : WakeTimePasses(r) /\ UNCHANGED dataVars
    BY Zenon, <2>1, <2>7 DEF Shutdown, WakeTimePasses
  <2>8. CASE UNCHANGED vars
    BY Zenon, <2>1, <2>8 DEF vars, schedVars
  <2> QED
    BY ZenonT(60), <2>2, <2>3, <2>4, <2>5, <2>6, <2>7, <2>8 DEF Next
<1>3. DataInv => NewerAndNewer
  <2> SUFFICES ASSUME DataInv, NEW r \in Routines, reader[r].at = "call" PROVE reader[r].msg > latest[r]
    BY Zenon DEF NewerAndNewer
  <2>1. reader[r] \in ReaderRecords /\ latest[r] \in Nat /\ latest[r] < reader[r].msg
    BY Zenon DEF DataInv, DataType, ReaderRecords, ReaderInv
  <2> QED
    BY Zenon, <2>1 DEF ReaderRecords
<1> QED
  BY <1>1, <1>2, <1>3, Scheduling, PTL DEF FairSpec

=============================================================================
