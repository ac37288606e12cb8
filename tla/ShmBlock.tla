------------------------------ MODULE ShmBlock ------------------------------
(***************************************************************************)
(* The blocks of one shared-memory topic of IntelligentDriving/SHM_TEST:   *)
(* the lock word and the pid set of each block (block.cpp, lockless.h),    *)
(* how a process acquires and releases a block (alloc_memory_base.cpp) and *)
(* the mutex RequestMemory takes around it (shm_manager.cpp).              *)
(*                                                                         *)
(* Threads of several processes run the operations; one action is one      *)
(* atomic access to shared memory.  A process may die at any step, by a    *)
(* crash or by exit(): nothing of what it held is given back.              *)
(*                                                                         *)
(* A load of a pid and the stat() of /proc/<pid> that follows it are one   *)
(* step, and so is a successful LocklessSet::Remove: a dead pid is never   *)
(* inserted again, so its slots only become fewer and Remove clears the    *)
(* first of them.                                                          *)
(***************************************************************************)
EXTENDS Integers, FiniteSets

CONSTANTS
  Threads, Procs,       \* threads and the processes they belong to
  ProcOf,               \* the process of each thread
  NoPid, NoThread,      \* an empty slot of the pid set; a free mutex
  BlockNum,             \* blocks of the topic
  SetSize,              \* slots of a pid set (Block::MAX_PROCESS_NUM)
  MAX_TRY_LOCK_TIMES,   \* attempts of one TryLockForRead
  SeqMod,               \* m_seq is a counter modulo SeqMod (2^32)
  WeakCas,              \* whether compare_exchange_weak may fail spuriously
  MaxCalls,             \* bound on the calls each thread makes
  MaxDeaths             \* bound on the processes that die

Blocks == 0 .. (BlockNum - 1)
Slots == 1 .. SetSize

ASSUME ThreadsAssumption ==
  IsFiniteSet(Threads) /\ NoThread \notin Threads
ASSUME ProcsAssumption ==
  ProcOf \in [Threads -> Procs] /\ NoPid \notin Procs
ASSUME SizesAssumption ==
  /\ BlockNum \in Nat \ {0} /\ SetSize \in Nat \ {0}
  /\ MAX_TRY_LOCK_TIMES \in Nat \ {0} /\ SeqMod \in Nat \ {0}
ASSUME BoundsAssumption ==
  MaxCalls \in Nat /\ MaxDeaths \in Nat /\ WeakCas \in BOOLEAN

VARIABLES
  m_seq,       \* State::m_seq, the next block to try
  m_lockNum,   \* Block::m_lockNum of each block
  m_pidSet,    \* Block::m_pidSet of each block
  running,     \* the processes that have not died
  mtx,         \* RequestMemory's static mutex, one in each process
  pc, my,      \* where each thread is, and its local variables
  calls,       \* calls each thread has begun
  wGrants,     \* history: the calls granted the write lock of each block ...
  rGrants      \* ... and its read lock, and not yet released

shm == <<m_seq, m_lockNum, m_pidSet>>
history == <<calls, wGrants, rGrants>>
vars == <<shm, running, mtx, pc, my, history>>

RW_LOCK_FREE == 0
WRITE_EXCLUSIVE == -1

\* The locals: the operation and its block; lockNum and try_times of
\* TryLockForRead; idx of a loop over the pid set; alive and pid of AnyAlive
\* (0 or 1; NoPid outside a recovery); attempt, 2 after AnyAlive.
InCall(operation, b) ==
  [op |-> operation, blk |-> b, lockNum |-> 0, try_times |-> 0, idx |-> 1,
   alive |-> 0, pid |-> NoPid, attempt |-> 1]

\* The call a thread is in, as a holder of locks.
Calls == Threads \X (0 .. MaxCalls)
Call(t) == <<t, calls[t]>>

Alive(t) == ProcOf[t] \in running
Recovering(t) == my[t].pid # NoPid
LockNum(t) == m_lockNum[my[t].blk]
Slot(t) == m_pidSet[my[t].blk][my[t].idx]

Goto(t, l) == pc' = [pc EXCEPT ![t] = l]
SetMy(t, locals) == my' = [my EXCEPT ![t] = locals]
Return(t) == Goto(t, "idle") /\ SetMy(t, InCall("none", 0))

\* On to location l with fresh loop variables, in the same call.
Restart(t, l) == Goto(t, l) /\ SetMy(t, InCall(my[t].op, my[t].blk))
NextSlot(t, l) == Goto(t, l) /\ SetMy(t, [my[t] EXCEPT !.idx = @ + 1, !.pid = NoPid])

-----------------------------------------------------------------------------
(***************************************************************************)
(* ShmManager::RequestMemory up to GetNextWritableBlockIndex, and          *)
(* HoldMemory up to TryLockForRead.                                        *)
(***************************************************************************)

Begin(t, locals, l) ==
  /\ pc[t] = "idle" /\ calls[t] < MaxCalls
  /\ calls' = [calls EXCEPT ![t] = @ + 1]
  /\ Goto(t, l)
  /\ SetMy(t, locals)
  /\ UNCHANGED <<shm, mtx, wGrants, rGrants>>

RequestMemory(t) == Begin(t, InCall("write", 0), "w_mtx")

\* The index comes with the message; a valid one names any block.
HoldMemory(t) == \E b \in Blocks : Begin(t, InCall("read", b), "try")

LockMtx(t) ==
  /\ pc[t] = "w_mtx" /\ mtx[ProcOf[t]] = NoThread
  /\ mtx' = [mtx EXCEPT ![ProcOf[t]] = t]
  /\ Goto(t, "w_seq")
  /\ UNCHANGED <<shm, my, history>>

\* A mutant: the early return forgets to unlock the mutex.
RequestRefusedLocked(t) ==
  /\ pc[t] = "w_mtx" /\ mtx[ProcOf[t]] = NoThread
  /\ mtx' = [mtx EXCEPT ![ProcOf[t]] = t]
  /\ Return(t)
  /\ UNCHANGED <<shm, history>>

\* The topic is unknown, or the message larger than a block: false, at once.
RequestRefused(t) ==
  /\ pc[t] = "w_mtx" /\ mtx[ProcOf[t]] = NoThread
  /\ Return(t)
  /\ UNCHANGED <<shm, mtx, history>>

FetchAddSeq(t) ==
  /\ pc[t] = "w_seq"
  /\ m_seq' = (m_seq + 1) % SeqMod
  /\ Goto(t, "try")
  /\ SetMy(t, InCall("write", m_seq % BlockNum))
  /\ UNCHANGED <<m_lockNum, m_pidSet, mtx, history>>

-----------------------------------------------------------------------------
(***************************************************************************)
(* Block::TryLockForWrite and Block::TryLockForRead.  After the first      *)
(* failure the caller runs AnyAlive; after the second a writer goes to the *)
(* next block and a reader returns false.                                  *)
(***************************************************************************)

AttemptFailed(t) ==
  \/ my[t].attempt = 1 /\ Restart(t, "scan")
  \/ my[t].attempt = 2 /\ my[t].op = "write" /\ Restart(t, "w_seq")
  \/ my[t].attempt = 2 /\ my[t].op = "read" /\ Return(t)

\* A mutant: a block that is only read may be written.
NotWritten(t) == LockNum(t) >= RW_LOCK_FREE

Free(t) == LockNum(t) = RW_LOCK_FREE

TryLockForWrite(t) ==
  /\ pc[t] = "try" /\ my[t].op = "write"
  /\ Free(t)
  /\ m_lockNum' = [m_lockNum EXCEPT ![my[t].blk] = WRITE_EXCLUSIVE]
  /\ wGrants' = [wGrants EXCEPT ![my[t].blk] = @ \union {Call(t)}]
  /\ Restart(t, "insert")
  /\ UNCHANGED <<m_seq, m_pidSet, mtx, calls, rGrants>>

TryLockForWriteFail(t) ==
  /\ pc[t] = "try" /\ my[t].op = "write"
  /\ ~WeakCas => LockNum(t) # RW_LOCK_FREE
  /\ AttemptFailed(t)
  /\ UNCHANGED <<shm, mtx, history>>

TryLockForRead(t) ==
  /\ pc[t] = "try" /\ my[t].op = "read"
  /\ \/ LockNum(t) < RW_LOCK_FREE /\ AttemptFailed(t)
     \/ /\ LockNum(t) >= RW_LOCK_FREE
        /\ SetMy(t, [my[t] EXCEPT !.lockNum = LockNum(t)])
        /\ Goto(t, "cas")
  /\ UNCHANGED <<shm, mtx, history>>

Unchanged(t) == LockNum(t) = my[t].lockNum

ReadCas(t) ==
  /\ pc[t] = "cas"
  /\ Unchanged(t)
  /\ m_lockNum' = [m_lockNum EXCEPT ![my[t].blk] = my[t].lockNum + 1]
  /\ rGrants' = [rGrants EXCEPT ![my[t].blk] = @ \union {Call(t)}]
  /\ Restart(t, "insert")
  /\ UNCHANGED <<m_seq, m_pidSet, mtx, calls, wGrants>>

ReadCasFail(t) ==
  /\ pc[t] = "cas"
  /\ ~WeakCas => LockNum(t) # my[t].lockNum
  /\ \/ /\ my[t].try_times + 1 < MAX_TRY_LOCK_TIMES
        /\ SetMy(t, [my[t] EXCEPT !.try_times = @ + 1, !.lockNum = 0])
        /\ Goto(t, "try")
     \/ my[t].try_times + 1 = MAX_TRY_LOCK_TIMES /\ AttemptFailed(t)
  /\ UNCHANGED <<shm, mtx, history>>

-----------------------------------------------------------------------------
(***************************************************************************)
(* LocklessSet::Insert of the caller's pid, once the lock is taken.  When  *)
(* no slot is left the call returns false and keeps the lock.              *)
(***************************************************************************)

\* RequestMemory's lock_guard is gone when the call returns.
UnlockMtx(t) ==
  mtx' = IF my[t].op = "write" THEN [mtx EXCEPT ![ProcOf[t]] = NoThread] ELSE mtx

Recorded(t) == Slot(t) = ProcOf[t]

Insert(t) ==
  /\ pc[t] = "insert"
  /\ \/ my[t].idx > SetSize /\ UnlockMtx(t) /\ Return(t)
     \/ /\ my[t].idx <= SetSize
        /\ \/ Recorded(t) /\ UnlockMtx(t) /\ Restart(t, "hold")
           \/ Slot(t) = NoPid /\ Goto(t, "ins_cas") /\ UNCHANGED <<mtx, my>>
           \/ Slot(t) # NoPid /\ ~Recorded(t) /\ NextSlot(t, "insert") /\ UNCHANGED mtx
  /\ UNCHANGED <<shm, history>>

\* A mutant: Insert reports success whether or not its CAS succeeded.
InsertCasUnchecked(t) ==
  /\ pc[t] = "ins_cas"
  /\ m_pidSet' = [m_pidSet EXCEPT ![my[t].blk][my[t].idx] =
                    IF Slot(t) = NoPid THEN ProcOf[t] ELSE @]
  /\ UnlockMtx(t) /\ Restart(t, "hold")
  /\ UNCHANGED <<m_seq, m_lockNum, history>>

\* A mutant: a slot lost to another process ends the search, as a full set does.
InsertCasGivesUp(t) ==
  /\ pc[t] = "ins_cas"
  /\ \/ /\ Slot(t) = NoPid
        /\ m_pidSet' = [m_pidSet EXCEPT ![my[t].blk][my[t].idx] = ProcOf[t]]
        /\ UnlockMtx(t) /\ Restart(t, "hold")
     \/ Slot(t) # NoPid /\ UnlockMtx(t) /\ Return(t) /\ UNCHANGED m_pidSet
  /\ UNCHANGED <<m_seq, m_lockNum, history>>

InsertCas(t) ==
  /\ pc[t] = "ins_cas"
  /\ \/ /\ Slot(t) = NoPid
        /\ m_pidSet' = [m_pidSet EXCEPT ![my[t].blk][my[t].idx] = ProcOf[t]]
        /\ UnlockMtx(t) /\ Restart(t, "hold")
     \/ Slot(t) # NoPid /\ NextSlot(t, "insert") /\ UNCHANGED <<m_pidSet, mtx>>
  /\ UNCHANGED <<m_seq, m_lockNum, history>>

-----------------------------------------------------------------------------
(***************************************************************************)
(* Block::AnyAlive: visit the slots; a dead pid is removed and one lock is *)
(* released on its behalf.                                                 *)
(***************************************************************************)

\* A mutant: a process whose /proc entry cannot be read counts as dead.
ProcMaybeDead(pid) == TRUE

ProcDead(pid) == pid \notin running

AnyAlive(t) ==
  /\ pc[t] = "scan" /\ my[t].idx <= SetSize
  /\ \/ Slot(t) = NoPid /\ NextSlot(t, "scan")
     \/ /\ Slot(t) # NoPid /\ ~ProcDead(Slot(t))
        /\ SetMy(t, [my[t] EXCEPT !.idx = @ + 1, !.alive = 1])
        /\ Goto(t, "scan")
     \/ /\ Slot(t) # NoPid /\ ProcDead(Slot(t))
        /\ SetMy(t, [my[t] EXCEPT !.pid = Slot(t)])
        /\ Goto(t, "remove")
  /\ UNCHANGED <<shm, mtx, history>>

\* Alive: a writer tries the next block, a reader gives up.  Else try again.
AnyAliveReturns(t) ==
  /\ pc[t] = "scan" /\ my[t].idx > SetSize
  /\ \/ my[t].alive = 1 /\ my[t].op = "write" /\ Restart(t, "w_seq")
     \/ my[t].alive = 1 /\ my[t].op = "read" /\ Return(t)
     \/ /\ my[t].alive = 0
        /\ Goto(t, "try")
        /\ SetMy(t, [InCall(my[t].op, my[t].blk) EXCEPT !.attempt = 2])
  /\ UNCHANGED <<shm, mtx, history>>

\* while (!Remove(pid)): it goes on for ever once no slot holds the pid.
Remove(t) ==
  /\ pc[t] = "remove"
  /\ \E i \in Slots :
       /\ m_pidSet[my[t].blk][i] = my[t].pid
       /\ \A j \in 1 .. (i - 1) : m_pidSet[my[t].blk][j] # my[t].pid
       /\ m_pidSet' = [m_pidSet EXCEPT ![my[t].blk][i] = NoPid]
  /\ Goto(t, "rec_r")
  /\ UNCHANGED <<m_seq, m_lockNum, mtx, my, history>>

\* A mutant: only the read locks of the dead are released.
RecoverReadOnly(t) ==
  /\ pc[t] \in {"rec_r", "rec_w"}
  /\ \/ LockNum(t) > 0 /\ Goto(t, "rel_r") /\ UNCHANGED my
     \/ LockNum(t) <= 0 /\ NextSlot(t, "scan")
  /\ UNCHANGED <<shm, mtx, history>>

Recover(t) ==
  /\ \/ pc[t] = "rec_r" /\ LockNum(t) > 0 /\ Goto(t, "rel_r") /\ UNCHANGED my
     \/ pc[t] = "rec_r" /\ LockNum(t) <= 0 /\ Goto(t, "rec_w") /\ UNCHANGED my
     \/ pc[t] = "rec_w" /\ LockNum(t) < 0 /\ Goto(t, "rel_w") /\ UNCHANGED my
     \/ pc[t] = "rec_w" /\ LockNum(t) >= 0 /\ NextSlot(t, "scan")
  /\ UNCHANGED <<shm, mtx, history>>

-----------------------------------------------------------------------------
(***************************************************************************)
(* Block::ReleaseReadLock and Block::ReleaseWriteLock, called by           *)
(* ReleaseMemory and WriteFinish for the caller and by AnyAlive for a dead *)
(* process: test the count, then change it.                                *)
(***************************************************************************)

WriteFinish(t) ==
  /\ pc[t] = "hold" /\ my[t].op = "write"
  /\ Goto(t, "rel_w")
  /\ UNCHANGED <<shm, mtx, my, history>>

ReleaseMemory(t) ==
  /\ pc[t] = "hold" /\ my[t].op = "read"
  /\ Goto(t, "rel_r")
  /\ UNCHANGED <<shm, mtx, my, history>>

\* The function returns: to the loop of AnyAlive, or to the client.
Released(t) ==
  \/ Recovering(t) /\ NextSlot(t, "scan") /\ UNCHANGED <<wGrants, rGrants>>
  \/ /\ ~Recovering(t)
     /\ wGrants' = [wGrants EXCEPT ![my[t].blk] = @ \ {Call(t)}]
     /\ rGrants' = [rGrants EXCEPT ![my[t].blk] = @ \ {Call(t)}]
     /\ Return(t)

ReleaseReadLock(t) ==
  /\ \/ pc[t] = "rel_r" /\ LockNum(t) > 0
        /\ Goto(t, "sub_r") /\ UNCHANGED <<m_lockNum, my, wGrants, rGrants>>
     \/ pc[t] = "rel_r" /\ LockNum(t) <= 0 /\ Released(t) /\ UNCHANGED m_lockNum
     \/ /\ pc[t] = "sub_r"
        /\ m_lockNum' = [m_lockNum EXCEPT ![my[t].blk] = @ - 1]
        /\ Released(t)
  /\ UNCHANGED <<m_seq, m_pidSet, mtx, calls>>

ReleaseWriteLock(t) ==
  /\ \/ pc[t] = "rel_w" /\ LockNum(t) < 0
        /\ Goto(t, "add_w") /\ UNCHANGED <<m_lockNum, my, wGrants, rGrants>>
     \/ pc[t] = "rel_w" /\ LockNum(t) >= 0 /\ Released(t) /\ UNCHANGED m_lockNum
     \/ /\ pc[t] = "add_w"
        /\ m_lockNum' = [m_lockNum EXCEPT ![my[t].blk] = @ + 1]
        /\ Released(t)
  /\ UNCHANGED <<m_seq, m_pidSet, mtx, calls>>

-----------------------------------------------------------------------------

Init ==
  /\ m_seq = 0
  /\ m_lockNum = [b \in Blocks |-> RW_LOCK_FREE]
  /\ m_pidSet = [b \in Blocks |-> [i \in Slots |-> NoPid]]
  /\ running = Procs
  /\ mtx = [p \in Procs |-> NoThread]
  /\ pc = [t \in Threads |-> "idle"]
  /\ my = [t \in Threads |-> InCall("none", 0)]
  /\ calls = [t \in Threads |-> 0]
  /\ wGrants = [b \in Blocks |-> {}]
  /\ rGrants = [b \in Blocks |-> {}]

\* A process dies: its threads stop where they are.
Die(p) ==
  /\ p \in running
  /\ Cardinality(Procs \ running) < MaxDeaths
  /\ running' = running \ {p}
  /\ UNCHANGED <<shm, mtx, pc, my, history>>

\* A step of a running thread: inside a call, or the release of its block.
Continue(t) ==
  /\ Alive(t) /\ UNCHANGED running
  /\ \/ LockMtx(t) \/ RequestRefused(t) \/ FetchAddSeq(t)
     \/ TryLockForWrite(t) \/ TryLockForWriteFail(t)
     \/ TryLockForRead(t) \/ ReadCas(t) \/ ReadCasFail(t)
     \/ Insert(t) \/ InsertCas(t)
     \/ AnyAlive(t) \/ AnyAliveReturns(t) \/ Remove(t) \/ Recover(t)
     \/ WriteFinish(t) \/ ReleaseMemory(t)
     \/ ReleaseReadLock(t) \/ ReleaseWriteLock(t)

BeginCall(t) ==
  /\ Alive(t) /\ UNCHANGED running
  /\ RequestMemory(t) \/ HoldMemory(t)

Next == \E t \in Threads : BeginCall(t) \/ Continue(t)

\* No process dies ...
Spec == Init /\ [][Next]_vars

\* ... or up to MaxDeaths do.
NextOrDie == Next \/ \E p \in Procs : Die(p)
MortalSpec == Init /\ [][NextOrDie]_vars

-----------------------------------------------------------------------------
(***************************************************************************)
(* Properties.                                                             *)
(***************************************************************************)

Locations ==
  {"idle", "w_mtx", "w_seq", "try", "cas", "insert", "ins_cas", "hold", "scan",
   "remove", "rec_r", "rec_w", "rel_r", "sub_r", "rel_w", "add_w"}

Locals ==
  [op : {"none", "read", "write"}, blk : Blocks, lockNum : Int, try_times : Nat,
   idx : Nat \ {0}, alive : {0, 1}, pid : Procs \union {NoPid}, attempt : {1, 2}]

\* Every variable has its type.
TypeOK ==
  /\ m_seq \in 0 .. (SeqMod - 1)
  /\ m_lockNum \in [Blocks -> Int]
  /\ m_pidSet \in [Blocks -> [Slots -> Procs \union {NoPid}]]
  /\ running \in SUBSET Procs
  /\ mtx \in [Procs -> Threads \union {NoThread}]
  /\ pc \in [Threads -> Locations]
  /\ my \in [Threads -> Locals]
  /\ calls \in [Threads -> 0 .. MaxCalls]
  /\ wGrants \in [Blocks -> SUBSET Calls]
  /\ rGrants \in [Blocks -> SUBSET Calls]

\* Between the CAS that takes the lock and the instruction that gives it back.
Holding(t) ==
  \/ pc[t] \in {"insert", "ins_cas", "hold"}
  \/ pc[t] \in {"rel_r", "sub_r", "rel_w", "add_w"} /\ ~Recovering(t)

\* The clients that use the buffer of block b.
Users(b, operation) ==
  {t \in Threads : Alive(t) /\ pc[t] = "hold" /\ my[t].blk = b /\ my[t].op = operation}

\* While a client writes into the buffer of a block, no client of any process
\* reads it or writes it.
MutualExclusion ==
  \A b \in Blocks : \A w \in Users(b, "write") :
    Users(b, "read") = {} /\ Users(b, "write") = {w}

\* m_lockNum is what was granted and not released: -1, or the readers' number.
LockNumCounts ==
  \A b \in Blocks :
    m_lockNum[b] = IF wGrants[b] # {} THEN WRITE_EXCLUSIVE ELSE Cardinality(rGrants[b])

\* A call that returned, with true or with false, keeps no lock of a block whose
\* pid set has a free slot.
NothingLeaks ==
  \A b \in Blocks : (\E i \in Slots : m_pidSet[b][i] = NoPid) =>
    \A g \in wGrants[b] \union rGrants[b] :
      Holding(g[1]) /\ my[g[1]].blk = b /\ g = Call(g[1])

Registered(t) == \E i \in Slots : m_pidSet[my[t].blk][i] = ProcOf[t]

\* Whoever uses a block has its pid in the block's set, where AnyAlive looks
\* for the dead, whatever other processes removed meanwhile.
UsersAreRegistered == \A t \in Threads : Alive(t) /\ pc[t] = "hold" => Registered(t)

\* A thread of AnyAlive is about to remove only a pid that is dead.
VictimsAreDead ==
  \A t \in Threads : pc[t] = "remove" => my[t].pid \in Procs \ running

\* Insert's CAS is aimed at a slot of the set.
ProbesInRange == \A t \in Threads : pc[t] = "ins_cas" => my[t].idx \in Slots

\* AnyAlive never strikes out a process that lives.
LivingStayRegistered ==
  [][\A b \in Blocks, i \in Slots :
       m_pidSet[b][i] \in running => m_pidSet'[b][i] = m_pidSet[b][i]]_vars

-----------------------------------------------------------------------------
(***************************************************************************)
(* The inductive strengthening of MutualExclusion, as long as no process   *)
(* dies: the locals of each thread, and how its call and the grants agree. *)
(***************************************************************************)

Waiting == {"w_mtx", "w_seq", "try", "cas", "scan"}
HoldingLocations == {"insert", "ins_cas", "hold", "rel_r", "sub_r", "rel_w", "add_w"}

\* No recovery is under way; the location fits the operation; a reader swaps
\* in only a count it saw free of writers.
LocalsFit ==
  \A t \in Threads :
    /\ my[t].pid = NoPid /\ pc[t] \notin {"remove", "rec_r", "rec_w"}
    /\ pc[t] \in {"cas", "rel_r", "sub_r"} => my[t].op = "read"
    /\ pc[t] \in {"w_mtx", "w_seq", "rel_w", "add_w"} => my[t].op = "write"
    /\ pc[t] # "idle" => my[t].op \in {"read", "write"}
    /\ pc[t] = "cas" => my[t].lockNum >= 0

\* The call of a thread that holds a lock is among the grants of its block;
\* the call of a thread that waits for one is among none.
Grants(t) == IF my[t].op = "write" THEN wGrants[my[t].blk] ELSE rGrants[my[t].blk]
CallsFit ==
  \A t \in Threads :
    /\ pc[t] \in HoldingLocations => Call(t) \in Grants(t)
    /\ pc[t] \in Waiting =>
         \A b \in Blocks : Call(t) \notin wGrants[b] /\ Call(t) \notin rGrants[b]

\* Grants were made to calls that have begun.
GrantsFit ==
  \A b \in Blocks, g \in Calls :
    g \in wGrants[b] \/ g \in rGrants[b] => g[2] <= calls[g[1]]

\* A block is granted to one writer, or to readers.
GrantsExclude ==
  \A b \in Blocks : \A g \in wGrants[b] : wGrants[b] = {g} /\ rGrants[b] = {}

IInv ==
  /\ TypeOK /\ running = Procs
  /\ LocalsFit /\ CallsFit /\ GrantsFit /\ GrantsExclude /\ LockNumCounts

-----------------------------------------------------------------------------
\* The blocks implement the abstract readers-writer locks, one per block.
Abstract == INSTANCE RWLocks WITH
  Locks <- Blocks, Holders <- Calls, writers <- wGrants, readers <- rGrants

\* As long as no process dies every step is a grant, a release or invisible.
ImplementsRWLocks == Abstract!Spec

-----------------------------------------------------------------------------
(***************************************************************************)
(* Liveness.  A thread of a running process keeps executing, and a client  *)
(* releases what it was granted; nobody need make a call.  A CAS that is   *)
(* tried again and again on a free block does not fail spuriously for ever,*)
(* which weak fairness gives when it cannot fail spuriously at all.        *)
(***************************************************************************)

FairSpec == Spec /\ \A t \in Threads : WF_vars(Continue(t))
FairMortalSpec ==
  MortalSpec /\ \A t \in Threads :
    WF_vars(Continue(t)) /\ SF_vars(Alive(t) /\ UNCHANGED running /\ TryLockForWrite(t))

\* No call has taken a lock and then found the pid set full.
SetsHaveRoom == \A t \in Threads : pc[t] = "insert" => my[t].idx <= SetSize

\* Every call returns, but for those of a process that died in them.  (The calls are
\* finitely many, so that all have returned again and again says that each returns.)
CallsReturn == []<>(\A t \in Threads : Alive(t) => pc[t] = "idle")

\* When clients stop asking (MaxCalls), every call returns as long as the pid
\* sets have room: no thread spins for ever on blocks, or waits for ever for the
\* mutex of a thread that does.
EveryCallReturns == []SetsHaveRoom => CallsReturn

\* The deaths AnyAlive is made for: nobody died between the CAS that took a lock and
\* Insert of its pid, or while recovering a block, and the pid of a dead process in
\* the set of a block stands for one lock it held.
CleanDeaths ==
  /\ \A t \in Threads : ~Alive(t) => pc[t] \notin {"insert", "ins_cas"} /\ ~Recovering(t)
  /\ \A p \in Procs \ running, b \in Blocks :
       (\E i \in Slots : m_pidSet[b][i] = p) =>
         Cardinality({t \in Threads : ProcOf[t] = p /\ Holding(t) /\ my[t].blk = b}) = 1

\* No two threads recover the same block at a time.
OneRecovers ==
  \A t, u \in Threads :
    t # u /\ Recovering(t) /\ Recovering(u) => my[t].blk # my[u].blk

\* After a clean death, and when no two survivors recover the same block at a time,
\* AnyAlive finds the dead process, gives back its lock, and the calls of the
\* survivors return.  Each condition is needed: see the README.
SurvivorsRecover == [](SetsHaveRoom /\ CleanDeaths /\ OneRecovers) => CallsReturn

\* AnyAlive answers: a thread that found a dead pid gets past its removal.  The
\* code does not have this property: two threads may find the same pid.
AnyAliveAnswers ==
  \A t \in Threads : pc[t] = "remove" ~> (pc[t] # "remove" \/ ~Alive(t))

=============================================================================
