---------------------------- MODULE AtomicRWLock ----------------------------
(***************************************************************************)
(* The spinning readers-writer lock of                                     *)
(* IntelligentDriving/SHM_TEST/shm_inc/atomic_rw_lock.h (my_cyber keeps    *)
(* the same algorithm in base/atomic_rw_lock.h).                           *)
(*                                                                         *)
(* One action is one atomic access: a load, a compare-and-swap or a fetch- *)
(* and-add.  The retry counter and the yield it triggers change no shared  *)
(* state and are left out.                                                 *)
(***************************************************************************)
EXTENDS Integers, FiniteSets

CONSTANTS
  Threads,      \* the threads that use the lock
  WriteFirst,   \* m_writeFirst, fixed when the lock is constructed
  WeakCas       \* whether compare_exchange_weak may fail spuriously (arm64)

ASSUME ThreadsAssumption == IsFiniteSet(Threads)
ASSUME FlagsAssumption == WriteFirst \in BOOLEAN /\ WeakCas \in BOOLEAN

VARIABLES
  m_lockNum,             \* 0 free, -1 written, n > 0 read by n threads
  m_writeLockWaiteNum,   \* writers between their fetch_add and fetch_sub
  pc,                    \* where each thread is
  lock_num               \* ReadLock's local copy of m_lockNum

vars == <<m_lockNum, m_writeLockWaiteNum, pc, lock_num>>

RW_LOCK_FREE == 0
WRITE_EXCLUSIVE == -1

Goto(t, to) == pc' = [pc EXCEPT ![t] = to]

-----------------------------------------------------------------------------
(***************************************************************************)
(* ReadLock: load m_lockNum, spin while a writer holds or waits, then      *)
(* swing the count up by one.                                              *)
(***************************************************************************)

ReadLockLoad(t) ==
  /\ pc[t] \in {"idle", "r_reload"}
  /\ lock_num' = [lock_num EXCEPT ![t] = m_lockNum]
  /\ Goto(t, "r_check")
  /\ UNCHANGED <<m_lockNum, m_writeLockWaiteNum>>

\* A mutant: a reader ignores the writers that wait.
MustWaitForHolder(t) == lock_num[t] < RW_LOCK_FREE

\* The value a reader loaded, or the writers it sees waiting, turn it away.
MustWait(t) ==
  \/ lock_num[t] < RW_LOCK_FREE
  \/ WriteFirst /\ m_writeLockWaiteNum > 0

ReadLockCheck(t) ==
  /\ pc[t] = "r_check"
  /\ Goto(t, IF MustWait(t) THEN "r_reload" ELSE "r_cas")
  /\ UNCHANGED <<m_lockNum, m_writeLockWaiteNum, lock_num>>

\* A mutant: the count is stored from the stale local value, with no compare.
ReadLockStore(t) ==
  /\ pc[t] = "r_cas"
  /\ m_lockNum' = lock_num[t] + 1
  /\ Goto(t, "reading")
  /\ UNCHANGED <<m_writeLockWaiteNum, lock_num>>

ReadLockCas(t) ==
  /\ pc[t] = "r_cas"
  /\ m_lockNum = lock_num[t]
  /\ m_lockNum' = lock_num[t] + 1
  /\ Goto(t, "reading")
  /\ UNCHANGED <<m_writeLockWaiteNum, lock_num>>

\* A failed compare_exchange leaves the current value in lock_num.
ReadLockCasFail(t) ==
  /\ pc[t] = "r_cas"
  /\ m_lockNum = lock_num[t] => WeakCas
  /\ lock_num' = [lock_num EXCEPT ![t] = m_lockNum]
  /\ Goto(t, "r_check")
  /\ UNCHANGED <<m_lockNum, m_writeLockWaiteNum>>

ReadUnlock(t) ==
  /\ pc[t] = "reading"
  /\ m_lockNum' = m_lockNum - 1
  /\ Goto(t, "idle")
  /\ UNCHANGED <<m_writeLockWaiteNum, lock_num>>

-----------------------------------------------------------------------------
(***************************************************************************)
(* WriteLock: announce the writer, spin on 0 -> -1, withdraw the           *)
(* announcement.  A failed attempt resets its local variable and tries     *)
(* again, so it changes nothing and is a stuttering step.                  *)
(***************************************************************************)

WriteLockAnnounce(t) ==
  /\ pc[t] = "idle"
  /\ m_writeLockWaiteNum' = m_writeLockWaiteNum + 1
  /\ Goto(t, "w_cas")
  /\ UNCHANGED <<m_lockNum, lock_num>>

WriteLockCas(t) ==
  /\ pc[t] = "w_cas"
  /\ m_lockNum = RW_LOCK_FREE
  /\ m_lockNum' = WRITE_EXCLUSIVE
  /\ Goto(t, "w_withdraw")
  /\ UNCHANGED <<m_writeLockWaiteNum, lock_num>>

WriteLockWithdraw(t) ==
  /\ pc[t] = "w_withdraw"
  /\ m_writeLockWaiteNum' = m_writeLockWaiteNum - 1
  /\ Goto(t, "writing")
  /\ UNCHANGED <<m_lockNum, lock_num>>

WriteUnlock(t) ==
  /\ pc[t] = "writing"
  /\ m_lockNum' = m_lockNum + 1
  /\ Goto(t, "idle")
  /\ UNCHANGED <<m_writeLockWaiteNum, lock_num>>

-----------------------------------------------------------------------------

Init ==
  /\ m_lockNum = RW_LOCK_FREE
  /\ m_writeLockWaiteNum = 0
  /\ pc = [t \in Threads |-> "idle"]
  /\ lock_num = [t \in Threads |-> 0]

Next ==
  \E t \in Threads :
    \/ ReadLockLoad(t)
    \/ ReadLockCheck(t)
    \/ ReadLockCas(t)
    \/ ReadLockCasFail(t)
    \/ ReadUnlock(t)
    \/ WriteLockAnnounce(t)
    \/ WriteLockCas(t)
    \/ WriteLockWithdraw(t)
    \/ WriteUnlock(t)

Spec == Init /\ [][Next]_vars

-----------------------------------------------------------------------------
(***************************************************************************)
(* Safety.                                                                 *)
(***************************************************************************)

Locations == {"idle", "r_reload", "r_check", "r_cas", "reading",
              "w_cas", "w_withdraw", "writing"}

\* Every variable has its type; the announcements never go below zero (the
\* code keeps them in a uint32_t, which would wrap).
TypeOK ==
  /\ m_lockNum \in Int
  /\ m_writeLockWaiteNum \in Nat
  /\ pc \in [Threads -> Locations]
  /\ lock_num \in [Threads -> Int]

\* Threads between the CAS (or fetch) that gives them the lock and its release.
Readers == {t \in Threads : pc[t] = "reading"}
Writers == {t \in Threads : pc[t] \in {"w_withdraw", "writing"}}

\* Threads that have announced a write and not withdrawn it.
Announced == {t \in Threads : pc[t] \in {"w_cas", "w_withdraw"}}

\* A thread between WriteLock and WriteUnlock is alone: no other writer and no
\* reader is inside, whatever stale count a reader tried to swap in.
MutualExclusion ==
  \A w \in Writers : Readers = {} /\ Writers = {w}

\* m_lockNum says who is inside: -1 for a writer, else the number of readers.
LockNumCounts ==
  m_lockNum = IF Writers # {} THEN WRITE_EXCLUSIVE ELSE Cardinality(Readers)

\* m_writeLockWaiteNum is the number of writers that announced themselves, so
\* it returns to zero and readers are not shut out for ever.
WaiteNumCounts == m_writeLockWaiteNum = Cardinality(Announced)

\* A reader only ever tries to swap in a count it believes free of writers.
ReaderSawNoWriter == \A t \in Threads : pc[t] = "r_cas" => lock_num[t] >= 0

\* The inductive invariant: what makes MutualExclusion true of every step.
IInv ==
  /\ TypeOK
  /\ MutualExclusion
  /\ LockNumCounts
  /\ WaiteNumCounts
  /\ ReaderSawNoWriter

-----------------------------------------------------------------------------
(***************************************************************************)
(* AtomicRWLock implements the abstract lock RWLocks (one lock).           *)
(***************************************************************************)

Abstract == INSTANCE RWLocks WITH
  Locks <- {"lock"},
  Holders <- Threads,
  writers <- [l \in {"lock"} |-> Writers],
  readers <- [l \in {"lock"} |-> Readers]

\* Every step of the atomics is a grant, a release or invisible to the clients
\* of the abstract readers-writer lock.
ImplementsRWLocks == Abstract!Spec

-----------------------------------------------------------------------------
(***************************************************************************)
(* Liveness.  A thread that has started an operation is scheduled until it *)
(* is done, and a lock guard releases what it took; a thread need never    *)
(* start one.                                                              *)
(***************************************************************************)

Continue(t) ==
  \/ pc[t] = "r_reload" /\ ReadLockLoad(t)
  \/ ReadLockCheck(t)
  \/ ReadLockCas(t)
  \/ ReadLockCasFail(t)
  \/ ReadUnlock(t)
  \/ WriteLockCas(t)
  \/ WriteLockWithdraw(t)
  \/ WriteUnlock(t)

FairSpec == Spec /\ \A t \in Threads : WF_vars(Continue(t))

\* With m_writeFirst a waiting writer stops new readers, so some writer gets
\* in however eagerly the readers come back.
WriterGetsIn ==
  WriteFirst =>
    ((\E t \in Threads : pc[t] = "w_cas") ~> (Writers # {}))

=============================================================================
