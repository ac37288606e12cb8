------------------------- MODULE AtomicRWLockProofs -------------------------
(***************************************************************************)
(* Proofs about AtomicRWLock, for every finite set of threads and both     *)
(* values of m_writeFirst.                                                 *)
(***************************************************************************)
EXTENDS AtomicRWLock, FiniteSetTheorems, TLAPS

\* Counting in subsets of Threads: what adding or removing one thread does.
LEMMA Counting ==
  ASSUME NEW S \in SUBSET Threads, NEW t \in Threads
  PROVE  /\ Cardinality(S) \in Nat
         /\ Cardinality(S) = 0 <=> S = {}
         /\ Cardinality(S \union {t}) =
              IF t \in S THEN Cardinality(S) ELSE Cardinality(S) + 1
         /\ Cardinality(S \ {t}) =
              IF t \in S THEN Cardinality(S) - 1 ELSE Cardinality(S)
<1>1. IsFiniteSet(S)
  BY FS_Subset, ThreadsAssumption
<1> QED
  BY ZenonT(60), <1>1, FS_CardinalityType, FS_EmptySet, FS_AddElement, FS_RemoveElement

\* The three sets of threads the invariants speak of, after one thread moves.
LEMMA SetsAfterGoto ==
  ASSUME TypeOK, NEW t \in Threads, NEW to \in Locations, Goto(t, to)
  PROVE  /\ Readers' = IF to = "reading" THEN Readers \union {t}
                                         ELSE Readers \ {t}
         /\ Writers' = IF to \in {"w_withdraw", "writing"}
                       THEN Writers \union {t} ELSE Writers \ {t}
         /\ Announced' = IF to \in {"w_cas", "w_withdraw"}
                         THEN Announced \union {t} ELSE Announced \ {t}
BY DEF TypeOK, Goto, Readers, Writers, Announced

\* One step keeps the types, given that the announcements are counted exactly.
LEMMA TypePreserved ==
  ASSUME IInv, Next
  PROVE  TypeOK'
<1>1. PICK t \in Threads :
        \/ ReadLockLoad(t) \/ ReadLockCheck(t) \/ ReadLockCas(t)
        \/ ReadLockCasFail(t) \/ ReadUnlock(t) \/ WriteLockAnnounce(t)
        \/ WriteLockCas(t) \/ WriteLockWithdraw(t) \/ WriteUnlock(t)
  BY DEF Next
<1>2. CASE WriteLockWithdraw(t)
  <2>1. t \in Announced
    BY <1>2 DEF WriteLockWithdraw, Announced
  <2>2. Announced \in SUBSET Threads
    BY DEF Announced
  <2>3. m_writeLockWaiteNum \in Nat \ {0}
    BY ZenonT(60), <2>1, <2>2, Counting DEF IInv, WaiteNumCounts
  <2> QED
    BY <1>2, <2>3 DEF IInv, TypeOK, WriteLockWithdraw, Goto, Locations
<1> QED
  BY <1>1, <1>2 DEF IInv, TypeOK, Locations, Goto, RW_LOCK_FREE, WRITE_EXCLUSIVE,
       ReadLockLoad, ReadLockCheck, ReadLockCas, ReadLockCasFail, ReadUnlock,
       WriteLockAnnounce, WriteLockCas, WriteUnlock

\* Both counters are exact after a step, and a writer is alone after it.
LEMMA CountsPreserved ==
  ASSUME IInv, Next
  PROVE  MutualExclusion' /\ LockNumCounts' /\ WaiteNumCounts'
<1> USE DEF Locations, RW_LOCK_FREE, WRITE_EXCLUSIVE, IInv
<1>0. /\ Readers \in SUBSET Threads
      /\ Writers \in SUBSET Threads
      /\ Announced \in SUBSET Threads
  BY DEF Readers, Writers, Announced
<1>1. ASSUME NEW t \in Threads, ReadLockLoad(t) \/ ReadLockCheck(t) \/ ReadLockCasFail(t)
      PROVE  MutualExclusion' /\ LockNumCounts' /\ WaiteNumCounts'
  <2>1. t \notin Readers /\ t \notin Writers /\ t \notin Announced
    BY <1>1 DEF ReadLockLoad, ReadLockCheck, ReadLockCasFail, Readers, Writers, Announced
  <2>2. Readers' = Readers /\ Writers' = Writers /\ Announced' = Announced
    BY SMTT(60), <1>1, <2>1, SetsAfterGoto DEF ReadLockLoad, ReadLockCheck, ReadLockCasFail
  <2> QED
    BY <1>1, <2>2 DEF ReadLockLoad, ReadLockCheck, ReadLockCasFail,
         MutualExclusion, LockNumCounts, WaiteNumCounts
<1>2. ASSUME NEW t \in Threads, ReadLockCas(t)
      PROVE  MutualExclusion' /\ LockNumCounts' /\ WaiteNumCounts'
  <2>1. t \notin Readers /\ t \notin Writers /\ t \notin Announced
    BY <1>2 DEF ReadLockCas, Readers, Writers, Announced
  <2>2. Readers' = Readers \union {t} /\ Writers' = Writers /\ Announced' = Announced
    BY SMTT(60), <1>2, <2>1, SetsAfterGoto DEF ReadLockCas
  <2>3. m_lockNum >= 0 /\ m_lockNum' = m_lockNum + 1
    BY <1>2 DEF ReadLockCas, ReaderSawNoWriter
  <2>4. Writers = {} /\ m_lockNum = Cardinality(Readers)
    BY <2>3 DEF LockNumCounts
  <2> QED
    BY <1>0, <1>2, <2>1, <2>2, <2>3, <2>4, Counting
    DEF ReadLockCas, MutualExclusion, LockNumCounts, WaiteNumCounts
<1>3. ASSUME NEW t \in Threads, ReadUnlock(t)
      PROVE  MutualExclusion' /\ LockNumCounts' /\ WaiteNumCounts'
  <2>1. t \in Readers /\ t \notin Writers /\ t \notin Announced
    BY <1>3 DEF ReadUnlock, Readers, Writers, Announced
  <2>2. Readers' = Readers \ {t} /\ Writers' = Writers /\ Announced' = Announced
    BY SMTT(60), <1>3, <2>1, SetsAfterGoto DEF ReadUnlock
  <2>3. Writers = {} /\ m_lockNum = Cardinality(Readers)
    BY <2>1 DEF LockNumCounts, MutualExclusion
  <2> QED
    BY <1>0, <1>3, <2>1, <2>2, <2>3, Counting
    DEF ReadUnlock, MutualExclusion, LockNumCounts, WaiteNumCounts
<1>4. ASSUME NEW t \in Threads, WriteLockAnnounce(t)
      PROVE  MutualExclusion' /\ LockNumCounts' /\ WaiteNumCounts'
  <2>1. t \notin Readers /\ t \notin Writers /\ t \notin Announced
    BY <1>4 DEF WriteLockAnnounce, Readers, Writers, Announced
  <2>2. Readers' = Readers /\ Writers' = Writers /\ Announced' = Announced \union {t}
    BY SMTT(60), <1>4, <2>1, SetsAfterGoto DEF WriteLockAnnounce
  <2> QED
    BY <1>0, <1>4, <2>1, <2>2, Counting
    DEF WriteLockAnnounce, MutualExclusion, LockNumCounts, WaiteNumCounts
<1>5. ASSUME NEW t \in Threads, WriteLockCas(t)
      PROVE  MutualExclusion' /\ LockNumCounts' /\ WaiteNumCounts'
  <2>1. t \notin Readers /\ t \notin Writers /\ t \in Announced
    BY <1>5 DEF WriteLockCas, Readers, Writers, Announced
  <2>2. Readers' = Readers /\ Writers' = Writers \union {t} /\ Announced' = Announced
    BY SMTT(60), <1>5, <2>1, SetsAfterGoto DEF WriteLockCas
  <2>3. Writers = {} /\ Cardinality(Readers) = 0
    BY <1>5 DEF WriteLockCas, LockNumCounts
  <2>4. Readers = {}
    BY ZenonT(60), <1>0, <2>3, Counting
  <2> QED
    BY <1>5, <2>2, <2>3, <2>4 DEF WriteLockCas, MutualExclusion, LockNumCounts, WaiteNumCounts
<1>6. ASSUME NEW t \in Threads, WriteLockWithdraw(t)
      PROVE  MutualExclusion' /\ LockNumCounts' /\ WaiteNumCounts'
  <2>1. t \notin Readers /\ t \in Writers /\ t \in Announced
    BY <1>6 DEF WriteLockWithdraw, Readers, Writers, Announced
  <2>2. Readers' = Readers /\ Writers' = Writers /\ Announced' = Announced \ {t}
    BY SMTT(60), <1>6, <2>1, SetsAfterGoto DEF WriteLockWithdraw
  <2> QED
    BY <1>0, <1>6, <2>1, <2>2, Counting
    DEF WriteLockWithdraw, MutualExclusion, LockNumCounts, WaiteNumCounts
<1>7. ASSUME NEW t \in Threads, WriteUnlock(t)
      PROVE  MutualExclusion' /\ LockNumCounts' /\ WaiteNumCounts'
  <2>1. t \notin Readers /\ t \in Writers /\ t \notin Announced
    BY <1>7 DEF WriteUnlock, Readers, Writers, Announced
  <2>2. Readers' = Readers /\ Writers' = Writers \ {t} /\ Announced' = Announced
    BY SMTT(60), <1>7, <2>1, SetsAfterGoto DEF WriteUnlock
  <2>3. Readers = {} /\ Writers = {t} /\ m_lockNum = -1
    BY <2>1 DEF MutualExclusion, LockNumCounts
  <2>4. Cardinality(Readers) = 0
    BY ZenonT(60), <1>0, <2>3, Counting
  <2> QED
    BY <1>7, <2>2, <2>3, <2>4
    DEF WriteUnlock, MutualExclusion, LockNumCounts, WaiteNumCounts
<1> QED
  BY <1>1, <1>2, <1>3, <1>4, <1>5, <1>6, <1>7 DEF Next

\* A reader reaches its CAS only through the check of the value it will swap.
LEMMA ReaderSawNoWriterPreserved ==
  ASSUME IInv, Next
  PROVE  ReaderSawNoWriter'
BY DEF IInv, TypeOK, Locations, Next, ReaderSawNoWriter, MustWait, Goto, RW_LOCK_FREE,
     ReadLockLoad, ReadLockCheck, ReadLockCas, ReadLockCasFail, ReadUnlock,
     WriteLockAnnounce, WriteLockCas, WriteLockWithdraw, WriteUnlock

\* IInv is an inductive invariant of the lock of atomic_rw_lock.h.
THEOREM Inductive == Spec => []IInv
<1>1. Init => IInv
  <2> SUFFICES ASSUME Init PROVE IInv
    OBVIOUS
  <2>1. Readers = {} /\ Writers = {} /\ Announced = {}
    BY DEF Init, Readers, Writers, Announced
  <2> QED
    BY <2>1, FS_EmptySet DEF Init, IInv, TypeOK, Locations, MutualExclusion,
      LockNumCounts, WaiteNumCounts, ReaderSawNoWriter, RW_LOCK_FREE
<1>2. IInv /\ [Next]_vars => IInv'
  <2> SUFFICES ASSUME IInv, [Next]_vars PROVE IInv'
    OBVIOUS
  <2>1. CASE Next
    BY <2>1, TypePreserved, CountsPreserved, ReaderSawNoWriterPreserved DEF IInv
  <2>2. CASE UNCHANGED vars
    BY <2>2 DEF vars, IInv, TypeOK, MutualExclusion, LockNumCounts, WaiteNumCounts,
      ReaderSawNoWriter, Readers, Writers, Announced
  <2> QED
    BY <2>1, <2>2
<1> QED
  BY <1>1, <1>2, PTL DEF Spec

\* The types hold in every reachable state: no counter leaves its range.
THEOREM TypeCorrect == Spec => []TypeOK
<1>1. IInv => TypeOK
  BY DEF IInv
<1> QED
  BY <1>1, Inductive, PTL

\* For any number of threads, a writer is never inside together with anyone.
THEOREM Exclusion == Spec => []MutualExclusion
<1>1. IInv => MutualExclusion
  BY DEF IInv
<1> QED
  BY <1>1, Inductive, PTL

\* For any number of threads, both counters are exact at every moment.
THEOREM CountersExact == Spec => [](LockNumCounts /\ WaiteNumCounts)
<1>1. IInv => LockNumCounts /\ WaiteNumCounts
  BY DEF IInv
<1> QED
  BY <1>1, Inductive, PTL

-----------------------------------------------------------------------------

\* A step of the atomics is a step of the abstract lock, or leaves it alone.
LEMMA StepRefines ==
  ASSUME IInv, [Next]_vars
  PROVE  [Abstract!Next]_(Abstract!vars)
<1> USE DEF Locations, IInv
<1> DEFINE W == [l \in {"lock"} |-> Writers]
           R == [l \in {"lock"} |-> Readers]
<1>1. CASE UNCHANGED vars
  BY <1>1 DEF vars, Abstract!vars, Readers, Writers
<1>2. ASSUME NEW t \in Threads, ReadLockCas(t) PROVE Abstract!Next
  <2>1. t \notin Readers /\ t \notin Writers
    BY <1>2 DEF ReadLockCas, Readers, Writers
  <2>2. Readers' = Readers \union {t} /\ Writers' = Writers
    BY SMTT(60), <1>2, <2>1, SetsAfterGoto DEF ReadLockCas
  <2>3. Writers = {}
    BY <1>2 DEF ReadLockCas, ReaderSawNoWriter, LockNumCounts, WRITE_EXCLUSIVE
  <2>4. Abstract!LockForRead("lock", t)
    BY <2>1, <2>2, <2>3 DEF Abstract!LockForRead
  <2> QED
    BY <2>4 DEF Abstract!Next
<1>3. ASSUME NEW t \in Threads, ReadUnlock(t) PROVE Abstract!Next
  <2>1. t \in Readers /\ t \notin Writers
    BY <1>3 DEF ReadUnlock, Readers, Writers
  <2>2. Readers' = Readers \ {t} /\ Writers' = Writers
    BY SMTT(60), <1>3, <2>1, SetsAfterGoto DEF ReadUnlock
  <2>3. Abstract!ReleaseReadLock("lock", t)
    BY <2>1, <2>2 DEF Abstract!ReleaseReadLock
  <2> QED
    BY <2>3 DEF Abstract!Next
<1>4. ASSUME NEW t \in Threads, WriteLockCas(t) PROVE Abstract!Next
  <2>1. t \notin Readers /\ t \notin Writers
    BY <1>4 DEF WriteLockCas, Readers, Writers
  <2>2. Readers' = Readers /\ Writers' = Writers \union {t}
    BY SMTT(60), <1>4, <2>1, SetsAfterGoto DEF WriteLockCas
  <2>3. Readers \in SUBSET Threads
    BY DEF Readers
  <2>4. Writers = {} /\ Cardinality(Readers) = 0
    BY <1>4 DEF WriteLockCas, LockNumCounts, RW_LOCK_FREE, WRITE_EXCLUSIVE
  <2>5. Readers = {}
    BY ZenonT(60), <2>3, <2>4, Counting
  <2>6. Abstract!LockForWrite("lock", t)
    BY <2>2, <2>4, <2>5 DEF Abstract!LockForWrite
  <2> QED
    BY <2>6 DEF Abstract!Next
<1>5. ASSUME NEW t \in Threads, WriteUnlock(t) PROVE Abstract!Next
  <2>1. t \notin Readers /\ t \in Writers
    BY <1>5 DEF WriteUnlock, Readers, Writers
  <2>2. Readers' = Readers /\ Writers' = Writers \ {t}
    BY SMTT(60), <1>5, <2>1, SetsAfterGoto DEF WriteUnlock
  <2>3. Abstract!ReleaseWriteLock("lock", t)
    BY <2>1, <2>2 DEF Abstract!ReleaseWriteLock
  <2> QED
    BY <2>3 DEF Abstract!Next
<1>6. ASSUME NEW t \in Threads,
             \/ ReadLockLoad(t) \/ ReadLockCheck(t) \/ ReadLockCasFail(t)
             \/ WriteLockAnnounce(t) \/ WriteLockWithdraw(t)
      PROVE  UNCHANGED Abstract!vars
  <2>1. Readers' = Readers /\ Writers' = Writers
    BY <1>6 DEF TypeOK, Goto, Readers, Writers, ReadLockLoad, ReadLockCheck,
      ReadLockCasFail, WriteLockAnnounce, WriteLockWithdraw
  <2> QED
    BY <2>1 DEF Abstract!vars
<1> QED
  BY <1>1, <1>2, <1>3, <1>4, <1>5, <1>6 DEF Next

\* The lock implements the abstract readers-writer lock, for any thread set.
THEOREM Refinement == Spec => ImplementsRWLocks
<1>1. Init => Abstract!Init
  BY DEF Init, Abstract!Init, Readers, Writers
<1>2. IInv /\ [Next]_vars => [Abstract!Next]_(Abstract!vars)
  BY StepRefines
<1> QED
  BY <1>1, <1>2, Inductive, PTL DEF Spec, ImplementsRWLocks, Abstract!Spec

=============================================================================
