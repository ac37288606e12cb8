--------------------------- MODULE ShmBlockProofs ---------------------------
(***************************************************************************)
(* Proofs about ShmBlock, for every set of threads and processes, every    *)
(* number of blocks and slots and every bound.                             *)
(***************************************************************************)
EXTENDS ShmBlock, FiniteSetTheorems, TLAPS

\* The index a sequence number selects is the index of a block.
LEMMA ModRange ==
  ASSUME NEW n \in Nat, NEW m \in Nat \ {0}
  PROVE  n % m \in 0 .. (m - 1)
OBVIOUS

\* Fresh locals of a call have their type.
LEMMA InCallType ==
  ASSUME NEW o \in {"none", "read", "write"}, NEW b \in Blocks
  PROVE  /\ InCall(o, b) \in Locals
         /\ [InCall(o, b) EXCEPT !.attempt = 2] \in Locals
BY DEF InCall, Locals

\* A topic has a block, so the index of an idle thread's locals is one.
LEMMA BlockZero == 0 \in Blocks
BY SizesAssumption DEF Blocks

\* Updating one or two local variables keeps the type of the locals.
LEMMA UpdateType ==
  ASSUME NEW r \in Locals
  PROVE  /\ [r EXCEPT !.idx = @ + 1, !.pid = NoPid] \in Locals
         /\ [r EXCEPT !.idx = @ + 1, !.alive = 1] \in Locals
         /\ [r EXCEPT !.try_times = @ + 1, !.lockNum = 0] \in Locals
         /\ \A n \in Int : [r EXCEPT !.lockNum = n] \in Locals
         /\ \A p \in Procs : [r EXCEPT !.pid = p] \in Locals
<1> DEFINE i == [r EXCEPT !.idx = @ + 1]
           n == [r EXCEPT !.try_times = @ + 1]
<1>1. i \in Locals /\ n \in Locals
  BY DEF Locals
<1>2. [i EXCEPT !.pid = NoPid] \in Locals /\ [i EXCEPT !.alive = 1] \in Locals
  <2> HIDE DEF i
  <2> QED BY Zenon, <1>1 DEF Locals
<1>3. [n EXCEPT !.lockNum = 0] \in Locals
  <2> HIDE DEF n
  <2> QED BY <1>1 DEF Locals
<1>4. \A m \in Int : [r EXCEPT !.lockNum = m] \in Locals
  BY Zenon DEF Locals
<1>5. \A p \in Procs : [r EXCEPT !.pid = p] \in Locals
  BY Zenon DEF Locals
<1> QED
  BY Zenon, <1>2, <1>3, <1>4, <1>5

\* The helpers that move a thread keep the types of pc and my.
LEMMA MovesType ==
  ASSUME TypeOK, NEW t \in Threads, NEW l \in Locations
  PROVE  /\ Goto(t, l) => pc' \in [Threads -> Locations]
         /\ Return(t) => pc' \in [Threads -> Locations] /\ my' \in [Threads -> Locals]
         /\ Restart(t, l) => pc' \in [Threads -> Locations] /\ my' \in [Threads -> Locals]
         /\ NextSlot(t, l) => pc' \in [Threads -> Locations] /\ my' \in [Threads -> Locals]
<1>1. my[t] \in Locals
  BY Zenon DEF TypeOK
<1>2. my[t].op \in {"none", "read", "write"} /\ my[t].blk \in Blocks
  BY Zenon, <1>1 DEF Locals
<1>3. Goto(t, l) => pc' \in [Threads -> Locations]
  BY Zenon DEF Goto, TypeOK
<1>4. Return(t) => pc' \in [Threads -> Locations] /\ my' \in [Threads -> Locals]
  BY ZenonT(60), InCallType, BlockZero DEF Return, Goto, SetMy, TypeOK, Locations
<1>5. Restart(t, l) => pc' \in [Threads -> Locations] /\ my' \in [Threads -> Locals]
  BY ZenonT(60), <1>2, InCallType DEF Restart, Goto, SetMy, TypeOK
<1>6. NextSlot(t, l) => pc' \in [Threads -> Locations] /\ my' \in [Threads -> Locals]
  BY ZenonT(60), <1>1, UpdateType DEF NextSlot, Goto, SetMy, TypeOK
<1> QED
  BY Zenon, <1>3, <1>4, <1>5, <1>6

\* A failed attempt to lock keeps the types, wherever it leads.
LEMMA AttemptFailedType ==
  ASSUME TypeOK, NEW t \in Threads, AttemptFailed(t)
  PROVE  pc' \in [Threads -> Locations] /\ my' \in [Threads -> Locals]
BY Zenon, MovesType DEF AttemptFailed, Locations

\* Removing a grant, or recording one for the current call, keeps the types.
LEMMA GrantsType ==
  ASSUME TypeOK, NEW t \in Threads
  PROVE  /\ Call(t) \in Calls
         /\ Released(t) => /\ wGrants' \in [Blocks -> SUBSET Calls]
                           /\ rGrants' \in [Blocks -> SUBSET Calls]
                           /\ pc' \in [Threads -> Locations]
                           /\ my' \in [Threads -> Locals]
<1>1. Call(t) \in Calls
  BY Zenon DEF TypeOK, Call, Calls
<1>2. Released(t) => /\ wGrants' \in [Blocks -> SUBSET Calls]
                     /\ rGrants' \in [Blocks -> SUBSET Calls]
  BY ZenonT(60) DEF TypeOK, Released
<1>3. Released(t) => pc' \in [Threads -> Locations] /\ my' \in [Threads -> Locals]
  BY Zenon, MovesType DEF Released, Locations
<1> QED
  BY Zenon, <1>1, <1>2, <1>3

\* Every step of a thread, and every death, keeps the types.
LEMMA TypeStep ==
  ASSUME TypeOK, [NextOrDie]_vars
  PROVE  TypeOK'
<1> USE DEF shm, history
<1>0. ASSUME NEW t \in Threads
      PROVE  /\ my[t] \in Locals /\ my[t].blk \in Blocks
             /\ my[t].op \in {"none", "read", "write"}
             /\ LockNum(t) \in Int /\ ProcOf[t] \in Procs
             /\ my[t].idx <= SetSize => my[t].idx \in Slots
             /\ my[t].idx <= SetSize => Slot(t) \in Procs \union {NoPid}
  BY <1>0, ProcsAssumption, SizesAssumption DEF TypeOK, Locals, LockNum, Slot, Slots
<1>1. ASSUME NEW t \in Threads, UNCHANGED running,
             RequestMemory(t) \/ HoldMemory(t)
      PROVE  TypeOK'
  <2>1. \A b \in Blocks : InCall("read", b) \in Locals /\ InCall("write", b) \in Locals
    BY ZenonT(60), InCallType
  <2>2. calls' \in [Threads -> 0 .. MaxCalls]
    BY <1>1, BoundsAssumption DEF RequestMemory, HoldMemory, Begin, TypeOK
  <2> QED
    BY SMTT(60), <1>1, <2>1, <2>2, BlockZero
    DEF RequestMemory, HoldMemory, Begin, Goto, SetMy, TypeOK, Locations
<1>2. ASSUME NEW t \in Threads, UNCHANGED running, LockMtx(t) \/ RequestRefused(t)
      PROVE  TypeOK'
  <2>1. pc' \in [Threads -> Locations] /\ my' \in [Threads -> Locals]
    BY Zenon, <1>2, MovesType DEF LockMtx, RequestRefused, TypeOK, Locations
  <2>2. mtx' \in [Procs -> Threads \union {NoThread}]
    BY Zenon, <1>0, <1>2 DEF LockMtx, RequestRefused, TypeOK
  <2> QED
    BY Zenon, <1>2, <2>1, <2>2 DEF LockMtx, RequestRefused, TypeOK
<1>3. ASSUME NEW t \in Threads, UNCHANGED running, FetchAddSeq(t)
      PROVE  TypeOK'
  <2>1. m_seq % BlockNum \in Blocks /\ (m_seq + 1) % SeqMod \in 0 .. (SeqMod - 1)
    BY ModRange, SizesAssumption DEF TypeOK, Blocks
  <2>2. InCall("write", m_seq % BlockNum) \in Locals
    BY ZenonT(60), <2>1, InCallType
  <2> QED
    BY Zenon, <1>3, <2>1, <2>2 DEF FetchAddSeq, Goto, SetMy, TypeOK, Locations
<1>4. ASSUME NEW t \in Threads, UNCHANGED running,
             TryLockForWrite(t) \/ ReadCas(t)
      PROVE  TypeOK'
  <2>1. pc' \in [Threads -> Locations] /\ my' \in [Threads -> Locals]
    BY Zenon, <1>4, MovesType DEF TryLockForWrite, ReadCas, Locations
  <2>2. m_lockNum' \in [Blocks -> Int]
    BY SMTT(60), <1>0, <1>4 DEF TryLockForWrite, ReadCas, TypeOK, WRITE_EXCLUSIVE, Locals
  <2>3. wGrants' \in [Blocks -> SUBSET Calls] /\ rGrants' \in [Blocks -> SUBSET Calls]
    BY SMTT(60), <1>4, GrantsType DEF TryLockForWrite, ReadCas, TypeOK
  <2> QED
    BY Zenon, <1>4, <2>1, <2>2, <2>3 DEF TryLockForWrite, ReadCas, TypeOK
<1>5. ASSUME NEW t \in Threads, UNCHANGED running,
             TryLockForWriteFail(t) \/ TryLockForRead(t) \/ ReadCasFail(t)
      PROVE  TypeOK'
  <2>1. /\ [my[t] EXCEPT !.lockNum = LockNum(t)] \in Locals
        /\ [my[t] EXCEPT !.try_times = @ + 1, !.lockNum = 0] \in Locals
    BY ZenonT(60), <1>0, UpdateType
  <2>2. pc' \in [Threads -> Locations] /\ my' \in [Threads -> Locals]
    BY ZenonT(60), <1>5, <2>1, AttemptFailedType
    DEF TryLockForWriteFail, TryLockForRead, ReadCasFail, Goto, SetMy, TypeOK, Locations
  <2> QED
    BY Zenon, <1>5, <2>2 DEF TryLockForWriteFail, TryLockForRead, ReadCasFail, TypeOK
<1>6. ASSUME NEW t \in Threads, UNCHANGED running, Insert(t) \/ InsertCas(t)
      PROVE  TypeOK'
  <2>1. pc' \in [Threads -> Locations] /\ my' \in [Threads -> Locals]
    BY Zenon, <1>6, MovesType DEF Insert, InsertCas, TypeOK, Locations
  <2>2. m_pidSet' \in [Blocks -> [Slots -> Procs \union {NoPid}]]
    <3>1. [m_pidSet[my[t].blk] EXCEPT ![my[t].idx] = ProcOf[t]]
            \in [Slots -> Procs \union {NoPid}]
      BY ZenonT(60), <1>0 DEF TypeOK
    <3> QED
      BY ZenonT(60), <1>0, <1>6, <3>1 DEF Insert, InsertCas, TypeOK
  <2>3. mtx' \in [Procs -> Threads \union {NoThread}]
    BY ZenonT(60), <1>0, <1>6 DEF Insert, InsertCas, UnlockMtx, TypeOK
  <2> QED
    BY Zenon, <1>6, <2>1, <2>2, <2>3 DEF Insert, InsertCas, TypeOK
<1>7. ASSUME NEW t \in Threads, UNCHANGED running,
             AnyAlive(t) \/ AnyAliveReturns(t) \/ Recover(t)
      PROVE  TypeOK'
  <2>1. /\ [my[t] EXCEPT !.idx = @ + 1, !.alive = 1] \in Locals
        /\ [InCall(my[t].op, my[t].blk) EXCEPT !.attempt = 2] \in Locals
        /\ Slot(t) \in Procs => [my[t] EXCEPT !.pid = Slot(t)] \in Locals
    BY ZenonT(60), <1>0, UpdateType, InCallType
  <2>2. pc' \in [Threads -> Locations] /\ my' \in [Threads -> Locals]
    BY ZenonT(60), <1>0, <1>7, <2>1, MovesType
    DEF AnyAlive, AnyAliveReturns, Recover, SetMy, TypeOK, Locations
  <2> QED
    BY Zenon, <1>7, <2>2 DEF AnyAlive, AnyAliveReturns, Recover, TypeOK
<1>8. ASSUME NEW t \in Threads, UNCHANGED running, Remove(t)
      PROVE  TypeOK'
  <2>1. pc' \in [Threads -> Locations]
    BY Zenon, <1>0, <1>8, MovesType DEF Remove, Locations
  <2>2. PICK i \in Slots : m_pidSet' = [m_pidSet EXCEPT ![my[t].blk][i] = NoPid]
    BY ZenonT(60), <1>8 DEF Remove
  <2>3. m_pidSet' \in [Blocks -> [Slots -> Procs \union {NoPid}]]
    BY ZenonT(60), <2>2 DEF TypeOK
  <2> QED
    BY Zenon, <1>8, <2>1, <2>3 DEF Remove, TypeOK
<1>9. ASSUME NEW t \in Threads, UNCHANGED running, WriteFinish(t) \/ ReleaseMemory(t)
      PROVE  TypeOK'
  BY Zenon, <1>9, MovesType DEF WriteFinish, ReleaseMemory, TypeOK, Locations
<1>10. ASSUME NEW t \in Threads, UNCHANGED running,
              ReleaseReadLock(t) \/ ReleaseWriteLock(t)
       PROVE  TypeOK'
  <2>1. /\ pc' \in [Threads -> Locations] /\ my' \in [Threads -> Locals]
        /\ wGrants' \in [Blocks -> SUBSET Calls] /\ rGrants' \in [Blocks -> SUBSET Calls]
    BY Zenon, <1>10, MovesType, GrantsType
    DEF ReleaseReadLock, ReleaseWriteLock, TypeOK, Locations
  <2>2. m_lockNum' \in [Blocks -> Int]
    BY SMTT(60), <1>0, <1>10 DEF ReleaseReadLock, ReleaseWriteLock, TypeOK
  <2> QED
    BY Zenon, <1>10, <2>1, <2>2 DEF ReleaseReadLock, ReleaseWriteLock, TypeOK
<1>11. ASSUME NEW p \in Procs, Die(p) PROVE TypeOK'
  BY Zenon, <1>11 DEF Die, TypeOK
<1>12. CASE UNCHANGED vars
  BY Zenon, <1>12 DEF vars, TypeOK
<1> QED
  BY Zenon, <1>1, <1>2, <1>3, <1>4, <1>5, <1>6, <1>7, <1>8, <1>9, <1>10, <1>11, <1>12
  DEF NextOrDie, Next, BeginCall, Continue

\* A fresh topic, with no client inside a call, has its types.
LEMMA InitType ==
  ASSUME Init
  PROVE  TypeOK
<1>1. InCall("none", 0) \in Locals
  BY ZenonT(60), InCallType, BlockZero
<1> QED
  BY <1>1, SizesAssumption, BoundsAssumption DEF Init, TypeOK, Locations, RW_LOCK_FREE

\* Types hold in every behaviour, whichever processes die and whenever.
THEOREM TypeCorrect == MortalSpec => []TypeOK
<1>1. Init => TypeOK
  BY Zenon, InitType
<1>2. TypeOK /\ [NextOrDie]_vars => TypeOK'
  BY Zenon, TypeStep
<1> QED
  BY <1>1, <1>2, PTL DEF MortalSpec

-----------------------------------------------------------------------------
(***************************************************************************)
(* The pid sets, whichever processes die.                                  *)
(***************************************************************************)

\* A step of one thread leaves the others where they are.
LEMMA OthersStay ==
  ASSUME TypeOK, NEW t \in Threads, BeginCall(t) \/ Continue(t),
         NEW u \in Threads, u # t
  PROVE  pc'[u] = pc[u] /\ my'[u] = my[u] /\ calls'[u] = calls[u]
<1>1. \A l, x : /\ Goto(t, l) => pc'[u] = pc[u]
                /\ SetMy(t, x) => my'[u] = my[u]
  BY Zenon DEF Goto, SetMy, TypeOK
<1>2. \A l : Restart(t, l) \/ NextSlot(t, l) \/ Return(t)
               => pc'[u] = pc[u] /\ my'[u] = my[u]
  BY Zenon, <1>1 DEF Restart, NextSlot, Return
<1>3. AttemptFailed(t) \/ Released(t) => pc'[u] = pc[u] /\ my'[u] = my[u]
  BY Zenon, <1>2 DEF AttemptFailed, Released
<1>4. BeginCall(t) => pc'[u] = pc[u] /\ my'[u] = my[u] /\ calls'[u] = calls[u]
  BY Zenon, <1>1 DEF BeginCall, RequestMemory, HoldMemory, Begin, TypeOK
<1>5. Continue(t) => calls' = calls
  BY ZenonT(60) DEF Continue, LockMtx, RequestRefused, FetchAddSeq, TryLockForWrite,
    TryLockForWriteFail, TryLockForRead, ReadCas, ReadCasFail, Insert, InsertCas,
    AnyAlive, AnyAliveReturns, Remove, Recover, WriteFinish, ReleaseMemory,
    ReleaseReadLock, ReleaseWriteLock, history
<1>6. Continue(t) => pc'[u] = pc[u] /\ my'[u] = my[u]
  BY ZenonT(60), <1>1, <1>2, <1>3
  DEF Continue, LockMtx, RequestRefused, FetchAddSeq, TryLockForWrite,
    TryLockForWriteFail, TryLockForRead, ReadCas, ReadCasFail, Insert, InsertCas,
    AnyAlive, AnyAliveReturns, Remove, Recover, WriteFinish, ReleaseMemory,
    ReleaseReadLock, ReleaseWriteLock
<1> QED
  BY Zenon, <1>4, <1>5, <1>6

\* A thread reaches the removal of a pid only by finding it dead.
LEMMA ToRemove ==
  ASSUME TypeOK, NEW t \in Threads, BeginCall(t) \/ Continue(t), pc'[t] = "remove"
  PROVE  my'[t].pid \in Procs \ running
<1>1. \A l, x : /\ Goto(t, l) => pc'[t] = l
                /\ SetMy(t, x) => my'[t] = x
  BY Zenon DEF Goto, SetMy, TypeOK
<1>2. \A l : Restart(t, l) \/ NextSlot(t, l) => pc'[t] = l
  BY Zenon, <1>1 DEF Restart, NextSlot
<1>3. Return(t) => pc'[t] = "idle"
  BY Zenon, <1>1 DEF Return
<1>4. ~AttemptFailed(t) /\ ~Released(t)
  BY Zenon, <1>2, <1>3 DEF AttemptFailed, Released
<1>5. AnyAlive(t)
  BY ZenonT(60), <1>1, <1>2, <1>3, <1>4
  DEF BeginCall, RequestMemory, HoldMemory, Begin, Continue, LockMtx, RequestRefused,
    FetchAddSeq, TryLockForWrite, TryLockForWriteFail, TryLockForRead, ReadCas,
    ReadCasFail, Insert, InsertCas, AnyAliveReturns, Remove, Recover,
    WriteFinish, ReleaseMemory, ReleaseReadLock, ReleaseWriteLock
<1>6. /\ my'[t] = [my[t] EXCEPT !.pid = Slot(t)]
      /\ Slot(t) # NoPid /\ Slot(t) \notin running
      /\ my[t].idx <= SetSize
  BY Zenon, <1>1, <1>2, <1>5 DEF AnyAlive, ProcDead
<1>7. Slot(t) \in Procs
  BY SMTT(60), <1>6, SizesAssumption DEF TypeOK, Locals, Slot, Slots
<1> QED
  BY <1>6, <1>7 DEF TypeOK, Locals

\* No step of a thread touches a slot that holds the pid of a living process.
LEMMA SlotsKept ==
  ASSUME TypeOK, VictimsAreDead, NEW t \in Threads, BeginCall(t) \/ Continue(t),
         NEW b \in Blocks, NEW i \in Slots, m_pidSet[b][i] \in running
  PROVE  m_pidSet'[b][i] = m_pidSet[b][i]
<1>1. CASE InsertCas(t)
  BY SMTT(60), <1>1, ProcsAssumption DEF InsertCas, TypeOK, Slot
<1>2. CASE Remove(t)
  <2>1. my[t].pid \notin running
    BY Zenon, <1>2 DEF Remove, VictimsAreDead
  <2> QED
    BY <1>2, <2>1 DEF Remove, TypeOK
<1>3. ~InsertCas(t) /\ ~Remove(t) => UNCHANGED m_pidSet
  BY Zenon DEF BeginCall, RequestMemory, HoldMemory, Begin, Continue, LockMtx,
    RequestRefused, FetchAddSeq, TryLockForWrite, TryLockForWriteFail, TryLockForRead,
    ReadCas, ReadCasFail, Insert, AnyAlive, AnyAliveReturns, Recover,
    WriteFinish, ReleaseMemory, ReleaseReadLock, ReleaseWriteLock, shm
<1> QED
  BY Zenon, <1>1, <1>2, <1>3

\* A thread begins to use a block only once its pid is in the set.
LEMMA ToHold ==
  ASSUME TypeOK, ProbesInRange,
         NEW t \in Threads, BeginCall(t) \/ Continue(t), pc'[t] = "hold"
  PROVE  \E i \in Slots : m_pidSet'[my'[t].blk][i] = ProcOf[t]
<1>1. \A l, x : /\ Goto(t, l) => pc'[t] = l
                /\ SetMy(t, x) => my'[t] = x
  BY Zenon DEF Goto, SetMy, TypeOK
<1>2. \A l : Restart(t, l) \/ NextSlot(t, l) => pc'[t] = l
  BY Zenon, <1>1 DEF Restart, NextSlot
<1>3. Return(t) => pc'[t] = "idle"
  BY Zenon, <1>1 DEF Return
<1>4. ~AttemptFailed(t) /\ ~Released(t)
  BY Zenon, <1>2, <1>3 DEF AttemptFailed, Released
<1>5. Insert(t) \/ InsertCas(t)
  BY ZenonT(60), <1>1, <1>2, <1>3, <1>4
  DEF BeginCall, RequestMemory, HoldMemory, Begin, Continue, LockMtx, RequestRefused,
    FetchAddSeq, TryLockForWrite, TryLockForWriteFail, TryLockForRead, ReadCas,
    ReadCasFail, AnyAlive, AnyAliveReturns, Remove, Recover,
    WriteFinish, ReleaseMemory, ReleaseReadLock, ReleaseWriteLock
<1>6. \A l : Restart(t, l) => my'[t].blk = my[t].blk
  BY SMTT(60), <1>1 DEF Restart, InCall
<1>7. CASE Insert(t)
  <2>1. Recorded(t) /\ my[t].idx <= SetSize /\ my'[t].blk = my[t].blk /\ m_pidSet' = m_pidSet
    BY Zenon, <1>1, <1>2, <1>3, <1>6, <1>7 DEF Insert, shm
  <2>2. my[t].idx \in Slots
    BY SMTT(60), <2>1, SizesAssumption DEF TypeOK, Locals, Slots
  <2> QED
    BY Zenon, <2>1, <2>2 DEF Recorded, Slot
<1>8. CASE InsertCas(t)
  <2>1. /\ my'[t].blk = my[t].blk
        /\ m_pidSet' = [m_pidSet EXCEPT ![my[t].blk][my[t].idx] = ProcOf[t]]
    BY Zenon, <1>1, <1>2, <1>6, <1>8 DEF InsertCas
  <2>2. my[t].idx \in Slots
    BY Zenon, <1>8 DEF InsertCas, ProbesInRange
  <2> QED
    BY Zenon, <2>1, <2>2 DEF TypeOK, Locals
<1> QED
  BY Zenon, <1>5, <1>7, <1>8

\* A thread reaches Insert's CAS only at a slot it has just probed.
LEMMA ToInsertCas ==
  ASSUME TypeOK, NEW t \in Threads, BeginCall(t) \/ Continue(t), pc'[t] = "ins_cas"
  PROVE  my'[t].idx \in Slots
<1>1. \A l : Goto(t, l) => pc'[t] = l
  BY Zenon DEF Goto, TypeOK
<1>2. \A l : Restart(t, l) \/ NextSlot(t, l) => pc'[t] = l
  BY Zenon, <1>1 DEF Restart, NextSlot
<1>3. Return(t) => pc'[t] = "idle"
  BY Zenon, <1>1 DEF Return
<1>4. ~AttemptFailed(t) /\ ~Released(t)
  BY Zenon, <1>2, <1>3 DEF AttemptFailed, Released
<1>5. Insert(t)
  BY ZenonT(60), <1>1, <1>2, <1>3, <1>4
  DEF BeginCall, RequestMemory, HoldMemory, Begin, Continue, LockMtx, RequestRefused,
    FetchAddSeq, TryLockForWrite, TryLockForWriteFail, TryLockForRead, ReadCas,
    ReadCasFail, InsertCas, AnyAlive, AnyAliveReturns, Remove, Recover,
    WriteFinish, ReleaseMemory, ReleaseReadLock, ReleaseWriteLock
<1>6. my' = my /\ my[t].idx <= SetSize
  BY Zenon, <1>1, <1>2, <1>3, <1>5 DEF Insert
<1> QED
  BY SMTT(60), <1>6, SizesAssumption DEF TypeOK, Locals, Slots

\* What the pid sets need of the threads, as an inductive invariant.
SetInv == TypeOK /\ VictimsAreDead /\ ProbesInRange /\ UsersAreRegistered

\* Insert, Remove and a death keep the pid sets right: a step keeps SetInv.
LEMMA SetStep ==
  ASSUME SetInv, [NextOrDie]_vars
  PROVE  SetInv'
<1> USE DEF SetInv
<1>1. TypeOK'
  BY Zenon, TypeStep
<1>2. ASSUME NEW t \in Threads, BeginCall(t) \/ Continue(t) PROVE SetInv'
  <2>0. running' = running
    BY Zenon, <1>2 DEF BeginCall, Continue
  <2>1. VictimsAreDead'
    <3> SUFFICES ASSUME NEW u \in Threads, pc'[u] = "remove"
                 PROVE  my'[u].pid \in Procs \ running
      BY Zenon, <2>0 DEF VictimsAreDead
    <3>1. CASE u = t
      BY Zenon, <1>2, <3>1, ToRemove
    <3>2. CASE u # t
      BY Zenon, <1>2, <3>2, OthersStay DEF VictimsAreDead
    <3> QED
      BY Zenon, <3>1, <3>2
  <2>2. ProbesInRange'
    <3> SUFFICES ASSUME NEW u \in Threads, pc'[u] = "ins_cas" PROVE my'[u].idx \in Slots
      BY Zenon DEF ProbesInRange
    <3>1. CASE u = t
      BY Zenon, <1>2, <3>1, ToInsertCas
    <3>2. CASE u # t
      BY Zenon, <1>2, <3>2, OthersStay DEF ProbesInRange
    <3> QED
      BY Zenon, <3>1, <3>2
  <2>3. UsersAreRegistered'
    <3> SUFFICES ASSUME NEW u \in Threads, ProcOf[u] \in running, pc'[u] = "hold"
                 PROVE  \E i \in Slots : m_pidSet'[my'[u].blk][i] = ProcOf[u]
      BY Zenon, <2>0 DEF UsersAreRegistered, Alive, Registered
    <3>1. CASE u = t
      BY Zenon, <1>2, <3>1, ToHold
    <3>2. CASE u # t
      <4>1. pc[u] = "hold" /\ my'[u] = my[u]
        BY Zenon, <1>2, <3>2, OthersStay
      <4>2. PICK i \in Slots : m_pidSet[my[u].blk][i] = ProcOf[u]
        BY Zenon, <4>1 DEF UsersAreRegistered, Alive, Registered
      <4>3. my[u].blk \in Blocks
        BY Zenon DEF TypeOK, Locals
      <4>4. m_pidSet'[my[u].blk][i] = m_pidSet[my[u].blk][i]
        BY Zenon, <1>2, <4>2, <4>3, SlotsKept
      <4> QED
        BY Zenon, <4>1, <4>2, <4>4
    <3> QED
      BY Zenon, <3>1, <3>2
  <2> QED
    BY Zenon, <1>1, <2>1, <2>2, <2>3
<1>3. ASSUME NEW p \in Procs, Die(p) PROVE SetInv'
  BY Zenon, <1>1, <1>3 DEF Die, shm, VictimsAreDead, ProbesInRange, UsersAreRegistered,
    Alive, Registered
<1>4. CASE UNCHANGED vars
  BY Zenon, <1>1, <1>4 DEF vars, shm, VictimsAreDead, ProbesInRange, UsersAreRegistered,
    Alive, Registered
<1> QED
  BY Zenon, <1>2, <1>3, <1>4 DEF NextOrDie, Next

\* SetInv holds in every behaviour, whichever processes die and whenever.
LEMMA SetInductive == MortalSpec => []SetInv
<1>1. Init => SetInv
  <2> SUFFICES ASSUME Init PROVE SetInv
    BY Zenon
  <2>1. TypeOK
    BY Zenon, InitType
  <2> QED
    BY Zenon, <2>1 DEF Init, SetInv, VictimsAreDead, ProbesInRange, UsersAreRegistered
<1>2. SetInv /\ [NextOrDie]_vars => SetInv'
  BY Zenon, SetStep
<1> QED
  BY <1>1, <1>2, PTL DEF MortalSpec

\* Whoever uses a block is in its pid set, whichever processes die.
THEOREM Registration == MortalSpec => []UsersAreRegistered
<1>1. SetInv => UsersAreRegistered
  BY Zenon DEF SetInv
<1> QED
  BY <1>1, SetInductive, PTL

\* AnyAlive never strikes out a living process, whichever processes die.
THEOREM LivingKept == MortalSpec => LivingStayRegistered
<1>1. SetInv /\ [NextOrDie]_vars =>
        [\A b \in Blocks, i \in Slots :
           m_pidSet[b][i] \in running => m_pidSet'[b][i] = m_pidSet[b][i]]_vars
  <2> SUFFICES ASSUME SetInv, NextOrDie
               PROVE  \A b \in Blocks, i \in Slots :
                        m_pidSet[b][i] \in running => m_pidSet'[b][i] = m_pidSet[b][i]
    BY Zenon
  <2>1. ASSUME NEW t \in Threads, BeginCall(t) \/ Continue(t)
        PROVE  \A b \in Blocks, i \in Slots :
                 m_pidSet[b][i] \in running => m_pidSet'[b][i] = m_pidSet[b][i]
    BY Zenon, <2>1, SlotsKept DEF SetInv
  <2>2. ASSUME NEW p \in Procs, Die(p) PROVE m_pidSet' = m_pidSet
    BY Zenon, <2>2 DEF Die, shm
  <2> QED
    BY Zenon, <2>1, <2>2 DEF NextOrDie, Next
<1> QED
  BY <1>1, SetInductive, PTL DEF MortalSpec, LivingStayRegistered

-----------------------------------------------------------------------------

\* Counting the grants of a block.
LEMMA GrantsCounting ==
  ASSUME NEW S \in SUBSET Calls, NEW g \in Calls
  PROVE  /\ Cardinality(S) \in Nat
         /\ Cardinality(S) = 0 <=> S = {}
         /\ g \in S => Cardinality(S \ {g}) = Cardinality(S) - 1
         /\ g \notin S => Cardinality(S \union {g}) = Cardinality(S) + 1
<1>1. IsFiniteSet(0 .. MaxCalls)
  BY FS_Interval, BoundsAssumption
<1>2. IsFiniteSet(Calls)
  BY ZenonT(60), <1>1, FS_Product, ThreadsAssumption DEF Calls
<1>3. IsFiniteSet(S)
  BY Zenon, <1>2, FS_Subset
<1> QED
  BY Zenon, <1>3, FS_CardinalityType, FS_EmptySet, FS_AddElement, FS_RemoveElement

\* The facts about one thread that the proofs below use again and again.
LEMMA ThreadFacts ==
  ASSUME IInv, NEW t \in Threads
  PROVE  /\ my[t] \in Locals /\ my[t].blk \in Blocks /\ Call(t) \in Calls
         /\ wGrants[my[t].blk] \in SUBSET Calls /\ rGrants[my[t].blk] \in SUBSET Calls
         /\ LockNum(t) \in Int /\ ~Recovering(t)
BY Zenon, GrantsType DEF IInv, TypeOK, Locals, LockNum, LocalsFit, Recovering

\* A thread that releases a read lock finds the count positive and exact.
LEMMA ReaderCounted ==
  ASSUME IInv, NEW t \in Threads, pc[t] \in {"rel_r", "sub_r"}
  PROVE  /\ Call(t) \in rGrants[my[t].blk] /\ wGrants[my[t].blk] = {}
         /\ LockNum(t) = Cardinality(rGrants[my[t].blk]) /\ LockNum(t) > 0
<1>1. my[t].op = "read"
  BY Zenon DEF IInv, LocalsFit
<1>2. Call(t) \in rGrants[my[t].blk]
  BY Zenon, <1>1 DEF IInv, CallsFit, Grants, HoldingLocations
<1>3. wGrants[my[t].blk] = {}
  BY Zenon, <1>2, ThreadFacts DEF IInv, GrantsExclude
<1>4. LockNum(t) = Cardinality(rGrants[my[t].blk])
  BY Zenon, <1>3, ThreadFacts DEF IInv, LockNumCounts, LockNum
<1>5. rGrants[my[t].blk] \in SUBSET Calls
  BY Zenon, ThreadFacts
<1>6. Cardinality(rGrants[my[t].blk]) \in Nat \ {0}
  BY ZenonT(60), <1>2, <1>5, GrantsCounting
<1> QED
  BY <1>2, <1>3, <1>4, <1>6

\* A thread that releases a write lock finds -1, and is the only holder.
LEMMA WriterCounted ==
  ASSUME IInv, NEW t \in Threads, pc[t] \in {"rel_w", "add_w"}
  PROVE  /\ wGrants[my[t].blk] = {Call(t)} /\ rGrants[my[t].blk] = {}
         /\ LockNum(t) = -1
<1>1. my[t].op = "write"
  BY Zenon DEF IInv, LocalsFit
<1>2. Call(t) \in wGrants[my[t].blk]
  BY Zenon, <1>1 DEF IInv, CallsFit, Grants, HoldingLocations
<1>3. wGrants[my[t].blk] = {Call(t)} /\ rGrants[my[t].blk] = {}
  BY Zenon, <1>2, ThreadFacts DEF IInv, GrantsExclude
<1> QED
  BY Zenon, <1>3, ThreadFacts DEF IInv, LockNumCounts, LockNum, WRITE_EXCLUSIVE

-----------------------------------------------------------------------------
(***************************************************************************)
(* The six effects a step of thread t can have on the grants.              *)
(***************************************************************************)

Begins(t) ==
  /\ UNCHANGED <<m_lockNum, wGrants, rGrants>>
  /\ pc[t] = "idle" /\ pc'[t] \in Waiting
  /\ calls' = [calls EXCEPT ![t] = @ + 1]

Quiet(t) ==
  /\ UNCHANGED <<m_lockNum, wGrants, rGrants, calls>>
  /\ pc'[t] \in Waiting => pc[t] \in Waiting
  /\ pc'[t] \in HoldingLocations =>
       pc[t] \in HoldingLocations /\ my'[t].op = my[t].op /\ my'[t].blk = my[t].blk

GrantsWrite(t) ==
  /\ pc[t] = "try" /\ pc'[t] = "insert" /\ m_lockNum[my[t].blk] = 0
  /\ my[t].op = "write" /\ my'[t].op = "write" /\ my'[t].blk = my[t].blk
  /\ m_lockNum' = [m_lockNum EXCEPT ![my[t].blk] = -1]
  /\ wGrants' = [wGrants EXCEPT ![my[t].blk] = @ \union {Call(t)}]
  /\ UNCHANGED <<rGrants, calls>>

GrantsRead(t) ==
  /\ pc[t] = "cas" /\ pc'[t] = "insert" /\ m_lockNum[my[t].blk] >= 0
  /\ my[t].op = "read" /\ my'[t].op = "read" /\ my'[t].blk = my[t].blk
  /\ m_lockNum' = [m_lockNum EXCEPT ![my[t].blk] = @ + 1]
  /\ rGrants' = [rGrants EXCEPT ![my[t].blk] = @ \union {Call(t)}]
  /\ UNCHANGED <<wGrants, calls>>

DropsRead(t) ==
  /\ pc[t] = "sub_r" /\ pc'[t] = "idle"
  /\ m_lockNum' = [m_lockNum EXCEPT ![my[t].blk] = @ - 1]
  /\ wGrants' = [wGrants EXCEPT ![my[t].blk] = @ \ {Call(t)}]
  /\ rGrants' = [rGrants EXCEPT ![my[t].blk] = @ \ {Call(t)}]
  /\ UNCHANGED calls

DropsWrite(t) ==
  /\ pc[t] = "add_w" /\ pc'[t] = "idle"
  /\ m_lockNum' = [m_lockNum EXCEPT ![my[t].blk] = @ + 1]
  /\ wGrants' = [wGrants EXCEPT ![my[t].blk] = @ \ {Call(t)}]
  /\ rGrants' = [rGrants EXCEPT ![my[t].blk] = @ \ {Call(t)}]
  /\ UNCHANGED calls

Effect(t) ==
  Begins(t) \/ Quiet(t) \/ GrantsWrite(t) \/ GrantsRead(t) \/ DropsRead(t) \/ DropsWrite(t)

\* Where the moves of a thread take it.
LEMMA Moves ==
  ASSUME TypeOK, NEW t \in Threads
  PROVE  /\ \A l : Goto(t, l) => pc'[t] = l
         /\ \A x : SetMy(t, x) => my'[t] = x
         /\ \A l : Restart(t, l) => /\ pc'[t] = l /\ my'[t] = InCall(my[t].op, my[t].blk)
                                    /\ my'[t].op = my[t].op /\ my'[t].blk = my[t].blk
         /\ \A l : NextSlot(t, l) =>
              /\ pc'[t] = l
              /\ my'[t] = [my[t] EXCEPT !.idx = @ + 1, !.pid = NoPid]
              /\ my'[t].op = my[t].op /\ my'[t].blk = my[t].blk /\ my'[t].pid = NoPid
         /\ Return(t) => pc'[t] = "idle" /\ my'[t] = InCall("none", 0)
<1>1. \A l : Goto(t, l) => pc'[t] = l
  BY Zenon DEF Goto, TypeOK
<1>2. \A x : SetMy(t, x) => my'[t] = x
  BY Zenon DEF SetMy, TypeOK
<1>3. \A l : Restart(t, l) => pc'[t] = l /\ my'[t] = InCall(my[t].op, my[t].blk)
  BY Zenon, <1>1, <1>2 DEF Restart
<1>4. /\ InCall(my[t].op, my[t].blk).op = my[t].op
      /\ InCall(my[t].op, my[t].blk).blk = my[t].blk
  BY Zenon DEF InCall
<1>5. \A l : NextSlot(t, l) => /\ pc'[t] = l
                               /\ my'[t] = [my[t] EXCEPT !.idx = @ + 1, !.pid = NoPid]
  BY Zenon, <1>1, <1>2 DEF NextSlot
<1>6. /\ [my[t] EXCEPT !.idx = @ + 1, !.pid = NoPid].op = my[t].op
      /\ [my[t] EXCEPT !.idx = @ + 1, !.pid = NoPid].blk = my[t].blk
      /\ [my[t] EXCEPT !.idx = @ + 1, !.pid = NoPid].pid = NoPid
  BY DEF TypeOK, Locals
<1>7. Return(t) => pc'[t] = "idle" /\ my'[t] = InCall("none", 0)
  BY Zenon, <1>1, <1>2 DEF Return
<1> QED
  BY ZenonT(60), <1>1, <1>2, <1>3, <1>4, <1>5, <1>6, <1>7

\* Every step of a thread has one of the six effects.
LEMMA Effects ==
  ASSUME IInv, NEW t \in Threads, BeginCall(t) \/ Continue(t)
  PROVE  Effect(t)
<1> USE DEF shm, history
<1>0. TypeOK /\ running = Procs /\ ~Recovering(t)
  BY Zenon, ThreadFacts DEF IInv
<1>1. CASE BeginCall(t)
  BY ZenonT(60), <1>0, <1>1, Moves
  DEF BeginCall, RequestMemory, HoldMemory, Begin, Begins, Effect, Waiting
<1>2. CASE LockMtx(t) \/ RequestRefused(t) \/ FetchAddSeq(t)
  BY ZenonT(60), <1>0, <1>2, Moves
  DEF LockMtx, RequestRefused, FetchAddSeq, Quiet, Effect, Waiting, HoldingLocations
<1>3. CASE TryLockForWrite(t)
  BY ZenonT(60), <1>0, <1>3, Moves
  DEF TryLockForWrite, Free, LockNum, GrantsWrite, Effect, RW_LOCK_FREE, WRITE_EXCLUSIVE
<1>4. CASE ReadCas(t)
  <2>1. m_lockNum[my[t].blk] = my[t].lockNum /\ my[t].lockNum >= 0 /\ my[t].op = "read"
    BY Zenon, <1>4 DEF ReadCas, Unchanged, LockNum, IInv, LocalsFit
  <2> QED
    BY ZenonT(60), <1>0, <1>4, <2>1, Moves DEF ReadCas, GrantsRead, Effect
<1>5. CASE TryLockForWriteFail(t) \/ TryLockForRead(t) \/ ReadCasFail(t)
  <2>1. AttemptFailed(t) => pc'[t] \in {"scan", "w_seq", "idle"}
    BY ZenonT(60), <1>0, Moves DEF AttemptFailed
  <2> QED
    BY ZenonT(60), <1>0, <1>5, <2>1, Moves
    DEF TryLockForWriteFail, TryLockForRead, ReadCasFail, Quiet, Effect, Waiting,
      HoldingLocations
<1>6. CASE Insert(t) \/ InsertCas(t)
  <2>1. /\ UNCHANGED <<m_lockNum, wGrants, rGrants, calls>>
        /\ pc[t] \in HoldingLocations
    BY Zenon, <1>6 DEF Insert, InsertCas, HoldingLocations
  <2>2. \/ pc'[t] = "idle"
        \/ /\ pc'[t] \in {"hold", "ins_cas", "insert"}
           /\ my'[t].op = my[t].op /\ my'[t].blk = my[t].blk
    <3>1. CASE Insert(t)
      BY ZenonT(60), <1>0, <3>1, Moves DEF Insert
    <3>2. CASE InsertCas(t)
      BY ZenonT(60), <1>0, <3>2, Moves DEF InsertCas
    <3> QED
      BY Zenon, <1>6, <3>1, <3>2
  <2> QED
    BY Zenon, <2>1, <2>2 DEF Quiet, Effect, Waiting, HoldingLocations
<1>7. CASE AnyAlive(t) \/ AnyAliveReturns(t)
  BY ZenonT(60), <1>0, <1>7, Moves
  DEF AnyAlive, AnyAliveReturns, Quiet, Effect, Waiting, HoldingLocations
<1>8. ~Remove(t) /\ ~Recover(t)
  BY Zenon DEF IInv, LocalsFit, Remove, Recover
<1>9. CASE WriteFinish(t) \/ ReleaseMemory(t)
  BY ZenonT(60), <1>0, <1>9, Moves
  DEF WriteFinish, ReleaseMemory, Quiet, Effect, Waiting, HoldingLocations
<1>10. CASE ReleaseReadLock(t)
  <2>1. pc[t] = "rel_r" => LockNum(t) > 0
    BY Zenon, ReaderCounted
  <2>2. CASE pc[t] = "rel_r"
    <3>1. LockNum(t) \in Int
      BY Zenon, ThreadFacts
    <3>2. Goto(t, "sub_r") /\ UNCHANGED <<m_lockNum, my, wGrants, rGrants, calls>>
      BY SMTT(60), <1>10, <2>1, <2>2, <3>1 DEF ReleaseReadLock
    <3> QED
      BY ZenonT(60), <1>0, <2>2, <3>2, Moves DEF Quiet, Effect, Waiting, HoldingLocations
  <2>3. CASE pc[t] = "sub_r"
    BY ZenonT(60), <1>0, <1>10, <2>3, Moves DEF ReleaseReadLock, Released, DropsRead, Effect
  <2> QED
    BY Zenon, <1>10, <2>2, <2>3 DEF ReleaseReadLock
<1>11. CASE ReleaseWriteLock(t)
  <2>1. pc[t] = "rel_w" => LockNum(t) = -1
    BY Zenon, WriterCounted
  <2>2. CASE pc[t] = "rel_w"
    <3>1. Goto(t, "add_w") /\ UNCHANGED <<m_lockNum, my, wGrants, rGrants, calls>>
      BY SMTT(60), <1>11, <2>1, <2>2 DEF ReleaseWriteLock
    <3> QED
      BY ZenonT(60), <1>0, <2>2, <3>1, Moves DEF Quiet, Effect, Waiting, HoldingLocations
  <2>3. CASE pc[t] = "add_w"
    BY ZenonT(60), <1>0, <1>11, <2>3, Moves DEF ReleaseWriteLock, Released, DropsWrite, Effect
  <2> QED
    BY Zenon, <1>11, <2>2, <2>3 DEF ReleaseWriteLock
<1> QED
  BY Zenon, <1>1, <1>2, <1>3, <1>4, <1>5, <1>6, <1>7, <1>8, <1>9, <1>10, <1>11 DEF Continue

\* A step keeps the locals of the thread that takes it in order.
LEMMA LocalsStep ==
  ASSUME IInv, NEW t \in Threads, BeginCall(t) \/ Continue(t)
  PROVE  LocalsFit'
<1> DEFINE Fit(u) ==
      /\ my[u].pid = NoPid /\ pc[u] \notin {"remove", "rec_r", "rec_w"}
      /\ pc[u] \in {"cas", "rel_r", "sub_r"} => my[u].op = "read"
      /\ pc[u] \in {"w_mtx", "w_seq", "rel_w", "add_w"} => my[u].op = "write"
      /\ pc[u] # "idle" => my[u].op \in {"read", "write"}
      /\ pc[u] = "cas" => my[u].lockNum >= 0
<1>0. /\ TypeOK /\ running = Procs /\ ~Recovering(t) /\ Fit(t)
      /\ my[t] \in Locals /\ LockNum(t) \in Int
  BY Zenon, ThreadFacts DEF IInv, LocalsFit
<1>1. ASSUME NEW l \in {"scan", "insert", "hold", "w_seq"}, Restart(t, l),
             my[t].op \in {"read", "write"}, l = "w_seq" => my[t].op = "write"
      PROVE  Fit(t)'
  <2>1. pc'[t] = l /\ my'[t] = InCall(my[t].op, my[t].blk)
    BY ZenonT(60), <1>0, <1>1, Moves
  <2> QED
    BY SMTT(60), <1>1, <2>1 DEF InCall
<1>2. ASSUME Return(t) PROVE Fit(t)'
  <2>1. pc'[t] = "idle" /\ my'[t] = InCall("none", 0)
    BY ZenonT(60), <1>0, <1>2, Moves
  <2> QED
    BY SMTT(60), <2>1 DEF InCall
<1>3. ASSUME NEW l \in {"scan", "insert"}, NextSlot(t, l), my[t].op \in {"read", "write"}
      PROVE  Fit(t)'
  <2>1. pc'[t] = l /\ my'[t].op = my[t].op /\ my'[t].pid = NoPid
    BY ZenonT(60), <1>0, <1>3, Moves
  <2> QED
    BY Zenon, <1>3, <2>1
<1>4. ASSUME NEW l \in {"w_seq", "ins_cas", "rel_r", "sub_r", "rel_w", "add_w"},
             Goto(t, l), UNCHANGED my, my[t].op \in {"read", "write"},
             l \in {"rel_r", "sub_r"} => my[t].op = "read",
             l \in {"w_seq", "rel_w", "add_w"} => my[t].op = "write"
      PROVE  Fit(t)'
  <2>1. pc'[t] = l /\ my'[t] = my[t]
    BY ZenonT(60), <1>0, <1>4, Moves
  <2> QED
    BY Zenon, <1>0, <1>4, <2>1
<1>5. ASSUME NEW x, NEW l \in {"w_mtx", "try", "cas", "scan"}, Goto(t, l), SetMy(t, x),
             x.pid = NoPid, x.op \in {"read", "write"}, l = "w_mtx" => x.op = "write",
             l = "cas" => x.op = "read" /\ x.lockNum >= 0
      PROVE  Fit(t)'
  <2>1. pc'[t] = l /\ my'[t] = x
    BY ZenonT(60), <1>0, <1>5, Moves
  <2> QED
    BY Zenon, <1>5, <2>1
<1>6. ASSUME AttemptFailed(t), pc[t] # "idle" PROVE Fit(t)'
  BY Zenon, <1>0, <1>1, <1>2, <1>6 DEF AttemptFailed
<1>7. Fit(t)'
  <2> HIDE DEF Fit
  <2>0. /\ pc[t] # "idle" => my[t].op \in {"read", "write"}
        /\ pc[t] \in {"w_mtx", "w_seq", "rel_w", "add_w"} => my[t].op = "write"
        /\ pc[t] \in {"cas", "rel_r", "sub_r"} => my[t].op = "read"
        /\ my[t].pid = NoPid
    BY Zenon, <1>0 DEF Fit
  <2>1. CASE RequestMemory(t)
    <3>1. InCall("write", 0).pid = NoPid /\ InCall("write", 0).op = "write"
      BY Zenon DEF InCall
    <3> QED
      BY Zenon, <1>5, <2>1, <3>1 DEF RequestMemory, Begin
  <2>2. CASE HoldMemory(t)
    <3>1. \A b : InCall("read", b).pid = NoPid /\ InCall("read", b).op = "read"
      BY Zenon DEF InCall
    <3>2. PICK b \in Blocks : Begin(t, InCall("read", b), "try")
      BY Zenon, <2>2 DEF HoldMemory
    <3> QED
      BY Zenon, <1>5, <3>1, <3>2 DEF Begin
  <2>3. CASE LockMtx(t) \/ RequestRefused(t)
    BY Zenon, <1>2, <1>4, <2>0, <2>3 DEF LockMtx, RequestRefused
  <2>4. CASE FetchAddSeq(t)
    <3>1. \A b : InCall("write", b).pid = NoPid /\ InCall("write", b).op = "write"
      BY Zenon DEF InCall
    <3> QED
      BY Zenon, <1>5, <2>4, <3>1 DEF FetchAddSeq
  <2>5. CASE TryLockForWrite(t) \/ ReadCas(t)
    BY Zenon, <1>1, <2>0, <2>5 DEF TryLockForWrite, ReadCas
  <2>6. CASE TryLockForWriteFail(t)
    BY Zenon, <1>6, <2>6 DEF TryLockForWriteFail
  <2>7. CASE TryLockForRead(t)
    <3> DEFINE r == [my[t] EXCEPT !.lockNum = LockNum(t)]
    <3>1. r.pid = my[t].pid /\ r.op = my[t].op /\ r.lockNum = LockNum(t)
      BY Zenon, <1>0 DEF Locals
    <3>2. CASE AttemptFailed(t)
      BY Zenon, <1>6, <2>7, <3>2 DEF TryLockForRead
    <3>3. CASE LockNum(t) >= 0 /\ SetMy(t, r) /\ Goto(t, "cas")
      <4> HIDE DEF r
      <4> QED BY Zenon, <1>5, <2>0, <2>7, <3>1, <3>3 DEF TryLockForRead
    <3> QED
      BY Zenon, <2>7, <3>2, <3>3 DEF TryLockForRead, RW_LOCK_FREE
  <2>8. CASE ReadCasFail(t)
    <3> DEFINE r == [my[t] EXCEPT !.try_times = @ + 1, !.lockNum = 0]
    <3>1. r.pid = my[t].pid /\ r.op = my[t].op
      BY Zenon, <1>0 DEF Locals
    <3>2. CASE AttemptFailed(t)
      BY Zenon, <1>6, <2>8, <3>2 DEF ReadCasFail
    <3>3. CASE SetMy(t, r) /\ Goto(t, "try")
      <4> HIDE DEF r
      <4> QED BY Zenon, <1>5, <2>0, <2>8, <3>1, <3>3 DEF ReadCasFail
    <3> QED
      BY Zenon, <2>8, <3>2, <3>3 DEF ReadCasFail
  <2>9. CASE Insert(t)
    BY ZenonT(60), <1>1, <1>2, <1>3, <1>4, <2>0, <2>9 DEF Insert
  <2>10. CASE InsertCas(t)
    BY Zenon, <1>1, <1>3, <2>0, <2>10 DEF InsertCas
  <2>11. CASE AnyAlive(t)
    <3> DEFINE r == [my[t] EXCEPT !.idx = @ + 1, !.alive = 1]
    <3>1. r.pid = my[t].pid /\ r.op = my[t].op
      BY Zenon, <1>0 DEF Locals
    <3>2. Slot(t) \in Procs \union {NoPid}
      BY SMTT(60), <1>0, <2>11, SizesAssumption DEF AnyAlive, Slot, Slots, TypeOK, Locals
    <3>3. CASE NextSlot(t, "scan")
      BY Zenon, <1>3, <2>0, <2>11, <3>3 DEF AnyAlive
    <3>4. CASE SetMy(t, r) /\ Goto(t, "scan")
      <4> HIDE DEF r
      <4> QED BY Zenon, <1>5, <2>0, <2>11, <3>1, <3>4 DEF AnyAlive
    <3> QED
      BY Zenon, <1>0, <2>11, <3>2, <3>3, <3>4 DEF AnyAlive, ProcDead
  <2>12. CASE AnyAliveReturns(t)
    <3> DEFINE r == [InCall(my[t].op, my[t].blk) EXCEPT !.attempt = 2]
    <3>1. r.pid = NoPid /\ r.op = my[t].op
      BY Zenon DEF InCall
    <3>2. CASE SetMy(t, r) /\ Goto(t, "try")
      <4> HIDE DEF r
      <4> QED BY Zenon, <1>5, <2>0, <2>12, <3>1, <3>2 DEF AnyAliveReturns
    <3> QED
      BY Zenon, <1>1, <1>2, <2>0, <2>12, <3>2 DEF AnyAliveReturns
  <2>13. ~Remove(t) /\ ~Recover(t)
    BY Zenon, <1>0 DEF Fit, Remove, Recover
  <2>14. CASE WriteFinish(t) \/ ReleaseMemory(t)
    BY Zenon, <1>4, <2>0, <2>14 DEF WriteFinish, ReleaseMemory
  <2>15. CASE ReleaseReadLock(t) \/ ReleaseWriteLock(t)
    BY ZenonT(60), <1>0, <1>2, <1>4, <2>0, <2>15 DEF ReleaseReadLock, ReleaseWriteLock, Released
  <2> QED
    BY ZenonT(60), <2>1, <2>2, <2>3, <2>4, <2>5, <2>6, <2>7, <2>8, <2>9, <2>10, <2>11, <2>12,
      <2>13, <2>14, <2>15 DEF BeginCall, Continue
<1>8. ASSUME NEW u \in Threads, u # t PROVE Fit(u)'
  <2>1. pc'[u] = pc[u] /\ my'[u] = my[u]
    BY Zenon, <1>0, <1>8, OthersStay
  <2>2. Fit(u)
    BY Zenon DEF IInv, LocalsFit
  <2> QED
    BY Zenon, <2>1, <2>2
<1> QED
  BY Zenon, <1>7, <1>8 DEF LocalsFit


-----------------------------------------------------------------------------
(***************************************************************************)
(* Each of the six effects keeps the part of IInv that speaks of the       *)
(* grants and of the lock words; so no buffer is ever granted to a writer  *)
(* and to somebody else.                                                   *)
(***************************************************************************)

\* The other threads stay where they are, in calls that are not this one.
LEMMA OtherCalls ==
  ASSUME IInv, NEW t \in Threads, BeginCall(t) \/ Continue(t), Effect(t),
         NEW u \in Threads, u # t
  PROVE  /\ pc'[u] = pc[u] /\ my'[u] = my[u] /\ Call(u)' = Call(u)
         /\ Call(u) # Call(t) /\ Call(u) \in Calls
<1>1. pc'[u] = pc[u] /\ my'[u] = my[u]
  BY Zenon, OthersStay DEF IInv
<1>2. calls'[u] = calls[u]
  BY Zenon DEF IInv, TypeOK, Effect, Begins, Quiet, GrantsWrite, GrantsRead, DropsRead, DropsWrite
<1> QED
  BY Zenon, <1>1, <1>2, ThreadFacts DEF Call

\* Beginning a call: its number is new, so no grant was made to it.
LEMMA BeginsKeeps ==
  ASSUME IInv, NEW t \in Threads, BeginCall(t) \/ Continue(t), Begins(t)
  PROVE  CallsFit' /\ GrantsFit' /\ GrantsExclude' /\ LockNumCounts'
<1>0. /\ Effect(t) /\ calls \in [Threads -> 0 .. MaxCalls] /\ MaxCalls \in Nat
      /\ \A b \in Blocks : wGrants[b] \in SUBSET Calls /\ rGrants[b] \in SUBSET Calls
      /\ calls'[t] = calls[t] + 1 /\ \A u \in Threads : u # t => calls'[u] = calls[u]
      /\ wGrants' = wGrants /\ rGrants' = rGrants /\ m_lockNum' = m_lockNum
      /\ pc'[t] \in Waiting
  BY Zenon, BoundsAssumption DEF IInv, TypeOK, Begins, Effect
<1>1. GrantsFit'
  BY <1>0 DEF IInv, GrantsFit, Calls
<1>2. \A b \in Blocks : Call(t)' \notin wGrants[b] /\ Call(t)' \notin rGrants[b]
  BY <1>0 DEF IInv, GrantsFit, Calls, Call
<1>3. CallsFit'
  <2> SUFFICES ASSUME NEW u \in Threads
               PROVE  /\ pc'[u] \in HoldingLocations => Call(u)' \in Grants(u)'
                      /\ pc'[u] \in Waiting =>
                           \A b \in Blocks : Call(u)' \notin wGrants[b] /\ Call(u)' \notin rGrants[b]
    BY Zenon, <1>0 DEF CallsFit
  <2>1. CASE u = t
    BY Zenon, <1>0, <1>2, <2>1 DEF Waiting, HoldingLocations
  <2>2. CASE u # t
    BY SMTT(60), <1>0, <2>2, OtherCalls DEF IInv, CallsFit, Grants
  <2> QED
    BY Zenon, <2>1, <2>2
<1> QED
  BY Zenon, <1>0, <1>1, <1>3 DEF IInv, GrantsExclude, LockNumCounts

\* A step that grants or drops only the call of its own thread leaves the claims
\* of the others as they were.
LEMMA OthersFit ==
  ASSUME IInv, NEW t \in Threads, BeginCall(t) \/ Continue(t), Effect(t), calls' = calls,
         NEW u \in Threads, u # t,
         \A b \in Blocks : \A g \in Calls \ {Call(t)} :
           /\ g \in wGrants'[b] <=> g \in wGrants[b]
           /\ g \in rGrants'[b] <=> g \in rGrants[b]
  PROVE  /\ pc'[u] \in HoldingLocations => Call(u)' \in Grants(u)'
         /\ pc'[u] \in Waiting =>
              \A b \in Blocks : Call(u)' \notin wGrants'[b] /\ Call(u)' \notin rGrants'[b]
<1>1. my[u].blk \in Blocks /\ Call(u) \in Calls
  BY Zenon, ThreadFacts
<1>2. pc'[u] = pc[u] /\ my'[u] = my[u] /\ Call(u)' = Call(u) /\ Call(u) # Call(t)
  BY Zenon, OtherCalls
<1>3. \A b \in Blocks : /\ Call(u) \in wGrants'[b] <=> Call(u) \in wGrants[b]
                        /\ Call(u) \in rGrants'[b] <=> Call(u) \in rGrants[b]
  BY Zenon, <1>1, <1>2
<1>4. /\ pc[u] \in HoldingLocations => Call(u) \in Grants(u)
      /\ pc[u] \in Waiting =>
           \A b \in Blocks : Call(u) \notin wGrants[b] /\ Call(u) \notin rGrants[b]
  BY Zenon DEF IInv, CallsFit
<1>5. Call(u)' \in Grants(u)' <=> Call(u) \in Grants(u)
  BY Zenon, <1>1, <1>2, <1>3 DEF Grants
<1> QED
  BY Zenon, <1>2, <1>3, <1>4, <1>5

\* A step that leaves the lock words alone.
LEMMA QuietKeeps ==
  ASSUME IInv, NEW t \in Threads, BeginCall(t) \/ Continue(t), Quiet(t)
  PROVE  CallsFit' /\ GrantsFit' /\ GrantsExclude' /\ LockNumCounts'
<1>0. /\ Effect(t) /\ calls' = calls
      /\ wGrants' = wGrants /\ rGrants' = rGrants /\ m_lockNum' = m_lockNum
      /\ Call(t)' = Call(t)
  BY Zenon DEF Quiet, Effect, Call
<1>3. CallsFit'
  <2> SUFFICES ASSUME NEW u \in Threads
               PROVE  /\ pc'[u] \in HoldingLocations => Call(u)' \in Grants(u)'
                      /\ pc'[u] \in Waiting =>
                           \A b \in Blocks : Call(u)' \notin wGrants[b] /\ Call(u)' \notin rGrants[b]
    BY Zenon, <1>0 DEF CallsFit
  <2>1. CASE u = t
    BY Zenon, <1>0, <2>1 DEF IInv, CallsFit, Grants, Quiet
  <2>2. CASE u # t
    BY Zenon, <1>0, <2>2, OthersFit
  <2> QED
    BY Zenon, <2>1, <2>2
<1> QED
  BY Zenon, <1>0, <1>3 DEF IInv, GrantsFit, GrantsExclude, LockNumCounts

\* TryLockForWrite's CAS from 0: nobody was granted the block.
LEMMA GrantsWriteKeeps ==
  ASSUME IInv, NEW t \in Threads, BeginCall(t) \/ Continue(t), GrantsWrite(t)
  PROVE  /\ CallsFit' /\ GrantsFit' /\ GrantsExclude' /\ LockNumCounts'
         /\ wGrants[my[t].blk] = {} /\ rGrants[my[t].blk] = {}
<1> DEFINE c == my[t].blk
<1>0. /\ Effect(t) /\ calls' = calls /\ Call(t)' = Call(t) /\ c \in Blocks /\ Call(t) \in Calls
      /\ rGrants' = rGrants /\ my'[t].blk = c /\ pc'[t] = "insert"
      /\ my'[t].op = "write" /\ Call(t) = <<t, calls[t]>> /\ calls[t] \in Int
  <2>1. Effect(t)
    BY Zenon DEF Effect
  <2>2. calls[t] \in Int
    BY SMTT(60) DEF IInv, TypeOK
  <2>3. /\ calls' = calls /\ rGrants' = rGrants /\ my'[t].blk = c /\ pc'[t] = "insert"
        /\ my'[t].op = "write"
    BY Zenon DEF GrantsWrite
  <2> QED
    BY Zenon, <2>1, <2>2, <2>3, ThreadFacts DEF Call
<1>1. wGrants[c] = {} /\ rGrants[c] = {}
  <2>1. wGrants[c] = {} /\ Cardinality(rGrants[c]) = 0
    BY SMTT(60), <1>0 DEF IInv, LockNumCounts, GrantsWrite, WRITE_EXCLUSIVE
  <2>2. rGrants[c] \in SUBSET Calls
    BY Zenon, ThreadFacts
  <2> QED
    BY ZenonT(60), <1>0, <2>1, <2>2, GrantsCounting
<1>2. \A b \in Blocks : wGrants'[b] = IF b = c THEN {Call(t)} ELSE wGrants[b]
  BY ZenonT(60), <1>0, <1>1 DEF GrantsWrite, IInv, TypeOK
<1>3. \A b \in Blocks : m_lockNum'[b] = IF b = c THEN -1 ELSE m_lockNum[b]
  BY Zenon, <1>0 DEF GrantsWrite, IInv, TypeOK
<1>4. CallsFit'
  <2> SUFFICES ASSUME NEW u \in Threads
               PROVE  /\ pc'[u] \in HoldingLocations => Call(u)' \in Grants(u)'
                      /\ pc'[u] \in Waiting =>
                           \A b \in Blocks : Call(u)' \notin wGrants'[b] /\ Call(u)' \notin rGrants'[b]
    BY Zenon DEF CallsFit
  <2>1. CASE u = t
    BY Zenon, <1>0, <1>2, <2>1 DEF Grants, Waiting
  <2>2. CASE u # t
    <3>1. \A b \in Blocks : \A g \in Calls \ {Call(t)} :
            /\ g \in wGrants'[b] <=> g \in wGrants[b]
            /\ g \in rGrants'[b] <=> g \in rGrants[b]
      BY Zenon, <1>0, <1>1, <1>2
    <3> QED
      BY Zenon, <1>0, <2>2, <3>1, OthersFit
  <2> QED
    BY Zenon, <2>1, <2>2
<1>5. GrantsFit'
  BY SMTT(60), <1>0, <1>2 DEF IInv, GrantsFit
<1>6. GrantsExclude'
  BY SMTT(60), <1>0, <1>1, <1>2 DEF IInv, GrantsExclude
<1>7. LockNumCounts'
  <2> SUFFICES ASSUME NEW b \in Blocks
               PROVE  m_lockNum'[b] = IF wGrants'[b] # {} THEN -1 ELSE Cardinality(rGrants'[b])
    BY Zenon DEF LockNumCounts, WRITE_EXCLUSIVE
  <2>1. CASE b = c
    BY Zenon, <1>0, <1>2, <1>3, <2>1
  <2>2. CASE b # c
    <3>1. m_lockNum[b] = IF wGrants[b] # {} THEN -1 ELSE Cardinality(rGrants[b])
      BY Zenon DEF IInv, LockNumCounts, WRITE_EXCLUSIVE
    <3> QED
      BY Zenon, <1>0, <1>2, <1>3, <2>2, <3>1
  <2> QED
    BY Zenon, <2>1, <2>2
<1> QED
  BY Zenon, <1>1, <1>4, <1>5, <1>6, <1>7

\* TryLockForRead's CAS from a count that is not negative: no writer is inside.
LEMMA GrantsReadKeeps ==
  ASSUME IInv, NEW t \in Threads, BeginCall(t) \/ Continue(t), GrantsRead(t)
  PROVE  /\ CallsFit' /\ GrantsFit' /\ GrantsExclude' /\ LockNumCounts'
         /\ wGrants[my[t].blk] = {} /\ Call(t) \notin rGrants[my[t].blk]
<1> DEFINE c == my[t].blk
<1>0. /\ Effect(t) /\ calls' = calls /\ Call(t)' = Call(t) /\ c \in Blocks /\ Call(t) \in Calls
      /\ wGrants' = wGrants /\ my'[t].blk = c /\ pc'[t] = "insert"
      /\ my'[t].op = "read" /\ Call(t) = <<t, calls[t]>> /\ calls[t] \in Int
      /\ rGrants[c] \in SUBSET Calls
  <2>1. Effect(t)
    BY Zenon DEF Effect
  <2>2. calls[t] \in Int
    BY SMTT(60) DEF IInv, TypeOK
  <2>3. /\ calls' = calls /\ wGrants' = wGrants /\ my'[t].blk = c /\ pc'[t] = "insert"
        /\ my'[t].op = "read"
    BY Zenon DEF GrantsRead
  <2> QED
    BY Zenon, <2>1, <2>2, <2>3, ThreadFacts DEF Call
<1>1. wGrants[c] = {} /\ m_lockNum[c] = Cardinality(rGrants[c])
  <2>1. m_lockNum[c] >= 0
    BY Zenon DEF GrantsRead
  <2>2. m_lockNum[c] = IF wGrants[c] # {} THEN -1 ELSE Cardinality(rGrants[c])
    BY Zenon, <1>0 DEF IInv, LockNumCounts, WRITE_EXCLUSIVE
  <2> QED
    BY SMTT(60), <2>1, <2>2
<1>2. \A b \in Blocks : rGrants'[b] = IF b = c THEN rGrants[c] \union {Call(t)} ELSE rGrants[b]
  BY Zenon, <1>0 DEF GrantsRead, IInv, TypeOK
<1>3. \A b \in Blocks : m_lockNum'[b] = IF b = c THEN m_lockNum[c] + 1 ELSE m_lockNum[b]
  BY Zenon, <1>0 DEF GrantsRead, IInv, TypeOK
<1>4. CallsFit'
  <2> SUFFICES ASSUME NEW u \in Threads
               PROVE  /\ pc'[u] \in HoldingLocations => Call(u)' \in Grants(u)'
                      /\ pc'[u] \in Waiting =>
                           \A b \in Blocks : Call(u)' \notin wGrants'[b] /\ Call(u)' \notin rGrants'[b]
    BY ZenonT(60) DEF CallsFit
  <2>1. CASE u = t
    <3>1. Call(t) \in rGrants'[c]
      BY ZenonT(60), <1>0, <1>2
    <3>2. Grants(t)' = rGrants'[c]
      BY ZenonT(60), <1>0 DEF Grants
    <3>3. pc'[t] \notin Waiting
      BY Zenon, <1>0 DEF Waiting
    <3> QED
      BY ZenonT(60), <1>0, <2>1, <3>1, <3>2, <3>3
  <2>2. CASE u # t
    <3>1. \A b \in Blocks : \A g \in Calls \ {Call(t)} :
            /\ g \in wGrants'[b] <=> g \in wGrants[b]
            /\ g \in rGrants'[b] <=> g \in rGrants[b]
      BY ZenonT(60), <1>0, <1>2
    <3>2. Effect(t) /\ calls' = calls
      BY Zenon, <1>0
    <3> QED
      BY ZenonT(60), <2>2, <3>1, <3>2, OthersFit
  <2> QED
    BY Zenon, <2>1, <2>2
<1>5. GrantsFit'
  BY SMTT(60), <1>0, <1>2 DEF IInv, GrantsFit
<1>6. GrantsExclude'
  BY Zenon, <1>0, <1>1, <1>2 DEF IInv, GrantsExclude
<1>7. Call(t) \notin rGrants[c]
  BY Zenon, <1>0 DEF IInv, CallsFit, GrantsRead, Waiting
<1>8. Cardinality(rGrants[c] \union {Call(t)}) = m_lockNum[c] + 1
  <2>1. Cardinality(rGrants[c] \union {Call(t)}) = Cardinality(rGrants[c]) + 1
    BY Zenon, <1>0, <1>7, GrantsCounting
  <2> QED
    BY Zenon, <1>1, <2>1
<1>9. LockNumCounts'
  <2> SUFFICES ASSUME NEW b \in Blocks
               PROVE  m_lockNum'[b] = IF wGrants'[b] # {} THEN -1 ELSE Cardinality(rGrants'[b])
    BY ZenonT(60) DEF LockNumCounts, WRITE_EXCLUSIVE
  <2>1. CASE b = c
    BY Zenon, <1>0, <1>1, <1>2, <1>3, <1>8, <2>1
  <2>2. CASE b # c
    <3>1. m_lockNum[b] = IF wGrants[b] # {} THEN -1 ELSE Cardinality(rGrants[b])
      BY Zenon DEF IInv, LockNumCounts, WRITE_EXCLUSIVE
    <3> QED
      BY Zenon, <1>0, <1>2, <1>3, <2>2, <3>1
  <2> QED
    BY Zenon, <2>1, <2>2
<1> QED
  BY Zenon, <1>1, <1>4, <1>5, <1>6, <1>7, <1>9

\* Granting adds the call to the grants of its block, and to no other.
LEMMA GrantsGrow ==
  ASSUME IInv, NEW t \in Threads, GrantsWrite(t) \/ GrantsRead(t), NEW b \in Blocks
  PROVE  /\ wGrants'[b] \subseteq wGrants[b] \union {Call(t)}
         /\ rGrants'[b] \subseteq rGrants[b] \union {Call(t)}
         /\ b # my[t].blk => wGrants'[b] = wGrants[b] /\ rGrants'[b] = rGrants[b]
BY ZenonT(60) DEF GrantsWrite, GrantsRead, IInv, TypeOK

\* The last instruction of a release takes the call out of its block's grants.
LEMMA GrantsShrink ==
  ASSUME IInv, NEW t \in Threads, DropsRead(t) \/ DropsWrite(t), NEW b \in Blocks
  PROVE  /\ wGrants'[b] = IF b = my[t].blk THEN wGrants[b] \ {Call(t)} ELSE wGrants[b]
         /\ rGrants'[b] = IF b = my[t].blk THEN rGrants[b] \ {Call(t)} ELSE rGrants[b]
BY ZenonT(60) DEF DropsRead, DropsWrite, IInv, TypeOK

\* So what it leaves still fits the locks and the places of the threads.
LEMMA DropsKeeps ==
  ASSUME IInv, NEW t \in Threads, BeginCall(t) \/ Continue(t), DropsRead(t) \/ DropsWrite(t)
  PROVE  CallsFit' /\ GrantsFit' /\ GrantsExclude' /\ LockNumCounts'
<1> DEFINE c == my[t].blk
<1>0. /\ Effect(t) /\ calls' = calls /\ c \in Blocks /\ Call(t) \in Calls /\ pc'[t] = "idle"
      /\ rGrants[c] \in SUBSET Calls
  BY ZenonT(60), ThreadFacts DEF DropsRead, DropsWrite, Effect
<1>1. \A b \in Blocks :
        /\ wGrants'[b] = IF b = c THEN wGrants[c] \ {Call(t)} ELSE wGrants[b]
        /\ rGrants'[b] = IF b = c THEN rGrants[c] \ {Call(t)} ELSE rGrants[b]
  BY Zenon, GrantsShrink
<1>2. CallsFit'
  <2> SUFFICES ASSUME NEW u \in Threads
               PROVE  /\ pc'[u] \in HoldingLocations => Call(u)' \in Grants(u)'
                      /\ pc'[u] \in Waiting =>
                           \A b \in Blocks : Call(u)' \notin wGrants'[b] /\ Call(u)' \notin rGrants'[b]
    BY Zenon DEF CallsFit
  <2>1. CASE u = t
    BY ZenonT(60), <1>0, <2>1 DEF HoldingLocations, Waiting
  <2>2. CASE u # t
    <3>1. \A b \in Blocks : \A g \in Calls \ {Call(t)} :
            /\ g \in wGrants'[b] <=> g \in wGrants[b]
            /\ g \in rGrants'[b] <=> g \in rGrants[b]
      BY Zenon, <1>1
    <3> QED
      BY Zenon, <1>0, <2>2, <3>1, OthersFit
  <2> QED
    BY Zenon, <2>1, <2>2
<1>3. GrantsFit' /\ GrantsExclude'
  <2>1. \A b \in Blocks : wGrants'[b] \subseteq wGrants[b] /\ rGrants'[b] \subseteq rGrants[b]
    BY Zenon, <1>1
  <2>2. GrantsFit'
    BY Zenon, <1>0, <2>1 DEF IInv, GrantsFit
  <2>3. GrantsExclude'
    BY SMTT(60), <2>1 DEF IInv, GrantsExclude
  <2> QED
    BY Zenon, <2>2, <2>3
<1>4. CASE DropsRead(t)
  <2>1. /\ Call(t) \in rGrants[c] /\ wGrants[c] = {}
        /\ m_lockNum[c] = Cardinality(rGrants[c])
    BY Zenon, <1>4, ReaderCounted DEF DropsRead, LockNum
  <2>2. Cardinality(rGrants[c] \ {Call(t)}) = m_lockNum[c] - 1
    <3>1. Cardinality(rGrants[c] \ {Call(t)}) = Cardinality(rGrants[c]) - 1
      BY Zenon, <1>0, <2>1, GrantsCounting
    <3> QED
      BY Zenon, <2>1, <3>1
  <2>3. \A b \in Blocks : m_lockNum'[b] = IF b = c THEN m_lockNum[c] - 1 ELSE m_lockNum[b]
    BY Zenon, <1>0, <1>4 DEF DropsRead, IInv, TypeOK
  <2>4. LockNumCounts'
    <3> SUFFICES ASSUME NEW b \in Blocks
                 PROVE  m_lockNum'[b] = IF wGrants'[b] # {} THEN -1 ELSE Cardinality(rGrants'[b])
      BY Zenon DEF LockNumCounts, WRITE_EXCLUSIVE
    <3>1. CASE b = c
      BY Zenon, <1>0, <1>1, <2>1, <2>2, <2>3, <3>1
    <3>2. CASE b # c
      <4>1. m_lockNum[b] = IF wGrants[b] # {} THEN -1 ELSE Cardinality(rGrants[b])
        BY Zenon DEF IInv, LockNumCounts, WRITE_EXCLUSIVE
      <4> QED
        BY Zenon, <1>1, <2>3, <3>2, <4>1
    <3> QED
      BY Zenon, <3>1, <3>2
  <2> QED
    BY Zenon, <1>2, <1>3, <2>4
<1>5. CASE DropsWrite(t)
  <2>1. wGrants[c] = {Call(t)} /\ rGrants[c] = {} /\ m_lockNum[c] = -1
    BY Zenon, <1>5, WriterCounted DEF DropsWrite, LockNum
  <2>2. Cardinality(rGrants[c]) = 0
    BY ZenonT(60), <1>0, <2>1, GrantsCounting
  <2>3. \A b \in Blocks : m_lockNum'[b] = IF b = c THEN 0 ELSE m_lockNum[b]
    BY SMTT(60), <1>0, <1>5, <2>1 DEF DropsWrite, IInv, TypeOK
  <2>4. LockNumCounts'
    <3> SUFFICES ASSUME NEW b \in Blocks
                 PROVE  m_lockNum'[b] = IF wGrants'[b] # {} THEN -1 ELSE Cardinality(rGrants'[b])
      BY Zenon DEF LockNumCounts, WRITE_EXCLUSIVE
    <3>1. CASE b = c
      <4>1. wGrants'[c] = {Call(t)} \ {Call(t)} /\ rGrants'[c] = {} \ {Call(t)}
        BY Zenon, <1>0, <1>1, <2>1
      <4>2. wGrants'[c] = {} /\ rGrants'[c] = {}
        BY Zenon, <4>1
      <4>3. m_lockNum'[c] = 0
        BY Zenon, <1>0, <2>3
      <4>4. Cardinality({}) = 0
        BY Zenon, <2>1, <2>2
      <4> QED
        BY ZenonT(60), <3>1, <4>2, <4>3, <4>4
    <3>2. CASE b # c
      <4>1. m_lockNum[b] = IF wGrants[b] # {} THEN -1 ELSE Cardinality(rGrants[b])
        BY Zenon DEF IInv, LockNumCounts, WRITE_EXCLUSIVE
      <4> QED
        BY Zenon, <1>1, <2>3, <3>2, <4>1
    <3> QED
      BY Zenon, <3>1, <3>2
  <2> QED
    BY ZenonT(60), <1>2, <1>3, <2>4
<1> QED
  BY Zenon, <1>4, <1>5

-----------------------------------------------------------------------------

\* IInv is an inductive invariant of the blocks as long as no process dies.
THEOREM Inductive == Spec => []IInv
<1>1. Init => IInv
  <2> SUFFICES ASSUME Init PROVE IInv
    BY Zenon
  <2>1. TypeOK
    BY Zenon, InitType
  <2>2. InCall("none", 0).pid = NoPid
    BY Zenon DEF InCall
  <2>3. LocalsFit
    BY Zenon, <2>2 DEF Init, LocalsFit
  <2>4. CallsFit
    BY Zenon DEF Init, CallsFit, HoldingLocations, Waiting
  <2>5. LockNumCounts
    BY Zenon, FS_EmptySet DEF Init, LockNumCounts, RW_LOCK_FREE
  <2> QED
    BY ZenonT(60), <2>1, <2>3, <2>4, <2>5 DEF Init, IInv, GrantsFit, GrantsExclude
<1>2. IInv /\ [Next]_vars => IInv'
  <2> SUFFICES ASSUME IInv, [Next]_vars PROVE IInv'
    BY Zenon
  <2>1. CASE UNCHANGED vars
    BY ZenonT(60), <2>1 DEF vars, shm, history, IInv, TypeOK, LocalsFit, CallsFit, Call, Grants,
      GrantsFit, GrantsExclude, LockNumCounts
  <2>2. ASSUME NEW t \in Threads, BeginCall(t) \/ Continue(t) PROVE IInv'
    <3>1. TypeOK'
      BY Zenon, <2>2, TypeStep DEF IInv, Next, NextOrDie
    <3>2. running' = Procs
      BY Zenon, <2>2 DEF IInv, BeginCall, Continue
    <3>3. LocalsFit'
      BY Zenon, <2>2, LocalsStep
    <3>4. CallsFit' /\ GrantsFit' /\ GrantsExclude' /\ LockNumCounts'
      <4>1. CASE Begins(t)
        BY Zenon, <2>2, <4>1, BeginsKeeps
      <4>2. CASE Quiet(t)
        BY Zenon, <2>2, <4>2, QuietKeeps
      <4>3. CASE GrantsWrite(t)
        BY Zenon, <2>2, <4>3, GrantsWriteKeeps
      <4>4. CASE GrantsRead(t)
        BY Zenon, <2>2, <4>4, GrantsReadKeeps
      <4>5. CASE DropsRead(t) \/ DropsWrite(t)
        BY Zenon, <2>2, <4>5, DropsKeeps
      <4>6. Effect(t)
        BY Zenon, <2>2, Effects
      <4> QED
        BY ZenonT(60), <4>1, <4>2, <4>3, <4>4, <4>5, <4>6 DEF Effect
    <3> QED
      BY ZenonT(60), <3>1, <3>2, <3>3, <3>4 DEF IInv
  <2> QED
    BY Zenon, <2>1, <2>2 DEF Next
<1> QED
  BY <1>1, <1>2, PTL DEF Spec

\* While a client writes into a block's buffer nobody else uses it: for any
\* number of processes, threads and blocks, as long as no process dies.
THEOREM Exclusion == Spec => []MutualExclusion
<1>1. IInv => MutualExclusion
  <2> SUFFICES ASSUME IInv, NEW b \in Blocks, NEW w \in Users(b, "write"),
                      NEW u \in Users(b, "write") \union Users(b, "read")
               PROVE  u = w /\ u \notin Users(b, "read")
    BY DEF MutualExclusion, Users
  <2>1. /\ w \in Threads /\ my[w].blk = b /\ my[w].op = "write" /\ pc[w] = "hold"
        /\ u \in Threads /\ my[u].blk = b /\ pc[u] = "hold"
    BY Zenon DEF Users
  <2>2. Call(w) \in wGrants[b] /\ Call(u) \in wGrants[b] \union rGrants[b]
    BY Zenon, <2>1 DEF IInv, CallsFit, HoldingLocations, Grants
  <2>3. wGrants[b] = {Call(w)} /\ rGrants[b] = {}
    BY Zenon, <2>2 DEF IInv, GrantsExclude
  <2>4. Call(u) = Call(w) /\ Call(u) \notin rGrants[b]
    BY Zenon, <2>2, <2>3
  <2>5. u = w
    BY Zenon, <2>4 DEF Call
  <2>6. u \in Users(b, "read") => Call(u) \in rGrants[b]
    BY Zenon, <2>1 DEF Users, IInv, CallsFit, HoldingLocations, Grants
  <2> QED
    BY Zenon, <2>4, <2>5, <2>6
<1> QED
  BY <1>1, Inductive, PTL

\* m_lockNum of every block is exactly what was granted and not given back.
THEOREM CountersExact == Spec => []LockNumCounts
<1>1. IInv => LockNumCounts
  BY Zenon DEF IInv
<1> QED
  BY <1>1, Inductive, PTL

\* A step of the blocks is a step of the abstract locks, or leaves them alone.
LEMMA StepRefines ==
  ASSUME IInv, [Next]_vars
  PROVE  [Abstract!Next]_(Abstract!vars)
<1>1. CASE UNCHANGED vars
  BY Zenon, <1>1 DEF vars, history, Abstract!vars
<1>2. ASSUME NEW t \in Threads, BeginCall(t) \/ Continue(t)
      PROVE  [Abstract!Next]_(Abstract!vars)
  <2> DEFINE c == my[t].blk
  <2>0. c \in Blocks /\ Call(t) \in Calls
    BY Zenon, ThreadFacts
  <2>1. CASE Begins(t) \/ Quiet(t)
    BY Zenon, <2>1 DEF Begins, Quiet, Abstract!vars
  <2>2. CASE GrantsWrite(t)
    <3>1. wGrants[c] = {} /\ rGrants[c] = {}
      BY Zenon, <1>2, <2>2, GrantsWriteKeeps
    <3>2. Abstract!LockForWrite(c, Call(t))
      BY Zenon, <2>2, <3>1 DEF GrantsWrite, Abstract!LockForWrite
    <3> QED
      BY ZenonT(60), <2>0, <3>2 DEF Abstract!Next
  <2>3. CASE GrantsRead(t)
    <3>1. wGrants[c] = {} /\ Call(t) \notin rGrants[c]
      BY Zenon, <1>2, <2>3, GrantsReadKeeps
    <3>2. Abstract!LockForRead(c, Call(t))
      BY Zenon, <2>3, <3>1 DEF GrantsRead, Abstract!LockForRead
    <3> QED
      BY ZenonT(60), <2>0, <3>2 DEF Abstract!Next
  <2>4. CASE DropsRead(t)
    <3>1. Call(t) \in rGrants[c] /\ wGrants[c] = {}
      BY Zenon, <2>4, ReaderCounted DEF DropsRead
    <3>2. wGrants' = wGrants
      BY Zenon, <2>4, <3>1 DEF DropsRead, IInv, TypeOK
    <3>3. Abstract!ReleaseReadLock(c, Call(t))
      BY ZenonT(60), <2>4, <3>1, <3>2 DEF DropsRead, Abstract!ReleaseReadLock
    <3> QED
      BY Zenon, <2>0, <3>3 DEF Abstract!Next
  <2>5. CASE DropsWrite(t)
    <3>1. wGrants[c] = {Call(t)} /\ rGrants[c] = {}
      BY Zenon, <2>5, WriterCounted DEF DropsWrite
    <3>2. rGrants' = rGrants
      BY ZenonT(60), <2>5, <3>1 DEF DropsWrite, IInv, TypeOK
    <3>3. Abstract!ReleaseWriteLock(c, Call(t))
      BY Zenon, <2>5, <3>1, <3>2 DEF DropsWrite, Abstract!ReleaseWriteLock
    <3> QED
      BY Zenon, <2>0, <3>3 DEF Abstract!Next
  <2> QED
    BY ZenonT(60), <1>2, <2>1, <2>2, <2>3, <2>4, <2>5, Effects DEF Effect
<1> QED
  BY Zenon, <1>1, <1>2 DEF Next

\* The blocks implement abstract readers-writer locks, one for each block, as
\* long as no process dies.
THEOREM Refinement == Spec => ImplementsRWLocks
<1>1. Init => Abstract!Init
  BY Zenon DEF Init, Abstract!Init
<1>2. IInv /\ [Next]_vars => [Abstract!Next]_(Abstract!vars)
  BY Zenon, StepRefines
<1> QED
  BY <1>1, <1>2, Inductive, PTL DEF Spec, ImplementsRWLocks, Abstract!Spec

-----------------------------------------------------------------------------
(***************************************************************************)
(* What a call keeps when it returns: a lock only if the pid set is full.  *)
(***************************************************************************)

\* The slots that Insert has passed are taken.
PassedTaken ==
  \A t \in Threads : pc[t] \in {"insert", "ins_cas"} =>
    \A j \in Slots : j < my[t].idx => m_pidSet[my[t].blk][j] # NoPid

LeakInv == IInv /\ PassedTaken /\ NothingLeaks

\* As long as nobody dies a slot that is taken stays taken.
LEMMA TakenStays ==
  ASSUME IInv, NEW t \in Threads, BeginCall(t) \/ Continue(t),
         NEW b \in Blocks, NEW j \in Slots, m_pidSet[b][j] # NoPid
  PROVE  m_pidSet'[b][j] # NoPid
<1>1. VictimsAreDead
  BY Zenon DEF IInv, LocalsFit, VictimsAreDead
<1>2. TypeOK /\ running = Procs
  BY Zenon DEF IInv
<1>3. m_pidSet[b][j] \in Procs \union {NoPid}
  BY <1>2 DEF TypeOK
<1>4. m_pidSet[b][j] \in running
  BY Zenon, <1>2, <1>3
<1>5. m_pidSet'[b][j] = m_pidSet[b][j]
  BY ZenonT(60), <1>1, <1>2, <1>4, SlotsKept
<1> QED
  BY Zenon, <1>5

\* Insert goes on past a slot only when it has found it taken.
LEMMA ToInsert ==
  ASSUME IInv, PassedTaken, NEW t \in Threads, BeginCall(t) \/ Continue(t),
         pc'[t] \in {"insert", "ins_cas"}, NEW j \in Slots, j < my'[t].idx
  PROVE  m_pidSet[my'[t].blk][j] # NoPid
<1>0. TypeOK
  BY Zenon DEF IInv
<1>1. ~AttemptFailed(t) /\ ~Released(t) /\ ~Return(t)
  <2>1. ~Return(t) /\ \A l : Restart(t, l) \/ NextSlot(t, l) => pc'[t] = l
    BY ZenonT(60), <1>0, Moves
  <2> QED
    BY Zenon, <2>1 DEF AttemptFailed, Released
<1>2. TryLockForWrite(t) \/ ReadCas(t) \/ Insert(t) \/ InsertCas(t)
  <2>1. \A l : Goto(t, l) \/ Restart(t, l) \/ NextSlot(t, l) => pc'[t] = l
    BY ZenonT(60), <1>0, Moves
  <2> QED
    BY ZenonT(60), <1>1, <2>1
    DEF BeginCall, RequestMemory, HoldMemory, Begin, Continue, LockMtx, RequestRefused,
      FetchAddSeq, TryLockForWriteFail, TryLockForRead, ReadCasFail, AnyAlive,
      AnyAliveReturns, Remove, Recover, WriteFinish, ReleaseMemory, ReleaseReadLock,
      ReleaseWriteLock
<1>3. ASSUME Restart(t, "insert") PROVE FALSE
  <2>1. my'[t] = InCall(my[t].op, my[t].blk)
    BY ZenonT(60), <1>0, <1>3, Moves
  <2>2. my'[t].idx = 1
    BY SMTT(60), <2>1 DEF InCall
  <2> QED
    BY SMTT(60), <2>2, SizesAssumption DEF Slots
<1>4. /\ pc[t] \in {"insert", "ins_cas"}
      /\ my'[t] = my[t] \/ (Slot(t) # NoPid /\ NextSlot(t, "insert"))
  <2>1. Restart(t, "hold") => pc'[t] = "hold"
    BY Zenon, <1>0, Moves
  <2> QED
    BY ZenonT(60), <1>1, <1>2, <1>3, <2>1 DEF TryLockForWrite, ReadCas, Insert, InsertCas
<1>5. \A k \in Slots : k < my[t].idx => m_pidSet[my[t].blk][k] # NoPid
  BY Zenon, <1>4 DEF PassedTaken
<1>6. CASE my'[t] = my[t]
  BY ZenonT(60), <1>5, <1>6
<1>7. CASE Slot(t) # NoPid /\ NextSlot(t, "insert")
  <2>1. my'[t].blk = my[t].blk /\ my'[t] = [my[t] EXCEPT !.idx = @ + 1, !.pid = NoPid]
    BY ZenonT(60), <1>0, <1>7, Moves
  <2>2. my'[t].idx = my[t].idx + 1 /\ my[t].idx \in Nat
    BY SMTT(60), <1>0, <2>1 DEF TypeOK, Locals
  <2>3. j < my[t].idx \/ j = my[t].idx
    BY SMTT(60), <2>2, SizesAssumption DEF Slots
  <2> QED
    BY ZenonT(60), <1>5, <1>7, <2>1, <2>3 DEF Slot
<1> QED
  BY ZenonT(60), <1>4, <1>6, <1>7

\* So a step keeps PassedTaken.
LEMMA PassedStep ==
  ASSUME IInv, PassedTaken, NEW t \in Threads, BeginCall(t) \/ Continue(t)
  PROVE  PassedTaken'
<1> SUFFICES ASSUME NEW u \in Threads, pc'[u] \in {"insert", "ins_cas"},
                    NEW j \in Slots, j < my'[u].idx
             PROVE  m_pidSet'[my'[u].blk][j] # NoPid
  BY Zenon DEF PassedTaken
<1>1. m_pidSet[my'[u].blk][j] # NoPid /\ my'[u].blk \in Blocks
  <2>1. CASE u = t
    <3>1. TypeOK'
      BY Zenon, TypeStep DEF IInv, Next, NextOrDie
    <3>2. my'[u].blk \in Blocks
      BY Zenon, <3>1 DEF TypeOK, Locals
    <3> QED
      BY ZenonT(60), <2>1, <3>2, ToInsert
  <2>2. CASE u # t
    <3>1. pc'[u] = pc[u] /\ my'[u] = my[u]
      BY ZenonT(60), <2>2, OthersStay DEF IInv
    <3> QED
      BY ZenonT(60), <3>1, ThreadFacts DEF PassedTaken
  <2> QED
    BY Zenon, <2>1, <2>2
<1> QED
  BY Zenon, <1>1, TakenStays

\* A call that returns with its lock has passed every slot.
LEMMA LeavesWithLock ==
  ASSUME IInv, NEW t \in Threads, BeginCall(t) \/ Continue(t), Quiet(t),
         pc[t] \in HoldingLocations, pc'[t] = "idle"
  PROVE  pc[t] = "insert" /\ my[t].idx > SetSize
<1>0. TypeOK /\ ~Recovering(t)
  BY Zenon, ThreadFacts DEF IInv
<1>1. \A l : Goto(t, l) \/ Restart(t, l) \/ NextSlot(t, l) => pc'[t] = l
  BY Zenon, <1>0, Moves
<1>2. CASE Insert(t)
  BY Zenon, <1>1, <1>2 DEF Insert
<1>3. ~InsertCas(t) /\ ~WriteFinish(t) /\ ~ReleaseMemory(t)
  BY Zenon, <1>1 DEF InsertCas, WriteFinish, ReleaseMemory
<1>4. ~ReleaseReadLock(t)
  <2>1. pc[t] = "rel_r" => LockNum(t) > 0
    BY Zenon, ReaderCounted
  <2>2. CASE pc[t] = "rel_r"
    <3>1. LockNum(t) \in Int
      BY ZenonT(60), ThreadFacts
    <3>2. ReleaseReadLock(t) => Goto(t, "sub_r")
      BY SMTT(60), <2>1, <2>2, <3>1 DEF ReleaseReadLock
    <3> QED
      BY Zenon, <1>1, <3>2
  <2>3. CASE pc[t] = "sub_r"
    <3>1. ReleaseReadLock(t) => m_lockNum' = [m_lockNum EXCEPT ![my[t].blk] = @ - 1]
      BY Zenon, <2>3 DEF ReleaseReadLock
    <3>2. m_lockNum \in [Blocks -> Int] /\ my[t].blk \in Blocks /\ m_lockNum' = m_lockNum
      BY Zenon, <1>0, ThreadFacts DEF TypeOK, Quiet
    <3> QED
      BY SMTT(60), <3>1, <3>2
  <2> QED
    BY Zenon, <2>2, <2>3 DEF ReleaseReadLock
<1>5. ~ReleaseWriteLock(t)
  <2>1. pc[t] = "rel_w" => LockNum(t) = -1
    BY Zenon, WriterCounted
  <2>2. CASE pc[t] = "rel_w"
    <3>1. ReleaseWriteLock(t) => Goto(t, "add_w")
      BY SMTT(60), <2>1, <2>2 DEF ReleaseWriteLock
    <3> QED
      BY ZenonT(60), <1>1, <3>1
  <2>3. CASE pc[t] = "add_w"
    <3>1. ReleaseWriteLock(t) => m_lockNum' = [m_lockNum EXCEPT ![my[t].blk] = @ + 1]
      BY Zenon, <2>3 DEF ReleaseWriteLock
    <3>2. m_lockNum \in [Blocks -> Int] /\ my[t].blk \in Blocks /\ m_lockNum' = m_lockNum
      BY Zenon, <1>0, ThreadFacts DEF TypeOK, Quiet
    <3> QED
      BY <3>1, <3>2
  <2> QED
    BY Zenon, <2>2, <2>3 DEF ReleaseWriteLock
<1> QED
  BY ZenonT(60), <1>2, <1>3, <1>4, <1>5
  DEF BeginCall, RequestMemory, HoldMemory, Begin, Continue, LockMtx, RequestRefused,
    FetchAddSeq, TryLockForWrite, TryLockForWriteFail, TryLockForRead, ReadCas, ReadCasFail,
    AnyAlive, AnyAliveReturns, Remove, Recover, HoldingLocations

\* A thread between a grant and its release is at one of seven locations.
LEMMA HoldingMeans ==
  ASSUME LocalsFit, NEW u \in Threads
  PROVE  Holding(u) <=> pc[u] \in HoldingLocations
BY Zenon DEF Holding, HoldingLocations, LocalsFit, Recovering

\* A step leaks no lock of a block whose set has a free slot.
LEMMA LeakStep ==
  ASSUME LeakInv, NEW t \in Threads, BeginCall(t) \/ Continue(t), IInv'
  PROVE  NothingLeaks'
<1> SUFFICES ASSUME NEW b \in Blocks, NEW j \in Slots, m_pidSet'[b][j] = NoPid,
                    NEW g \in wGrants'[b] \union rGrants'[b]
             PROVE  Holding(g[1])' /\ my'[g[1]].blk = b /\ g = Call(g[1])'
  BY Zenon DEF NothingLeaks
<1>1. IInv /\ PassedTaken /\ m_pidSet[b][j] = NoPid /\ Effect(t)
  BY Zenon, TakenStays, Effects DEF LeakInv
<1>2. \A h \in wGrants[b] \union rGrants[b] :
        pc[h[1]] \in HoldingLocations /\ my[h[1]].blk = b /\ h = Call(h[1]) /\ h[1] \in Threads
  <2> SUFFICES ASSUME NEW h \in wGrants[b] \union rGrants[b]
               PROVE  /\ pc[h[1]] \in HoldingLocations /\ my[h[1]].blk = b
                      /\ h = Call(h[1]) /\ h[1] \in Threads
    BY Zenon
  <2>1. Holding(h[1]) /\ my[h[1]].blk = b /\ h = Call(h[1])
    BY Zenon, <1>1 DEF LeakInv, NothingLeaks
  <2>2. h \in Calls
    BY ZenonT(60), <1>1 DEF IInv, TypeOK
  <2>3. h[1] \in Threads
    BY Zenon, <2>2 DEF Calls
  <2> QED
    BY ZenonT(60), <1>1, <2>1, <2>3, HoldingMeans DEF IInv
<1> SUFFICES pc'[g[1]] \in HoldingLocations /\ my'[g[1]].blk = b /\ g = Call(g[1])' /\ g[1] \in Threads
  <2>1. LocalsFit'
    BY Zenon DEF IInv
  <2>2. \A u \in Threads : Holding(u)' <=> pc'[u] \in HoldingLocations
    BY Zenon, <2>1 DEF Holding, HoldingLocations, LocalsFit, Recovering
  <2> QED
    BY Zenon, <2>2
<1>3. /\ my[t].blk \in Blocks /\ Call(t) \in Calls /\ Call(t)[1] = t
      /\ wGrants \in [Blocks -> SUBSET Calls] /\ rGrants \in [Blocks -> SUBSET Calls]
  BY ZenonT(60), <1>1, ThreadFacts DEF Call, IInv, TypeOK
<1>4. ASSUME g \in wGrants[b] \union rGrants[b], g[1] # t
      PROVE  pc'[g[1]] \in HoldingLocations /\ my'[g[1]].blk = b /\ g = Call(g[1])' /\ g[1] \in Threads
  <2>1. ASSUME NEW u \in Threads, u # t
        PROVE  pc'[u] = pc[u] /\ my'[u] = my[u] /\ Call(u)' = Call(u)
    BY Zenon, <1>1, <2>1, OtherCalls
  <2>2. pc[g[1]] \in HoldingLocations /\ my[g[1]].blk = b /\ g = Call(g[1]) /\ g[1] \in Threads
    BY Zenon, <1>2, <1>4
  <2>3. pc'[g[1]] = pc[g[1]] /\ my'[g[1]] = my[g[1]] /\ Call(g[1])' = Call(g[1])
    BY ZenonT(60), <1>4, <2>1, <2>2
  <2> QED
    BY Zenon, <2>2, <2>3
<1>5. CASE GrantsWrite(t) \/ GrantsRead(t)
  <2>1. /\ pc[t] \in {"try", "cas"} /\ pc'[t] = "insert" /\ my'[t].blk = my[t].blk
        /\ calls' = calls /\ Call(t)' = Call(t)
    BY Zenon, <1>5 DEF GrantsWrite, GrantsRead, Call
  <2>2. CASE g \in wGrants[b] \union rGrants[b]
    <3>1. g[1] # t
      BY ZenonT(60), <1>2, <2>1, <2>2 DEF HoldingLocations
    <3> QED
      BY ZenonT(60), <1>4, <2>2, <3>1
  <2>3. CASE g \notin wGrants[b] \union rGrants[b]
    <3>1. b = my[t].blk /\ g = Call(t)
      BY ZenonT(60), <1>1, <1>5, <2>3, GrantsGrow
    <3> QED
      BY ZenonT(60), <1>3, <2>1, <3>1 DEF HoldingLocations
  <2> QED
    BY Zenon, <2>2, <2>3
<1>6. CASE Begins(t) \/ Quiet(t) \/ DropsRead(t) \/ DropsWrite(t)
  <2>1. g \in wGrants[b] \union rGrants[b]
    <3>1. CASE Begins(t) \/ Quiet(t)
      BY ZenonT(60), <3>1 DEF Begins, Quiet
    <3>2. CASE DropsRead(t) \/ DropsWrite(t)
      BY ZenonT(60), <1>1, <3>2, GrantsShrink
    <3> QED
      BY Zenon, <1>6, <3>1, <3>2
  <2>2. CASE g[1] # t
    BY ZenonT(60), <1>4, <2>1, <2>2
  <2>3. CASE g[1] = t
    <3>1. pc[t] \in HoldingLocations /\ my[t].blk = b /\ g = Call(t)
      BY ZenonT(60), <1>2, <2>1, <2>3
    <3>2. Quiet(t)
      <4>1. ~Begins(t)
        BY ZenonT(60), <3>1 DEF Begins, HoldingLocations
      <4>2. DropsRead(t) \/ DropsWrite(t) => g \notin wGrants'[b] /\ g \notin rGrants'[b]
        BY ZenonT(60), <1>1, <3>1, GrantsShrink
      <4> QED
        BY ZenonT(60), <1>6, <4>1, <4>2
    <3>3. pc'[t] # "idle"
      <4> SUFFICES ASSUME pc'[t] = "idle" PROVE FALSE
        BY Zenon
      <4>1. pc[t] = "insert" /\ my[t].idx > SetSize
        BY ZenonT(60), <1>1, <3>1, <3>2, LeavesWithLock
      <4>2. my[t].idx \in Nat
        BY ZenonT(60), <1>1, ThreadFacts DEF Locals
      <4>3. j < my[t].idx
        BY SMTT(60), <4>1, <4>2, SizesAssumption DEF Slots
      <4> QED
        BY ZenonT(60), <1>1, <3>1, <4>1, <4>3 DEF PassedTaken
    <3>4. pc'[t] \in HoldingLocations
      <4>1. pc'[t] \in Locations /\ pc'[t] \notin {"remove", "rec_r", "rec_w"}
        BY Zenon DEF IInv, TypeOK, LocalsFit
      <4>2. pc'[t] \notin Waiting
        BY Zenon, <3>1, <3>2 DEF Quiet, Waiting, HoldingLocations
      <4> QED
        BY ZenonT(60), <3>3, <4>1, <4>2 DEF Locations, Waiting, HoldingLocations
    <3> QED
      BY ZenonT(60), <2>3, <3>1, <3>2, <3>4 DEF Quiet, Call
  <2> QED
    BY ZenonT(60), <2>2, <2>3
<1> QED
  BY ZenonT(60), <1>1, <1>5, <1>6 DEF Effect

\* A call that returned keeps no lock of a block whose pid set has a free slot: as
\* long as no process dies, for any number of processes, threads, blocks and slots.
THEOREM NoLeak == Spec => []NothingLeaks
<1>1. Init => PassedTaken /\ NothingLeaks
  BY Zenon DEF Init, PassedTaken, NothingLeaks
<1>2. LeakInv /\ IInv' /\ [Next]_vars => (PassedTaken /\ NothingLeaks)'
  <2> SUFFICES ASSUME LeakInv, IInv', [Next]_vars PROVE (PassedTaken /\ NothingLeaks)'
    BY Zenon
  <2>1. CASE UNCHANGED vars
    BY ZenonT(60), <2>1 DEF vars, shm, history, LeakInv, PassedTaken, NothingLeaks, Holding,
      Recovering, Call
  <2>2. ASSUME NEW t \in Threads, BeginCall(t) \/ Continue(t)
        PROVE  (PassedTaken /\ NothingLeaks)'
    BY Zenon, <2>2, PassedStep, LeakStep DEF LeakInv
  <2> QED
    BY Zenon, <2>1, <2>2 DEF Next
<1>3. Spec => [](PassedTaken /\ NothingLeaks)
  BY <1>1, <1>2, Inductive, PTL DEF Spec, LeakInv
<1> QED
  BY <1>3, PTL

=============================================================================
