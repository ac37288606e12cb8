----------------------------- MODULE ShmSegment -----------------------------
(***************************************************************************)
(* The life of the shared-memory segment of one topic of                   *)
(* IntelligentDriving/SHM_TEST: how processes create it, open it, replace  *)
(* it and remove it (alloc_memory.cpp, alloc_memory_base.cpp), and the map *)
(* of segments of each process above it (shm_manager.cpp).                 *)
(*                                                                         *)
(* A name in /dev/shm denotes an object, and an object outlives its name   *)
(* as long as somebody has it mapped: objects are numbered as they are     *)
(* made.  One action is one system call or one access to the segment.      *)
(* Locking a block is ShmBlock's subject; here it succeeds or fails.       *)
(***************************************************************************)
EXTENDS Integers, FiniteSets

CONSTANTS
  Procs, Creators, Readers,  \* processes; those that call Create, and Hold
  BlockNumOf,                \* the blocks each creator's configuration asks for
  MayFail,                   \* whether shm_unlink and the system calls of Create may fail
  MaxCreates,                \* bound on the calls of Create of each creator
  MaxReads,                  \* bounds on the messages each reader reads
  MaxDeaths                  \* bound on the processes that are killed

\* A call of Create makes one object at most.
Objs == 1 .. (Cardinality(Creators) * MaxCreates)
None == 0

ASSUME ProcsAssumption ==
  IsFiniteSet(Procs) /\ Creators \subseteq Procs /\ Readers \subseteq Procs
ASSUME BlockNumAssumption == BlockNumOf \in [Creators -> Nat \ {0}]
ASSUME BoundsAssumption ==
  MaxCreates \in Nat \ {0} /\ MaxReads \in [Readers -> Nat] /\ MaxDeaths \in Nat /\ MayFail \in BOOLEAN

VARIABLES
  name,              \* the object the topic's name denotes, or None
  made,              \* how many objects were made
  size,              \* st_size of each object, in blocks: 0 until ftruncate
  m_blockNum,        \* State::m_blockNum: 0 until State is constructed
  m_referenceCount,  \* State::m_referenceCount
  m_needRemap,       \* State::m_needRemap, 0 or 1
  constructed,       \* whether the blocks of an object are constructed
  pc,
  m_segMap,          \* whether the topic is in the process's map of segments
  m_init, m_conf,    \* AllocMemoryBase: initialised; blocks according to m_conf
  m_managedShm,      \* the object that is mapped
  fd,                \* the descriptor a call has open
  recreating,        \* whether Create runs inside Recreate
  index,             \* the block a reader's message names
  after,             \* where OpenOnly returns to
  created,           \* whether CreateSegment has returned true
  creates, reads,    \* calls of CreateSegment and of HoldMemory
  refused            \* history: 0 until shm_unlink fails, then 1 and 2 in turn

object == <<size, m_blockNum, m_referenceCount, m_needRemap, constructed>>
segment == <<name, made, object>>
members == <<m_segMap, m_init, m_conf, m_managedShm>>
locals == <<fd, recreating, index, after>>
client == <<created, creates, reads, refused>>
vars == <<segment, pc, members, locals, client>>

Goto(p, l) == pc' = [pc EXCEPT ![p] = l]
Return(p) == Goto(p, "idle")
Set(f, x, v) == [f EXCEPT ![x] = v]

\* shm_unlink: whichever object the name denotes, it is gone; or the system refuses.
Unlink ==
  \/ name' = None /\ UNCHANGED refused
  \/ /\ MayFail /\ name # None
     /\ refused' = (IF refused = 1 THEN 2 ELSE 1)
     /\ UNCHANGED name

-----------------------------------------------------------------------------
(***************************************************************************)
(* ShmManager::CreateSegment and AllocMemory::Create.                      *)
(***************************************************************************)

\* A topic that is in the map already is left alone, and the call succeeds.
CreateSegment(p) ==
  /\ pc[p] = "idle" /\ p \in Creators /\ created[p] = 0
  /\ creates[p] < MaxCreates /\ creates' = [creates EXCEPT ![p] = @ + 1]
  /\ \/ /\ m_segMap[p] = 1
        /\ created' = Set(created, p, 1)
        /\ UNCHANGED <<pc, m_conf, recreating>>
     \/ /\ m_segMap[p] = 0
        /\ Goto(p, "c_open")
        /\ m_conf' = Set(m_conf, p, BlockNumOf[p])
        /\ recreating' = Set(recreating, p, 0)
        /\ UNCHANGED created
  /\ UNCHANGED <<segment, m_segMap, m_init, m_managedShm, fd, index, after, reads, refused>>

\* A mutant: without O_EXCL an object that is there is taken for a new one.
CreateOpenShared(p) ==
  /\ pc[p] = "c_open"
  /\ made' = (IF name = None THEN made + 1 ELSE made)
  /\ name' = (IF name = None THEN made + 1 ELSE name)
  /\ fd' = Set(fd, p, name')
  /\ Goto(p, "c_truncate")
  /\ UNCHANGED <<object, members, recreating, index, after, client>>

\* shm_open with O_EXCL; when the name exists, Recreate begins with Reset.  There is
\* always a number for a new object: a call makes one at most.
CreateOpen(p) ==
  /\ pc[p] = "c_open"
  /\ \/ /\ name = None /\ made + 1 \in Objs
        /\ made' = made + 1 /\ name' = made + 1
        /\ fd' = Set(fd, p, made + 1)
        /\ Goto(p, "c_truncate")
        /\ UNCHANGED recreating
     \/ /\ name # None
        /\ recreating' = Set(recreating, p, 1)
        /\ Goto(p, "c_remove")
        /\ UNCHANGED <<name, made, fd>>
  /\ UNCHANGED <<object, members, index, after, client>>

\* A mutant: Recreate does not remove the old name.
RecreateKeepsName(p) ==
  /\ pc[p] = "c_remove"
  /\ Goto(p, "c_open")
  /\ UNCHANGED <<segment, members, locals, client>>

\* Recreate: Remove, whose result nobody looks at, then Create again with the same
\* configuration.
RecreateRemove(p) ==
  /\ pc[p] = "c_remove"
  /\ Unlink
  /\ Goto(p, "c_open")
  /\ UNCHANGED <<made, object, members, locals, created, creates, reads>>

CreateTruncate(p) ==
  /\ pc[p] = "c_truncate"
  /\ size' = Set(size, fd[p], m_conf[p])
  /\ Goto(p, "c_map")
  /\ UNCHANGED <<name, made, m_blockNum, m_referenceCount, m_needRemap, constructed,
                 members, locals, client>>

CreateMap(p) ==
  /\ pc[p] = "c_map"
  /\ m_managedShm' = Set(m_managedShm, p, fd[p])
  /\ Goto(p, "c_state")
  /\ UNCHANGED <<segment, m_segMap, m_init, m_conf, locals, client>>

\* Placement new of State: every field gets its initial value.
CreateState(p) ==
  LET o == m_managedShm[p] IN
  /\ pc[p] = "c_state"
  /\ m_blockNum' = Set(m_blockNum, o, m_conf[p])
  /\ m_referenceCount' = Set(m_referenceCount, o, 0)
  /\ m_needRemap' = Set(m_needRemap, o, 0)
  /\ Goto(p, "c_blocks")
  /\ UNCHANGED <<name, made, size, constructed, members, locals, client>>

CreateBlocks(p) ==
  /\ pc[p] = "c_blocks"
  /\ constructed' = Set(constructed, m_managedShm[p], 1)
  /\ Goto(p, "c_count")
  /\ UNCHANGED <<name, made, size, m_blockNum, m_referenceCount, m_needRemap,
                 members, locals, client>>

\* CreateSegmentFromConfig puts the segment into the map.
Created(p) ==
  /\ m_segMap' = Set(m_segMap, p, 1)
  /\ created' = Set(created, p, 1)
  /\ Return(p)

CreateCount(p) ==
  /\ pc[p] = "c_count"
  /\ m_referenceCount' = [m_referenceCount EXCEPT ![m_managedShm[p]] = @ + 1]
  /\ m_init' = Set(m_init, p, 1)
  /\ \/ recreating[p] = 0 /\ Created(p)
     \/ recreating[p] = 1 /\ Goto(p, "c_flag") /\ UNCHANGED <<m_segMap, created>>
  /\ UNCHANGED <<name, made, size, m_blockNum, m_needRemap, constructed,
                 m_conf, m_managedShm, locals, creates, reads, refused>>

\* Recreate: SetNeedRemap(true), on the state of the new object.
RecreateFlag(p) ==
  /\ pc[p] = "c_flag"
  /\ m_needRemap' = Set(m_needRemap, m_managedShm[p], 1)
  /\ Created(p)
  /\ UNCHANGED <<name, made, size, m_blockNum, m_referenceCount, constructed,
                 m_init, m_conf, m_managedShm, locals, creates, reads, refused>>

\* shm_open, ftruncate or mmap fails; only a failed mmap removes the name.
CreateFail(p) ==
  /\ MayFail
  /\ \/ pc[p] \in {"c_open", "c_truncate"} /\ UNCHANGED <<name, refused>>
     \/ pc[p] = "c_map" /\ Unlink
  /\ Return(p)
  /\ UNCHANGED <<made, object, members, locals, created, creates, reads>>

-----------------------------------------------------------------------------
(***************************************************************************)
(* ShmManager::HoldMemory, AcquireBlockToRead and OpenOnly.                *)
(***************************************************************************)

\* A reader acts on a message: some creator has sent it the index of a block.
HoldMemory(p) ==
  /\ pc[p] = "idle" /\ p \in Readers /\ reads[p] < MaxReads[p]
  /\ reads' = [reads EXCEPT ![p] = @ + 1]
  /\ \E c \in Creators : \E i \in 0 .. (BlockNumOf[c] - 1) :
       created[c] = 1 /\ index' = Set(index, p, i)
  /\ m_segMap' = Set(m_segMap, p, 1)
  /\ \/ m_init[p] = 1 /\ Goto(p, "r_index") /\ UNCHANGED after
     \/ m_init[p] = 0 /\ Goto(p, "o_open") /\ after' = Set(after, p, "r_index")
  /\ UNCHANGED <<segment, m_init, m_conf, m_managedShm, fd, recreating, created, creates, refused>>

OpenOnly(p) ==
  /\ pc[p] = "o_open"
  /\ \/ name = None /\ Return(p) /\ UNCHANGED fd
     \/ name # None /\ fd' = Set(fd, p, name) /\ Goto(p, "o_map")
  /\ UNCHANGED <<segment, members, recreating, index, after, client>>

\* mmap of st_size bytes, which fails for an object that is still empty.
OpenMap(p) ==
  /\ pc[p] = "o_map"
  /\ \/ size[fd[p]] = 0 /\ Return(p) /\ UNCHANGED m_managedShm
     \/ /\ size[fd[p]] # 0
        /\ m_managedShm' = Set(m_managedShm, p, fd[p])
        /\ Goto(p, "o_conf")
  /\ UNCHANGED <<segment, m_segMap, m_init, m_conf, locals, client>>

OpenConf(p) ==
  /\ pc[p] = "o_conf"
  /\ m_conf' = Set(m_conf, p, m_blockNum[m_managedShm[p]])
  /\ Goto(p, "o_count")
  /\ UNCHANGED <<segment, m_segMap, m_init, m_managedShm, locals, client>>

\* A mutant: OpenOnly takes no reference.
OpenUncounted(p) ==
  /\ pc[p] = "o_count"
  /\ m_init' = Set(m_init, p, 1)
  /\ Goto(p, after[p])
  /\ UNCHANGED <<segment, m_segMap, m_conf, m_managedShm, locals, client>>

OpenCount(p) ==
  /\ pc[p] = "o_count"
  /\ m_referenceCount' = [m_referenceCount EXCEPT ![m_managedShm[p]] = @ + 1]
  /\ m_init' = Set(m_init, p, 1)
  /\ Goto(p, after[p])
  /\ UNCHANGED <<name, made, size, m_blockNum, m_needRemap, constructed,
                 m_segMap, m_conf, m_managedShm, locals, client>>

CheckIndex(p) ==
  /\ pc[p] = "r_index"
  /\ \/ index[p] < m_conf[p] /\ Goto(p, "r_remap")
     \/ index[p] >= m_conf[p] /\ Return(p)
  /\ UNCHANGED <<segment, members, locals, client>>

\* NeedRemap; Remap is Reset, and OpenOnly again.
CheckRemap(p) ==
  /\ pc[p] = "r_remap"
  /\ \/ /\ m_needRemap[m_managedShm[p]] = 0
        /\ Goto(p, "r_lock")
        /\ UNCHANGED <<m_init, m_managedShm, after>>
     \/ /\ m_needRemap[m_managedShm[p]] = 1
        /\ m_init' = Set(m_init, p, 0)
        /\ m_managedShm' = Set(m_managedShm, p, None)
        /\ after' = Set(after, p, "r_lock")
        /\ Goto(p, "o_open")
  /\ UNCHANGED <<segment, m_segMap, m_conf, fd, recreating, index, client>>

TryLockForRead(p) ==
  /\ pc[p] = "r_lock"
  /\ Goto(p, "reading") \/ Return(p)
  /\ UNCHANGED <<segment, members, locals, client>>

ReleaseMemory(p) ==
  /\ pc[p] = "reading"
  /\ Return(p)
  /\ UNCHANGED <<segment, members, locals, client>>

-----------------------------------------------------------------------------
(***************************************************************************)
(* AllocMemoryBase::Destroy, from the destructors that exit() runs.        *)
(***************************************************************************)

DecreaseReferenceCounts(n) == IF n = 0 THEN 0 ELSE n - 1

Gone(p) == Goto(p, "gone") /\ m_managedShm' = Set(m_managedShm, p, None)

\* The process returns from main, or SIGINT's handler calls exit.  A segment that
\* Create or OpenOnly is still working on is not destroyed: that is Die.
Exit(p) ==
  LET o == m_managedShm[p] IN
  /\ pc[p] \in {"idle", "r_index", "r_remap", "r_lock", "reading"}
  /\ \/ /\ m_init[p] = 0 /\ Gone(p)
        /\ UNCHANGED <<m_referenceCount, m_init>>
     \/ /\ m_init[p] = 1
        /\ m_init' = Set(m_init, p, 0)
        /\ m_referenceCount' =
             [m_referenceCount EXCEPT ![o] = DecreaseReferenceCounts(@)]
        /\ Goto(p, "d_count")
        /\ UNCHANGED m_managedShm
  /\ UNCHANGED <<name, made, size, m_blockNum, m_needRemap, constructed,
                 m_segMap, m_conf, locals, client>>

\* A mutant: the name is left to the process that created it.
CreatorRemoves(p) == m_referenceCount[m_managedShm[p]] = 0 /\ created[p] = 1

LastReference(p) == m_referenceCount[m_managedShm[p]] = 0

DestroyCount(p) ==
  /\ pc[p] = "d_count"
  /\ \/ LastReference(p) /\ Goto(p, "d_remove") /\ UNCHANGED m_managedShm
     \/ ~LastReference(p) /\ Gone(p)
  /\ UNCHANGED <<segment, m_segMap, m_init, m_conf, locals, client>>

DestroyRemove(p) ==
  /\ pc[p] = "d_remove"
  /\ Unlink
  /\ Gone(p)
  /\ UNCHANGED <<made, object, m_segMap, m_init, m_conf, locals, created, creates, reads>>

\* The process is killed: nothing runs any more.
Die(p) ==
  /\ pc[p] \notin {"gone", "dead"}
  /\ Cardinality({q \in Procs : pc[q] = "dead"}) < MaxDeaths
  /\ Goto(p, "dead")
  /\ m_managedShm' = Set(m_managedShm, p, None)
  /\ UNCHANGED <<segment, m_segMap, m_init, m_conf, locals, client>>

-----------------------------------------------------------------------------

Init ==
  /\ name = None /\ made = 0
  /\ size = [o \in Objs |-> 0]
  /\ m_blockNum = [o \in Objs |-> 0]
  /\ m_referenceCount = [o \in Objs |-> 0]
  /\ m_needRemap = [o \in Objs |-> 0]
  /\ constructed = [o \in Objs |-> 0]
  /\ pc = [p \in Procs |-> "idle"]
  /\ m_segMap = [p \in Procs |-> 0]
  /\ m_init = [p \in Procs |-> 0]
  /\ m_conf = [p \in Procs |-> 0]
  /\ m_managedShm = [p \in Procs |-> None]
  /\ fd = [p \in Procs |-> None]
  /\ recreating = [p \in Procs |-> 0]
  /\ index = [p \in Procs |-> 0]
  /\ after = [p \in Procs |-> "r_index"]
  /\ created = [p \in Procs |-> 0]
  /\ creates = [p \in Procs |-> 0]
  /\ reads = [p \in Procs |-> 0]
  /\ refused = 0

\* A call goes on.
Continue(p) ==
  \/ CreateOpen(p) \/ RecreateRemove(p) \/ CreateTruncate(p) \/ CreateMap(p)
  \/ CreateState(p) \/ CreateBlocks(p) \/ CreateCount(p) \/ RecreateFlag(p)
  \/ CreateFail(p)
  \/ OpenOnly(p) \/ OpenMap(p) \/ OpenConf(p) \/ OpenCount(p)
  \/ CheckIndex(p) \/ CheckRemap(p) \/ TryLockForRead(p)
  \/ DestroyCount(p) \/ DestroyRemove(p)

\* The client, or the system, does something.
Act(p) == CreateSegment(p) \/ HoldMemory(p) \/ ReleaseMemory(p) \/ Exit(p) \/ Die(p)

Next == \E p \in Procs : Continue(p) \/ Act(p)

Spec == Init /\ [][Next]_vars

\* A process that is inside a call keeps executing.
FairSpec == Spec /\ \A p \in Procs : WF_vars(Continue(p))

-----------------------------------------------------------------------------
(***************************************************************************)
(* Properties.                                                             *)
(***************************************************************************)

Creating == {"c_open", "c_remove", "c_truncate", "c_map", "c_state", "c_blocks",
             "c_count", "c_flag"}
Opening == {"o_open", "o_map", "o_conf", "o_count"}
AtRest == {"idle", "reading", "gone", "dead"}
\* The processes that have an object open.
Users(o) == {p \in Procs : m_init[p] = 1 /\ m_managedShm[p] = o}

\* One call of Create was made at most, it did not fail, and no process was killed:
\* the topic is created once, and then opened and left by any number of readers.
CreatedOnce ==
  /\ \A p \in Procs : pc[p] # "dead"
  /\ \A p \in Creators :
       creates[p] > 0 =>
         /\ creates[p] = 1 /\ (created[p] = 1 \/ pc[p] \in Creating)
         /\ \A q \in Creators \ {p} : creates[q] = 0

\* The segment is constructed, and the process knows its true number of blocks.
KnowsSegment(p, o) ==
  constructed[o] = 1 /\ m_conf[p] = m_blockNum[o] /\ m_conf[p] > 0

\* The object that a call of Create is laying out, from shm_open to its last block.
Building(p, o) ==
  \/ pc[p] \in {"c_truncate", "c_map"} /\ fd[p] = o
  \/ pc[p] \in {"c_state", "c_blocks"} /\ m_managedShm[p] = o

\* An object is laid out by one process, and never again once it is made: however
\* creators race for the name, replace each other's segment, fail half way or are killed,
\* Create does not run over a segment that others have mapped (O_EXCL in Create, and
\* the unlink before Recreate's second try).
BuiltOnce ==
  \A p \in Procs, o \in Objs :
    Building(p, o) => constructed[o] = 0 /\ \A q \in Procs \ {p} : ~Building(q, o)

\* The reference count of a segment that is created once is the number of
\* processes that have it open.
RefsCountUsers ==
  CreatedOnce => \A o \in Objs : m_referenceCount[o] = Cardinality(Users(o))

\* When the last process has exited, the name is gone and the memory is free, unless
\* the system refused to remove the name: Destroy tries once.
LastOneRemoves ==
  CreatedOnce /\ (\A p \in Procs : pc[p] = "gone") => name = None \/ refused # 0

\* Create, Hold and exit() return, whatever an earlier process left behind, and
\* whoever else is creating, opening or removing the topic at the same time, unless
\* shm_unlink goes on failing: Create and Recreate call each other for as long as it
\* does.  (The calls are finitely many, so that all have returned again and again says
\* that each returns.)
CallsReturn ==
  <>[][UNCHANGED refused]_vars
    => []<>(\A p \in Procs : pc[p] \in AtRest)

-----------------------------------------------------------------------------
(***************************************************************************)
(* What the code should promise and does not: each is violated when other   *)
(* processes recreate the segment.                                         *)
(***************************************************************************)

\* What a process has open is made, also when creators replace each other's segment.
OpenIsMade == \A o \in Objs : \A p \in Users(o) : KnowsSegment(p, o)

\* A block that a process reads is a block of the segment it has mapped, which
\* AcquireBlockToRead's check of the index is for.
IndexInRange ==
  \A p \in Procs :
    pc[p] = "reading" /\ constructed[m_managedShm[p]] = 1
      => index[p] < m_blockNum[m_managedShm[p]]

\* A process whose segment was replaced is told so, once the replacement is made.
ReplacedIsFlagged ==
  \A o \in Objs :
    /\ Users(o) # {} /\ name \notin {o, None} /\ Users(name) # {}
    /\ \A p \in Procs : pc[p] \notin Creating
    => m_needRemap[o] = 1

\* A segment that nobody has open keeps no reference, so that it can be removed.
NoReferenceLeaks ==
  \A o \in Objs : m_referenceCount[o] <= Cardinality(Users(o))

=============================================================================
