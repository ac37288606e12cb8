-------------------------- MODULE ShmSegmentProofs --------------------------
(***************************************************************************)
(* Proofs about ShmSegment, for every number of creators, readers and      *)
(* blocks.  An object is laid out once and by one process.  Of a topic     *)
(* that is created once, the reference count is the number of processes    *)
(* that have it open, and the last one removes the name.                   *)
(***************************************************************************)
EXTENDS ShmSegment, FiniteSetTheorems, TLAPS

\* Where a process uses the segment, and where it leaves it.
Using == {"r_index", "r_remap", "r_lock", "reading"}
Leaving == {"d_count", "d_remove"}
Locations == Creating \cup Opening \cup Using \cup Leaving \cup {"idle", "gone", "dead"}

\* The functions have their domains; their values are bounded by Once only as long
\* as the topic is created once.
Shape ==
  /\ size = [o \in Objs |-> size[o]] /\ m_blockNum = [o \in Objs |-> m_blockNum[o]]
  /\ m_referenceCount = [o \in Objs |-> m_referenceCount[o]]
  /\ m_needRemap = [o \in Objs |-> m_needRemap[o]]
  /\ constructed = [o \in Objs |-> constructed[o]]
  /\ pc \in [Procs -> Locations] /\ after \in [Procs -> {"r_index", "r_lock"}]
  /\ m_segMap \in [Procs -> {0, 1}] /\ m_init \in [Procs -> {0, 1}]
  /\ m_conf = [p \in Procs |-> m_conf[p]] /\ m_managedShm = [p \in Procs |-> m_managedShm[p]]
  /\ fd = [p \in Procs |-> fd[p]] /\ recreating \in [Procs -> {0, 1}]
  /\ created \in [Procs -> {0, 1}] /\ creates \in [Procs -> Nat]
  /\ \A p \in Procs : (pc[p] \in Creating \/ created[p] = 1) => p \in Creators /\ creates[p] > 0

\* The one object of a topic that is created once.
Obj == 1

\* Some call of Create has returned.
Complete == \E c \in Creators : created[c] = 1

\* What the creator has made of the object by the time it is at its next step.
CreatorInv(p) ==
  /\ pc[p] \notin {"c_remove", "c_flag"} /\ recreating[p] = 0
  /\ m_init[p] = 0 /\ created[p] = 0
  /\ m_conf[p] = BlockNumOf[p]
  /\ pc[p] = "c_open" <=> made = 0
  /\ pc[p] \in {"c_truncate", "c_map"} => fd[p] = Obj
  /\ pc[p] \notin {"c_open", "c_truncate"} => size[Obj] = m_conf[p]
  /\ pc[p] \in {"c_state", "c_blocks", "c_count"} => m_managedShm[p] = Obj
  /\ pc[p] \in {"c_blocks", "c_count"} => m_blockNum[Obj] = m_conf[p]
  /\ pc[p] = "c_count" => constructed[Obj] = 1

\* A process comes to the object once it is complete, and knows it.
UserInv(p) ==
  /\ pc[p] \in Using => m_init[p] = 1
  /\ pc[p] \in Opening \cup Leaving \cup {"gone"} => m_init[p] = 0
  /\ pc[p] \in Opening \cup Leaving \/ m_init[p] = 1 => Complete
  /\ m_segMap[p] = 1 => Complete
  /\ pc[p] = "o_map" => fd[p] = Obj
  /\ pc[p] \in {"o_conf", "o_count"} \cup Leaving \/ m_init[p] = 1 => m_managedShm[p] = Obj
  /\ pc[p] = "o_count" \/ m_init[p] = 1 => m_conf[p] = m_blockNum[Obj]

\* Somebody will still look at the reference count, or is about to remove the name.
Responsible(p) == pc[p] \in Creating \cup Leaving \/ m_init[p] = 1

Counted == {p \in Procs : m_init[p] = 1}

ObjectInv ==
  /\ made \in {0, Obj} /\ name \in {None, Obj}
  /\ (\A p \in Creators : creates[p] = 0) => made = 0
  /\ made = 0 => name = None
  /\ Complete => /\ made = Obj /\ constructed[Obj] = 1
                 /\ m_blockNum[Obj] \in Nat \ {0} /\ size[Obj] \in Nat \ {0}
  /\ \A o \in Objs : m_needRemap[o] = 0

CountInv ==
  \A o \in Objs : m_referenceCount[o] = IF o = Obj THEN Cardinality(Counted) ELSE 0

CreatorsInv == \A p \in Procs : pc[p] \in Creating => CreatorInv(p)

UsersInv == \A p \in Procs : UserInv(p)

NameInv == name = Obj => refused # 0 \/ \E p \in Procs : Responsible(p)

Once == ObjectInv /\ CountInv /\ CreatorsInv /\ UsersInv /\ NameInv

IInv == Shape /\ (CreatedOnce => Once)

-----------------------------------------------------------------------------

\* The functions keep their domains.
LEMMA ShapeStep ==
  ASSUME Shape, [Next]_vars
  PROVE  Shape'
<1> USE DEF Shape, Goto, Return, Set, Creating, Opening, Using, Leaving, Locations
<1>1. CASE UNCHANGED vars
  BY Zenon, <1>1 DEF vars, segment, object, members, locals, client
<1>2. ASSUME NEW p \in Procs, CreateSegment(p) PROVE Shape'
  BY <1>2 DEF CreateSegment, segment, object, locals, members, client
<1>3. ASSUME NEW p \in Procs, CreateOpen(p) PROVE Shape'
  BY ZenonT(60), <1>3 DEF CreateOpen, segment, object, locals, members, client
<1>4. ASSUME NEW p \in Procs, RecreateRemove(p) PROVE Shape'
  BY Zenon, <1>4 DEF RecreateRemove, segment, object, locals, members, client
<1>5. ASSUME NEW p \in Procs, CreateTruncate(p) PROVE Shape'
  BY Zenon, <1>5 DEF CreateTruncate, segment, object, locals, members, client
<1>6. ASSUME NEW p \in Procs, CreateMap(p) PROVE Shape'
  BY Zenon, <1>6 DEF CreateMap, segment, object, locals, members, client
<1>7. ASSUME NEW p \in Procs, CreateState(p) PROVE Shape'
  BY Zenon, <1>7 DEF CreateState, segment, object, locals, members, client
<1>8. ASSUME NEW p \in Procs, CreateBlocks(p) PROVE Shape'
  BY Zenon, <1>8 DEF CreateBlocks, segment, object, locals, members, client
<1>9. ASSUME NEW p \in Procs, CreateCount(p) PROVE Shape'
  BY ZenonT(60), <1>9 DEF CreateCount, Created, segment, object, locals, members, client
<1>10. ASSUME NEW p \in Procs, RecreateFlag(p) PROVE Shape'
  BY ZenonT(60), <1>10 DEF RecreateFlag, Created, segment, object, locals, members, client
<1>11. ASSUME NEW p \in Procs, CreateFail(p) PROVE Shape'
  BY ZenonT(60), <1>11 DEF CreateFail, segment, object, locals, members, client
<1>12. ASSUME NEW p \in Procs, HoldMemory(p) PROVE Shape'
  BY ZenonT(60), <1>12 DEF HoldMemory, segment, object, locals, members, client
<1>13. ASSUME NEW p \in Procs, OpenOnly(p) \/ OpenMap(p) \/ OpenConf(p) PROVE Shape'
  BY SMTT(60), <1>13 DEF OpenOnly, OpenMap, OpenConf, segment, object, locals, members, client
<1>14. ASSUME NEW p \in Procs, OpenCount(p) PROVE Shape'
  BY ZenonT(60), <1>14 DEF OpenCount, segment, object, locals, members, client
<1>15. ASSUME NEW p \in Procs, CheckIndex(p) \/ TryLockForRead(p) \/ ReleaseMemory(p) PROVE Shape'
  BY <1>15 DEF CheckIndex, TryLockForRead, ReleaseMemory, segment, object, locals, members, client
<1>16. ASSUME NEW p \in Procs, CheckRemap(p) PROVE Shape'
  BY <1>16 DEF CheckRemap, segment, object, locals, members, client
<1>17. ASSUME NEW p \in Procs, Exit(p) PROVE Shape'
  BY SMTT(60), <1>17 DEF Exit, Gone, segment, object, locals, members, client
<1>18. ASSUME NEW p \in Procs, DestroyCount(p) \/ DestroyRemove(p) PROVE Shape'
  BY <1>18 DEF DestroyCount, DestroyRemove, Gone, segment, object, locals, members, client
<1>19. ASSUME NEW p \in Procs, Die(p) PROVE Shape'
  BY Zenon, <1>19 DEF Die, segment, object, locals, members, client
<1> QED
  BY ZenonT(60), <1>1, <1>2, <1>3, <1>4, <1>5, <1>6, <1>7, <1>8, <1>9, <1>10, <1>11, <1>12, <1>13,
     <1>14, <1>15, <1>16, <1>17, <1>18, <1>19 DEF Next, Continue, Act

\* Only CreateSegment begins a call of Create, and it counts it; the dead stay dead.
Steady(q) ==
  /\ creates'[q] >= creates[q] /\ (pc[q] = "dead" => pc'[q] = "dead")
  /\ creates'[q] = creates[q] /\ (created'[q] = 1 \/ pc'[q] \in Creating)
       => created[q] = 1 \/ pc[q] \in Creating

\* Every step of a process is steady, for itself and for the others.
LEMMA StepsAreSteady ==
  ASSUME Shape, NEW p \in Procs, Continue(p) \/ Act(p), NEW q \in Procs
  PROVE  Steady(q)
<1> USE DEF Shape, Goto, Return, Set, Creating, Steady
<1>1. CASE q # p
  <2>1. pc'[q] = pc[q] /\ created'[q] = created[q]
    BY ZenonT(60), <1>1 DEF Continue, Act, CreateSegment, CreateOpen, RecreateRemove, CreateTruncate, CreateMap,
      CreateState, CreateBlocks, CreateCount, Created, RecreateFlag, CreateFail, HoldMemory,
      OpenOnly, OpenMap, OpenConf, OpenCount, CheckIndex, CheckRemap, TryLockForRead,
      ReleaseMemory, Exit, Gone, DestroyCount, DestroyRemove, Die, client
  <2>2. creates'[q] = creates[q]
    BY ZenonT(60), <1>1 DEF Continue, Act, CreateSegment, CreateOpen, RecreateRemove, CreateTruncate, CreateMap,
      CreateState, CreateBlocks, CreateCount, Created, RecreateFlag, CreateFail, HoldMemory,
      OpenOnly, OpenMap, OpenConf, OpenCount, CheckIndex, CheckRemap, TryLockForRead,
      ReleaseMemory, Exit, Gone, DestroyCount, DestroyRemove, Die, client
  <2> QED
    BY <2>1, <2>2
<1>2. CASE CreateSegment(p) /\ q = p
  BY <1>2 DEF CreateSegment
<1>3. CASE ~CreateSegment(p) /\ q = p
  <2>1. creates' = creates
    BY Zenon, <1>3 DEF Continue, Act, CreateOpen, RecreateRemove, CreateTruncate, CreateMap,
      CreateState, CreateBlocks, CreateCount, RecreateFlag, CreateFail, HoldMemory,
      OpenOnly, OpenMap, OpenConf, OpenCount, CheckIndex, CheckRemap, TryLockForRead,
      ReleaseMemory, Exit, DestroyCount, DestroyRemove, Die, client
  <2>2. pc[p] # "dead"
    BY Zenon, <1>3 DEF Continue, Act, CreateOpen, RecreateRemove, CreateTruncate, CreateMap,
      CreateState, CreateBlocks, CreateCount, RecreateFlag, CreateFail, HoldMemory,
      OpenOnly, OpenMap, OpenConf, OpenCount, CheckIndex, CheckRemap, TryLockForRead,
      ReleaseMemory, Exit, DestroyCount, DestroyRemove, Die, client
  <2>3. CASE pc[p] \in Creating
    BY <1>3, <2>1, <2>2, <2>3
  <2>4. CASE pc[p] \notin Creating
    <3>1. created' = created
      BY ZenonT(60), <1>3, <2>4 DEF Continue, Act, CreateOpen, RecreateRemove, CreateTruncate, CreateMap,
        CreateState, CreateBlocks, CreateCount, RecreateFlag, CreateFail, HoldMemory,
        OpenOnly, OpenMap, OpenConf, OpenCount, CheckIndex, CheckRemap, TryLockForRead,
        ReleaseMemory, Exit, DestroyCount, DestroyRemove, Die, client
    <3>2. pc'[p] \notin Creating
      BY <1>3, <2>4 DEF Continue, Act, CreateOpen, RecreateRemove, CreateTruncate, CreateMap,
        CreateState, CreateBlocks, CreateCount, RecreateFlag, CreateFail, HoldMemory,
        OpenOnly, OpenMap, OpenConf, OpenCount, CheckIndex, CheckRemap, TryLockForRead,
        ReleaseMemory, Exit, Gone, DestroyCount, DestroyRemove, Die
    <3> QED
      BY <1>3, <2>1, <2>2, <3>1, <3>2
  <2> QED
    BY Zenon, <2>3, <2>4
<1> QED
  BY Zenon, <1>1, <1>2, <1>3

\* A topic that is created once has been created once at every earlier moment.
LEMMA StillOnce ==
  ASSUME Shape, NEW p \in Procs, Continue(p) \/ Act(p), CreatedOnce'
  PROVE  CreatedOnce
<1>1. \A q \in Procs : Steady(q)
  BY Zenon, StepsAreSteady
<1>2. \A q \in Procs : pc[q] # "dead"
  BY Zenon, <1>1 DEF Steady, CreatedOnce
<1>3. \A q \in Creators : q \in Procs /\ creates[q] \in Nat /\ creates'[q] \in Nat
  BY ZenonT(60), ProcsAssumption, ShapeStep, Zenon DEF Shape, Next
<1>4. ASSUME NEW q \in Creators, creates[q] > 0
      PROVE  /\ creates[q] = 1 /\ (created[q] = 1 \/ pc[q] \in Creating)
             /\ \A r \in Creators \ {q} : creates[r] = 0
  <2>1. creates'[q] = 1 /\ creates[q] = 1
    BY SMTT(60), <1>1, <1>3, <1>4 DEF Steady, CreatedOnce
  <2>2. created[q] = 1 \/ pc[q] \in Creating
    BY SMTT(60), <1>1, <1>3, <2>1 DEF Steady, CreatedOnce
  <2>3. \A r \in Creators \ {q} : creates[r] = 0
    BY SMTT(30), <1>1, <1>3, <2>1 DEF Steady, CreatedOnce
  <2> QED
    BY Zenon, <2>1, <2>2, <2>3
<1> QED
  BY Zenon, <1>2, <1>4 DEF CreatedOnce

-----------------------------------------------------------------------------

\* Where there is a creator there can be an object.
LEMMA ObjIsObj ==
  ASSUME NEW p \in Creators
  PROVE  Obj \in Objs
<1>1. IsFiniteSet(Creators) /\ Cardinality(Creators) \in Nat
  BY Zenon, ProcsAssumption, FS_Subset, FS_CardinalityType
<1>2. Cardinality(Creators) # 0
  BY Zenon, <1>1, FS_EmptySet
<1>3. ASSUME NEW m \in Nat \ {0}, NEW n \in Nat \ {0} PROVE 1 \in 1 .. (m * n)
  OBVIOUS
<1> QED
  BY Zenon, <1>1, <1>2, <1>3, BoundsAssumption DEF Objs, Obj

\* While a process is creating the topic nobody else has come to it.
LEMMA CreatorAlone ==
  ASSUME Shape, CreatedOnce, Once, NEW p \in Procs, pc[p] \in Creating
  PROVE  /\ p \in Creators /\ creates[p] = 1 /\ ~Complete /\ Obj \in Objs /\ CreatorInv(p)
         /\ \A q \in Procs : /\ q # p => pc[q] \notin Creating
                             /\ m_init[q] = 0 /\ m_segMap[q] = 0
                             /\ pc[q] \notin Opening \cup Using \cup Leaving
<1>1. p \in Creators /\ creates[p] > 0
  BY Zenon DEF Shape
<1>2. creates[p] = 1 /\ \A q \in Creators \ {p} : creates[q] = 0
  BY Zenon, <1>1 DEF CreatedOnce
<1>3. CreatorInv(p)
  BY Zenon DEF Once, CreatorsInv
<1>4. ~Complete
  BY SMTT(30), <1>2, <1>3, ProcsAssumption DEF Complete, Shape, CreatorInv
<1>5. \A q \in Procs : q # p => pc[q] \notin Creating
  BY SMTT(60), <1>2 DEF Shape
<1>6. \A q \in Procs : m_init[q] = 0 /\ m_segMap[q] = 0 /\ pc[q] \notin Opening \cup Using \cup Leaving
  BY SMTT(30), <1>4 DEF Once, UsersInv, UserInv, Shape
<1> QED
  BY Zenon, <1>1, <1>2, <1>3, <1>4, <1>5, <1>6, ObjIsObj

\* The creator goes on: the others have nothing to do with it.
LEMMA CreatorGoesOn ==
  ASSUME Shape, CreatedOnce, Once, NEW p \in Procs, pc[p] \in Creating,
         NEW l \in Creating, pc' = [pc EXCEPT ![p] = l],
         UNCHANGED <<m_init, m_segMap, created, creates>>
  PROVE  /\ ~Complete' /\ UsersInv' /\ NameInv' /\ Counted' = Counted /\ Counted = {}
         /\ \A q \in Procs : pc'[q] \in Creating => q = p
         /\ ~\A c \in Creators : creates'[c] = 0
<1>1. pc'[p] = l /\ \A q \in Procs : q # p => pc'[q] = pc[q]
  BY Zenon DEF Shape
<1>2. l \notin Opening \cup Using \cup Leaving \cup {"gone"}
  BY Zenon DEF Creating, Opening, Using, Leaving
<1>3. ~Complete' /\ Counted' = Counted
  BY Zenon, CreatorAlone DEF Complete, Counted
<1>4. \A q \in Procs : /\ m_init'[q] = 0 /\ m_segMap'[q] = 0
                       /\ pc'[q] \notin Opening \cup Using \cup Leaving
  BY ZenonT(60), <1>1, <1>2, CreatorAlone
<1>5. UsersInv'
  BY SMTT(30), <1>4 DEF UsersInv, UserInv, Opening
<1>6. NameInv'
  BY Zenon, <1>1 DEF NameInv, Responsible
<1>7. Counted = {}
  BY SMTT(30), CreatorAlone DEF Counted
<1>8. ~\A c \in Creators : creates'[c] = 0
  BY SMTT(30), CreatorAlone
<1> QED
  BY Zenon, <1>1, <1>3, <1>5, <1>6, <1>7, <1>8, CreatorAlone

\* The first step of Create, of a topic that nobody has come to.
LEMMA CreateSegmentKeeps ==
  ASSUME Shape, CreatedOnce, CreatedOnce', Once, NEW p \in Procs, CreateSegment(p)
  PROVE  Once'
<1>1. /\ p \in Creators /\ creates'[p] = creates[p] + 1 /\ creates[p] \in Nat
      /\ \A c \in Creators \ {p} : creates'[c] = creates[c]
  BY Zenon, ProcsAssumption DEF CreateSegment, Shape
<1>2. creates[p] = 0 /\ \A c \in Creators \ {p} : creates'[c] = 0
  BY SMTT(30), <1>1 DEF CreatedOnce
<1>3. (\A c \in Creators : creates[c] = 0) /\ ~\A c \in Creators : creates'[c] = 0
  BY SMTT(60), <1>1, <1>2
<1>4. ~Complete /\ made = 0 /\ name = None
  BY SMTT(60), <1>3, ProcsAssumption DEF Complete, Shape, Once, ObjectInv
<1>5. \A q \in Procs : /\ m_init[q] = 0 /\ m_segMap[q] = 0
                       /\ pc[q] \notin Creating \cup Opening \cup Using \cup Leaving
  <2> SUFFICES ASSUME NEW q \in Procs
               PROVE  /\ m_init[q] = 0 /\ m_segMap[q] = 0
                      /\ pc[q] \notin Creating \cup Opening \cup Using \cup Leaving
    BY Zenon
  <2>1. pc[q] \notin Creating
    BY SMTT(30), <1>3 DEF Shape
  <2> QED
    BY SMTT(30), <1>4, <2>1 DEF Once, UsersInv, UserInv, Shape
<1>6. /\ pc'[p] = "c_open" /\ m_conf'[p] = BlockNumOf[p] /\ recreating'[p] = 0
      /\ created' = created /\ \A q \in Procs : q # p => pc'[q] = pc[q]
  <2>1. /\ pc' = [pc EXCEPT ![p] = "c_open"] /\ m_conf' = [m_conf EXCEPT ![p] = BlockNumOf[p]]
        /\ recreating' = [recreating EXCEPT ![p] = 0] /\ created' = created
    BY SMTT(30), <1>5 DEF CreateSegment, Goto, Set
  <2> QED
    BY Zenon, <2>1 DEF Shape
<1>7. UNCHANGED <<segment, m_segMap, m_init, m_managedShm, fd>>
  BY Zenon DEF CreateSegment
<1>8. ~Complete' /\ Counted' = Counted
  BY Zenon, <1>4, <1>6, <1>7 DEF Complete, Counted
<1>9. ObjectInv' /\ CountInv'
  <2>1. UNCHANGED <<made, name, m_needRemap, m_referenceCount>>
    BY Zenon, <1>7 DEF segment, object
  <2>2. ObjectInv'
    BY Zenon, <1>3, <1>4, <1>8, <2>1 DEF Once, ObjectInv
  <2>3. CountInv'
    BY Zenon, <1>8, <2>1 DEF Once, CountInv
  <2> QED
    BY Zenon, <2>2, <2>3
<1>10. CreatorsInv'
  <2>1. \A q \in Procs : pc'[q] \in Creating => q = p
    BY Zenon, <1>5, <1>6
  <2>2. CreatorInv(p)'
    <3>1. created'[p] = 0
      BY Zenon, <1>6, <1>4 DEF Complete, CreateSegment, Shape
    <3>2. made' = 0
      BY ZenonT(60), <1>4, <1>7 DEF segment
    <3> QED
      BY Zenon, <1>5, <1>6, <1>7, <3>1, <3>2 DEF CreatorInv
  <2> QED
    BY Zenon, <2>1, <2>2 DEF CreatorsInv
<1>11. UsersInv'
  BY SMTT(30), <1>5, <1>6, <1>7 DEF UsersInv, UserInv, Opening, Using, Leaving
<1>12. NameInv'
  BY SMTT(30), <1>4, <1>7 DEF NameInv, segment, Obj, None
<1> QED
  BY Zenon, <1>9, <1>10, <1>11, <1>12 DEF Once

\* shm_open with O_EXCL: the name was free, since nobody else creates.
LEMMA CreateOpenKeeps ==
  ASSUME Shape, CreatedOnce, Once, NEW p \in Procs, CreateOpen(p)
  PROVE  Once'
<1>0. pc[p] = "c_open" /\ pc[p] \in Creating
  BY Zenon DEF CreateOpen, Creating
<1>1. made = 0 /\ name = None /\ CreatorInv(p) /\ Obj \in Objs
  BY Zenon, <1>0, CreatorAlone DEF CreatorInv, Once, ObjectInv
<1>2. /\ made' = Obj /\ name' = Obj /\ fd' = Set(fd, p, Obj)
      /\ pc' = [pc EXCEPT ![p] = "c_truncate"] /\ UNCHANGED recreating
      /\ UNCHANGED <<object, members, client>>
  BY SMTT(30), <1>1 DEF CreateOpen, Goto, Obj, object, members, client
<1>3. /\ ~Complete' /\ UsersInv' /\ NameInv' /\ Counted' = Counted
      /\ \A q \in Procs : pc'[q] \in Creating => q = p
      /\ ~\A c \in Creators : creates'[c] = 0
  <2>1. "c_truncate" \in Creating /\ UNCHANGED <<m_init, m_segMap, created, creates>>
    BY Zenon, <1>2 DEF members, client, Creating
  <2> QED
    BY Zenon, <1>0, <1>2, <2>1, CreatorGoesOn
<1>4. UNCHANGED <<m_needRemap, m_referenceCount, m_init, created, m_conf>>
  BY ZenonT(60), <1>2 DEF object, members, client
<1>5. ObjectInv' /\ CountInv'
  BY SMTT(60), <1>2, <1>3, <1>4 DEF Once, ObjectInv, CountInv, Obj
<1>6. CreatorInv(p)'
  BY SMTT(60), <1>0, <1>1, <1>2, <1>4 DEF CreatorInv, Shape, Set, Obj
<1> QED
  BY Zenon, <1>3, <1>5, <1>6 DEF Once, CreatorsInv

\* The creator sizes the object, maps it and constructs it, and nobody else sees it.
LEMMA CreateWorkKeeps ==
  ASSUME Shape, CreatedOnce, Once, NEW p \in Procs,
         CreateTruncate(p) \/ CreateMap(p) \/ CreateState(p) \/ CreateBlocks(p)
  PROVE  Once'
<1>0. pc[p] \in {"c_truncate", "c_map", "c_state", "c_blocks"} /\ pc[p] \in Creating
  BY Zenon DEF CreateTruncate, CreateMap, CreateState, CreateBlocks, Creating
<1>1. CreatorInv(p) /\ Obj \in Objs /\ p \in Creators
  BY Zenon, <1>0, CreatorAlone
<1>2. /\ UNCHANGED <<name, made, m_init, m_segMap, created, creates, m_conf, fd, recreating>>
      /\ \E l \in Creating : pc' = [pc EXCEPT ![p] = l]
  BY Zenon DEF CreateTruncate, CreateMap, CreateState, CreateBlocks, segment, object, members,
     locals, client, Goto, Creating
<1>3. /\ ~Complete' /\ UsersInv' /\ NameInv' /\ Counted' = Counted /\ Counted = {}
      /\ \A q \in Procs : pc'[q] \in Creating => q = p
      /\ ~\A c \in Creators : creates'[c] = 0
  BY Zenon, <1>0, <1>2, CreatorGoesOn
<1>4. CreatorInv(p)'
  <2>1. CASE CreateTruncate(p)
    BY Zenon, <1>1, <1>2, <2>1 DEF CreateTruncate, CreatorInv, Shape, Set, Goto
  <2>2. CASE CreateMap(p)
    BY Zenon, <1>1, <1>2, <2>2 DEF CreateMap, CreatorInv, Shape, Set, Goto, segment, object
  <2>3. CASE CreateState(p)
    BY Zenon, <1>1, <1>2, <2>3 DEF CreateState, CreatorInv, Shape, Set, Goto, members
  <2>4. CASE CreateBlocks(p)
    BY Zenon, <1>1, <1>2, <2>4 DEF CreateBlocks, CreatorInv, Shape, Set, Goto, members
  <2> QED
    BY Zenon, <2>1, <2>2, <2>3, <2>4
<1>5. \A o \in Objs : m_needRemap'[o] = 0 /\ m_referenceCount'[o] = 0
  <2>1. \A o \in Objs : m_needRemap[o] = 0 /\ m_referenceCount[o] = 0
    BY Zenon, <1>3, FS_EmptySet DEF Once, ObjectInv, CountInv
  <2> QED
    BY Zenon, <2>1 DEF CreateTruncate, CreateMap, CreateState, CreateBlocks, segment, object, Set, Shape
<1>6. ObjectInv'
  BY Zenon, <1>2, <1>3, <1>5 DEF Once, ObjectInv
<1>7. CountInv'
  BY Zenon, <1>3, <1>5, FS_EmptySet DEF CountInv
<1> QED
  BY Zenon, <1>3, <1>4, <1>6, <1>7 DEF Once, CreatorsInv

\* Create counts its own reference, the first one, and returns.
LEMMA CreateCountKeeps ==
  ASSUME Shape, CreatedOnce, Once, NEW p \in Procs, CreateCount(p)
  PROVE  Once'
<1>0. pc[p] = "c_count" /\ pc[p] \in Creating
  BY Zenon DEF CreateCount, Creating
<1>1. /\ CreatorInv(p) /\ Obj \in Objs /\ p \in Creators
      /\ m_managedShm[p] = Obj /\ recreating[p] = 0 /\ m_blockNum[Obj] = BlockNumOf[p]
      /\ m_conf[p] = BlockNumOf[p] /\ size[Obj] = BlockNumOf[p] /\ constructed[Obj] = 1
      /\ BlockNumOf[p] \in Nat \ {0} /\ made = Obj
  BY ZenonT(60), <1>0, CreatorAlone, BlockNumAssumption DEF CreatorInv, Once, ObjectInv
<1>2. \A q \in Procs : /\ q # p => pc[q] \notin Creating
                       /\ m_init[q] = 0 /\ m_segMap[q] = 0
                       /\ pc[q] \notin Opening \cup Using \cup Leaving
  BY ZenonT(60), <1>0, CreatorAlone
<1>3. /\ m_referenceCount' = [m_referenceCount EXCEPT ![Obj] = @ + 1]
      /\ m_init' = Set(m_init, p, 1) /\ m_segMap' = Set(m_segMap, p, 1)
      /\ created' = Set(created, p, 1) /\ pc' = Set(pc, p, "idle")
      /\ UNCHANGED <<name, made, size, m_blockNum, m_needRemap, constructed, m_conf,
                     m_managedShm, creates>>
  BY SMTT(30), <1>1 DEF CreateCount, Created, Return, Goto, Set
<1>4. /\ m_init'[p] = 1 /\ pc'[p] = "idle" /\ created'[p] = 1
      /\ \A q \in Procs : q # p => m_init'[q] = 0 /\ pc'[q] = pc[q] /\ m_segMap'[q] = 0
  BY ZenonT(60), <1>2, <1>3 DEF Set, Shape
<1>5. Complete' /\ Counted' = {p} /\ Counted = {}
  BY SMTT(30), <1>1, <1>2, <1>4 DEF Complete, Counted
<1>6. ObjectInv'
  BY Zenon, <1>1, <1>3, <1>5 DEF Once, ObjectInv, Obj
<1>7. CountInv'
  <2>1. Cardinality(Counted) = 0 /\ Cardinality(Counted') = 1
    BY Zenon, <1>5, FS_EmptySet, FS_Singleton
  <2>2. \A o \in Objs : m_referenceCount[o] = 0
    BY ZenonT(60), <2>1 DEF Once, CountInv
  <2>3. \A o \in Objs : m_referenceCount'[o] = IF o = Obj THEN 1 ELSE 0
    BY SMTT(30), <1>1, <1>3, <2>2 DEF Shape
  <2> QED
    BY Zenon, <2>1, <2>3 DEF CountInv
<1>8. CreatorsInv'
  BY Zenon, <1>2, <1>4 DEF CreatorsInv, Creating
<1>9. UsersInv'
  <2>1. UserInv(p)'
    BY ZenonT(60), <1>1, <1>3, <1>4, <1>5 DEF UserInv, Opening, Using, Leaving
  <2>2. ASSUME NEW q \in Procs, q # p PROVE UserInv(q)'
    BY SMTT(30), <1>2, <1>4, <2>2, <1>5 DEF UserInv, Opening
  <2> QED
    BY Zenon, <2>1, <2>2 DEF UsersInv
<1>10. NameInv'
  BY Zenon, <1>4 DEF NameInv, Responsible
<1> QED
  BY Zenon, <1>6, <1>7, <1>8, <1>9, <1>10 DEF Once

-----------------------------------------------------------------------------

\* A process that is not creating changes only its own state, the reference count
\* and, when it removes it, the name.
OnlyOwn(p) ==
  /\ pc[p] \notin Creating /\ pc'[p] \notin Creating
  /\ \A q \in Procs : q # p =>
       /\ pc'[q] = pc[q] /\ m_init'[q] = m_init[q] /\ m_segMap'[q] = m_segMap[q]
       /\ m_managedShm'[q] = m_managedShm[q] /\ m_conf'[q] = m_conf[q] /\ fd'[q] = fd[q]
  /\ UNCHANGED <<made, size, m_blockNum, m_needRemap, constructed, created, creates, recreating>>
  /\ name' \in {name, None} /\ (refused # 0 => refused' # 0)

\* A step that touches only the process's own state, and perhaps removes the name,
\* disturbs nothing the others rely on.
LEMMA OwnStepKeeps ==
  ASSUME Shape, Once, NEW p \in Procs, OnlyOwn(p), UserInv(p)'
  PROVE  ObjectInv' /\ CreatorsInv' /\ UsersInv' /\ (Complete' <=> Complete)
<1>1. Complete' <=> Complete
  BY Zenon DEF Complete, OnlyOwn
<1>2. ObjectInv'
  BY Zenon, <1>1 DEF Once, ObjectInv, OnlyOwn
<1>3. CreatorsInv'
  <2> SUFFICES ASSUME NEW q \in Procs, pc'[q] \in Creating PROVE CreatorInv(q)'
    BY Zenon DEF CreatorsInv
  <2>1. q # p /\ CreatorInv(q)
    BY Zenon DEF OnlyOwn, Once, CreatorsInv
  <2> QED
    BY Zenon, <2>1 DEF OnlyOwn, CreatorInv
<1>4. UsersInv'
  <2> SUFFICES ASSUME NEW q \in Procs, q # p PROVE UserInv(q)'
    BY Zenon DEF UsersInv
  <2>1. UserInv(q)
    BY Zenon DEF Once, UsersInv
  <2> QED
    BY Zenon, <1>1, <2>1 DEF OnlyOwn, UserInv
<1> QED
  BY Zenon, <1>1, <1>2, <1>3, <1>4

\* Nobody's reference changes, and who is responsible for the name stays so.
LEMMA UncountedStepKeeps ==
  ASSUME Shape, Once, NEW p \in Procs, OnlyOwn(p), UserInv(p)',
         UNCHANGED m_referenceCount, m_init'[p] = m_init[p],
         pc[p] \in Leaving => pc'[p] \in Leaving \/ name' = None \/ refused' # 0
  PROVE  Once'
<1>1. Counted' = Counted
  BY Zenon DEF Counted, OnlyOwn
<1>2. CountInv'
  BY Zenon, <1>1 DEF Once, CountInv
<1>3. NameInv'
  <2> SUFFICES ASSUME name' = Obj, refused' = 0 PROVE \E q \in Procs : Responsible(q)'
    BY ZenonT(60) DEF NameInv
  <2>1. name = Obj /\ name' # None /\ refused = 0
    BY SMTT(30) DEF OnlyOwn, Obj, None
  <2>2. PICK q \in Procs : Responsible(q)
    BY Zenon, <2>1 DEF Once, NameInv
  <2>3. Responsible(q)'
    BY Zenon, <2>1, <2>2 DEF Responsible, OnlyOwn
  <2> QED
    BY Zenon, <2>3
<1> QED
  BY Zenon, <1>2, <1>3, OwnStepKeeps DEF Once

\* A process that has the object open, or is about to, finds it complete.
LEMMA UserFacts ==
  ASSUME Shape, Once, NEW p \in Procs, UserInv(p), Complete
  PROVE  /\ Obj \in Objs /\ made = Obj /\ constructed[Obj] = 1 /\ m_needRemap[Obj] = 0
         /\ m_blockNum[Obj] \in Nat \ {0} /\ size[Obj] \in Nat \ {0}
<1>1. Obj \in Objs
  BY Zenon, ObjIsObj DEF Complete
<1> QED
  BY Zenon, <1>1 DEF Once, ObjectInv

\* A reader comes, with an index that some creator sent.
LEMMA HoldMemoryKeeps ==
  ASSUME Shape, Once, NEW p \in Procs, HoldMemory(p)
  PROVE  Once'
<1>1. /\ pc[p] = "idle" /\ Complete /\ UserInv(p)
      /\ UNCHANGED <<segment, m_init, m_conf, m_managedShm, fd, recreating, created, creates, refused>>
      /\ m_segMap' = Set(m_segMap, p, 1)
      /\ \/ m_init[p] = 1 /\ pc' = [pc EXCEPT ![p] = "r_index"]
         \/ m_init[p] = 0 /\ pc' = [pc EXCEPT ![p] = "o_open"]
  BY Zenon DEF HoldMemory, Complete, Once, UsersInv, Goto
<1>2. OnlyOwn(p)
  BY ZenonT(60), <1>1 DEF OnlyOwn, Shape, Set, segment, object, Creating
<1>3. UserInv(p)'
  <2>1. Complete' /\ m_blockNum' = m_blockNum
    BY Zenon, <1>1 DEF Complete, segment, object
  <2> QED
    BY ZenonT(60), <1>1, <2>1 DEF UserInv, Shape, Opening, Using, Leaving
<1> QED
  BY Zenon, <1>1, <1>2, <1>3, UncountedStepKeeps DEF segment, object, Leaving

\* OpenOnly up to the configuration: the object it finds is complete.
LEMMA OpenKeeps ==
  ASSUME Shape, Once, NEW p \in Procs, OpenOnly(p) \/ OpenMap(p) \/ OpenConf(p)
  PROVE  Once'
<1>1. /\ pc[p] \in {"o_open", "o_map", "o_conf"} /\ UserInv(p)
      /\ UNCHANGED <<segment, m_segMap, m_init, recreating, client>>
  BY Zenon DEF OpenOnly, OpenMap, OpenConf, Once, UsersInv, members, locals
<1>2. Complete /\ m_init[p] = 0
  BY Zenon, <1>1 DEF UserInv, Opening
<1>3. OnlyOwn(p)
  BY ZenonT(60) DEF OpenOnly, OpenMap, OpenConf, Goto, Return, OnlyOwn, Shape, Set, segment, object, members,
     locals, client, Creating
<1>4. UserInv(p)'
  <2>1. Complete' /\ m_blockNum' = m_blockNum /\ name \in {None, Obj}
    BY Zenon, <1>1, <1>2 DEF Complete, segment, object, client, Once, ObjectInv
  <2>2. CASE OpenOnly(p)
    BY ZenonT(60), <1>1, <1>2, <2>1, <2>2 DEF OpenOnly, Goto, Return, UserInv, Shape, Set, Opening, Using, Leaving, members
  <2>3. CASE OpenMap(p)
    BY ZenonT(60), <1>1, <1>2, <2>1, <2>3 DEF OpenMap, Goto, Return, UserInv, Shape, Set, Opening, Using, Leaving
  <2>4. CASE OpenConf(p)
    BY Zenon, <1>1, <1>2, <2>1, <2>4 DEF OpenConf, Goto, UserInv, Shape, Set, Opening, Using, Leaving
  <2> QED
    BY Zenon, <2>2, <2>3, <2>4
<1> QED
  BY Zenon, <1>1, <1>3, <1>4, UncountedStepKeeps DEF segment, object, Leaving

\* OpenOnly takes its reference.
LEMMA OpenCountKeeps ==
  ASSUME Shape, Once, NEW p \in Procs, OpenCount(p)
  PROVE  Once'
<1>1. /\ pc[p] = "o_count" /\ UserInv(p) /\ after[p] \in {"r_index", "r_lock"}
      /\ UNCHANGED <<name, made, size, m_blockNum, m_needRemap, constructed, m_segMap, m_conf,
                     m_managedShm, fd, recreating, created, creates, refused>>
      /\ m_init' = Set(m_init, p, 1) /\ pc' = [pc EXCEPT ![p] = after[p]]
  BY Zenon DEF OpenCount, Once, UsersInv, locals, client, Shape, Goto
<1>2. Complete /\ m_init[p] = 0 /\ m_managedShm[p] = Obj /\ Obj \in Objs
  BY Zenon, <1>1, UserFacts DEF UserInv, Opening
<1>3. OnlyOwn(p)
  BY Zenon, <1>1 DEF OnlyOwn, Shape, Set, Creating
<1>4. UserInv(p)'
  <2>1. Complete'
    BY ZenonT(60), <1>1, <1>2 DEF Complete
  <2> QED
    BY Zenon, <1>1, <1>2, <2>1 DEF UserInv, Shape, Set, Opening, Using, Leaving
<1>5. Counted' = Counted \cup {p} /\ p \notin Counted
  BY SMTT(30), <1>1, <1>2 DEF Counted, Set, Shape
<1>6. CountInv'
  <2>1. IsFiniteSet(Counted)
    BY Zenon, ProcsAssumption, FS_Subset DEF Counted
  <2>2. Cardinality(Counted') = Cardinality(Counted) + 1
    BY Zenon, <1>5, <2>1, FS_AddElement
  <2>3. \A o \in Objs : m_referenceCount'[o]
                          = IF o = Obj THEN m_referenceCount[o] + 1 ELSE m_referenceCount[o]
    BY Zenon, <1>2 DEF OpenCount, Shape
  <2> QED
    BY Zenon, <2>2, <2>3 DEF Once, CountInv
<1>7. NameInv'
  BY Zenon, <1>5 DEF NameInv, Responsible, Counted
<1> QED
  BY ZenonT(60), <1>3, <1>4, <1>6, <1>7, OwnStepKeeps DEF Once

\* A reader checks the index, finds nothing to remap, locks and releases the block.
LEMMA ReadKeeps ==
  ASSUME Shape, Once, NEW p \in Procs,
         CheckIndex(p) \/ CheckRemap(p) \/ TryLockForRead(p) \/ ReleaseMemory(p)
  PROVE  Once'
<1>1. pc[p] \in Using /\ UserInv(p)
  BY Zenon DEF CheckIndex, CheckRemap, TryLockForRead, ReleaseMemory, Using, Once, UsersInv
<1>2. Complete /\ m_init[p] = 1 /\ m_managedShm[p] = Obj
  BY Zenon, <1>1 DEF UserInv
<1>3. m_needRemap[Obj] = 0
  BY ZenonT(60), <1>1, <1>2, UserFacts
<1>4. /\ UNCHANGED <<segment, members, fd, recreating, client>>
      /\ \E l \in Using \cup {"idle"} : pc' = [pc EXCEPT ![p] = l]
  BY SMTT(60), <1>2, <1>3 DEF CheckIndex, CheckRemap, TryLockForRead, ReleaseMemory, Using, Goto, Return,
     members, locals
<1>5. OnlyOwn(p)
  BY Zenon, <1>1, <1>4 DEF OnlyOwn, Shape, segment, object, members, client, Creating, Using
<1>6. UserInv(p)'
  <2>1. Complete' /\ UNCHANGED <<m_blockNum, m_init, m_segMap, m_conf, m_managedShm>>
    BY Zenon, <1>2, <1>4 DEF Complete, segment, object, client, members
  <2>2. pc'[p] \in Using \cup {"idle"}
    BY Zenon, <1>4 DEF Shape
  <2> QED
    BY Zenon, <1>1, <1>2, <2>1, <2>2 DEF UserInv, Opening, Using, Leaving
<1> QED
  BY Zenon, <1>1, <1>4, <1>5, <1>6, UncountedStepKeeps DEF segment, object, members, Leaving, Using

\* exit() of a process that has nothing open, and Destroy's decrement.
LEMMA ExitKeeps ==
  ASSUME Shape, Once, NEW p \in Procs, Exit(p)
  PROVE  Once'
<1>1. /\ pc[p] \in {"idle", "r_index", "r_remap", "r_lock", "reading"} /\ UserInv(p)
      /\ UNCHANGED <<name, made, size, m_blockNum, m_needRemap, constructed, m_segMap, m_conf,
                     fd, recreating, created, creates, refused>>
  BY Zenon DEF Exit, Once, UsersInv, locals, client
<1>2. pc[p] \notin Creating \cup Leaving
  BY Zenon, <1>1 DEF Creating, Leaving
<1>3. Complete' <=> Complete
  BY Zenon, <1>1 DEF Complete
<1>4. CASE m_init[p] = 0
  <2>1. /\ UNCHANGED <<m_referenceCount, m_init>> /\ pc' = [pc EXCEPT ![p] = "gone"]
        /\ m_managedShm' = [m_managedShm EXCEPT ![p] = None]
    BY SMTT(30), <1>4 DEF Exit, Gone, Goto, Set
  <2>2. OnlyOwn(p)
    BY ZenonT(60), <1>1, <1>2, <2>1 DEF OnlyOwn, Shape, Creating
  <2>3. UserInv(p)'
    BY SMTT(60), <1>1, <1>3, <1>4, <2>1 DEF UserInv, Shape, Opening, Using, Leaving
  <2> QED
    BY ZenonT(60), <1>2, <2>1, <2>2, <2>3, UncountedStepKeeps
<1>5. CASE m_init[p] = 1
  <2>1. /\ m_init' = [m_init EXCEPT ![p] = 0] /\ pc' = [pc EXCEPT ![p] = "d_count"]
        /\ m_referenceCount' =
             [m_referenceCount EXCEPT ![m_managedShm[p]] = DecreaseReferenceCounts(@)]
        /\ UNCHANGED m_managedShm
    <3>1. m_init[p] # 0
      BY <1>5
    <3> QED
      BY Zenon, <3>1 DEF Exit, Goto, Set
  <2>2. Complete /\ m_managedShm[p] = Obj /\ Obj \in Objs
    BY Zenon, <1>1, <1>5, UserFacts DEF UserInv
  <2>3. OnlyOwn(p)
    BY Zenon, <1>1, <1>2, <2>1 DEF OnlyOwn, Shape, Creating
  <2>4. UserInv(p)'
    BY ZenonT(60), <1>1, <1>3, <1>5, <2>1, <2>2 DEF UserInv, Shape, Opening, Using, Leaving
  <2>5. Counted' = Counted \ {p} /\ p \in Counted
    BY SMTT(30), <1>5, <2>1 DEF Counted, Shape
  <2>6. CountInv'
    <3>1. IsFiniteSet(Counted) /\ Cardinality(Counted) \in Nat
      BY Zenon, ProcsAssumption, FS_Subset, FS_CardinalityType DEF Counted
    <3>2. Cardinality(Counted') = Cardinality(Counted) - 1 /\ Cardinality(Counted) # 0
      BY Zenon, <2>5, <3>1, FS_RemoveElement, FS_EmptySet
    <3>3. \A o \in Objs : m_referenceCount'[o]
                            = IF o = Obj THEN DecreaseReferenceCounts(m_referenceCount[o])
                              ELSE m_referenceCount[o]
      BY Zenon, <2>1, <2>2 DEF Shape
    <3> QED
      BY Zenon, <3>1, <3>2, <3>3 DEF Once, CountInv, DecreaseReferenceCounts
  <2>7. NameInv'
    <3>1. pc'[p] \in Leaving
      BY Zenon, <2>1 DEF Shape, Leaving
    <3> QED
      BY Zenon, <3>1 DEF NameInv, Responsible
  <2> QED
    BY Zenon, <2>3, <2>4, <2>6, <2>7, OwnStepKeeps DEF Once
<1> QED
  BY Zenon, <1>4, <1>5 DEF Shape

\* Destroy removes the name when the count is zero; otherwise somebody else will.
LEMMA DestroyKeeps ==
  ASSUME Shape, Once, NEW p \in Procs, DestroyCount(p) \/ DestroyRemove(p)
  PROVE  Once'
<1>1. /\ pc[p] \in Leaving /\ UserInv(p)
      /\ UNCHANGED <<made, object, m_segMap, m_init, m_conf, fd, recreating, created, creates>>
  BY Zenon DEF DestroyCount, DestroyRemove, Leaving, Once, UsersInv, segment, locals, client
<1>2. Complete /\ m_init[p] = 0 /\ m_managedShm[p] = Obj /\ Obj \in Objs
  BY Zenon, <1>1, UserFacts DEF UserInv
<1>3. OnlyOwn(p)
  <2>1. name' \in {name, None} /\ (refused # 0 => refused' # 0)
    BY SMTT(30) DEF DestroyCount, DestroyRemove, Unlink, segment, client
  <2> QED
    BY ZenonT(60), <2>1 DEF DestroyCount, DestroyRemove, Gone, Goto, Set, OnlyOwn, Shape, segment, object,
       locals, client, Creating
<1>4. /\ m_managedShm'[p] \in {m_managedShm[p], None} /\ pc'[p] \in {"d_remove", "gone"}
      /\ pc'[p] = "d_remove" => m_managedShm'[p] = m_managedShm[p]
  BY Zenon DEF DestroyCount, DestroyRemove, Gone, Goto, Set, Shape
<1>5. UserInv(p)'
  <2>1. Complete' <=> Complete
    BY Zenon, <1>1 DEF Complete
  <2> QED
    <3>1. m_init'[p] = 0 /\ m_init'[p] # 1
      BY <1>1, <1>2
    <3> QED
      BY ZenonT(60), <1>1, <1>2, <1>4, <2>1, <3>1 DEF UserInv, Opening, Using, Leaving
<1>6. UNCHANGED <<m_referenceCount, m_init>>
  BY Zenon, <1>1 DEF object
<1>7. CASE pc'[p] \in Leaving \/ name' = None \/ refused' # 0
  BY ZenonT(60), <1>3, <1>5, <1>6, <1>7, UncountedStepKeeps
<1>8. CASE pc'[p] \notin Leaving /\ name' # None /\ refused' = 0
  <2>1. m_referenceCount[Obj] # 0
    <3>1. ~DestroyRemove(p)
      BY SMTT(30), <1>8 DEF DestroyRemove, Unlink
    <3> QED
      BY Zenon, <1>2, <1>8, <3>1 DEF DestroyCount, LastReference, Goto, Shape, Leaving
  <2>2. Counted # {} /\ Counted' = Counted
    BY Zenon, <1>2, <1>6, <2>1, FS_EmptySet DEF Once, CountInv, Counted
  <2>3. NameInv'
    BY Zenon, <2>2 DEF NameInv, Responsible, Counted
  <2>4. CountInv'
    BY Zenon, <1>6, <2>2 DEF Once, CountInv
  <2> QED
    BY ZenonT(60), <1>3, <1>5, <2>3, <2>4, OwnStepKeeps DEF Once
<1> QED
  BY Zenon, <1>7, <1>8

-----------------------------------------------------------------------------

\* Of a topic that is created once no call of Create fails, recreates or is killed.
LEMMA OtherStepsExcluded ==
  ASSUME Shape, CreatedOnce, Once, CreatedOnce', NEW p \in Procs
  PROVE  ~(CreateFail(p) \/ Die(p) \/ RecreateRemove(p) \/ RecreateFlag(p))
<1>1. ~Die(p)
  BY ZenonT(60) DEF Die, Goto, CreatedOnce, Shape
<1>2. CASE pc[p] \in Creating
  <2>1. /\ p \in Creators /\ creates[p] = 1 /\ created[p] = 0
        /\ pc[p] \notin {"c_remove", "c_flag"}
    BY ZenonT(60), <1>2, CreatorAlone DEF CreatorInv
  <2>2. ~CreateFail(p)
    <3> SUFFICES ASSUME CreateFail(p) PROVE FALSE
      BY Zenon
    <3>1. creates'[p] = 1 /\ created'[p] = 0 /\ pc'[p] = "idle"
      BY Zenon, <2>1 DEF CreateFail, Return, Goto, Shape, client
    <3> QED
      BY SMTT(30), <2>1, <3>1 DEF CreatedOnce, Creating
  <2> QED
    BY Zenon, <1>1, <2>1, <2>2 DEF RecreateRemove, RecreateFlag
<1>3. CASE pc[p] \notin Creating
  BY Zenon, <1>1, <1>3 DEF CreateFail, RecreateRemove, RecreateFlag, Creating
<1> QED
  BY Zenon, <1>2, <1>3

\* Every step of a process keeps what holds of a topic that is created once.
LEMMA OnceStep ==
  ASSUME Shape, CreatedOnce, Once, CreatedOnce', NEW p \in Procs, Continue(p) \/ Act(p)
  PROVE  Once'
<1>1. CASE CreateSegment(p) \/ CreateOpen(p) \/ CreateCount(p)
  BY Zenon, <1>1, CreateSegmentKeeps, CreateOpenKeeps, CreateCountKeeps
<1>2. CASE CreateTruncate(p) \/ CreateMap(p) \/ CreateState(p) \/ CreateBlocks(p)
  BY Zenon, <1>2, CreateWorkKeeps
<1>3. CASE HoldMemory(p) \/ OpenCount(p) \/ Exit(p)
  BY Zenon, <1>3, HoldMemoryKeeps, OpenCountKeeps, ExitKeeps
<1>4. CASE OpenOnly(p) \/ OpenMap(p) \/ OpenConf(p)
  BY Zenon, <1>4, OpenKeeps
<1>5. CASE CheckIndex(p) \/ CheckRemap(p) \/ TryLockForRead(p) \/ ReleaseMemory(p)
  BY Zenon, <1>5, ReadKeeps
<1>6. CASE DestroyCount(p) \/ DestroyRemove(p)
  BY Zenon, <1>6, DestroyKeeps
<1> QED
  BY ZenonT(60), <1>1, <1>2, <1>3, <1>4, <1>5, <1>6, OtherStepsExcluded DEF Continue, Act

\* A step that changes nothing keeps it too.
LEMMA OnceStutters ==
  ASSUME CreatedOnce => Once, UNCHANGED vars
  PROVE  (CreatedOnce => Once)'
<1>1. UNCHANGED <<name, made, size, m_blockNum, m_referenceCount, m_needRemap, constructed, pc,
                  m_segMap, m_init, m_conf, m_managedShm, fd, recreating, created, creates, refused>>
  BY Zenon DEF vars, segment, object, members, locals, client
<1>2. /\ (CreatedOnce' <=> CreatedOnce) /\ (ObjectInv' <=> ObjectInv) /\ (CountInv' <=> CountInv)
      /\ (CreatorsInv' <=> CreatorsInv) /\ (UsersInv' <=> UsersInv) /\ (NameInv' <=> NameInv)
  BY ZenonT(60), <1>1 DEF CreatedOnce, ObjectInv, CountInv, CreatorsInv, UsersInv, NameInv, CreatorInv,
     UserInv, Responsible, Counted, Complete
<1> QED
  BY Zenon, <1>2 DEF Once

\* IInv is an inductive invariant: the functions keep their domains, whatever is
\* created, and of a topic that is created once everything in Once holds.
THEOREM Inductive == Spec => []IInv
<1>1. Init => IInv
  <2> SUFFICES ASSUME Init PROVE IInv
    BY Zenon
  <2>1. Shape
    BY SMTT(30) DEF Init, Shape, Locations, Creating
  <2>2. \A p \in Procs : pc[p] = "idle" /\ m_init[p] = 0 /\ m_segMap[p] = 0
    BY Zenon DEF Init
  <2>3. ~Complete
    BY SMTT(30), ProcsAssumption DEF Init, Complete
  <2>4. ObjectInv /\ NameInv
    BY SMTT(60), <2>3 DEF Init, ObjectInv, NameInv, Obj, None
  <2>5. CreatorsInv /\ UsersInv
    BY SMTT(30), <2>2 DEF CreatorsInv, UsersInv, UserInv, Creating, Opening, Using, Leaving
  <2>6. CountInv
    <3>1. Counted = {}
      BY SMTT(30), <2>2 DEF Counted
    <3> QED
      BY Zenon, <3>1, FS_EmptySet DEF Init, CountInv
  <2> QED
    BY Zenon, <2>1, <2>4, <2>5, <2>6 DEF IInv, Once
<1>2. IInv /\ [Next]_vars => IInv'
  <2> SUFFICES ASSUME IInv, [Next]_vars PROVE IInv'
    BY Zenon
  <2>1. Shape'
    BY Zenon, ShapeStep DEF IInv
  <2>2. CASE UNCHANGED vars
    BY Zenon, <2>1, <2>2, OnceStutters DEF IInv
  <2>3. CASE Next
    <3> SUFFICES ASSUME NEW p \in Procs, Continue(p) \/ Act(p), CreatedOnce' PROVE Once'
      BY Zenon, <2>1, <2>3 DEF IInv, Next
    <3>1. CreatedOnce
      BY Zenon, StillOnce DEF IInv
    <3> QED
      BY Zenon, <3>1, OnceStep DEF IInv
  <2> QED
    BY Zenon, <2>2, <2>3
<1> QED
  BY <1>1, <1>2, PTL DEF Spec

\* The users of the one object are the processes that are initialised.
LEMMA UsersAreCounted ==
  ASSUME Shape, Once, NEW o \in Objs
  PROVE  Users(o) = IF o = Obj THEN Counted ELSE {}
<1>1. \A p \in Procs : m_init[p] = 1 => m_managedShm[p] = Obj
  BY Zenon DEF Once, UsersInv, UserInv
<1> QED
  BY Zenon, <1>1 DEF Users, Counted

\* The reference count of a topic that is created once is the number of processes
\* that have it open: no increment or decrement of Create, OpenOnly and Destroy is
\* lost, doubled or cut off at zero.
THEOREM CountIsExact == Spec => []RefsCountUsers
<1>1. IInv => RefsCountUsers
  <2> SUFFICES ASSUME Shape, Once, NEW o \in Objs
               PROVE  m_referenceCount[o] = Cardinality(Users(o))
    BY Zenon DEF IInv, RefsCountUsers
  <2> QED
    BY Zenon, UsersAreCounted, FS_EmptySet DEF Once, CountInv
<1> QED
  BY <1>1, Inductive, PTL

\* When every process has exited, the name of a topic that was created once is gone,
\* unless shm_unlink refused to remove it: whoever decrements the count to zero removes it, however Destroy of one process
\* interleaves with OpenOnly and Destroy of the others.
THEOREM NameIsRemoved == Spec => []LastOneRemoves
<1>1. IInv => LastOneRemoves
  <2> SUFFICES ASSUME Once, \A p \in Procs : pc[p] = "gone" PROVE name = None \/ refused # 0
    BY Zenon DEF IInv, LastOneRemoves
  <2>1. \A p \in Procs : ~Responsible(p)
    BY SMTT(30) DEF Once, UsersInv, UserInv, Responsible, Creating, Leaving
  <2> QED
    BY Zenon, <2>1 DEF Once, ObjectInv, NameInv
<1> QED
  BY <1>1, Inductive, PTL

-----------------------------------------------------------------------------
(***************************************************************************)
(* Creators that race, replace each other's segment, fail or are killed.   *)
(***************************************************************************)

Laying == {"c_truncate", "c_map", "c_state", "c_blocks"}

\* The object that a call of Create is laying out.
Target(p) == IF pc[p] \in {"c_truncate", "c_map"} THEN fd[p] ELSE m_managedShm[p]

\* Every call of Create lays out an object of its own, which is not made yet.
BuildInv ==
  /\ made \in Nat
  /\ \A o \in Objs : o > made => constructed[o] = 0
  /\ \A p \in Procs : pc[p] \in Laying =>
       Target(p) \in Objs /\ Target(p) <= made /\ constructed[Target(p)] = 0
  /\ \A p, q \in Procs :
       p # q /\ pc[p] \in Laying /\ pc[q] \in Laying => Target(p) # Target(q)

\* A step of p that begins no object and makes none.
LaysNothing(p) ==
  /\ UNCHANGED <<made, constructed>>
  /\ pc'[p] \in Laying => pc[p] \in Laying /\ Target(p)' = Target(p)
  /\ \A q \in Procs \ {p} : pc'[q] = pc[q] /\ Target(q)' = Target(q)

\* Such a step keeps the invariant.
LEMMA LaysNothingKeeps ==
  ASSUME BuildInv, NEW p \in Procs, LaysNothing(p)
  PROVE  BuildInv'
<1>1. \A q \in Procs : pc'[q] \in Laying => pc[q] \in Laying /\ Target(q)' = Target(q)
  BY Zenon DEF LaysNothing
<1>2. made' = made /\ constructed' = constructed
  BY Zenon DEF LaysNothing
<1> QED
  BY ZenonT(60), <1>1, <1>2 DEF BuildInv

\* The object that shm_open makes is nobody else's.
LEMMA CreateOpenBuilds ==
  ASSUME Shape, BuildInv, NEW p \in Procs, CreateOpen(p)
  PROVE  BuildInv'
<1> USE DEF Goto, Set
<1>1. CASE name # None
  <2>1. LaysNothing(p)
    BY Zenon, <1>1 DEF CreateOpen, LaysNothing, Target, Shape, Laying, object, members
  <2> QED
    BY Zenon, <2>1, LaysNothingKeeps
<1>2. CASE name = None
  <2>1. /\ made' = made + 1 /\ made' \in Objs /\ constructed' = constructed
        /\ pc' = [pc EXCEPT ![p] = "c_truncate"] /\ fd' = [fd EXCEPT ![p] = made + 1]
        /\ m_managedShm' = m_managedShm
    BY Zenon, <1>2 DEF CreateOpen, object, members
  <2>2. /\ pc'[p] = "c_truncate" /\ fd'[p] = made'
        /\ \A q \in Procs \ {p} : pc'[q] = pc[q] /\ fd'[q] = fd[q]
    BY Zenon, <2>1 DEF Shape
  <2>3. Target(p)' = made' /\ \A q \in Procs \ {p} : Target(q)' = Target(q)
    BY Zenon, <2>1, <2>2 DEF Target
  <2>4. made' \in Nat /\ made' > made
    BY <2>1 DEF BuildInv
  <2>5. \A o \in Objs : o > made' => constructed'[o] = 0
    BY <2>1, <2>4 DEF BuildInv, Objs
  <2>6. constructed'[made'] = 0
    BY Zenon, <2>1, <2>4 DEF BuildInv
  <2>7. \A q \in Procs \ {p} : pc'[q] \in Laying =>
          /\ Target(q)' \in Objs /\ Target(q)' <= made' /\ Target(q)' # made'
          /\ constructed'[Target(q)'] = 0
    <3> SUFFICES ASSUME NEW q \in Procs \ {p}, pc'[q] \in Laying
                 PROVE  /\ Target(q)' \in Objs /\ Target(q)' <= made' /\ Target(q)' # made'
                        /\ constructed'[Target(q)'] = 0
      OBVIOUS
    <3>1. Target(q)' = Target(q) /\ Target(q) \in Objs /\ Target(q) <= made /\ constructed[Target(q)] = 0
      BY Zenon, <2>2, <2>3 DEF BuildInv
    <3> QED
      BY <2>1, <3>1 DEF BuildInv, Objs
  <2>8. made' <= made'
    BY <2>4
  <2>9. \A q \in Procs : pc'[q] \in Laying =>
          Target(q)' \in Objs /\ Target(q)' <= made' /\ constructed'[Target(q)'] = 0
    BY Zenon, <2>1, <2>3, <2>6, <2>7, <2>8
  <2>10. \A q, r \in Procs :
           q # r /\ pc'[q] \in Laying /\ pc'[r] \in Laying => Target(q)' # Target(r)'
    BY ZenonT(60), <2>2, <2>3, <2>7 DEF BuildInv
  <2> QED
    BY Zenon, <2>4, <2>5, <2>9, <2>10 DEF BuildInv
<1> QED
  BY Zenon, <1>1, <1>2

\* The last block makes p's own object, and p is done with it.
LEMMA CreateBlocksBuilds ==
  ASSUME Shape, BuildInv, NEW p \in Procs, CreateBlocks(p)
  PROVE  BuildInv'
<1>1. /\ made' = made /\ constructed' = [constructed EXCEPT ![Target(p)] = 1]
      /\ fd' = fd /\ m_managedShm' = m_managedShm /\ pc' = [pc EXCEPT ![p] = "c_count"]
      /\ pc[p] \in Laying
  BY Zenon DEF CreateBlocks, Goto, Set, Target, Laying, locals, members
<1>2. pc'[p] \notin Laying /\ \A q \in Procs \ {p} : pc'[q] = pc[q] /\ Target(q)' = Target(q)
  BY Zenon, <1>1 DEF Shape, Laying, Target
<1>3. \A o \in Objs : o # Target(p) => constructed'[o] = constructed[o]
  BY Zenon, <1>1 DEF Shape
<1>4. \A o \in Objs : o > made' => constructed'[o] = 0
  <2> SUFFICES ASSUME NEW o \in Objs, o > made PROVE constructed'[o] = 0
    BY Zenon, <1>1
  <2>1. Target(p) \in Objs /\ Target(p) <= made
    BY Zenon, <1>1 DEF BuildInv
  <2>2. o # Target(p)
    BY <2>1 DEF BuildInv, Objs
  <2> QED
    BY Zenon, <1>3, <2>2 DEF BuildInv
<1>5. \A q \in Procs : pc'[q] \in Laying => q # p /\ pc[q] \in Laying /\ Target(q)' = Target(q)
  BY Zenon, <1>2
<1>6. \A q \in Procs : pc'[q] \in Laying =>
        Target(q)' \in Objs /\ Target(q)' <= made' /\ constructed'[Target(q)'] = 0
  BY ZenonT(60), <1>1, <1>3, <1>5 DEF BuildInv
<1>7. \A q, r \in Procs :
        q # r /\ pc'[q] \in Laying /\ pc'[r] \in Laying => Target(q)' # Target(r)'
  BY ZenonT(60), <1>5 DEF BuildInv
<1> QED
  BY Zenon, <1>1, <1>4, <1>6, <1>7 DEF BuildInv

\* Every other step of Create goes on with its object, or leaves it.
LEMMA CreateLaysNothing ==
  ASSUME Shape, NEW p \in Procs,
         \/ CreateSegment(p) \/ RecreateRemove(p) \/ CreateTruncate(p) \/ CreateMap(p)
         \/ CreateState(p) \/ CreateCount(p) \/ RecreateFlag(p) \/ CreateFail(p)
  PROVE  LaysNothing(p)
<1> USE DEF Goto, Return, Set, LaysNothing, Target, Laying, Shape, segment, object, members, locals
<1>1. CASE CreateSegment(p)
  BY ZenonT(60), <1>1 DEF CreateSegment
<1>2. CASE RecreateRemove(p)
  BY ZenonT(60), <1>2 DEF RecreateRemove
<1>3. CASE CreateTruncate(p)
  BY ZenonT(60), <1>3 DEF CreateTruncate
<1>4. CASE CreateMap(p)
  BY ZenonT(60), <1>4 DEF CreateMap
<1>5. CASE CreateState(p)
  BY ZenonT(60), <1>5 DEF CreateState
<1>6. CASE CreateCount(p)
  BY ZenonT(60), <1>6 DEF CreateCount, Created
<1>7. CASE RecreateFlag(p)
  BY ZenonT(60), <1>7 DEF RecreateFlag, Created
<1>8. CASE CreateFail(p)
  BY ZenonT(60), <1>8 DEF CreateFail
<1> QED
  BY Zenon, <1>1, <1>2, <1>3, <1>4, <1>5, <1>6, <1>7, <1>8

\* A process that opens, reads, leaves or dies lays out nothing.
LEMMA OthersLayNothing ==
  ASSUME Shape, NEW p \in Procs,
         \/ HoldMemory(p) \/ OpenOnly(p) \/ OpenMap(p) \/ OpenConf(p) \/ OpenCount(p)
         \/ CheckIndex(p) \/ CheckRemap(p) \/ TryLockForRead(p) \/ ReleaseMemory(p)
         \/ DestroyCount(p) \/ DestroyRemove(p) \/ Exit(p) \/ Die(p)
  PROVE  LaysNothing(p)
<1> USE DEF Goto, Return, Set, Gone, LaysNothing, Target, Laying, Shape, segment, object, members, locals
<1>1. CASE HoldMemory(p)
  BY ZenonT(60), <1>1 DEF HoldMemory
<1>2. CASE OpenOnly(p)
  BY ZenonT(60), <1>2 DEF OpenOnly
<1>3. CASE OpenMap(p)
  BY ZenonT(60), <1>3 DEF OpenMap
<1>4. CASE OpenConf(p)
  BY ZenonT(60), <1>4 DEF OpenConf
<1>5. CASE OpenCount(p)
  <2>1. after[p] \notin Laying
    BY Zenon
  <2> QED
    BY ZenonT(60), <1>5, <2>1 DEF OpenCount
<1>6. CASE CheckIndex(p) \/ TryLockForRead(p) \/ ReleaseMemory(p)
  BY ZenonT(60), <1>6 DEF CheckIndex, TryLockForRead, ReleaseMemory
<1>7. CASE CheckRemap(p)
  BY ZenonT(60), <1>7 DEF CheckRemap
<1>8. CASE DestroyCount(p)
  BY ZenonT(60), <1>8 DEF DestroyCount
<1>9. CASE DestroyRemove(p)
  BY ZenonT(60), <1>9 DEF DestroyRemove
<1>10. CASE Exit(p)
  BY ZenonT(60), <1>10 DEF Exit
<1>11. CASE Die(p)
  BY ZenonT(60), <1>11 DEF Die
<1> QED
  BY Zenon, <1>1, <1>2, <1>3, <1>4, <1>5, <1>6, <1>7, <1>8, <1>9, <1>10, <1>11

\* No two calls of Create ever lay out the same object, and none lays out an object
\* that is made: shm_open with O_EXCL gives every call, also those that run inside
\* Recreate, an object of its own, whatever becomes of its name meanwhile.
THEOREM LaidOutOnce == Spec => []BuiltOnce
<1>1. Init => BuildInv
  BY DEF Init, BuildInv, Laying
<1>2. Shape /\ BuildInv /\ [Next]_vars => BuildInv'
  <2> SUFFICES ASSUME Shape, BuildInv, [Next]_vars PROVE BuildInv'
    OBVIOUS
  <2>1. CASE UNCHANGED vars
    BY ZenonT(60), <2>1 DEF vars, segment, object, members, locals, BuildInv, Target
  <2>2. ASSUME NEW p \in Procs, Continue(p) \/ Act(p) PROVE BuildInv'
    <3>1. CreateOpen(p) \/ CreateBlocks(p) \/ LaysNothing(p)
      BY Zenon, <2>2, CreateLaysNothing, OthersLayNothing DEF Continue, Act
    <3> QED
      BY Zenon, <3>1, CreateOpenBuilds, CreateBlocksBuilds, LaysNothingKeeps
  <2> QED
    BY Zenon, <2>1, <2>2 DEF Next
<1>3. BuildInv => BuiltOnce
  <2> SUFFICES ASSUME BuildInv, NEW p \in Procs, NEW o \in Objs, Building(p, o)
               PROVE  constructed[o] = 0 /\ \A q \in Procs \ {p} : ~Building(q, o)
    BY Zenon DEF BuiltOnce
  <2>1. \A q \in Procs : Building(q, o) => pc[q] \in Laying /\ Target(q) = o
    BY Zenon DEF Building, Laying, Target
  <2> QED
    BY Zenon, <2>1 DEF BuildInv
<1>4. IInv => Shape
  BY Zenon DEF IInv
<1> QED
  BY <1>1, <1>2, <1>3, <1>4, Inductive, PTL DEF Spec

=============================================================================
