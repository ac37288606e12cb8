------------------------------ MODULE ShmSetup ------------------------------
(***************************************************************************)
(* How a process of IntelligentDriving/SHM_TEST gets the segment of a      *)
(* topic: ShmManager::CreateSegment loads a configuration file (ShmConfig) *)
(* and lays a segment out for the topic with what it read (ShmConf).  An   *)
(* earlier run has left its segment behind; other processes open the       *)
(* segment, and replace it with their own configuration.                   *)
(***************************************************************************)
EXTENDS ShmConfig

CONSTANTS
  Topic,              \* the topic whose segment is looked at
  OldSize, OldCount   \* the configuration of the earlier run

ASSUME LeftoverAssumption == OldSize \in 0 .. MAX_BLOCK_SIZE /\ OldCount \in Nat

VARIABLE m_segMap     \* whether the process has the topic in its map of segments

setup == <<vars, config, m_segMap>>

\* The segment of the earlier run.
Leftover ==
  LET conf == FromProp(OldSize, OldCount) IN
  /\ state = [ceilingMsgSize |-> MsgSize(conf), blockNum |-> conf.blockNum]
  /\ size = conf.managedShmSize
  /\ writer = Update(conf, MsgSize(conf), conf.blockNum)
  /\ reader = Default /\ opened = 0

SetupInit == Leftover /\ ConfigInit /\ m_segMap = 0

\* LoadConfig, until the topic is in the map: afterwards its result is skipped.
Configure ==
  /\ m_segMap = 0
  /\ ConfigNext
  /\ UNCHANGED <<vars, m_segMap>>

\* LoadConfig has returned true; the segment is created from the topic's entry.
CreateSegmentFromConfig ==
  /\ pc = "idle" /\ ret = "true" /\ m_segMap = 0 /\ Topic \in DOMAIN m_propMap
  /\ Create(m_propMap[Topic].blockSize, m_propMap[Topic].blockCount)
  /\ m_segMap' = 1
  /\ node' = <<>> /\ i' = 0
  /\ UNCHANGED <<m_propMap, pc, ret, loads>>

\* Another process replaces the segment.
Replace ==
  /\ m_segMap = 1
  /\ \E blockSize \in BlockSizes, blockCount \in BlockCounts : Create(blockSize, blockCount)
  /\ UNCHANGED <<config, m_segMap>>

\* A reader opens it, whoever made it.
Open == OpenOnly /\ UNCHANGED <<config, m_segMap>>

SetupNext == Configure \/ CreateSegmentFromConfig \/ Replace \/ Open

\* ParseConfig keeps executing.
SetupSpec == SetupInit /\ [][SetupNext]_setup /\ WF_setup(m_segMap = 0 /\ Parse /\ UNCHANGED <<vars, m_segMap>>)

=============================================================================
