------------------------------ MODULE ShmConfig ------------------------------
(***************************************************************************)
(* Loading the configuration of the topics: shm_config.cpp of              *)
(* IntelligentDriving/SHM_TEST.  A file is a sequence of entries; an entry *)
(* has some of the four keys that are looked for, and values for them that *)
(* may not be numbers.                                                     *)
(* The map of properties lives as long as the process, and files are       *)
(* loaded into it one after the other.  MAX_BLOCK_SIZE is ShmConf's.       *)
(***************************************************************************)
EXTENDS ShmConf, Sequences, FiniteSets

CONSTANTS
  Topics,           \* the topics that occur in the files
  Files,            \* the files that may be loaded
  IndexMod,         \* the loop index is a uint8_t: it counts modulo 256
  MAX_BLOCK_COUNT, MAX_SEGMENT_COUNT,
  MaxLoads          \* bound on the calls of LoadConfig

Keys == {"TopicName", "ShareMemory", "BlockSize", "BlockCount"}
Entries == [keys : SUBSET Keys, topic : Topics, numbers : BOOLEAN, size : Nat, count : Nat]
Props == [blockSize : Nat, blockCount : Nat]

ASSUME FilesAssumption ==
  Files \subseteq Seq(Entries)
ASSUME MaximaAssumption ==
  /\ IndexMod \in Nat \ {0} /\ MaxLoads \in Nat
  /\ MAX_BLOCK_COUNT \in Nat /\ MAX_SEGMENT_COUNT \in Nat

VARIABLES
  m_propMap,   \* the properties of the topics loaded so far
  node, i,     \* the file being parsed and ParseConfig's loop index
  pc,
  ret,         \* how the last LoadConfig ended: "true", "false" or "throw"
  loads

config == <<m_propMap, node, i, pc, ret, loads>>

\* A bad path or an empty file is refused; YAML throws if it cannot read the file.
LoadFails ==
  /\ pc = "idle" /\ loads < MaxLoads
  /\ loads' = loads + 1
  /\ ret' \in {"false", "throw"}
  /\ UNCHANGED <<m_propMap, node, i, pc>>

LoadConfig(file) ==
  /\ pc = "idle" /\ loads < MaxLoads
  /\ loads' = loads + 1
  /\ node' = file /\ i' = 0 /\ pc' = "parse"
  /\ UNCHANGED <<m_propMap, ret>>

\* An entry that lacks a key is skipped.
Complete(e) == e.keys = Keys

Prop(e) ==
  [blockSize |-> IF MAX_BLOCK_SIZE < e.size THEN MAX_BLOCK_SIZE ELSE e.size,
   blockCount |-> IF MAX_BLOCK_COUNT < e.count THEN MAX_BLOCK_COUNT ELSE e.count]

\* m_propMap.insert, which leaves an entry that is there alone.
InsertProp(topic, prop) ==
  [t \in DOMAIN m_propMap \union {topic} |->
     IF t \in DOMAIN m_propMap THEN m_propMap[t] ELSE prop]

\* A mutant: the first entry without a key ends the loop.
StopAtIncomplete ==
  /\ pc = "parse" /\ i < Len(node) /\ ~Complete(node[i + 1])
  /\ i' = Len(node)
  /\ UNCHANGED <<m_propMap, node, pc, ret, loads>>

\* A mutant: continue in a loop that increments its index at the end.
ContinueInPlace ==
  /\ pc = "parse" /\ i < Len(node) /\ ~Complete(node[i + 1])
  /\ UNCHANGED config

SkipEntry ==
  /\ pc = "parse" /\ i < Len(node) /\ ~Complete(node[i + 1])
  /\ i' = (i + 1) % IndexMod
  /\ UNCHANGED <<m_propMap, node, pc, ret, loads>>

ParseEntry ==
  /\ pc = "parse" /\ i < Len(node) /\ Complete(node[i + 1]) /\ node[i + 1].numbers
  /\ m_propMap' = InsertProp(node[i + 1].topic, Prop(node[i + 1]))
  /\ i' = (i + 1) % IndexMod
  /\ UNCHANGED <<node, pc, ret, loads>>

\* as<uint64_t>() throws, and ParseConfig catches nothing: what was inserted stays.
ParseThrows ==
  /\ pc = "parse" /\ i < Len(node) /\ Complete(node[i + 1]) /\ ~node[i + 1].numbers
  /\ pc' = "idle" /\ ret' = "throw"
  /\ UNCHANGED <<m_propMap, node, i, loads>>

ParseDone ==
  /\ pc = "parse" /\ i >= Len(node)
  /\ pc' = "idle" /\ ret' = "true"
  /\ UNCHANGED <<m_propMap, node, i, loads>>

ConfigInit ==
  /\ m_propMap = [t \in {} |-> 0]
  /\ node = <<>> /\ i = 0 /\ pc = "idle" /\ ret = "false" /\ loads = 0

Parse == SkipEntry \/ ParseEntry \/ ParseThrows \/ ParseDone

ConfigNext == LoadFails \/ (\E f \in Files : LoadConfig(f)) \/ Parse

-----------------------------------------------------------------------------
(***************************************************************************)
(* Properties.                                                             *)
(***************************************************************************)

\* Every topic with a complete entry in a file is known once LoadConfig has
\* returned true for it.
AllLoaded ==
  pc = "idle" /\ ret = "true" =>
    \A n \in 1 .. Len(node) : Complete(node[n]) => node[n].topic \in DOMAIN m_propMap

\* The index reaches the end of the file, or an entry on its way that throws.
Ends(file) ==
  \/ Len(file) < IndexMod
  \/ \E n \in 1 .. IndexMod : Complete(file[n]) /\ ~file[n].numbers

\* LoadConfig returns or throws for every file of fewer than 256 entries, and for a
\* longer one when one of its first 256 entries throws.  (For any other file the
\* 8-bit index wraps around, and the loop has no end.)
LoadReturns == pc = "parse" /\ Ends(node) ~> pc = "idle"

\* "10 count. total memory = max segment count * max segment size".
\* Nothing enforces it: a file with more topics violates it.
SegmentsBounded == Cardinality(DOMAIN m_propMap) <= MAX_SEGMENT_COUNT

=============================================================================
