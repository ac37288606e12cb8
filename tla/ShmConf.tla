------------------------------- MODULE ShmConf -------------------------------
(***************************************************************************)
(* The layout of a segment of IntelligentDriving/SHM_TEST: shm_conf.cpp,   *)
(* which computes it, and the places of alloc_memory.cpp and               *)
(* alloc_memory_base.cpp that rely on it.  A creator computes the layout   *)
(* from its configuration; a reader has only the two numbers that the      *)
(* creator left in the segment's State, and must come to the same layout.  *)
(*                                                                         *)
(* Sizes and offsets are in bytes.                                         *)
(***************************************************************************)
EXTENDS Integers

CONSTANTS
  BlockSizes, BlockCounts,   \* what ShmConfig hands on, after its clamping
  MsgSizes,                  \* sizes of messages the clients ask for
  SizeofState, SizeofBlock,  \* sizeof(State), sizeof(Block)
  UIntMod                    \* 2^32: MsgSize() returns a uint32_t

K == 1024
M == 1024 * 1024
MAX_BLOCK_SIZE == 32 * M
EXTRA_SIZE == 4 * K
STATE_SIZE == 1 * K
BLOCK_SIZE == 1 * K
MESSAGE_INFO_SIZE == 1 * K
DEFAULT_BLOCK_SIZE == 8 * M
DEFAULT_BLOCK_NUM == 32
MESSAGE_SIZES == {16 * K, 128 * K, 1 * M, 8 * M, 16 * M}
MESSAGE_SIZE_MORE == 32 * M

ASSUME PropAssumption ==
  /\ BlockSizes \subseteq 0 .. MAX_BLOCK_SIZE
  /\ BlockCounts \subseteq Nat /\ MsgSizes \subseteq Nat
ASSUME SizeofAssumption ==
  SizeofState \in 1 .. STATE_SIZE /\ SizeofBlock \in 1 .. BLOCK_SIZE
ASSUME UIntAssumption == UIntMod \in Nat /\ UIntMod > MAX_BLOCK_SIZE

VARIABLES
  state,     \* State's m_ceilingMsgSize and m_blockNum
  size,      \* what ftruncate made of the segment
  writer,    \* m_conf of the process that created it
  reader,    \* m_conf of a process that opens it
  opened     \* whether the reader has the present segment mapped

vars == <<state, size, writer, reader, opened>>

-----------------------------------------------------------------------------
(***************************************************************************)
(* ShmConf.                                                                *)
(***************************************************************************)

GetCeilingMessageSize(n) ==
  IF \E c \in MESSAGE_SIZES : n <= c
  THEN CHOOSE c \in MESSAGE_SIZES : n <= c /\ \A d \in MESSAGE_SIZES : n <= d => c <= d
  ELSE MESSAGE_SIZE_MORE

GetBlockBufSize(ceiling) == ceiling + MESSAGE_INFO_SIZE

ManagedShmSize(buf, n) == EXTRA_SIZE + STATE_SIZE + (BLOCK_SIZE + buf) * n

\* The default constructor, whose values stay until the segment is opened.
Default ==
  LET buf == DEFAULT_BLOCK_SIZE + MESSAGE_INFO_SIZE IN
  [msgSize |-> 0, ceilingMsgSize |-> DEFAULT_BLOCK_SIZE, blockBufSize |-> buf,
   blockNum |-> DEFAULT_BLOCK_NUM, managedShmSize |-> ManagedShmSize(buf, DEFAULT_BLOCK_NUM)]

Update(conf, blockSize, blockCount) ==
  LET ceiling == GetCeilingMessageSize(blockSize)
      buf == GetBlockBufSize(ceiling)
  IN [msgSize |-> conf.msgSize, ceilingMsgSize |-> ceiling, blockBufSize |-> buf,
      blockNum |-> blockCount, managedShmSize |-> ManagedShmSize(buf, blockCount)]

FromProp(blockSize, blockCount) ==
  Update([Default EXCEPT !.msgSize = blockSize], blockSize, blockCount)

\* A mutant: the size is returned as a uint16_t.
MsgSizeShort(conf) == conf.msgSize % (64 * K)

MsgSize(conf) == conf.msgSize % UIntMod

\* Where Create and OpenOnly put the buffer of block i.
BlockBuf(conf, i) ==
  SizeofState + conf.blockNum * SizeofBlock + i * conf.blockBufSize

-----------------------------------------------------------------------------
(***************************************************************************)
(* Create, OpenOnly and AcquireBlockToWrite.                               *)
(***************************************************************************)

\* Create, or Recreate by another process: ftruncate, the State, and Update from
\* what the State holds.
Create(blockSize, blockCount) ==
  LET conf == FromProp(blockSize, blockCount)
      s == [ceilingMsgSize |-> MsgSize(conf), blockNum |-> conf.blockNum]
  IN /\ size' = conf.managedShmSize
     /\ state' = s
     /\ writer' = Update(conf, s.ceilingMsgSize, s.blockNum)
     /\ opened' = 0
     /\ UNCHANGED reader

\* OpenOnly, for the first time or after the segment was replaced.
OpenOnly ==
  /\ opened = 0
  /\ opened' = 1
  /\ reader' = Update(reader, state.ceilingMsgSize, state.blockNum)
  /\ UNCHANGED <<state, size, writer>>

\* AcquireBlockToWrite refuses a message larger than this.
Accepts(conf, msgSize) == msgSize <= conf.ceilingMsgSize

Init ==
  \E blockSize \in BlockSizes, blockCount \in BlockCounts :
    LET conf == FromProp(blockSize, blockCount) IN
    /\ state = [ceilingMsgSize |-> MsgSize(conf), blockNum |-> conf.blockNum]
    /\ size = conf.managedShmSize
    /\ writer = Update(conf, MsgSize(conf), conf.blockNum)
    /\ reader = Default
    /\ opened = 0

Next ==
  \/ \E blockSize \in BlockSizes, blockCount \in BlockCounts : Create(blockSize, blockCount)
  \/ OpenOnly

Spec == Init /\ [][Next]_vars

-----------------------------------------------------------------------------
(***************************************************************************)
(* Properties.                                                             *)
(***************************************************************************)

\* The creator's layout is the one that its State describes, the segment has that
\* size, and a reader with the segment open has computed that layout too.
IInv ==
  /\ state.ceilingMsgSize \in 0 .. MAX_BLOCK_SIZE /\ state.blockNum \in Nat
  /\ writer = Update(writer, state.ceilingMsgSize, state.blockNum)
  /\ writer.msgSize = state.ceilingMsgSize
  /\ size = writer.managedShmSize
  /\ opened = 1 => reader = Update(reader, state.ceilingMsgSize, state.blockNum)

\* A reader that has the segment open agrees with its creator on all of it: the
\* number of blocks, the place and the size of every buffer, the size to unmap.
LayoutsAgree ==
  opened = 1 =>
    /\ reader.blockNum = writer.blockNum /\ reader.blockBufSize = writer.blockBufSize
    /\ reader.managedShmSize = size /\ writer.managedShmSize = size
    /\ \A i \in 0 .. (writer.blockNum - 1) : BlockBuf(reader, i) = BlockBuf(writer, i)

\* The buffers lie behind the State and the Blocks, inside what ftruncate
\* provided, and do not overlap.
BuffersInside ==
  \A i \in 0 .. (writer.blockNum - 1) :
    /\ BlockBuf(writer, i) >= SizeofState + writer.blockNum * SizeofBlock
    /\ BlockBuf(writer, i) + writer.blockBufSize <= size
    /\ \A j \in 0 .. (writer.blockNum - 1) :
         i < j => BlockBuf(writer, i) + writer.blockBufSize <= BlockBuf(writer, j)

\* A message that AcquireBlockToWrite accepts fits into a buffer with its info,
\* and a message of the configured size is accepted.
MessagesFit ==
  /\ \A msgSize \in MsgSizes :
       Accepts(writer, msgSize) => msgSize + MESSAGE_INFO_SIZE <= writer.blockBufSize
  /\ Accepts(writer, writer.msgSize)

=============================================================================
