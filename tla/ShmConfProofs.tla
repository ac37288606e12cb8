---------------------------- MODULE ShmConfProofs ----------------------------
(***************************************************************************)
(* The layout of a segment is right for every configuration, not only for  *)
(* the boundaries: by IInv, and some arithmetic on products.  The second   *)
(* half is about a process that loads its configuration from files first:  *)
(* no complete entry is lost, and what is laid out with the entries is     *)
(* right for the same reasons.                                             *)
(***************************************************************************)
EXTENDS ShmSetup, TLAPS

\* The largest block size is a number.
LEMMA MaxType == MAX_BLOCK_SIZE \in Nat
BY DEF MAX_BLOCK_SIZE, M

\* GetCeilingMessageSize returns a class that the message fits in.
LEMMA Ceiling ==
  ASSUME NEW n \in 0 .. MAX_BLOCK_SIZE
  PROVE  /\ GetCeilingMessageSize(n) \in Nat
         /\ n <= GetCeilingMessageSize(n)
<1> DEFINE P(c) == n <= c /\ \A d \in MESSAGE_SIZES : n <= d => c <= d
<1>1. MESSAGE_SIZES \subseteq Nat
  BY DEF MESSAGE_SIZES, K, M
<1>2. CASE \E c \in MESSAGE_SIZES : n <= c
  <2>1. \E c \in MESSAGE_SIZES : P(c)
    BY <1>2 DEF MESSAGE_SIZES, K, M
  <2>2. GetCeilingMessageSize(n) = CHOOSE c \in MESSAGE_SIZES : P(c)
    BY <1>2 DEF GetCeilingMessageSize
  <2>3. GetCeilingMessageSize(n) \in MESSAGE_SIZES /\ P(GetCeilingMessageSize(n))
    BY <2>1, <2>2
  <2> QED
    BY ZenonT(60), <1>1, <2>3
<1>3. CASE ~\E c \in MESSAGE_SIZES : n <= c
  <2>1. GetCeilingMessageSize(n) = MESSAGE_SIZE_MORE
    BY <1>3 DEF GetCeilingMessageSize
  <2>2. MESSAGE_SIZE_MORE = MAX_BLOCK_SIZE
    BY DEF MESSAGE_SIZE_MORE, MAX_BLOCK_SIZE
  <2> QED
    BY <2>1, <2>2, MaxType
<1> QED
  BY <1>2, <1>3

\* Rows of b bytes: row k ends where row k + 1 begins, or before.
LEMMA Rows ==
  ASSUME NEW b \in Nat, NEW k \in Nat, NEW j \in Nat, k < j
  PROVE  k * b + b <= j * b
<1>1. PICK d \in Nat : j = k + 1 + d
  <2>1. j - k - 1 \in Nat
    OBVIOUS
  <2> QED
    BY <2>1
<1>2. j * b = k * b + b + d * b
  BY <1>1
<1>3. d * b \in Nat
  OBVIOUS
<1>4. k * b \in Nat
  OBVIOUS
<1> QED
  BY <1>2, <1>3, <1>4

\* Rows that are not longer take no more room.
LEMMA ShorterRows ==
  ASSUME NEW n \in Nat, NEW a \in Nat, NEW b \in Nat, a <= b
  PROVE  n * a \in Nat /\ n * a <= b * n
<1>1. PICK d \in Nat : b = a + d
  <2>1. b - a \in Nat
    OBVIOUS
  <2> QED
    BY <2>1
<1>2. b * n = n * a + d * n
  BY <1>1
<1>3. d * n \in Nat /\ n * a \in Nat
  OBVIOUS
<1> QED
  BY <1>2, <1>3

\* MsgSize() loses nothing of a size that ShmConfig has clamped.
LEMMA MsgSizeExact ==
  ASSUME NEW b \in 0 .. MAX_BLOCK_SIZE, NEW n \in Nat
  PROVE  /\ FromProp(b, n).msgSize = b /\ MsgSize(FromProp(b, n)) = b
         /\ FromProp(b, n).blockNum = n
         /\ FromProp(b, n).managedShmSize =
              Update(FromProp(b, n), b, n).managedShmSize
<1>1. b \in Nat /\ b < UIntMod /\ UIntMod \in Nat \ {0}
  BY MaxType, UIntAssumption
<1>2. FromProp(b, n).msgSize = b /\ FromProp(b, n).blockNum = n
  BY DEF FromProp, Update, Default
<1>3. b % UIntMod = b
  BY <1>1
<1> QED
  BY <1>2, <1>3 DEF MsgSize, FromProp, Update

\* Create leaves IInv true, whatever was there before.
LEMMA CreateMakes ==
  ASSUME NEW b \in 0 .. MAX_BLOCK_SIZE, NEW n \in Nat, Create(b, n)
  PROVE  IInv'
<1> DEFINE c == FromProp(b, n)
<1>1. MsgSize(c) = b /\ c.msgSize = b /\ c.blockNum = n
      /\ c.managedShmSize = Update(c, b, n).managedShmSize
  BY MsgSizeExact
<1>2. /\ state' = [ceilingMsgSize |-> b, blockNum |-> n] /\ writer' = Update(c, b, n)
      /\ size' = c.managedShmSize /\ opened' = 0
  BY <1>1 DEF Create
<1>3. writer'.msgSize = b /\ writer' = Update(writer', b, n) /\ size' = writer'.managedShmSize
  BY <1>1, <1>2 DEF Update
<1> QED
  BY <1>2, <1>3 DEF IInv

\* A segment that was just made, by this process or by an earlier one, is right.
Made(b, n) ==
  LET conf == FromProp(b, n) IN
  /\ state = [ceilingMsgSize |-> MsgSize(conf), blockNum |-> conf.blockNum]
  /\ size = conf.managedShmSize
  /\ writer = Update(conf, MsgSize(conf), conf.blockNum)
  /\ opened = 0

\* The state of a segment that nobody has opened yet satisfies IInv.
LEMMA MadeIsRight ==
  ASSUME NEW b \in 0 .. MAX_BLOCK_SIZE, NEW n \in Nat, Made(b, n)
  PROVE  IInv
<1>1. /\ state = [ceilingMsgSize |-> b, blockNum |-> n]
      /\ writer = Update(FromProp(b, n), b, n)
      /\ size = Update(FromProp(b, n), b, n).managedShmSize
      /\ opened = 0
  BY MsgSizeExact DEF Made
<1>2. writer.msgSize = b /\ writer = Update(writer, b, n) /\ size = writer.managedShmSize
  BY <1>1, MsgSizeExact DEF Update
<1> QED
  BY <1>1, <1>2 DEF IInv

\* IInv is an inductive invariant: State determines the layout.
THEOREM Inductive == Spec => []IInv
<1>1. Init => IInv
  <2> SUFFICES ASSUME Init PROVE IInv
    OBVIOUS
  <2>1. PICK b \in BlockSizes, n \in BlockCounts : Made(b, n)
    BY DEF Init, Made
  <2> QED
    BY <2>1, MadeIsRight, PropAssumption
<1>2. IInv /\ [Next]_vars => IInv'
  <2> SUFFICES ASSUME IInv, [Next]_vars PROVE IInv'
    OBVIOUS
  <2>1. ASSUME NEW b \in BlockSizes, NEW n \in BlockCounts, Create(b, n) PROVE IInv'
    BY <2>1, CreateMakes, PropAssumption
  <2>2. CASE OpenOnly
    BY <2>2 DEF OpenOnly, IInv, Update
  <2>3. CASE UNCHANGED vars
    BY <2>3 DEF vars, IInv
  <2> QED
    BY <2>1, <2>2, <2>3 DEF Next
<1> QED
  BY <1>1, <1>2, PTL DEF Spec

\* IInv makes reader and creator agree.
LEMMA Agrees == IInv => LayoutsAgree
BY DEF IInv, LayoutsAgree, Update, BlockBuf

\* A reader computes the creator's layout from the two numbers in the State, for
\* every block size and every number of blocks.
THEOREM Agreement == Spec => []LayoutsAgree
<1>1. IInv => LayoutsAgree
  BY Agrees
<1> QED
  BY <1>1, Inductive, PTL

\* IInv keeps the buffers inside the segment and apart.
LEMMA Inside ==
  ASSUME IInv
  PROVE  BuffersInside
<1> DEFINE n == state.blockNum
           buf == writer.blockBufSize
           rows == SizeofState + n * SizeofBlock
<1>1. n \in Nat /\ buf \in Nat /\ writer.blockNum = n
  BY Ceiling DEF IInv, Update, GetBlockBufSize, MESSAGE_INFO_SIZE, K
<1>2. size = EXTRA_SIZE + STATE_SIZE + (BLOCK_SIZE + buf) * n
  BY DEF IInv, Update, ManagedShmSize
<1>3. n * SizeofBlock <= BLOCK_SIZE * n /\ n * SizeofBlock \in Nat
  <2>1. SizeofBlock \in Nat /\ BLOCK_SIZE \in Nat /\ SizeofBlock <= BLOCK_SIZE
    BY SizeofAssumption DEF BLOCK_SIZE, K
  <2> QED
    BY <1>1, <2>1, ShorterRows
<1>4. rows + n * buf <= size /\ rows \in Nat
  <2>1. /\ SizeofState \in Nat /\ STATE_SIZE \in Nat /\ SizeofState <= STATE_SIZE
        /\ EXTRA_SIZE \in Nat /\ BLOCK_SIZE \in Nat
    BY SizeofAssumption DEF EXTRA_SIZE, STATE_SIZE, BLOCK_SIZE, K
  <2>2. (BLOCK_SIZE + buf) * n = BLOCK_SIZE * n + n * buf
    BY <1>1, <2>1
  <2>3. BLOCK_SIZE * n \in Nat /\ n * buf \in Nat
    BY <1>1, <2>1
  <2> QED
    BY <1>2, <1>3, <2>1, <2>2, <2>3
<1> HIDE DEF rows
<1>5. ASSUME NEW k \in 0 .. (n - 1)
      PROVE  /\ rows + k * buf >= rows /\ rows + k * buf + buf <= size
             /\ \A j \in 0 .. (n - 1) : k < j => rows + k * buf + buf <= rows + j * buf
  <2>1. k * buf \in Nat /\ n * buf \in Nat /\ k * buf + buf <= n * buf
    BY <1>1, Rows
  <2>2. \A j \in 0 .. (n - 1) : k < j => j * buf \in Nat /\ k * buf + buf <= j * buf
    BY <1>1, Rows
  <2>3. size \in Int
    BY <1>1, <1>2 DEF EXTRA_SIZE, STATE_SIZE, BLOCK_SIZE, K
  <2> QED
    BY <1>1, <1>4, <2>1, <2>2, <2>3
<1>6. \A k \in 0 .. (n - 1) : BlockBuf(writer, k) = rows + k * buf
  BY <1>1 DEF BlockBuf, rows
<1> QED
  BY <1>1, <1>5, <1>6 DEF BuffersInside, rows

\* No buffer leaves the segment or overlaps another, for every configuration.
THEOREM Buffers == Spec => []BuffersInside
<1>1. IInv => BuffersInside
  BY Inside
<1> QED
  BY <1>1, Inductive, PTL

\* IInv makes what is accepted fit.
LEMMA Fits ==
  ASSUME IInv
  PROVE  MessagesFit
<1>1. /\ writer.ceilingMsgSize = GetCeilingMessageSize(writer.msgSize)
      /\ writer.blockBufSize = writer.ceilingMsgSize + MESSAGE_INFO_SIZE
      /\ writer.msgSize \in 0 .. MAX_BLOCK_SIZE
  BY DEF IInv, Update, GetBlockBufSize
<1>2. writer.ceilingMsgSize \in Nat /\ writer.msgSize <= writer.ceilingMsgSize
  BY <1>1, Ceiling
<1> QED
  BY <1>1, <1>2, PropAssumption DEF MessagesFit, Accepts, MESSAGE_INFO_SIZE, K

\* What AcquireBlockToWrite accepts fits, and it accepts the configured size.
THEOREM Fit == Spec => []MessagesFit
<1>1. IInv => MessagesFit
  BY Fits
<1> QED
  BY <1>1, Inductive, PTL

-----------------------------------------------------------------------------
(***************************************************************************)
(* A process that loads files, creates the segment of its topic, and meets *)
(* other processes (ShmSetup).                                             *)
(***************************************************************************)

\* What was loaded is clamped, and lists every complete entry that ParseConfig has
\* passed; the segment is right.
SetupInv ==
  /\ IInv
  /\ i \in Nat /\ node \in Seq(Entries)
  /\ \A t \in DOMAIN m_propMap :
       m_propMap[t].blockSize \in 0 .. MAX_BLOCK_SIZE /\ m_propMap[t].blockCount \in Nat
  /\ pc = "parse" =>
       \A n \in 1 .. Len(node) :
         n <= i /\ Complete(node[n]) => node[n].topic \in DOMAIN m_propMap
  /\ AllLoaded

\* The loop index goes on by one, or back to a smaller one.
LEMMA NextIndex ==
  ASSUME NEW k \in Nat
  PROVE  (k + 1) % IndexMod \in Nat /\ (k + 1) % IndexMod <= k + 1
<1>1. IndexMod \in Nat \ {0}
  BY MaximaAssumption
<1>2. (k + 1) % IndexMod \in 0 .. (IndexMod - 1)
  BY <1>1
<1>3. CASE k + 1 < IndexMod
  <2>1. (k + 1) % IndexMod = k + 1
    BY <1>1, <1>3
  <2> QED
    BY <2>1
<1> QED
  BY <1>1, <1>2, <1>3

\* What ParseConfig makes of an entry is within the maxima.
LEMMA PropClamped ==
  ASSUME NEW e \in Entries
  PROVE  Prop(e).blockSize \in 0 .. MAX_BLOCK_SIZE /\ Prop(e).blockCount \in Nat
BY MaxType, MaximaAssumption DEF Entries, Prop

\* A step of LoadConfig or ParseConfig keeps SetupInv.
LEMMA ConfigureKeeps ==
  ASSUME SetupInv, Configure
  PROVE  SetupInv'
<1>1. IInv'
  BY DEF Configure, vars, SetupInv, IInv
<1>2. CASE LoadFails
  BY <1>1, <1>2 DEF LoadFails, SetupInv, AllLoaded
<1>3. ASSUME NEW f \in Files, LoadConfig(f) PROVE SetupInv'
  <2>1. f \in Seq(Entries)
    BY FilesAssumption
  <2> QED
    BY <1>1, <1>3, <2>1 DEF LoadConfig, SetupInv, AllLoaded
<1>4. CASE SkipEntry
  <2>1. i' \in Nat /\ i' <= i + 1
    BY SMTT(60), <1>4, NextIndex DEF SkipEntry, SetupInv
  <2> QED
    BY <1>1, <1>4, <2>1 DEF SkipEntry, SetupInv, AllLoaded
<1>5. CASE ParseEntry
  <2> DEFINE e == node[i + 1]
  <2>1. i' \in Nat /\ i' <= i + 1
    BY <1>5, NextIndex DEF ParseEntry, SetupInv
  <2>2. e \in Entries
    BY <1>5 DEF ParseEntry, SetupInv
  <2>3. /\ DOMAIN m_propMap' = DOMAIN m_propMap \union {e.topic}
        /\ \A t \in DOMAIN m_propMap' : m_propMap'[t] \in {m_propMap[t], Prop(e)}
        /\ \A t \in DOMAIN m_propMap : m_propMap'[t] = m_propMap[t]
    BY <1>5 DEF ParseEntry, InsertProp
  <2>4. \A t \in DOMAIN m_propMap' :
          m_propMap'[t].blockSize \in 0 .. MAX_BLOCK_SIZE /\ m_propMap'[t].blockCount \in Nat
    <3>1. ASSUME NEW t \in DOMAIN m_propMap', t \notin DOMAIN m_propMap PROVE m_propMap'[t] = Prop(e)
      BY <1>5, <2>3, <3>1 DEF ParseEntry, InsertProp
    <3> QED
      BY SMTT(60), <2>2, <2>3, <3>1, PropClamped DEF SetupInv
  <2> QED
    BY <1>1, <1>5, <2>1, <2>3, <2>4 DEF ParseEntry, SetupInv, AllLoaded
<1>6. CASE ParseThrows
  BY <1>1, <1>6 DEF ParseThrows, SetupInv, AllLoaded
<1>7. CASE ParseDone
  <2>1. \A n \in 1 .. Len(node) : n <= i
    BY <1>7 DEF ParseDone, SetupInv
  <2> QED
    BY <1>1, <1>7, <2>1 DEF ParseDone, SetupInv, AllLoaded
<1> QED
  BY <1>2, <1>3, <1>4, <1>5, <1>6, <1>7 DEF Configure, ConfigNext, Parse

\* SetupInv is an inductive invariant.
THEOREM SetupInductive == SetupInit /\ [][SetupNext]_setup => []SetupInv
<1>1. SetupInit => SetupInv
  <2> SUFFICES ASSUME SetupInit PROVE SetupInv
    OBVIOUS
  <2>1. IInv
    <3>1. Made(OldSize, OldCount)
      BY DEF SetupInit, Leftover, Made
    <3> QED
      BY <3>1, MadeIsRight, LeftoverAssumption
  <2> QED
    BY <2>1 DEF SetupInit, ConfigInit, SetupInv, AllLoaded
<1>2. SetupInv /\ [SetupNext]_setup => SetupInv'
  <2> SUFFICES ASSUME SetupInv, [SetupNext]_setup PROVE SetupInv'
    OBVIOUS
  <2>1. CASE Configure
    BY <2>1, ConfigureKeeps
  <2>2. CASE CreateSegmentFromConfig
    <3>1. IInv'
      <4> DEFINE b == m_propMap[Topic].blockSize
                 n == m_propMap[Topic].blockCount
      <4>1. b \in 0 .. MAX_BLOCK_SIZE /\ n \in Nat /\ Create(b, n)
        BY <2>2 DEF CreateSegmentFromConfig, SetupInv
      <4> HIDE DEF b, n
      <4> QED
        BY <4>1, CreateMakes
    <3> QED
      BY <2>2, <3>1 DEF CreateSegmentFromConfig, SetupInv, AllLoaded
  <2>3. CASE Replace
    <3>1. IInv'
      BY <2>3, CreateMakes, PropAssumption DEF Replace
    <3> QED
      BY <2>3, <3>1 DEF Replace, config, SetupInv, AllLoaded
  <2>4. CASE Open
    <3>1. IInv'
      BY <2>4 DEF Open, OpenOnly, SetupInv, IInv, Update
    <3> QED
      BY <2>4, <3>1 DEF Open, config, SetupInv, AllLoaded
  <2>5. CASE UNCHANGED setup
    BY <2>5 DEF setup, vars, config, SetupInv, IInv, AllLoaded
  <2> QED
    BY <2>1, <2>2, <2>3, <2>4, <2>5 DEF SetupNext
<1> QED
  BY <1>1, <1>2, PTL

\* LoadConfig returns true only when every topic with a complete entry in the file
\* is known, for files of any length: where the 8-bit index wraps it never returns.
THEOREM Loaded == SetupSpec => []AllLoaded
<1>1. SetupInv => AllLoaded
  BY DEF SetupInv
<1> QED
  BY <1>1, SetupInductive, PTL DEF SetupSpec

\* A reader agrees with whoever made the segment from a file of any sizes: the
\* clamping of ParseConfig is what lets the State's 32 bits carry the size.
THEOREM SetupAgreement == SetupSpec => []LayoutsAgree
<1>1. SetupInv => LayoutsAgree
  BY Agrees DEF SetupInv
<1> QED
  BY <1>1, SetupInductive, PTL DEF SetupSpec

\* Nor does any buffer of a segment made from a file leave it, or any message its
\* buffer.
THEOREM SetupBuffers == SetupSpec => [](BuffersInside /\ MessagesFit)
<1>1. SetupInv => BuffersInside /\ MessagesFit
  BY Inside, Fits DEF SetupInv
<1> QED
  BY <1>1, SetupInductive, PTL DEF SetupSpec

=============================================================================
