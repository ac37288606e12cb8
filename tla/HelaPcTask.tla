----------------------------- MODULE HelaPcTask -----------------------------
(***************************************************************************)
(* DoHelaPcTaskHandle: the transfer of one piece (a "pc") of a disk image. *)
(* A handle runs on a transmission loop.  It reads the piece part by part, *)
(* from the image servers ("koala", reached through one of several ark     *)
(* routes) or from a chunk that already holds the piece, and writes each   *)
(* part to every destination in turn.  Reads and writes are requests with  *)
(* an answer or a timeout; trouble is retried under an error back-off, or  *)
(* "pended" (tried again later without counting as an error).              *)
(*                                                                         *)
(* A handler of the code is one atomic step here: everything on a loop     *)
(* runs to completion.  What the handler asks of its surroundings - the    *)
(* flow monitor's grant, the connection, the send - is one value of Luck.  *)
(* Faults bounds how often the surroundings misbehave.                     *)
(*                                                                         *)
(* The assertion at the head of DecideKoalaSource is false at every call,  *)
(* so the model is of a build with NDEBUG.                                 *)
(***************************************************************************)
EXTENDS Integers, FiniteSets

CONSTANTS
  Pcs,            \* the pieces of the image, numbered from 0
  Parts,          \* pc_size / operate_size: reads per piece
  Dests,          \* length of info_list: destinations per piece
  Arks,           \* the ark routes of a shard
  InitialBackoff, MaxBackoff, StepBackoff,
  kPerStepBackoff, \* what is added, whatever step is configured
  HugePendings,   \* read timeouts a huge image may spend without an error
  Faults,         \* bound: refusals, errors and timeouts in one behaviour
  ClusterChanges  \* bound: changes of the cluster's chunk map

ASSUME HelaPcConstants ==
  /\ Parts \in Nat \ {0} /\ Dests \in Nat \ {0} /\ Arks # {}
  /\ MaxBackoff \in Nat /\ InitialBackoff \in 1..MaxBackoff /\ StepBackoff \in Nat /\ kPerStepBackoff \in Nat
  /\ HugePendings \in Nat /\ Faults \in Nat /\ ClusterChanges \in Nat

VARIABLES
  task,     \* pc -> the HelaPcTask the manager and the handle share
  handle,   \* pc -> the state of its DoHelaPcTaskHandle
  cluster,  \* the loop's view of the cluster: version and chunks offline
  faults    \* how many faults have happened

pcVars == <<task, handle, cluster, faults>>

Source == 0                            \* the chunk a piece is copied from
Chunks == {Source} \cup (1..Dests)
Luck == {"granted", "denied", "unsent", "unconnected"}

NoHandle == [at |-> "none", part |-> 1, dest |-> 1, backoff |-> 0,
             router |-> {}, ark |-> "none", change |-> FALSE, huge |-> 0,
             srcOff |-> FALSE, copied |-> {}, ret |-> "none"]

NewTask == [status |-> "READY", src |-> "KOALA", version |-> 0, off |-> {}]

PcInit ==
  /\ task = [pc \in Pcs |-> NewTask]
  /\ handle = [pc \in Pcs |-> NoHandle]
  /\ cluster = [version |-> 0, offline |-> {}]
  /\ faults = 0

-----------------------------------------------------------------------------
(* The handle's functions.  pair is [t |-> task, h |-> handle] of the piece. *)

FinishHelaPcTask(pair, ret) ==
  [pair EXCEPT !.h.at = "finished", !.h.ret = ret, !.h.backoff = 0]

ReportError(current) ==
  IF current = 0 THEN InitialBackoff
  ELSE LET next == IF StepBackoff = 0 THEN 2 * current ELSE current + kPerStepBackoff
       IN IF next < MaxBackoff THEN next ELSE MaxBackoff

CanDiscard(current) == current >= MaxBackoff

set_retry_read(pair) ==
  IF CanDiscard(pair.h.backoff)
  THEN FinishHelaPcTask(pair, IF pair.t.src = "KOALA" THEN "FAIL" ELSE "UNAVAILABLE")
  ELSE [pair EXCEPT !.h.at = "retry_read", !.h.backoff = ReportError(@)]

set_retry_write(pair) ==
  IF CanDiscard(pair.h.backoff)
  THEN FinishHelaPcTask(pair, "FAIL")
  ELSE [pair EXCEPT !.h.at = "retry_write", !.h.backoff = ReportError(@)]

set_pending_read(pair) == [pair EXCEPT !.h.at = "pending_read"]

set_pending_write(pair) == [pair EXCEPT !.h.at = "pending_write"]

CheckCluster(pair) ==
  IF pair.t.version = cluster.version THEN pair
  ELSE [pair EXCEPT
          !.t.version = cluster.version,
          !.t.off = @ \cup (cluster.offline \ {Source}),
          !.h.srcOff = @ \/ (pair.t.src # "KOALA" /\ Source \in cluster.offline)]

SendRead(pair, luck) ==
  CASE luck = "denied" -> set_pending_read(pair)
    [] luck \in {"unsent", "unconnected"} -> set_retry_read(pair)
    [] OTHER -> [pair EXCEPT !.h.at = "reading"]

\* GetIdleARKRoute, outside the sources, picks ark from the routes left.
DecideKoalaSource(pair, new_sector, change_koala_source, ark, luck) ==
  LET left == pair.h.router \ {pair.h.ark}
      router == IF new_sector \/ (change_koala_source /\ left = {}) THEN Arks
                ELSE IF change_koala_source THEN left ELSE pair.h.router
      chosen == IF new_sector \/ change_koala_source THEN ark ELSE pair.h.ark
  IN SendRead([pair EXCEPT !.h.router = router, !.h.ark = chosen], luck)

ReadDataFromChunk(pair, luck) ==
  LET checked == CheckCluster(pair)
  IN IF checked.h.srcOff THEN FinishHelaPcTask(checked, "UNAVAILABLE")
     ELSE SendRead(checked, luck)

ReadNextPart(pair, ark, luck) ==
  LET next == [pair EXCEPT !.h.part = @ + 1]
  IN IF next.h.part > Parts THEN FinishHelaPcTask(next, "SUCCESS")
     ELSE IF next.t.src = "KOALA" THEN DecideKoalaSource(next, TRUE, FALSE, ark, luck)
     ELSE ReadDataFromChunk(next, luck)

\* Without a connection a retry is set, and the null connection is used all
\* the same: the process dies.
WriteDataToChunk(pair, luck) ==
  CASE luck = "denied" -> set_pending_write(pair)
    [] luck = "unsent" -> set_retry_write(pair)
    [] luck = "unconnected" -> [pair EXCEPT !.h.at = "crashed"]
    [] OTHER -> [pair EXCEPT !.h.at = "writing"]

\* A mutant: the iterator over the destinations is not reset for the next part.
KeepIterator(pair, ark, luck) ==
  LET checked == CheckCluster(pair)
      online == {d \in checked.h.dest..Dests : d \notin checked.t.off}
      first == CHOOSE d \in online : \A e \in online : d <= e
  IN IF pair.h.dest > Dests THEN ReadNextPart(pair, ark, luck)
     ELSE IF checked.h.srcOff THEN FinishHelaPcTask(checked, "UNAVAILABLE")
     ELSE IF online = {} THEN ReadNextPart(checked, ark, luck)
     ELSE WriteDataToChunk([checked EXCEPT !.h.dest = first], luck)

\* The recursion over offline destinations ends at the first online one.
HandleWriteChunk(pair, ark, luck) ==
  LET restart(p) == ReadNextPart([p EXCEPT !.h.dest = 1], ark, luck)
      checked == CheckCluster(pair)
      online == {d \in checked.h.dest..Dests : d \notin checked.t.off}
      first == CHOOSE d \in online : \A e \in online : d <= e
  IN IF pair.h.dest > Dests THEN restart(pair)
     ELSE IF checked.h.srcOff THEN FinishHelaPcTask(checked, "UNAVAILABLE")
     ELSE IF online = {} THEN restart(checked)
     ELSE WriteDataToChunk([checked EXCEPT !.h.dest = first], luck)

-----------------------------------------------------------------------------
(* Steps of the transmission loop. *)

Alive == \A pc \in Pcs : handle[pc].at # "crashed"

\* One handler of piece pc: its new state, and the faults it met.
Handler(pc, pair, luck, cost) ==
  LET spent == faults + cost + (IF luck = "granted" THEN 0 ELSE 1)
  IN /\ spent <= Faults
     /\ pair.t.src = "KOALA" => pair.h.ark \in pair.h.router
     /\ task' = [task EXCEPT ![pc] = pair.t]
     /\ handle' = [handle EXCEPT ![pc] = pair.h]
     /\ faults' = spent
     /\ UNCHANGED cluster

At(pc, where) == Alive /\ handle[pc].at = where

Pair(pc) == [t |-> task[pc], h |-> handle[pc]]

Start(pc) ==
  /\ At(pc, "posted")
  /\ \E luck \in Luck \ {"unconnected"}, ark \in Arks :
       LET fresh == [Pair(pc) EXCEPT !.h = [NoHandle EXCEPT !.at = "posted"]]
           pair == IF task[pc].src = "KOALA"
                   THEN DecideKoalaSource(fresh, TRUE, FALSE, ark, luck)
                   ELSE ReadDataFromChunk(fresh, luck)
       IN Handler(pc, pair, luck, 0)

\* Success and EMPTY end the read of a part; the other codes are faults.
HandleReadKoalaResponse(pc) ==
  /\ At(pc, "reading") /\ task[pc].src = "KOALA"
  /\ \E luck \in Luck, ark \in Arks :
       LET read == [Pair(pc) EXCEPT !.h.backoff = 0]
           empty == [read EXCEPT !.h.copied = @ \cup ({handle[pc].part} \X (1..Dests))]
       IN \/ Handler(pc, HandleWriteChunk(read, ark, luck), luck, 0)
          \/ Handler(pc, ReadNextPart(empty, ark, luck), luck, 0)
          \/ /\ luck = "granted"
             /\ \E pair \in {set_retry_read(Pair(pc)), set_pending_read(Pair(pc)),
                             set_pending_read([Pair(pc) EXCEPT !.h.change = TRUE])} :
                  Handler(pc, pair, luck, 1)

ReadKoalaTimeOut(pc) ==
  /\ At(pc, "reading") /\ task[pc].src = "KOALA"
  /\ LET pair == IF handle[pc].huge < HugePendings
                 THEN set_pending_read([Pair(pc) EXCEPT !.h.huge = @ + 1])
                 ELSE set_retry_read(Pair(pc))
     IN Handler(pc, pair, "granted", 1)

HandleReadChunkResponse(pc) ==
  /\ At(pc, "reading") /\ task[pc].src # "KOALA"
  /\ \E luck \in Luck, ark \in Arks :
       \/ Handler(pc, HandleWriteChunk(Pair(pc), ark, luck), luck, 0)
       \/ /\ luck = "granted"
          /\ \E pair \in {set_retry_read(Pair(pc)), set_pending_read(Pair(pc)),
                          FinishHelaPcTask(Pair(pc), "UNAVAILABLE")} :
               Handler(pc, pair, luck, 1)

ReadChunkTimeOut(pc) ==
  /\ At(pc, "reading") /\ task[pc].src # "KOALA"
  /\ Handler(pc, set_retry_read(Pair(pc)), "granted", 1)

\* A write that is refused because the cluster's version is newer checks the
\* cluster again; every other refusal is pended.
HandleWriteChunkResponse(pc) ==
  /\ At(pc, "writing")
  /\ \E luck \in Luck, ark \in Arks :
       LET here == <<handle[pc].part, handle[pc].dest>>
           wrote == [Pair(pc) EXCEPT !.h.dest = @ + 1, !.h.backoff = 0,
                                     !.h.copied = @ \cup {here}]
           checked == CheckCluster(Pair(pc))
       IN \/ Handler(pc, HandleWriteChunk(wrote, ark, luck), luck, 0)
          \/ /\ luck = "granted"
             /\ \E pair \in {set_pending_write(Pair(pc)),
                             IF checked.h.srcOff
                             THEN FinishHelaPcTask(checked, "UNAVAILABLE")
                             ELSE set_pending_write(checked)} :
                  Handler(pc, pair, luck, 1)

WriteChunkTimeOut(pc) ==
  /\ At(pc, "writing")
  /\ Handler(pc, set_pending_write(Pair(pc)), "granted", 1)

\* The retry timer.  A failed piece would be left alone here, but no handle
\* of a failed piece is alive.
HandleRetryCb(pc) ==
  /\ task[pc].status # "FAIL"
  /\ \E luck \in Luck, ark \in Arks :
       \/ /\ At(pc, "retry_write")
          /\ Handler(pc, HandleWriteChunk(Pair(pc), ark, luck), luck, 0)
       \/ /\ At(pc, "retry_read") /\ luck # "unconnected"
          /\ LET pair == IF task[pc].src = "KOALA"
                         THEN DecideKoalaSource(Pair(pc), FALSE, TRUE, ark, luck)
                         ELSE ReadDataFromChunk(Pair(pc), luck)
             IN Handler(pc, pair, luck, 0)

\* The pending timer.  busy is the outcome of comparing the route's access
\* count with the configured limit.
HandlePendingCb(pc) ==
  /\ task[pc].status # "FAIL"
  /\ \E luck \in Luck, ark \in Arks, busy \in BOOLEAN :
       \/ /\ At(pc, "pending_write") /\ ~busy
          /\ Handler(pc, HandleWriteChunk(Pair(pc), ark, luck), luck, 0)
       \/ /\ At(pc, "pending_read") /\ luck # "unconnected"
          /\ LET change == handle[pc].change \/ busy
                 reset == [Pair(pc) EXCEPT !.h.change = FALSE]
                 pair == IF task[pc].src = "KOALA"
                         THEN DecideKoalaSource(reset, FALSE, change, ark, luck)
                         ELSE ReadDataFromChunk(reset, luck)
             IN Handler(pc, pair, luck, 0)

\* The metaserver's heartbeat brings a new chunk map: a chunk went offline.
ClusterChange ==
  /\ Alive /\ cluster.version < ClusterChanges
  /\ \E c \in Chunks \ cluster.offline :
       cluster' = [version |-> cluster.version + 1, offline |-> cluster.offline \cup {c}]
  /\ UNCHANGED <<task, handle, faults>>

HandleStep(pc) ==
  \/ Start(pc)
  \/ HandleReadKoalaResponse(pc)
  \/ ReadKoalaTimeOut(pc)
  \/ HandleReadChunkResponse(pc)
  \/ ReadChunkTimeOut(pc)
  \/ HandleWriteChunkResponse(pc)
  \/ WriteChunkTimeOut(pc)
  \/ HandleRetryCb(pc)
  \/ HandlePendingCb(pc)

=============================================================================
