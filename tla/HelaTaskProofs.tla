--------------------------- MODULE HelaTaskProofs ---------------------------
(***************************************************************************)
(* Proofs about HelaTask, for every number of pieces, parts, destinations  *)
(* and ark routes, and for every bound on the faults: a transfer that      *)
(* reports success has copied everything, the references are exact, and a  *)
(* completed batch has settled every piece, given the right verdict and    *)
(* told idun of every copy.                                                *)
(***************************************************************************)
EXTENDS HelaTask, FiniteSetTheorems, WellFoundedInduction, TLAPS

\* Where a handle reads, and where it writes.
ReadPlaces == {"posted", "reading", "retry_read", "pending_read"}
WritePlaces == {"writing", "retry_write", "pending_write"}
Places == ReadPlaces \cup WritePlaces \cup {"none", "finished", "crashed"}
Results == {"none", "SUCCESS", "UNAVAILABLE", "FAIL"}

HandleRecords ==
  [at : Places, part : Nat, dest : Nat, backoff : Nat, router : SUBSET Arks,
   ark : Arks \cup {"none"}, change : BOOLEAN, huge : Nat, srcOff : BOOLEAN,
   copied : SUBSET (Nat \X Nat), ret : Results]

Statuses == {"READY", "QUERY", "RUNNING"} \cup Settled
TaskRecords ==
  [status : Statuses, src : {"KOALA"} \cup ChunkSources, version : Nat, off : SUBSET Disks]

Pairs == [t : TaskRecords, h : HandleRecords]

BatchRecords ==
  [started : BOOLEAN, timeout : BOOLEAN, completed : BOOLEAN, finish : Nat, succ : Nat, fail : Nat]
DiskStatuses == {"READY", "EXECUTING", "DONE", "FAIL"}

\* The part is with every destination that is still online.
Done(pair, part) == \A d \in Disks \ pair.t.off : <<part, d>> \in pair.h.copied

\* The earlier parts are everywhere, this one with the destinations before dest.
Midway(pair) ==
  /\ pair.h.part \in 1 .. Parts /\ pair.h.dest \in Nat \ {0}
  /\ \A part \in 1 .. (pair.h.part - 1) : Done(pair, part)
  /\ \A d \in 1 .. (pair.h.dest - 1) : d \in Disks \ pair.t.off =>
       <<pair.h.part, d>> \in pair.h.copied

\* What is known of a handle, by where it is.
CopyInv(pair) ==
  /\ pair.h.at \in ReadPlaces \cup WritePlaces => Midway(pair)
  /\ pair.h.at \in ReadPlaces => pair.h.dest = 1
  /\ pair.h.at = "finished" /\ pair.h.ret = "SUCCESS" => \A part \in 1 .. Parts : Done(pair, part)

\* What a handler makes of the task and the handle it was called with.
Outcome(pair, out) ==
  /\ out \in Pairs /\ CopyInv(out)
  /\ out.t.status = pair.t.status /\ out.t.src = pair.t.src

\* The types of the variables that the proofs are about.
Shape ==
  /\ task \in [Pcs -> TaskRecords] /\ handle \in [Pcs -> HandleRecords]
  /\ cluster \in [version : Nat, offline : SUBSET Chunks]
  /\ batch \in BatchRecords /\ disk \in [Disks -> DiskStatuses]
  /\ refs \in [ChunkSources -> Int]
  /\ queries \subseteq SUBSET Pcs /\ update \subseteq Pcs

\* The handles' part of the invariant.
CopiesInv == \A pc \in Pcs : CopyInv(Pair(pc))

\* A chunk source is chosen when a piece is dispatched, never before.
SourceInv == \A pc \in Pcs : task[pc].status \in {"READY", "QUERY"} => task[pc].src = "KOALA"

\* A piece waits for at most one query, and nothing else happens to it.
QueryInv ==
  /\ \A query \in queries : query # {} /\ query \subseteq With(task, "QUERY")
  /\ \A query, other \in queries : query = other \/ query \cap other = {}

\* Nothing has happened before the batch starts.
StartInv ==
  ~batch.started => /\ With(task, "READY") = Pcs /\ update = {}
                    /\ ~batch.timeout /\ ~batch.completed

\* The pieces the batch is done with.
SettledPcs == {pc \in Pcs : task[pc].status \in Settled}

\* The counters count.
CountInv ==
  /\ batch.finish = Cardinality(SettledPcs)
  /\ batch.fail = Cardinality(With(task, "FAIL"))

\* The transfers from a chunk source.
Readers(tasks, s) == {pc \in With(tasks, "RUNNING") : tasks[pc].src = s}

\* What CheckHelaTaskFinish saw when it completed the batch still holds.
EndInv ==
  batch.completed => /\ batch.finish = Cardinality(Pcs) /\ update = {} /\ ~batch.timeout
                     /\ \A d \in Disks : disk[d] = "FAIL" <=> batch.fail > 0

ManagerInv == SourceInv /\ QueryInv /\ StartInv /\ CountInv /\ RefsCountReaders /\ EndInv

\* The inductive invariant.
IInv == Shape /\ CopiesInv /\ ManagerInv

-----------------------------------------------------------------------------

\* A handle that ends without success claims nothing.
LEMMA FinishOutcome ==
  ASSUME NEW pair \in Pairs, NEW ret \in Results \ {"SUCCESS"}
  PROVE  Outcome(pair, FinishHelaPcTask(pair, ret))
<1> DEFINE out == FinishHelaPcTask(pair, ret)
<1>1. out \in Pairs /\ out.t = pair.t /\ out.h.at = "finished" /\ out.h.ret = ret
  BY ZenonT(60) DEF FinishHelaPcTask, Pairs, HandleRecords, Places
<1> QED
  BY Zenon, <1>1 DEF Outcome, CopyInv, ReadPlaces, WritePlaces

\* The back-off stays a number of milliseconds.
LEMMA ReportErrorType ==
  ASSUME NEW current \in Nat
  PROVE  ReportError(current) \in Nat
BY SMTT(30), HelaPcConstants DEF ReportError

\* Moving a handle to another place of the same kind keeps what is known.
LEMMA MoveOutcome ==
  ASSUME NEW pair \in Pairs, Midway(pair), NEW at \in Places, NEW backoff \in Nat,
         at \in WritePlaces \cup {"crashed"} \/ (at \in ReadPlaces /\ pair.h.dest = 1)
  PROVE  /\ Outcome(pair, [pair EXCEPT !.h.at = at])
         /\ Outcome(pair, [pair EXCEPT !.h.at = at, !.h.backoff = backoff])
<1> SUFFICES ASSUME NEW out, out \in {[pair EXCEPT !.h.at = at],
                                 [pair EXCEPT !.h.at = at, !.h.backoff = backoff]}
             PROVE  Outcome(pair, out)
  BY Zenon
<1>1. /\ out \in Pairs /\ out.t = pair.t /\ out.h.at = at /\ out.h.part = pair.h.part
      /\ out.h.dest = pair.h.dest /\ out.h.copied = pair.h.copied
  <2>1. CASE out = [pair EXCEPT !.h.at = at]
    BY Zenon, <2>1 DEF Pairs, HandleRecords
  <2>2. CASE out = [pair EXCEPT !.h.at = at, !.h.backoff = backoff]
    BY Zenon, <2>2 DEF Pairs, HandleRecords
  <2> QED
    BY Zenon, <2>1, <2>2
<1>2. Midway(out)
  BY Zenon, <1>1 DEF Midway, Done
<1>3. out.h.at # "finished"
  BY Zenon, <1>1 DEF ReadPlaces, WritePlaces
<1>4. at \in ReadPlaces => out.h.dest = 1
  BY Zenon, <1>1 DEF ReadPlaces, WritePlaces
<1> QED
  BY Zenon, <1>1, <1>2, <1>3, <1>4 DEF Outcome, CopyInv

\* set_retry_read: the read is tried again later, or the transfer ends without success.
LEMMA RetryReadOutcome ==
  ASSUME NEW pair \in Pairs, Midway(pair), pair.h.dest = 1
  PROVE  Outcome(pair, set_retry_read(pair))
<1>1. pair.h.backoff \in Nat
  BY Zenon DEF Pairs, HandleRecords
<1>2. ReportError(pair.h.backoff) \in Nat
  BY Zenon, <1>1, ReportErrorType
<1>3. set_retry_read(pair) \in
        {FinishHelaPcTask(pair, "FAIL"), FinishHelaPcTask(pair, "UNAVAILABLE"),
         [pair EXCEPT !.h.at = "retry_read", !.h.backoff = ReportError(pair.h.backoff)]}
  BY Zenon DEF set_retry_read, Pairs, HandleRecords
<1>4. Outcome(pair, [pair EXCEPT !.h.at = "retry_read", !.h.backoff = ReportError(pair.h.backoff)])
  BY Zenon, <1>2, MoveOutcome DEF ReadPlaces, Places
<1> QED
  BY Zenon, <1>3, <1>4, FinishOutcome DEF Results

\* set_retry_write: the same for a write; the destination it stands at is not passed over.
LEMMA RetryWriteOutcome ==
  ASSUME NEW pair \in Pairs, Midway(pair)
  PROVE  Outcome(pair, set_retry_write(pair))
<1>1. pair.h.backoff \in Nat
  BY Zenon DEF Pairs, HandleRecords
<1>2. ReportError(pair.h.backoff) \in Nat
  BY Zenon, <1>1, ReportErrorType
<1>3. set_retry_write(pair) \in
        {FinishHelaPcTask(pair, "FAIL"),
         [pair EXCEPT !.h.at = "retry_write", !.h.backoff = ReportError(pair.h.backoff)]}
  BY Zenon DEF set_retry_write, Pairs, HandleRecords
<1>4. Outcome(pair, [pair EXCEPT !.h.at = "retry_write", !.h.backoff = ReportError(pair.h.backoff)])
  BY Zenon, <1>2, MoveOutcome DEF WritePlaces, Places
<1> QED
  BY Zenon, <1>3, <1>4, FinishOutcome DEF Results

\* set_pending_read and set_pending_write keep the part and the destination.
LEMMA PendingOutcome ==
  ASSUME NEW pair \in Pairs, Midway(pair)
  PROVE  /\ pair.h.dest = 1 => Outcome(pair, set_pending_read(pair))
         /\ Outcome(pair, set_pending_write(pair))
<1>1. 0 \in Nat
  OBVIOUS
<1> QED
  BY Zenon, <1>1, MoveOutcome DEF set_pending_read, set_pending_write, ReadPlaces, WritePlaces, Places

\* A read that is sent, held back by the flow monitor or retried loses no copy.
LEMMA SendReadOutcome ==
  ASSUME NEW pair \in Pairs, Midway(pair), pair.h.dest = 1, NEW luck \in Luck
  PROVE  Outcome(pair, SendRead(pair, luck))
<1>1. 0 \in Nat
  OBVIOUS
<1>2. Outcome(pair, [pair EXCEPT !.h.at = "reading"])
  BY Zenon, <1>1, MoveOutcome DEF ReadPlaces, Places
<1>3. SendRead(pair, luck) \in
        {set_pending_read(pair), set_retry_read(pair), [pair EXCEPT !.h.at = "reading"]}
  BY Zenon DEF SendRead, Luck
<1> QED
  BY Zenon, <1>2, <1>3, PendingOutcome, RetryReadOutcome

\* Two views of a piece that agree on what matters know the same.
LEMMA SameProgress ==
  ASSUME NEW pair, NEW out, pair.h.copied \subseteq out.h.copied, pair.t.off \subseteq out.t.off
  PROVE  /\ \A part : Done(pair, part) => Done(out, part)
         /\ out.h.part = pair.h.part /\ out.h.dest = pair.h.dest /\ Midway(pair) => Midway(out)
<1>1. \A part : Done(pair, part) => Done(out, part)
  BY Zenon DEF Done
<1>2. ASSUME out.h.part = pair.h.part, out.h.dest = pair.h.dest, Midway(pair)
      PROVE  Midway(out)
  BY Zenon, <1>1, <1>2 DEF Midway
<1> QED
  BY Zenon, <1>1, <1>2

\* Looking at the cluster can only take destinations out of the game.
LEMMA CheckClusterKeeps ==
  ASSUME NEW pair \in Pairs, Shape, NEW out, out = CheckCluster(pair)
  PROVE  /\ out \in Pairs /\ out.t.status = pair.t.status /\ out.t.src = pair.t.src
         /\ out.h.part = pair.h.part /\ out.h.dest = pair.h.dest /\ out.h.at = pair.h.at
         /\ out.h.copied = pair.h.copied /\ pair.t.off \subseteq out.t.off
<1>1. cluster.version \in Nat /\ cluster.offline \ {Source} \subseteq Disks
  BY SMT DEF Shape, Chunks, Disks, Source
<1>2. CASE pair.t.version = cluster.version
  BY Zenon, <1>2 DEF CheckCluster
<1>3. CASE pair.t.version # cluster.version
  <2> DEFINE off == pair.t.off \cup (cluster.offline \ {Source})
             srcOff == pair.h.srcOff \/ (pair.t.src # "KOALA" /\ Source \in cluster.offline)
  <2>1. out = [pair EXCEPT !.t.version = cluster.version, !.t.off = off, !.h.srcOff = srcOff]
    BY Zenon, <1>3 DEF CheckCluster, Pairs, TaskRecords, HandleRecords
  <2>2. off \in SUBSET Disks /\ srcOff \in BOOLEAN
    BY Zenon, <1>1 DEF Pairs, TaskRecords, HandleRecords
  <2>3. pair.t.off \subseteq off
    BY Zenon
  <2> HIDE DEF off, srcOff
  <2>4. /\ out.t = [pair.t EXCEPT !.version = cluster.version, !.off = off]
        /\ out.h = [pair.h EXCEPT !.srcOff = srcOff] /\ pair.t \in TaskRecords
        /\ pair.h \in HandleRecords /\ out = [t |-> out.t, h |-> out.h]
    BY Zenon, <2>1 DEF Pairs
  <2>5. /\ out.t \in TaskRecords /\ out.t.status = pair.t.status /\ out.t.src = pair.t.src
        /\ out.t.off = off
    BY Zenon, <1>1, <2>2, <2>4 DEF TaskRecords
  <2>6. /\ out.h \in HandleRecords /\ out.h.part = pair.h.part /\ out.h.dest = pair.h.dest
        /\ out.h.at = pair.h.at /\ out.h.copied = pair.h.copied
    BY ZenonT(60), <2>2, <2>4 DEF HandleRecords
  <2>7. out \in Pairs
    BY Zenon, <2>4, <2>5, <2>6 DEF Pairs
  <2> QED
    BY Zenon, <2>3, <2>5, <2>6, <2>7
<1> QED
  BY Zenon, <1>2, <1>3

\* What one function makes of the result of another.
LEMMA OutcomeChain ==
  ASSUME NEW pair, NEW mid, NEW out, Outcome(mid, out),
         mid.t.status = pair.t.status, mid.t.src = pair.t.src
  PROVE  Outcome(pair, out)
BY Zenon DEF Outcome

\* DecideKoalaSource: the choice of a route loses no copy, whatever is left to choose from.
LEMMA DecideKoalaSourceOutcome ==
  ASSUME NEW pair \in Pairs, Midway(pair), pair.h.dest = 1, NEW new \in BOOLEAN,
         NEW change \in BOOLEAN, NEW ark \in Arks, NEW luck \in Luck
  PROVE  Outcome(pair, DecideKoalaSource(pair, new, change, ark, luck))
<1> DEFINE left == pair.h.router \ {pair.h.ark}
           router == IF new \/ (change /\ left = {}) THEN Arks
                     ELSE IF change THEN left ELSE pair.h.router
           chosen == IF new \/ change THEN ark ELSE pair.h.ark
           mid == [pair EXCEPT !.h.router = router, !.h.ark = chosen]
<1>1. pair.h.router \in SUBSET Arks /\ pair.h.ark \in Arks \cup {"none"}
  BY Zenon DEF Pairs, HandleRecords
<1>2. left \in SUBSET Arks
  BY Zenon, <1>1
<1>3. router \in SUBSET Arks
  BY Zenon, <1>1, <1>2
<1>4. chosen \in Arks \cup {"none"}
  BY Zenon, <1>1
<1>5. DecideKoalaSource(pair, new, change, ark, luck) = SendRead(mid, luck)
  BY Zenon DEF DecideKoalaSource
<1> HIDE DEF router, chosen
<1>6. /\ mid \in Pairs /\ mid.t = pair.t /\ mid.h.part = pair.h.part
      /\ mid.h.dest = pair.h.dest /\ mid.h.copied = pair.h.copied
  BY Zenon, <1>3, <1>4 DEF Pairs, HandleRecords
<1> HIDE DEF mid
<1>7. Midway(mid)
  BY Zenon, <1>6, SameProgress
<1>8. Outcome(mid, SendRead(mid, luck))
  BY Zenon, <1>6, <1>7, SendReadOutcome
<1> QED
  BY Zenon, <1>5, <1>6, <1>8, OutcomeChain

\* ReadDataFromChunk: the read is sent, or the source is offline and the transfer ends without success.
LEMMA ReadDataFromChunkOutcome ==
  ASSUME NEW pair \in Pairs, Shape, Midway(pair), pair.h.dest = 1, NEW luck \in Luck
  PROVE  Outcome(pair, ReadDataFromChunk(pair, luck))
<1> DEFINE mid == CheckCluster(pair)
<1>1. /\ mid \in Pairs /\ mid.t.status = pair.t.status /\ mid.t.src = pair.t.src
      /\ mid.h.part = pair.h.part /\ mid.h.dest = pair.h.dest
      /\ mid.h.copied = pair.h.copied /\ pair.t.off \subseteq mid.t.off
  BY ZenonT(60), CheckClusterKeeps
<1>2. ReadDataFromChunk(pair, luck) \in {FinishHelaPcTask(mid, "UNAVAILABLE"), SendRead(mid, luck)}
  BY Zenon DEF ReadDataFromChunk
<1> HIDE DEF mid
<1>3. Midway(mid)
  BY Zenon, <1>1, SameProgress
<1>4. Outcome(mid, FinishHelaPcTask(mid, "UNAVAILABLE")) /\ Outcome(mid, SendRead(mid, luck))
  BY Zenon, <1>1, <1>3, FinishOutcome, SendReadOutcome DEF Results
<1> QED
  BY Zenon, <1>1, <1>2, <1>4, OutcomeChain

\* The next part is read, or the piece is done, once this part is everywhere.
LEMMA ReadNextPartOutcome ==
  ASSUME NEW pair \in Pairs, Shape, pair.h.part \in 1 .. Parts, pair.h.dest = 1,
         \A part \in 1 .. pair.h.part : Done(pair, part), NEW ark \in Arks, NEW luck \in Luck
  PROVE  Outcome(pair, ReadNextPart(pair, ark, luck))
<1> DEFINE next == [pair EXCEPT !.h.part = @ + 1]
<1>1. pair.h.part + 1 \in Nat /\ pair.h.part \in Nat /\ Parts \in Nat
  BY SMTT(30), HelaPcConstants
<1>2. /\ next \in Pairs /\ next.t = pair.t /\ next.h.part = pair.h.part + 1
      /\ next.h.dest = pair.h.dest /\ next.h.copied = pair.h.copied
  BY Zenon, <1>1 DEF Pairs, HandleRecords
<1>3. \A part : Done(pair, part) => Done(next, part)
  BY Zenon, <1>2 DEF Done
<1>4. ReadNextPart(pair, ark, luck) =
        IF next.h.part > Parts THEN FinishHelaPcTask(next, "SUCCESS")
        ELSE IF next.t.src = "KOALA" THEN DecideKoalaSource(next, TRUE, FALSE, ark, luck)
        ELSE ReadDataFromChunk(next, luck)
  BY Zenon DEF ReadNextPart
<1> HIDE DEF next
<1>5. CASE next.h.part > Parts
  <2> DEFINE out == FinishHelaPcTask(next, "SUCCESS")
  <2>1. /\ out \in Pairs /\ out.t = next.t /\ out.h.at = "finished" /\ out.h.copied = next.h.copied
    BY ZenonT(60), <1>2 DEF FinishHelaPcTask, Pairs, HandleRecords, Places, Results
  <2>2. \A part \in 1 .. Parts : Done(out, part)
    <3>1. pair.h.part = Parts
      BY SMTT(30), <1>1, <1>2, <1>5
    <3> QED
      BY Zenon, <1>3, <2>1, <3>1 DEF Done
  <2>3. Outcome(pair, out)
    BY Zenon, <1>2, <2>1, <2>2 DEF Outcome, CopyInv, ReadPlaces, WritePlaces
  <2>4. ReadNextPart(pair, ark, luck) = out
    BY Zenon, <1>4, <1>5
  <2> QED
    BY Zenon, <2>3, <2>4
<1>6. CASE ~(next.h.part > Parts)
  <2>1. Midway(next)
    <3>1. next.h.part \in 1 .. Parts /\ next.h.part - 1 = pair.h.part
      BY SMTT(30), <1>1, <1>2, <1>6
    <3>2. next.h.dest \in Nat \ {0} /\ \A d \in 1 .. (next.h.dest - 1) : FALSE
      BY SMTT(30), <1>2
    <3> QED
      BY Zenon, <1>3, <3>1, <3>2 DEF Midway
  <2>2. /\ Outcome(next, DecideKoalaSource(next, TRUE, FALSE, ark, luck))
        /\ Outcome(next, ReadDataFromChunk(next, luck))
    BY Zenon, <1>2, <2>1, DecideKoalaSourceOutcome, ReadDataFromChunkOutcome
  <2>3. ReadNextPart(pair, ark, luck) \in {DecideKoalaSource(next, TRUE, FALSE, ark, luck),
                                           ReadDataFromChunk(next, luck)}
    BY Zenon, <1>4, <1>6
  <2> QED
    BY Zenon, <1>2, <2>2, <2>3, OutcomeChain
<1> QED
  BY Zenon, <1>5, <1>6

\* WriteDataToChunk: sent, held back, retried or lost with the process, no destination is passed over.
LEMMA WriteDataToChunkOutcome ==
  ASSUME NEW pair \in Pairs, Midway(pair), NEW luck \in Luck
  PROVE  Outcome(pair, WriteDataToChunk(pair, luck))
<1>1. 0 \in Nat
  OBVIOUS
<1>2. Outcome(pair, [pair EXCEPT !.h.at = "writing"]) /\ Outcome(pair, [pair EXCEPT !.h.at = "crashed"])
  BY Zenon, <1>1, MoveOutcome DEF WritePlaces, Places
<1>3. WriteDataToChunk(pair, luck) \in
        {set_pending_write(pair), set_retry_write(pair), [pair EXCEPT !.h.at = "crashed"],
         [pair EXCEPT !.h.at = "writing"]}
  BY Zenon DEF WriteDataToChunk, Luck
<1> QED
  BY Zenon, <1>2, <1>3, PendingOutcome, RetryWriteOutcome

\* The first of the destinations that are left.
LEMMA FirstOf ==
  ASSUME NEW S \in SUBSET Nat, S # {}
  PROVE  LET first == CHOOSE d \in S : \A e \in S : d <= e
         IN first \in S /\ \A e \in S : first <= e
<1>1. PICK d \in S : \A e \in S : ~(<<e, d>> \in OpToRel(<, Nat))
  BY Zenon, NatLessThanWellFounded, WFMin
<1>2. \A e \in S : e < d => <<e, d>> \in OpToRel(<, Nat)
  BY Zenon DEF OpToRel
<1>3. \A e \in S : d <= e
  <2>1. \A e \in S : ~(e < d)
    BY Zenon, <1>1, <1>2
  <2> QED
    BY SMTT(30), <2>1
<1> QED
  BY Zenon, <1>3

\* From one destination to the next, and on to the next part after the last.
LEMMA HandleWriteChunkOutcome ==
  ASSUME NEW pair \in Pairs, Shape, Midway(pair), NEW ark \in Arks, NEW luck \in Luck
  PROVE  Outcome(pair, HandleWriteChunk(pair, ark, luck))
<1> DEFINE restart(p) == ReadNextPart([p EXCEPT !.h.dest = 1], ark, luck)
           checked == CheckCluster(pair)
           online == {d \in checked.h.dest..Dests : d \notin checked.t.off}
           first == CHOOSE d \in online : \A e \in online : d <= e
           moved == [checked EXCEPT !.h.dest = first]
<1>1. /\ checked \in Pairs /\ checked.t.status = pair.t.status /\ checked.t.src = pair.t.src
      /\ checked.h.part = pair.h.part /\ checked.h.dest = pair.h.dest
      /\ checked.h.copied = pair.h.copied /\ pair.t.off \subseteq checked.t.off
  BY Zenon, CheckClusterKeeps
<1>2. HandleWriteChunk(pair, ark, luck) =
        IF pair.h.dest > Dests THEN restart(pair)
        ELSE IF checked.h.srcOff THEN FinishHelaPcTask(checked, "UNAVAILABLE")
        ELSE IF online = {} THEN restart(checked)
        ELSE WriteDataToChunk(moved, luck)
  BY Zenon DEF HandleWriteChunk
<1> HIDE DEF checked
<1>3. Midway(checked)
  BY Zenon, <1>1, SameProgress
<1>4. ASSUME NEW p \in Pairs, Midway(p), p.t.status = pair.t.status, p.t.src = pair.t.src,
             Done(p, p.h.part)
      PROVE  Outcome(pair, restart(p))
  <2> DEFINE mid == [p EXCEPT !.h.dest = 1]
  <2>1. 1 \in Nat
    OBVIOUS
  <2>2. /\ mid \in Pairs /\ mid.t = p.t /\ mid.h.part = p.h.part /\ mid.h.dest = 1
        /\ mid.h.copied = p.h.copied
    BY Zenon, <2>1 DEF Pairs, HandleRecords
  <2> HIDE DEF mid
  <2>3. mid.h.part \in 1 .. Parts
    BY Zenon, <1>4, <2>2 DEF Midway
  <2>4. \A part \in 1 .. mid.h.part : part = p.h.part \/ part \in 1 .. (p.h.part - 1)
    BY SMTT(30), <2>2, <2>3, HelaPcConstants
  <2>5. \A part \in 1 .. mid.h.part : Done(mid, part)
    BY Zenon, <1>4, <2>2, <2>4 DEF Midway, Done
  <2>6. Outcome(mid, ReadNextPart(mid, ark, luck))
    BY Zenon, <2>2, <2>3, <2>5, ReadNextPartOutcome
  <2>7. Outcome(pair, ReadNextPart(mid, ark, luck))
    BY Zenon, <1>4, <2>2, <2>6, OutcomeChain
  <2> QED
    BY Zenon, <2>7 DEF mid
<1> HIDE DEF restart
<1>5. pair.h.dest \in Nat \ {0} /\ Dests \in Nat
  BY Zenon, HelaPcConstants DEF Midway
<1>6. CASE pair.h.dest > Dests
  <2>1. \A d \in Disks : d \in 1 .. (pair.h.dest - 1)
    BY SMTT(30), <1>5, <1>6 DEF Disks
  <2>2. Done(pair, pair.h.part)
    BY Zenon, <2>1 DEF Midway, Done
  <2> QED
    BY Zenon, <1>2, <1>4, <1>6, <2>2
<1>7. CASE ~(pair.h.dest > Dests) /\ checked.h.srcOff
  BY Zenon, <1>1, <1>2, <1>7, FinishOutcome, OutcomeChain DEF Results
<1>8. CASE ~(pair.h.dest > Dests) /\ ~checked.h.srcOff /\ online = {}
  <2>1. \A d \in Disks : d \in 1 .. (checked.h.dest - 1) \/ d \in checked.h.dest .. Dests
    BY SMTT(30), <1>1, <1>5 DEF Disks
  <2>2. \A d \in checked.h.dest .. Dests : d \in checked.t.off
    BY Zenon, <1>8
  <2>3. Done(checked, checked.h.part)
    BY Zenon, <1>3, <2>1, <2>2 DEF Midway, Done
  <2> QED
    BY ZenonT(60), <1>1, <1>2, <1>3, <1>4, <1>8, <2>3
<1>9. CASE ~(pair.h.dest > Dests) /\ ~checked.h.srcOff /\ online # {}
  <2>1. online \in SUBSET Nat
    BY SMTT(30), <1>1, <1>5
  <2>2. first \in online /\ \A e \in online : first <= e
    BY Zenon, <1>9, <2>1, FirstOf
  <2> HIDE DEF first
  <2>3. first \in Nat \ {0}
    BY SMTT(30), <1>1, <1>5, <2>2
  <2>4. /\ moved \in Pairs /\ moved.t = checked.t /\ moved.h.part = checked.h.part
        /\ moved.h.dest = first /\ moved.h.copied = checked.h.copied
    BY Zenon, <1>1, <2>3 DEF Pairs, HandleRecords
  <2>5. \A d \in 1 .. (first - 1) : d \in 1 .. (checked.h.dest - 1) \/ d \in checked.t.off
    <3>1. SUFFICES ASSUME NEW d \in 1 .. (first - 1), d \notin 1 .. (checked.h.dest - 1),
                          d \notin checked.t.off
                   PROVE  FALSE
      BY Zenon
    <3>2. d \in checked.h.dest .. Dests /\ ~(first <= d)
      BY SMTT(30), <1>1, <1>5, <2>2, <2>3, <3>1
    <3> QED
      BY Zenon, <2>2, <3>1, <3>2
  <2> HIDE DEF moved
  <2>6. Midway(moved)
    BY Zenon, <1>3, <2>3, <2>4, <2>5 DEF Midway, Done
  <2>7. Outcome(moved, WriteDataToChunk(moved, luck))
    BY Zenon, <2>4, <2>6, WriteDataToChunkOutcome
  <2> QED
    BY ZenonT(60), <1>1, <1>2, <1>9, <2>4, <2>7, OutcomeChain
<1> QED
  BY Zenon, <1>6, <1>7, <1>8, <1>9

-----------------------------------------------------------------------------
(* The steps of a handle. *)

\* The piece a handler is called with.
LEMMA PairIsPair ==
  ASSUME IInv, NEW pc \in Pcs
  PROVE  /\ Pair(pc) \in Pairs /\ CopyInv(Pair(pc))
         /\ Pair(pc).t = task[pc] /\ Pair(pc).h = handle[pc]
<1>1. task[pc] \in TaskRecords /\ handle[pc] \in HandleRecords
  BY Zenon DEF IInv, Shape
<1> QED
  BY Zenon, <1>1 DEF Pair, Pairs, IInv, CopiesInv

\* The manager's part is about status and source only.
LEMMA SameTasks ==
  ASSUME IInv, batch' = batch, disk' = disk, refs' = refs, queries' = queries, update' = update,
         \A pc \in Pcs : task'[pc].status = task[pc].status /\ task'[pc].src = task[pc].src
  PROVE  ManagerInv'
<1>1. \A status : With(task, status)' = With(task, status)
  BY Zenon DEF With
<1>2. \A s : Readers(task', s) = Readers(task, s)
  BY Zenon DEF Readers, With
<1>3. SettledPcs' = SettledPcs
  BY Zenon DEF SettledPcs
<1>4. SourceInv' /\ QueryInv'
  BY Zenon, <1>1 DEF IInv, ManagerInv, SourceInv, QueryInv
<1>5. StartInv' /\ EndInv'
  BY Zenon, <1>1 DEF IInv, ManagerInv, StartInv, EndInv
<1>6. CountInv' /\ RefsCountReaders'
  BY Zenon, <1>1, <1>2, <1>3 DEF IInv, ManagerInv, CountInv, RefsCountReaders, Readers, With
<1> QED
  BY Zenon, <1>4, <1>5, <1>6 DEF ManagerInv

\* What a step of a transfer leaves alone: the invariant, and the status that
\* only the manager gives a piece.
Kept == IInv' /\ \A pc \in Pcs : task'[pc].status = task[pc].status

\* A handler leaves the manager what it relies on.
LEMMA HandlerKeeps ==
  ASSUME IInv, UNCHANGED manVars, NEW pc \in Pcs, NEW pair, NEW luck, NEW cost,
         Outcome(Pair(pc), pair), Handler(pc, pair, luck, cost)
  PROVE  Kept
<1>1. /\ task' = [task EXCEPT ![pc] = pair.t] /\ handle' = [handle EXCEPT ![pc] = pair.h]
      /\ cluster' = cluster
  BY Zenon DEF Handler
<1>2. /\ batch' = batch /\ disk' = disk /\ refs' = refs /\ queries' = queries /\ update' = update
  BY Zenon DEF manVars
<1>3. /\ pair.t \in TaskRecords /\ pair.h \in HandleRecords /\ pair = [t |-> pair.t, h |-> pair.h]
      /\ CopyInv(pair) /\ pair.t.status = task[pc].status /\ pair.t.src = task[pc].src
  BY Zenon, PairIsPair DEF Outcome, Pairs
<1>4. Shape'
  BY Zenon, <1>1, <1>2, <1>3 DEF IInv, Shape
<1>5. /\ task'[pc] = pair.t /\ handle'[pc] = pair.h
      /\ \A q \in Pcs : q # pc => task'[q] = task[q] /\ handle'[q] = handle[q]
  BY Zenon, <1>1 DEF IInv, Shape
<1>6. \A q \in Pcs : task'[q].status = task[q].status /\ task'[q].src = task[q].src
  BY Zenon, <1>3, <1>5
<1>7. CopiesInv'
  <2>1. SUFFICES ASSUME NEW q \in Pcs PROVE CopyInv([t |-> task'[q], h |-> handle'[q]])
    BY Zenon DEF CopiesInv, Pair
  <2>2. CASE q = pc
    BY Zenon, <1>3, <1>5, <2>2
  <2>3. CASE q # pc
    BY Zenon, <1>5, <2>3 DEF IInv, CopiesInv, Pair
  <2> QED
    BY Zenon, <2>2, <2>3
<1>8. ManagerInv'
  BY Zenon, <1>2, <1>6, SameTasks
<1> QED
  BY Zenon, <1>4, <1>6, <1>7, <1>8 DEF IInv, Kept

\* What a handler knows of its piece from the place the handle is at.
LEMMA AtPlace ==
  ASSUME IInv, NEW pc \in Pcs, NEW place \in ReadPlaces \cup WritePlaces, At(pc, place)
  PROVE  Midway(Pair(pc)) /\ (place \in ReadPlaces => Pair(pc).h.dest = 1)
BY Zenon, PairIsPair DEF At, CopyInv

\* A change of the handle that is not about progress.
LEMMA AsideOutcome ==
  ASSUME NEW pair \in Pairs, Midway(pair), NEW mid \in Pairs, mid.t = pair.t,
         mid.h.part = pair.h.part, mid.h.dest = pair.h.dest, mid.h.copied = pair.h.copied
  PROVE  Midway(mid) /\ \A out : Outcome(mid, out) => Outcome(pair, out)
<1>1. Midway(mid)
  BY Zenon, SameProgress
<1> QED
  BY Zenon, <1>1, OutcomeChain

\* A handle that was just posted has copied nothing and has nothing behind it.
LEMMA NewHandle ==
  /\ NoHandle \in HandleRecords /\ [NoHandle EXCEPT !.at = "posted"] \in HandleRecords
  /\ \A pair : pair.h = [NoHandle EXCEPT !.at = "posted"] =>
       Midway(pair) /\ pair.h.dest = 1 /\ pair.h.at = "posted"
<1>1. 0 \in Nat /\ 1 \in Nat \ {0} /\ 1 \in 1 .. Parts /\ 1 .. (1 - 1) = {}
  BY SMTT(30), HelaPcConstants
<1>2. NoHandle \in HandleRecords
  BY Zenon, <1>1 DEF NoHandle, HandleRecords, Places, Results
<1>3. LET new == [NoHandle EXCEPT !.at = "posted"]
      IN new \in HandleRecords /\ new.part = 1 /\ new.dest = 1 /\ new.at = "posted"
  BY ZenonT(60), <1>1, <1>2 DEF NoHandle, HandleRecords, Places, ReadPlaces
<1> QED
  BY Zenon, <1>1, <1>2, <1>3 DEF Midway

\* Start of a posted handle.
LEMMA StartKeeps ==
  ASSUME IInv, UNCHANGED manVars, NEW pc \in Pcs, Start(pc)
  PROVE  Kept
<1> DEFINE fresh == [Pair(pc) EXCEPT !.h = [NoHandle EXCEPT !.at = "posted"]]
<1>1. PICK luck \in Luck \ {"unconnected"}, ark \in Arks :
        Handler(pc, IF task[pc].src = "KOALA" THEN DecideKoalaSource(fresh, TRUE, FALSE, ark, luck)
                    ELSE ReadDataFromChunk(fresh, luck), luck, 0)
  BY Zenon DEF Start
<1>2. [NoHandle EXCEPT !.at = "posted"] \in HandleRecords
  BY NewHandle
<1>3. fresh \in Pairs /\ fresh.t = Pair(pc).t /\ fresh.h = [NoHandle EXCEPT !.at = "posted"]
  BY Zenon, <1>2, PairIsPair DEF Pairs
<1>4. Midway(fresh) /\ fresh.h.dest = 1
  BY Zenon, <1>3, NewHandle
<1> HIDE DEF fresh
<1>5. /\ Outcome(fresh, DecideKoalaSource(fresh, TRUE, FALSE, ark, luck))
      /\ Outcome(fresh, ReadDataFromChunk(fresh, luck))
  BY Zenon, <1>3, <1>4, DecideKoalaSourceOutcome, ReadDataFromChunkOutcome DEF IInv
<1>6. /\ Outcome(Pair(pc), DecideKoalaSource(fresh, TRUE, FALSE, ark, luck))
      /\ Outcome(Pair(pc), ReadDataFromChunk(fresh, luck))
  BY Zenon, <1>3, <1>5, OutcomeChain
<1> QED
  BY Zenon, <1>1, <1>6, HandlerKeeps

\* The answer of koala, good or bad.
LEMMA HandleReadKoalaResponseKeeps ==
  ASSUME IInv, UNCHANGED manVars, NEW pc \in Pcs, HandleReadKoalaResponse(pc)
  PROVE  Kept
<1> DEFINE pair == Pair(pc)
           read == [Pair(pc) EXCEPT !.h.backoff = 0]
           all == {handle[pc].part} \X (1..Dests)
           empty == [read EXCEPT !.h.copied = @ \cup all]
           change == [Pair(pc) EXCEPT !.h.change = TRUE]
<1>1. PICK luck \in Luck, ark \in Arks :
        \/ Handler(pc, HandleWriteChunk(read, ark, luck), luck, 0)
        \/ Handler(pc, ReadNextPart(empty, ark, luck), luck, 0)
        \/ \E p \in {set_retry_read(pair), set_pending_read(pair), set_pending_read(change)} :
             Handler(pc, p, luck, 1)
  BY Zenon DEF HandleReadKoalaResponse
<1>2. pair \in Pairs /\ Midway(pair) /\ pair.h.dest = 1 /\ pair.h = handle[pc]
  BY Zenon, PairIsPair, AtPlace DEF HandleReadKoalaResponse, ReadPlaces
<1>3. /\ read \in Pairs /\ read.t = pair.t /\ read.h.part = pair.h.part
      /\ read.h.dest = pair.h.dest /\ read.h.copied = pair.h.copied
  <2>1. 0 \in Nat
    OBVIOUS
  <2> QED
    BY Zenon, <1>2, <2>1 DEF Pairs, HandleRecords
<1>4. /\ change \in Pairs /\ change.t = pair.t /\ change.h.part = pair.h.part
      /\ change.h.dest = pair.h.dest /\ change.h.copied = pair.h.copied
  BY Zenon, <1>2 DEF Pairs, HandleRecords
<1>5. pair.h.part \in 1 .. Parts /\ \A part \in 1 .. (pair.h.part - 1) : Done(pair, part)
  BY Zenon, <1>2 DEF Midway
<1>6. all \in SUBSET (Nat \X Nat)
  BY SMTT(30), <1>2, <1>5, HelaPcConstants
<1>7. \A d \in Disks : <<pair.h.part, d>> \in all
  BY Zenon, <1>2 DEF Disks
<1> HIDE DEF read, change, pair, all
<1>8. /\ empty \in Pairs /\ empty.t = read.t /\ empty.h.part = read.h.part
      /\ empty.h.dest = read.h.dest /\ empty.h.copied = read.h.copied \cup all
  BY Zenon, <1>3, <1>6 DEF Pairs, HandleRecords
<1> HIDE DEF empty
<1>9. \A part \in 1 .. empty.h.part : Done(empty, part)
  <2>1. \A part \in 1 .. empty.h.part : part = pair.h.part \/ part \in 1 .. (pair.h.part - 1)
    BY SMTT(30), <1>3, <1>5, <1>8, HelaPcConstants
  <2>2. \A part : Done(pair, part) => Done(empty, part)
    BY Zenon, <1>3, <1>8 DEF Done
  <2>3. Done(empty, pair.h.part)
    BY Zenon, <1>3, <1>7, <1>8 DEF Done
  <2> QED
    BY ZenonT(60), <1>5, <2>1, <2>2, <2>3
<1>10. Outcome(pair, HandleWriteChunk(read, ark, luck))
  BY Zenon, <1>2, <1>3, AsideOutcome, HandleWriteChunkOutcome DEF IInv
<1>11. Outcome(pair, ReadNextPart(empty, ark, luck))
  <2>1. Outcome(empty, ReadNextPart(empty, ark, luck))
    BY ZenonT(60), <1>2, <1>3, <1>5, <1>8, <1>9, ReadNextPartOutcome DEF IInv
  <2> QED
    BY Zenon, <1>3, <1>8, <2>1, OutcomeChain
<1>12. Outcome(pair, set_retry_read(pair)) /\ Outcome(pair, set_pending_read(pair))
  BY Zenon, <1>2, RetryReadOutcome, PendingOutcome
<1>13. Outcome(pair, set_pending_read(change))
  BY Zenon, <1>2, <1>4, AsideOutcome, PendingOutcome
<1> QED
  BY ZenonT(60), <1>1, <1>10, <1>11, <1>12, <1>13, HandlerKeeps DEF pair

\* The timeouts of a read, from koala and from a chunk.
LEMMA ReadTimeOutsKeep ==
  ASSUME IInv, UNCHANGED manVars, NEW pc \in Pcs, ReadKoalaTimeOut(pc) \/ ReadChunkTimeOut(pc)
  PROVE  Kept
<1> DEFINE pair == Pair(pc)
           huge == [Pair(pc) EXCEPT !.h.huge = @ + 1]
<1>1. \E p \in {set_pending_read(huge), set_retry_read(pair)} : Handler(pc, p, "granted", 1)
  BY Zenon DEF ReadKoalaTimeOut, ReadChunkTimeOut
<1>2. pair \in Pairs /\ Midway(pair) /\ pair.h.dest = 1
  BY Zenon, PairIsPair, AtPlace DEF ReadKoalaTimeOut, ReadChunkTimeOut, ReadPlaces
<1>3. /\ huge \in Pairs /\ huge.t = pair.t /\ huge.h.part = pair.h.part
      /\ huge.h.dest = pair.h.dest /\ huge.h.copied = pair.h.copied
  <2>1. pair.h.huge \in Nat
    BY Zenon, <1>2 DEF Pairs, HandleRecords
  <2>2. pair.h.huge + 1 \in Nat
    BY SMTT(30), <2>1
  <2> QED
    BY Zenon, <1>2, <2>2 DEF Pairs, HandleRecords
<1> HIDE DEF huge, pair
<1>4. Outcome(pair, set_pending_read(huge)) /\ Outcome(pair, set_retry_read(pair))
  BY ZenonT(60), <1>2, <1>3, AsideOutcome, PendingOutcome, RetryReadOutcome
<1> QED
  BY Zenon, <1>1, <1>4, HandlerKeeps DEF pair

\* The answer of a source chunk.
LEMMA HandleReadChunkResponseKeeps ==
  ASSUME IInv, UNCHANGED manVars, NEW pc \in Pcs, HandleReadChunkResponse(pc)
  PROVE  Kept
<1> DEFINE pair == Pair(pc)
<1>1. PICK luck \in Luck, ark \in Arks :
        \/ Handler(pc, HandleWriteChunk(pair, ark, luck), luck, 0)
        \/ \E p \in {set_retry_read(pair), set_pending_read(pair),
                     FinishHelaPcTask(pair, "UNAVAILABLE")} : Handler(pc, p, luck, 1)
  BY Zenon DEF HandleReadChunkResponse
<1>2. pair \in Pairs /\ Midway(pair) /\ pair.h.dest = 1
  BY Zenon, PairIsPair, AtPlace DEF HandleReadChunkResponse, ReadPlaces
<1> HIDE DEF pair
<1>3. Outcome(pair, HandleWriteChunk(pair, ark, luck))
  BY Zenon, <1>2, HandleWriteChunkOutcome DEF IInv
<1>4. /\ Outcome(pair, set_retry_read(pair)) /\ Outcome(pair, set_pending_read(pair))
      /\ Outcome(pair, FinishHelaPcTask(pair, "UNAVAILABLE"))
  BY Zenon, <1>2, RetryReadOutcome, PendingOutcome, FinishOutcome DEF Results
<1> QED
  BY Zenon, <1>1, <1>3, <1>4, HandlerKeeps DEF pair

\* The answer of a destination chunk: the part is copied there and the next write
\* begins, or the write is refused.
LEMMA HandleWriteChunkResponseKeeps ==
  ASSUME IInv, UNCHANGED manVars, NEW pc \in Pcs, HandleWriteChunkResponse(pc)
  PROVE  Kept
<1> DEFINE pair == Pair(pc)
           here == <<handle[pc].part, handle[pc].dest>>
           wrote == [Pair(pc) EXCEPT !.h.dest = @ + 1, !.h.backoff = 0, !.h.copied = @ \cup {here}]
           checked == CheckCluster(Pair(pc))
<1>1. PICK luck \in Luck, ark \in Arks :
        \/ Handler(pc, HandleWriteChunk(wrote, ark, luck), luck, 0)
        \/ \E p \in {set_pending_write(pair), FinishHelaPcTask(checked, "UNAVAILABLE"),
                     set_pending_write(checked)} : Handler(pc, p, luck, 1)
  BY Zenon DEF HandleWriteChunkResponse
<1>2. pair \in Pairs /\ Midway(pair) /\ pair.h = handle[pc]
  BY Zenon, PairIsPair, AtPlace DEF HandleWriteChunkResponse, WritePlaces
<1>3. /\ pair.h.part \in 1 .. Parts /\ pair.h.dest \in Nat \ {0}
      /\ pair.h.part \in Nat /\ pair.h.dest \in Nat
  BY Zenon, <1>2 DEF Midway, Pairs, HandleRecords
<1>4. /\ wrote \in Pairs /\ wrote.t = pair.t /\ wrote.h.part = pair.h.part
      /\ wrote.h.dest = pair.h.dest + 1 /\ wrote.h.copied = pair.h.copied \cup {here}
  <2>1. 0 \in Nat /\ pair.h.dest + 1 \in Nat
    BY SMTT(30), <1>3
  <2>2. here \in Nat \X Nat
    BY Zenon, <1>2, <1>3
  <2> HIDE DEF here
  <2> QED
    BY ZenonT(60), <1>2, <2>1, <2>2 DEF Pairs, HandleRecords
<1>5. Midway(wrote)
  <2>1. wrote.h.dest \in Nat \ {0}
    BY SMTT(30), <1>3, <1>4
  <2>2. \A d \in 1 .. (wrote.h.dest - 1) : d = pair.h.dest \/ d \in 1 .. (pair.h.dest - 1)
    BY SMTT(30), <1>3, <1>4
  <2>3. <<wrote.h.part, pair.h.dest>> \in wrote.h.copied
    BY Zenon, <1>2, <1>4
  <2> HIDE DEF wrote, here, pair
  <2>4. \A part : Done(pair, part) => Done(wrote, part)
    BY Zenon, <1>4 DEF Done
  <2> QED
    BY Zenon, <1>2, <1>4, <2>1, <2>2, <2>3, <2>4 DEF Midway
<1>6. /\ checked \in Pairs /\ checked.t.status = pair.t.status /\ checked.t.src = pair.t.src
      /\ checked.h.part = pair.h.part /\ checked.h.dest = pair.h.dest
      /\ checked.h.copied = pair.h.copied /\ pair.t.off \subseteq checked.t.off
  BY Zenon, <1>2, CheckClusterKeeps DEF IInv
<1> HIDE DEF wrote, here, pair, checked
<1>7. Outcome(pair, HandleWriteChunk(wrote, ark, luck))
  <2>1. Outcome(wrote, HandleWriteChunk(wrote, ark, luck))
    BY Zenon, <1>4, <1>5, HandleWriteChunkOutcome DEF IInv
  <2> QED
    BY Zenon, <1>4, <2>1, OutcomeChain
<1>8. /\ Outcome(pair, FinishHelaPcTask(checked, "UNAVAILABLE"))
      /\ Outcome(pair, set_pending_write(checked))
  <2>1. Midway(checked)
    BY Zenon, <1>2, <1>6, SameProgress
  <2>2. Outcome(checked, FinishHelaPcTask(checked, "UNAVAILABLE"))
        /\ Outcome(checked, set_pending_write(checked))
    BY ZenonT(60), <1>6, <2>1, FinishOutcome, PendingOutcome DEF Results
  <2> QED
    BY Zenon, <1>6, <2>2, OutcomeChain
<1>9. Outcome(pair, set_pending_write(pair))
  BY Zenon, <1>2, PendingOutcome
<1> QED
  BY ZenonT(60), <1>1, <1>7, <1>8, <1>9, HandlerKeeps DEF pair

\* The timeout of a write.
LEMMA WriteChunkTimeOutKeeps ==
  ASSUME IInv, UNCHANGED manVars, NEW pc \in Pcs, WriteChunkTimeOut(pc)
  PROVE  Kept
<1>1. Pair(pc) \in Pairs /\ Midway(Pair(pc))
  BY Zenon, PairIsPair, AtPlace DEF WriteChunkTimeOut, WritePlaces
<1>2. Outcome(Pair(pc), set_pending_write(Pair(pc)))
  BY Zenon, <1>1, PendingOutcome
<1> QED
  BY Zenon, <1>2, HandlerKeeps DEF WriteChunkTimeOut

\* The two timers go back to the reading or the writing that was put off.
LEMMA TimersKeep ==
  ASSUME IInv, UNCHANGED manVars, NEW pc \in Pcs, HandleRetryCb(pc) \/ HandlePendingCb(pc)
  PROVE  Kept
<1> DEFINE pair == Pair(pc)
           reset == [Pair(pc) EXCEPT !.h.change = FALSE]
<1>1. pair \in Pairs
  BY Zenon, PairIsPair
<1>2. /\ reset \in Pairs /\ reset.t = pair.t /\ reset.h.part = pair.h.part
      /\ reset.h.dest = pair.h.dest /\ reset.h.copied = pair.h.copied
  BY Zenon, <1>1 DEF Pairs, HandleRecords
<1>3. ASSUME NEW luck \in Luck, NEW ark \in Arks,
             At(pc, "retry_write") \/ At(pc, "pending_write"),
             Handler(pc, HandleWriteChunk(pair, ark, luck), luck, 0)
      PROVE  Kept
  <2>1. Midway(pair)
    BY Zenon, <1>3, AtPlace DEF WritePlaces
  <2>2. Outcome(pair, HandleWriteChunk(pair, ark, luck))
    BY Zenon, <1>1, <2>1, HandleWriteChunkOutcome DEF IInv
  <2> QED
    BY Zenon, <1>3, <2>2, HandlerKeeps
<1>4. ASSUME NEW luck \in Luck, NEW ark \in Arks, NEW new \in BOOLEAN, NEW change \in BOOLEAN,
             NEW p \in {pair, reset}, At(pc, "retry_read") \/ At(pc, "pending_read"),
             Handler(pc, IF task[pc].src = "KOALA" THEN DecideKoalaSource(p, new, change, ark, luck)
                         ELSE ReadDataFromChunk(p, luck), luck, 0)
      PROVE  Kept
  <2>1. Midway(pair) /\ pair.h.dest = 1
    BY Zenon, <1>4, AtPlace DEF ReadPlaces
  <2>2. p \in Pairs /\ p.t = pair.t /\ p.h.dest = 1 /\ Midway(p)
    BY Zenon, <1>1, <1>2, <2>1, AsideOutcome
  <2>3. Outcome(p, DecideKoalaSource(p, new, change, ark, luck)) /\ Outcome(p, ReadDataFromChunk(p, luck))
    BY Zenon, <2>2, DecideKoalaSourceOutcome, ReadDataFromChunkOutcome DEF IInv
  <2>4. /\ Outcome(pair, DecideKoalaSource(p, new, change, ark, luck))
        /\ Outcome(pair, ReadDataFromChunk(p, luck))
    BY Zenon, <2>2, <2>3, OutcomeChain
  <2> QED
    BY Zenon, <1>4, <2>4, HandlerKeeps
<1>5. handle[pc].change \in BOOLEAN
  BY Zenon DEF IInv, Shape, HandleRecords
<1>6. CASE HandleRetryCb(pc)
  BY Zenon, <1>3, <1>4, <1>6 DEF HandleRetryCb
<1>7. CASE HandlePendingCb(pc)
  <2>1. PICK luck \in Luck, ark \in Arks, busy \in BOOLEAN :
          \/ /\ At(pc, "pending_write") /\ ~busy
             /\ Handler(pc, HandleWriteChunk(pair, ark, luck), luck, 0)
          \/ /\ At(pc, "pending_read") /\ luck # "unconnected"
             /\ Handler(pc, IF task[pc].src = "KOALA"
                            THEN DecideKoalaSource(reset, FALSE, handle[pc].change \/ busy, ark, luck)
                            ELSE ReadDataFromChunk(reset, luck), luck, 0)
    BY Zenon, <1>7 DEF HandlePendingCb
  <2>2. (handle[pc].change \/ busy) \in BOOLEAN
    BY Zenon
  <2> QED
    BY ZenonT(60), <1>3, <1>4, <2>1, <2>2
<1> QED
  BY Zenon, <1>6, <1>7

\* Every step of a transfer keeps the invariant and the status of every piece.
LEMMA TransferKeeps ==
  ASSUME IInv, NEW pc \in Pcs, Transfer(pc)
  PROVE  Kept
BY ZenonT(60), StartKeeps, HandleReadKoalaResponseKeeps, ReadTimeOutsKeep, HandleReadChunkResponseKeeps,
   HandleWriteChunkResponseKeeps, WriteChunkTimeOutKeeps, TimersKeep DEF Transfer, HandleStep

-----------------------------------------------------------------------------
(* The steps of the manager. *)

\* Counting sets of pieces.
LEMMA PcsCount ==
  /\ \A S \in SUBSET Pcs : IsFiniteSet(S) /\ Cardinality(S) \in Nat
  /\ \A S, T \in SUBSET Pcs : S \cap T = {} => Cardinality(S \cup T) = Cardinality(S) + Cardinality(T)
  /\ \A S \in SUBSET Pcs : Cardinality(S) = Cardinality(Pcs) => S = Pcs
  /\ \A S \in SUBSET Pcs : S # {} => Cardinality(S) > 0
  /\ Cardinality({}) = 0
<1>1. IsFiniteSet(Pcs)
  BY Zenon, HelaTaskConstants
<1>2. \A S \in SUBSET Pcs : IsFiniteSet(S) /\ Cardinality(S) \in Nat
  BY Zenon, <1>1, FS_Subset, FS_CardinalityType
<1>3. Cardinality({}) = 0
  BY Zenon, FS_EmptySet
<1>4. \A S, T \in SUBSET Pcs : S \cap T = {} => Cardinality(S \cup T) = Cardinality(S) + Cardinality(T)
  <2>1. SUFFICES ASSUME NEW S \in SUBSET Pcs, NEW T \in SUBSET Pcs, S \cap T = {}
                 PROVE  Cardinality(S \cup T) = Cardinality(S) + Cardinality(T)
    BY Zenon
  <2>2. Cardinality(S \cup T) = Cardinality(S) + Cardinality(T) - Cardinality(S \cap T)
    BY Zenon, <1>2, FS_Union
  <2>3. Cardinality(S) \in Nat /\ Cardinality(T) \in Nat /\ Cardinality(S \cap T) = 0
    BY Zenon, <1>2, <1>3, <2>1
  <2> QED
    BY SMTT(30), <2>2, <2>3
<1>5. \A S \in SUBSET Pcs : Cardinality(S) = Cardinality(Pcs) => S = Pcs
  BY Zenon, <1>1, FS_Subset
<1>6. \A S \in SUBSET Pcs : S # {} => Cardinality(S) > 0
  <2>1. SUFFICES ASSUME NEW S \in SUBSET Pcs, S # {} PROVE Cardinality(S) > 0
    BY Zenon
  <2>2. Cardinality(S) # 0 /\ Cardinality(S) \in Nat
    BY Zenon, <1>2, <2>1, FS_EmptySet
  <2> QED
    BY SMTT(30), <2>2
<1> QED
  BY ZenonT(60), <1>2, <1>3, <1>4, <1>5, <1>6

\* A set of pieces that gains some.
LEMMA CountGrows ==
  ASSUME NEW A \in SUBSET Pcs, NEW B \in SUBSET Pcs, NEW C \in SUBSET Pcs, B \cap C = {},
         \A pc \in Pcs : pc \in A <=> pc \in B \/ pc \in C
  PROVE  /\ Cardinality(A) = Cardinality(B) + Cardinality(C)
         /\ Cardinality(A) \in Nat /\ Cardinality(B) \in Nat /\ Cardinality(C) \in Nat
<1>1. A = B \cup C
  BY Zenon
<1>2. Cardinality(B \cup C) = Cardinality(B) + Cardinality(C)
  BY Zenon, PcsCount
<1> QED
  BY ZenonT(60), <1>1, <1>2, PcsCount

\* A transfer reads from the source.
Reads(tasks, pc, s) == tasks[pc].status = "RUNNING" /\ tasks[pc].src = s

\* The transfers from a source stay, when none comes and none goes.
LEMMA ReadersSame ==
  ASSUME NEW s, NEW old, NEW new, \A pc \in Pcs : Reads(new, pc, s) <=> Reads(old, pc, s)
  PROVE  Readers(new, s) = Readers(old, s)
<1>1. /\ Readers(old, s) = {pc \in Pcs : Reads(old, pc, s)}
      /\ Readers(new, s) = {pc \in Pcs : Reads(new, pc, s)}
  BY Zenon DEF Readers, With, Reads
<1> QED
  BY Zenon, <1>1

\* The transfers from a source gain some (or, from the new to the old, lose some).
LEMMA ReadersCount ==
  ASSUME NEW s, NEW old, NEW new, NEW some \in SUBSET Pcs
  PROVE  /\ /\ \A pc \in Pcs : Reads(new, pc, s) <=> Reads(old, pc, s) \/ pc \in some
            /\ \A pc \in some : ~Reads(old, pc, s)
            => Cardinality(Readers(new, s)) = Cardinality(Readers(old, s)) + Cardinality(some)
         /\ Cardinality(Readers(old, s)) \in Nat /\ Cardinality(some) \in Nat
<1>1. /\ Readers(old, s) = {pc \in Pcs : Reads(old, pc, s)}
      /\ Readers(new, s) = {pc \in Pcs : Reads(new, pc, s)}
  BY Zenon DEF Readers, With, Reads
<1>2. Readers(old, s) \in SUBSET Pcs /\ Readers(new, s) \in SUBSET Pcs
  BY Zenon, <1>1
<1>3. ASSUME \A pc \in Pcs : Reads(new, pc, s) <=> Reads(old, pc, s) \/ pc \in some,
             \A pc \in some : ~Reads(old, pc, s)
      PROVE  Cardinality(Readers(new, s)) = Cardinality(Readers(old, s)) + Cardinality(some)
  <2>1. Readers(old, s) \cap some = {}
    BY Zenon, <1>1, <1>3
  <2>2. \A pc \in Pcs : pc \in Readers(new, s) <=> pc \in Readers(old, s) \/ pc \in some
    BY Zenon, <1>1, <1>3
  <2> QED
    BY SMTT(30), <1>2, <2>1, <2>2, CountGrows
<1> QED
  BY Zenon, <1>2, <1>3, PcsCount

\* The manager keeps a handle, ends it or posts a new one.
LEMMA HandlesKeep ==
  ASSUME IInv, \A pc \in Pcs : task'[pc].off = task[pc].off,
         \A pc \in Pcs : handle'[pc] \in {handle[pc], NoHandle, [NoHandle EXCEPT !.at = "posted"]}
  PROVE  CopiesInv' /\ \A pc \in Pcs : handle'[pc] \in HandleRecords
<1>1. ASSUME NEW pc \in Pcs
      PROVE  CopyInv([t |-> task'[pc], h |-> handle'[pc]]) /\ handle'[pc] \in HandleRecords
  <2> DEFINE old == Pair(pc)
             pair == [t |-> task'[pc], h |-> handle'[pc]]
  <2>1. /\ old.t = task[pc] /\ old.h = handle[pc] /\ pair.t = task'[pc] /\ pair.h = handle'[pc]
        /\ CopyInv(old) /\ handle[pc] \in HandleRecords
    BY Zenon, PairIsPair DEF IInv, Shape
  <2>2. pair.t.off = old.t.off
    BY Zenon, <2>1
  <2> HIDE DEF old, pair
  <2>3. CASE handle'[pc] = handle[pc]
    <3>1. /\ pair.h.at = old.h.at /\ pair.h.part = old.h.part /\ pair.h.dest = old.h.dest
          /\ pair.h.ret = old.h.ret /\ old.h.copied \subseteq pair.h.copied
          /\ old.t.off \subseteq pair.t.off
      BY Zenon, <2>1, <2>2, <2>3
    <3>2. (Midway(old) => Midway(pair)) /\ \A part : Done(old, part) => Done(pair, part)
      BY Zenon, <3>1, SameProgress
    <3>3. CopyInv(pair)
      BY Zenon, <2>1, <3>1, <3>2 DEF CopyInv
    <3> QED
      BY Zenon, <2>1, <2>3, <3>3 DEF pair
  <2>4. CASE handle'[pc] = NoHandle
    <3>1. NoHandle.at = "none"
      BY Zenon DEF NoHandle
    <3>2. CopyInv(pair)
      BY Zenon, <2>1, <2>4, <3>1 DEF CopyInv, ReadPlaces, WritePlaces
    <3> QED
      BY Zenon, <2>4, <3>2, NewHandle DEF pair
  <2>5. CASE handle'[pc] = [NoHandle EXCEPT !.at = "posted"]
    <3>1. Midway(pair) /\ pair.h.dest = 1 /\ pair.h.at = "posted"
      BY ZenonT(60), <2>1, <2>5, NewHandle
    <3>2. CopyInv(pair)
      BY Zenon, <3>1 DEF CopyInv
    <3> QED
      BY ZenonT(60), <2>5, <3>2, NewHandle DEF pair
  <2> QED
    BY Zenon, <2>3, <2>4, <2>5
<1> QED
  BY Zenon, <1>1 DEF CopiesInv, Pair

\* A dispatch posts new handles.
LEMMA DispatchKeeps ==
  ASSUME IInv, NEW pcs, DispatchHelaPcTask(pcs), \A pc \in Pcs : task'[pc].off = task[pc].off
  PROVE  CopiesInv' /\ handle' \in [Pcs -> HandleRecords]
<1>1. \A pc \in Pcs : handle'[pc] \in {handle[pc], [NoHandle EXCEPT !.at = "posted"]}
  BY Zenon DEF DispatchHelaPcTask
<1>2. CopiesInv' /\ \A pc \in Pcs : handle'[pc] \in HandleRecords
  BY Zenon, <1>1, HandlesKeep
<1> QED
  BY Zenon, <1>2 DEF DispatchHelaPcTask

\* What a round of the schedule makes of each piece.
LEMMA ScheduleEach ==
  ASSUME NEW tasks, NEW chosen, NEW local, NEW query, NEW run, chosen \subseteq Pcs,
         local \subseteq chosen \cap HasData, query \subseteq (chosen \cap HasData) \ local,
         run = local \cup (((chosen \cap HasData) \ local) \ query),
         task' = [pc \in Pcs |->
               CASE pc \in chosen \ HasData -> [tasks[pc] EXCEPT !.status = "DONE"]
                 [] pc \in local -> [tasks[pc] EXCEPT !.status = "RUNNING", !.src = "LOCAL"]
                 [] pc \in query -> [tasks[pc] EXCEPT !.status = "QUERY"]
                 [] pc \in run \ local -> [tasks[pc] EXCEPT !.status = "RUNNING"]
                 [] OTHER -> tasks[pc]],
         NEW pc \in Pcs
  PROVE  /\ pc \in chosen \ HasData => task'[pc] = [tasks[pc] EXCEPT !.status = "DONE"]
         /\ pc \in local => task'[pc] = [tasks[pc] EXCEPT !.status = "RUNNING", !.src = "LOCAL"]
         /\ pc \in query => task'[pc] = [tasks[pc] EXCEPT !.status = "QUERY"]
         /\ pc \in run \ local => task'[pc] = [tasks[pc] EXCEPT !.status = "RUNNING"]
         /\ pc \notin chosen => task'[pc] = tasks[pc]
         /\ pc \in chosen \ HasData \/ pc \in local \/ pc \in query \/ pc \in run \ local \/ pc \notin chosen
<1> DEFINE this == CASE pc \in chosen \ HasData -> [tasks[pc] EXCEPT !.status = "DONE"]
                     [] pc \in local -> [tasks[pc] EXCEPT !.status = "RUNNING", !.src = "LOCAL"]
                     [] pc \in query -> [tasks[pc] EXCEPT !.status = "QUERY"]
                     [] pc \in run \ local -> [tasks[pc] EXCEPT !.status = "RUNNING"]
                     [] OTHER -> tasks[pc]
<1>1. task'[pc] = this
  BY Zenon
<1>2. CASE pc \in chosen \ HasData
  <2>1. pc \notin local /\ pc \notin query /\ pc \notin run \ local
    BY Zenon, <1>2
  <2> QED
    BY Zenon, <1>1, <1>2, <2>1
<1>3. CASE pc \in local
  <2>1. pc \notin chosen \ HasData /\ pc \notin query /\ pc \notin run \ local /\ pc \in chosen
    BY Zenon, <1>3
  <2> QED
    BY Zenon, <1>1, <1>3, <2>1
<1>4. CASE pc \in query
  <2>1. pc \notin chosen \ HasData /\ pc \notin local /\ pc \notin run \ local /\ pc \in chosen
    BY Zenon, <1>4
  <2> QED
    BY ZenonT(60), <1>1, <1>4, <2>1
<1>5. CASE pc \in run \ local
  <2>1. pc \notin chosen \ HasData /\ pc \notin local /\ pc \notin query /\ pc \in chosen
    BY Zenon, <1>5
  <2> QED
    BY Zenon, <1>1, <1>5, <2>1
<1>6. CASE pc \notin chosen
  <2>1. pc \notin chosen \ HasData /\ pc \notin local /\ pc \notin query /\ pc \notin run \ local
    BY Zenon, <1>6
  <2> QED
    BY ZenonT(60), <1>1, <1>6, <2>1
<1> QED
  BY ZenonT(60), <1>2, <1>3, <1>4, <1>5, <1>6

\* A round of the schedule takes READY pieces and keeps what the counters count.
LEMMA ScheduleKeeps ==
  ASSUME IInv, NEW tasks \in [Pcs -> TaskRecords], NEW counted \in BatchRecords,
         NEW disks \in [Disks -> DiskStatuses],
         \A pc \in Pcs : /\ tasks[pc].status = task[pc].status /\ tasks[pc].src = task[pc].src
                        /\ tasks[pc].off = task[pc].off,
         counted.finish = batch.finish, counted.fail = batch.fail, counted.started,
         ~counted.timeout, ~counted.completed, ~batch.timeout, ~batch.completed,
         ScheduleHelaPcTask(tasks, counted, disks), update' = {}, cluster' = cluster
  PROVE  IInv'
<1> DEFINE chosen == Chosen(tasks)
           empty == chosen \ HasData
<1>1. PICK local \in SUBSET (chosen \cap HasData), sent \in BOOLEAN :
         LET asked == (chosen \cap HasData) \ local
             query == QueryIdunResource(asked, sent)
             run == local \cup (asked \ query)
         IN /\ task' = [pc \in Pcs |->
               CASE pc \in empty -> [tasks[pc] EXCEPT !.status = "DONE"]
                 [] pc \in local -> [tasks[pc] EXCEPT !.status = "RUNNING", !.src = "LOCAL"]
                 [] pc \in query -> [tasks[pc] EXCEPT !.status = "QUERY"]
                 [] pc \in run \ local -> [tasks[pc] EXCEPT !.status = "RUNNING"]
                 [] OTHER -> tasks[pc]]
            /\ refs' = IncResourceRef("LOCAL", local)
            /\ queries' = queries \cup ({query} \ {{}})
            /\ DispatchHelaPcTask(run)
            /\ CheckHelaTaskFinish([counted EXCEPT !.finish = @ + Cardinality(empty)], disks)
  BY Zenon DEF ScheduleHelaPcTask
<1> DEFINE asked == (chosen \cap HasData) \ local
           query == QueryIdunResource(asked, sent)
           run == local \cup (asked \ query)
<1>2. /\ chosen \subseteq With(task, "READY") /\ chosen \subseteq Pcs
      /\ \A pc \in chosen : task[pc].status = "READY"
  BY Zenon DEF Chosen, With
<1>3. query \subseteq asked
  BY Zenon DEF QueryIdunResource
<1> HIDE DEF chosen, query
<1>4. \A pc \in Pcs :
         /\ pc \in empty => task'[pc] = [tasks[pc] EXCEPT !.status = "DONE"]
         /\ pc \in local => task'[pc] = [tasks[pc] EXCEPT !.status = "RUNNING", !.src = "LOCAL"]
         /\ pc \in query => task'[pc] = [tasks[pc] EXCEPT !.status = "QUERY"]
         /\ pc \in run \ local => task'[pc] = [tasks[pc] EXCEPT !.status = "RUNNING"]
         /\ pc \notin chosen => task'[pc] = tasks[pc]
         /\ pc \in empty \/ pc \in local \/ pc \in query \/ pc \in run \ local \/ pc \notin chosen
  BY ZenonT(60), <1>1, <1>2, <1>3, ScheduleEach DEF query
<1> HIDE DEF empty, run
<1>5. ASSUME NEW pc \in Pcs
      PROVE  /\ task'[pc] \in TaskRecords /\ task'[pc].off = task[pc].off
             /\ pc \in empty => task'[pc].status = "DONE"
             /\ pc \in local => task'[pc].status = "RUNNING" /\ task'[pc].src = "LOCAL"
             /\ pc \in query => task'[pc].status = "QUERY"
             /\ pc \in run \ local => task'[pc].status = "RUNNING"
             /\ pc \notin local => task'[pc].src = task[pc].src
             /\ pc \notin chosen => task'[pc].status = task[pc].status
  <2> DEFINE t == tasks[pc]
  <2>1. /\ t \in TaskRecords /\ t.status = task[pc].status /\ t.src = task[pc].src
        /\ t.off = task[pc].off
    BY Zenon
  <2>2. LET new == [t EXCEPT !.status = "RUNNING", !.src = "LOCAL"]
        IN /\ new \in TaskRecords /\ new.off = t.off /\ new.src = "LOCAL" /\ new.status = "RUNNING"
    BY Zenon, <2>1 DEF TaskRecords, Statuses, ChunkSources
  <2>3. /\ pc \in empty => task'[pc] = [t EXCEPT !.status = "DONE"]
        /\ pc \in local => task'[pc] = [t EXCEPT !.status = "RUNNING", !.src = "LOCAL"]
        /\ pc \in query => task'[pc] = [t EXCEPT !.status = "QUERY"]
        /\ pc \in run \ local => task'[pc] = [t EXCEPT !.status = "RUNNING"]
        /\ pc \notin chosen => task'[pc] = t
        /\ pc \in empty \/ pc \in local \/ pc \in query \/ pc \in run \ local \/ pc \notin chosen
    BY Zenon, <1>4
  <2>4. /\ local \subseteq chosen /\ empty \subseteq chosen /\ query \subseteq chosen
        /\ run \ local \subseteq chosen /\ empty \cap local = {} /\ query \cap local = {}
        /\ empty \cap query = {} /\ empty \cap run = {} /\ query \cap run = {}
    BY Zenon, <1>3 DEF empty, run
  <2> HIDE DEF t, asked
  <2>5. CASE pc \in empty
    <3>1. task'[pc] = [t EXCEPT !.status = "DONE"]
      BY ZenonT(60), <2>3, <2>5
    <3>2. /\ task'[pc] \in TaskRecords /\ task'[pc].off = t.off /\ task'[pc].src = t.src
          /\ task'[pc].status = "DONE"
      BY ZenonT(60), <2>1, <3>1 DEF TaskRecords, Statuses, Settled
    <3> QED
      BY ZenonT(60), <2>1, <2>4, <2>5, <3>2
  <2>6. CASE pc \in local
    BY ZenonT(60), <2>1, <2>2, <2>3, <2>4, <2>6
  <2>7. CASE pc \in query
    <3>1. task'[pc] = [t EXCEPT !.status = "QUERY"]
      BY ZenonT(60), <2>3, <2>7
    <3>2. /\ task'[pc] \in TaskRecords /\ task'[pc].off = t.off /\ task'[pc].src = t.src
          /\ task'[pc].status = "QUERY"
      BY ZenonT(60), <2>1, <3>1 DEF TaskRecords, Statuses, Settled
    <3> QED
      BY ZenonT(60), <2>1, <2>4, <2>7, <3>2
  <2>8. CASE pc \in run \ local
    <3>1. task'[pc] = [t EXCEPT !.status = "RUNNING"]
      BY ZenonT(60), <2>3, <2>8
    <3>2. /\ task'[pc] \in TaskRecords /\ task'[pc].off = t.off /\ task'[pc].src = t.src
          /\ task'[pc].status = "RUNNING"
      BY ZenonT(60), <2>1, <3>1 DEF TaskRecords, Statuses, Settled
    <3> QED
      BY ZenonT(60), <2>1, <2>4, <2>8, <3>2
  <2>9. CASE pc \notin chosen
    BY ZenonT(60), <2>1, <2>3, <2>4, <2>9
  <2> QED
    BY ZenonT(60), <2>3, <2>5, <2>6, <2>7, <2>8, <2>9
<1>6. empty \subseteq chosen /\ local \subseteq chosen /\ query \subseteq chosen
  BY Zenon, <1>3 DEF empty
<1>7. /\ refs' = IncResourceRef("LOCAL", local) /\ queries' = queries \cup ({query} \ {{}})
      /\ DispatchHelaPcTask(run) /\ task' \in [Pcs -> TaskRecords]
      /\ CheckHelaTaskFinish([counted EXCEPT !.finish = @ + Cardinality(empty)], disks)
  <2> DEFINE each(pc) ==
               CASE pc \in empty -> [tasks[pc] EXCEPT !.status = "DONE"]
                 [] pc \in local -> [tasks[pc] EXCEPT !.status = "RUNNING", !.src = "LOCAL"]
                 [] pc \in query -> [tasks[pc] EXCEPT !.status = "QUERY"]
                 [] pc \in run \ local -> [tasks[pc] EXCEPT !.status = "RUNNING"]
                 [] OTHER -> tasks[pc]
  <2>1. task' = [pc \in Pcs |-> each(pc)]
    BY Zenon, <1>1 DEF run, query, empty
  <2> HIDE DEF each
  <2>2. task' \in [Pcs -> TaskRecords]
    BY Zenon, <1>5, <2>1
  <2> QED
    BY Zenon, <1>1, <2>2 DEF run, query, empty
<1> HIDE DEF asked
<1>8. Cardinality(SettledPcs') = Cardinality(SettledPcs) + Cardinality(empty)
  <2>1. \A pc \in Pcs : pc \in SettledPcs' <=> pc \in SettledPcs \/ pc \in empty
    <3>1. SUFFICES ASSUME NEW pc \in Pcs
                   PROVE  task'[pc].status \in Settled <=> task[pc].status \in Settled \/ pc \in empty
      BY Zenon DEF SettledPcs
    <3>2. "READY" \notin Settled /\ "DONE" \in Settled /\ "RUNNING" \notin Settled /\ "QUERY" \notin Settled
      BY Zenon DEF Settled
    <3>3. CASE pc \in empty
      BY Zenon, <1>5, <3>2, <3>3
    <3>4. CASE pc \notin empty
      <4>1. pc \in local \/ pc \in query \/ pc \in run \ local \/ pc \notin chosen
        BY Zenon, <1>4, <3>4
      <4> QED
        BY ZenonT(60), <1>2, <1>5, <3>2, <3>4, <4>1
    <3> QED
      BY Zenon, <3>3, <3>4
  <2>2. empty \in SUBSET Pcs /\ SettledPcs \cap empty = {}
    BY Zenon, <1>2, <1>6 DEF SettledPcs, Settled
  <2>3. SettledPcs \in SUBSET Pcs /\ SettledPcs' \in SUBSET Pcs
    BY Zenon DEF SettledPcs
  <2> QED
    BY ZenonT(60), <2>1, <2>2, <2>3, CountGrows
<1>9. With(task, "FAIL")' = With(task, "FAIL")
  <2>1. \A pc \in Pcs : task'[pc].status = "FAIL" <=> task[pc].status = "FAIL"
    BY ZenonT(60), <1>2, <1>4, <1>5
  <2> QED
    BY Zenon, <2>1 DEF With
<1>10. /\ Cardinality(Readers(task', "LOCAL")) = Cardinality(Readers(task, "LOCAL")) + Cardinality(local)
       /\ Readers(task', "REMOTE") = Readers(task, "REMOTE")
  <2>1. \A pc \in chosen : task[pc].src = "KOALA"
    BY Zenon, <1>2 DEF IInv, ManagerInv, SourceInv
  <2>2. ASSUME NEW pc \in Pcs
        PROVE  /\ Reads(task', pc, "LOCAL") <=> Reads(task, pc, "LOCAL") \/ pc \in local
               /\ Reads(task', pc, "REMOTE") <=> Reads(task, pc, "REMOTE")
    <3>1. CASE pc \in local
      BY ZenonT(60), <1>2, <1>5, <1>6, <3>1 DEF Reads
    <3>2. CASE pc \notin chosen
      BY ZenonT(60), <1>5, <1>6, <3>2 DEF Reads
    <3>3. CASE pc \in chosen \ local
      BY ZenonT(60), <1>5, <2>1, <3>3 DEF Reads
    <3> QED
      BY ZenonT(60), <3>1, <3>2, <3>3
  <2>3. local \in SUBSET Pcs /\ \A pc \in local : ~Reads(task, pc, "LOCAL")
    BY ZenonT(60), <1>2, <1>6 DEF Reads
  <2>4. Cardinality(Readers(task', "LOCAL")) = Cardinality(Readers(task, "LOCAL")) + Cardinality(local)
    BY ZenonT(60), <2>2, <2>3, ReadersCount
  <2>5. Readers(task', "REMOTE") = Readers(task, "REMOTE")
    BY ZenonT(60), <2>2, ReadersSame
  <2> QED
    BY ZenonT(60), <2>4, <2>5
<1>11. SourceInv'
  <2>1. SUFFICES ASSUME NEW pc \in Pcs, task'[pc].status \in {"READY", "QUERY"}
                 PROVE  task'[pc].src = "KOALA"
    BY Zenon DEF SourceInv
  <2>2. pc \notin local
    BY Zenon, <1>5, <2>1
  <2>3. task[pc].status \in {"READY", "QUERY"}
    BY ZenonT(60), <1>2, <1>5, <2>1
  <2> QED
    BY ZenonT(60), <1>5, <2>2, <2>3 DEF IInv, ManagerInv, SourceInv
<1>12. QueryInv'
  <2>1. \A pc \in Pcs : task[pc].status = "QUERY" => pc \notin chosen /\ task'[pc].status = "QUERY"
    BY ZenonT(60), <1>2, <1>5
  <2>2. \A q \in queries : q # {} /\ q \subseteq With(task, "QUERY")' /\ q \cap chosen = {}
    BY ZenonT(60), <2>1 DEF IInv, ManagerInv, QueryInv, With
  <2>3. query \subseteq With(task, "QUERY")'
    BY Zenon, <1>2, <1>5, <1>6 DEF With
  <2>4. \A q \in queries' : q \in queries \/ (q = query /\ query # {})
    BY Zenon, <1>7
  <2>5. \A q \in queries' : q # {} /\ q \subseteq With(task, "QUERY")'
    BY ZenonT(60), <2>2, <2>3, <2>4
  <2>6. \A q, r \in queries : q = r \/ q \cap r = {}
    BY Zenon DEF IInv, ManagerInv, QueryInv
  <2>7. \A q \in queries : q \cap query = {} /\ query \cap q = {}
    BY Zenon, <1>6, <2>2
  <2>8. \A q, r \in queries' : q = r \/ q \cap r = {}
    BY ZenonT(60), <2>4, <2>6, <2>7
  <2> QED
    BY ZenonT(60), <2>5, <2>8 DEF QueryInv
<1> DEFINE n == Cardinality(empty)
           now == [counted EXCEPT !.finish = @ + n]
<1>13. n \in Nat /\ batch.finish \in Nat
  BY Zenon, <1>2, <1>6, PcsCount DEF IInv, Shape, BatchRecords
<1>14. /\ now \in BatchRecords /\ now.finish = batch.finish + n /\ now.fail = batch.fail
       /\ now.started /\ ~now.timeout /\ ~now.completed
  <2>1. batch.finish + n \in Nat
    BY SMTT(30), <1>13
  <2> HIDE DEF n
  <2> QED
    BY ZenonT(60), <2>1 DEF BatchRecords
<1> HIDE DEF now, n
<1>15. CheckHelaTaskFinish(now, disks)
  BY Zenon, <1>7 DEF now, n
<1>16. /\ batch' \in BatchRecords /\ batch'.finish = now.finish /\ batch'.fail = now.fail
       /\ batch'.started /\ ~batch'.timeout
       /\ batch'.completed => now.finish = Cardinality(Pcs)
       /\ batch'.completed => \A d \in Disks : disk'[d] = "FAIL" <=> now.fail > 0
       /\ disk' \in [Disks -> DiskStatuses]
  <2>1. CASE now.finish = Cardinality(Pcs)
    <3>1. /\ batch' = [now EXCEPT !.completed = TRUE]
          /\ IF now.fail > 0 THEN SetAllTaskFail ELSE SetAllTaskDone
      BY ZenonT(60), <1>15, <2>1 DEF CheckHelaTaskFinish
    <3>2. /\ disk' \in [Disks -> DiskStatuses] /\ \A d \in Disks : disk'[d] = "FAIL" <=> now.fail > 0
      <4>1. CASE now.fail > 0
        BY ZenonT(60), <3>1, <4>1 DEF SetAllTaskFail, DiskStatuses
      <4>2. CASE ~(now.fail > 0)
        BY ZenonT(60), <3>1, <4>2 DEF SetAllTaskDone, DiskStatuses
      <4> QED
        BY ZenonT(60), <4>1, <4>2
    <3>3. /\ batch' \in BatchRecords /\ batch'.finish = now.finish /\ batch'.fail = now.fail
          /\ batch'.started /\ ~batch'.timeout
      BY ZenonT(60), <1>14, <3>1 DEF BatchRecords
    <3> QED
      BY ZenonT(60), <2>1, <3>2, <3>3
  <2>2. CASE now.finish # Cardinality(Pcs)
    BY ZenonT(60), <1>14, <1>15, <2>2 DEF CheckHelaTaskFinish
  <2> QED
    BY ZenonT(60), <2>1, <2>2
<1>17. CountInv'
  <2>1. Cardinality(SettledPcs') = Cardinality(SettledPcs) + n
    BY Zenon, <1>8 DEF n
  <2> QED
    BY ZenonT(60), <1>9, <1>14, <1>16, <2>1 DEF IInv, ManagerInv, CountInv
<1>18. RefsCountReaders' /\ refs' \in [ChunkSources -> Int]
  <2>1. \A s \in ChunkSources : refs[s] = Cardinality(Readers(task, s))
    BY Zenon DEF IInv, ManagerInv, RefsCountReaders, Readers, With
  <2>2. Cardinality(local) \in Nat
    BY ZenonT(60), <1>2, <1>6, PcsCount
  <2>3. refs' = [refs EXCEPT !["LOCAL"] = @ + Cardinality(local)] /\ refs \in [ChunkSources -> Int]
    BY ZenonT(60), <1>7 DEF IncResourceRef, IInv, Shape
  <2>4. refs' \in [ChunkSources -> Int] /\ refs'["LOCAL"] = refs["LOCAL"] + Cardinality(local)
        /\ refs'["REMOTE"] = refs["REMOTE"]
    BY SMTT(30), <2>2, <2>3 DEF ChunkSources
  <2>5. \A s \in ChunkSources : refs'[s] = Cardinality(Readers(task', s))
    BY ZenonT(60), <1>10, <2>1, <2>4 DEF ChunkSources
  <2> QED
    BY ZenonT(60), <2>4, <2>5 DEF RefsCountReaders, Readers, With
<1>19. EndInv'
  <2>1. batch'.completed => batch'.finish = Cardinality(Pcs)
    BY Zenon, <1>16
  <2> QED
    BY ZenonT(60), <1>16, <2>1 DEF EndInv
<1>20. CopiesInv' /\ handle' \in [Pcs -> HandleRecords]
  BY ZenonT(60), <1>5, <1>7, DispatchKeeps
<1>21. Shape'
  <2>1. queries' \subseteq SUBSET Pcs
    <3>1. queries \subseteq SUBSET Pcs /\ query \in SUBSET Pcs
      BY ZenonT(60), <1>2, <1>6 DEF IInv, Shape
    <3> QED
      BY ZenonT(60), <1>7, <3>1
  <2>2. update' \subseteq Pcs
    BY Zenon
  <2> QED
    BY ZenonT(60), <1>7, <1>16, <1>18, <1>20, <2>1, <2>2 DEF IInv, Shape
<1>22. StartInv'
  BY Zenon, <1>16 DEF StartInv
<1> QED
  BY ZenonT(60), <1>11, <1>12, <1>17, <1>18, <1>19, <1>20, <1>21, <1>22 DEF IInv, ManagerInv

\* Start of the batch, with its first round.
LEMMA StartBatchKeeps ==
  ASSUME IInv, StartBatch
  PROVE  IInv'
<1> DEFINE tasks == [pc \in Pcs |-> [task[pc] EXCEPT !.version = cluster.version]]
           counted == [batch EXCEPT !.started = TRUE]
           disks == [d \in Disks |-> "EXECUTING"]
<1>1. /\ ScheduleHelaPcTask(tasks, counted, disks) /\ cluster' = cluster /\ update' = update
      /\ ~batch.started
  BY Zenon DEF StartBatch
<1>2. /\ tasks \in [Pcs -> TaskRecords]
      /\ \A pc \in Pcs : /\ tasks[pc].status = task[pc].status /\ tasks[pc].src = task[pc].src
                        /\ tasks[pc].off = task[pc].off
  <2>1. ASSUME NEW pc \in Pcs
        PROVE  LET new == [task[pc] EXCEPT !.version = cluster.version]
               IN /\ new \in TaskRecords /\ new.status = task[pc].status
                  /\ new.src = task[pc].src /\ new.off = task[pc].off
    <3>1. task[pc] \in TaskRecords /\ cluster.version \in Nat
      BY Zenon DEF IInv, Shape
    <3> QED
      BY Zenon, <3>1 DEF TaskRecords
  <2> QED
    BY Zenon, <2>1
<1>3. /\ counted \in BatchRecords /\ counted.finish = batch.finish /\ counted.fail = batch.fail
      /\ counted.started /\ counted.timeout = batch.timeout /\ counted.completed = batch.completed
  <2>1. batch \in BatchRecords
    BY Zenon DEF IInv, Shape
  <2> QED
    BY Zenon, <2>1 DEF BatchRecords
<1>4. disks \in [Disks -> DiskStatuses]
  BY Zenon DEF DiskStatuses
<1>5. ~batch.timeout /\ ~batch.completed /\ update = {}
  BY Zenon, <1>1 DEF IInv, ManagerInv, StartInv
<1> HIDE DEF tasks, counted, disks
<1> QED
  BY ZenonT(60), <1>1, <1>2, <1>3, <1>4, <1>5, ScheduleKeeps

\* A round of the schedule timer, before and after the batch timed out.
LEMMA RoutineKeeps ==
  ASSUME IInv, ScheduleHelaTaskRoutine
  PROVE  IInv'
<1>1. /\ batch.started /\ ~batch.completed /\ cluster' = cluster /\ update' = {}
  BY Zenon DEF ScheduleHelaTaskRoutine, UpdateIdunResource
<1>2. CASE batch.timeout
  <2>1. /\ task' = task /\ handle' = handle /\ batch' = batch /\ disk' = disk /\ refs' = refs
        /\ queries' = queries
    BY Zenon, <1>2 DEF ScheduleHelaTaskRoutine
  <2>2. Shape' /\ CopiesInv'
    BY Zenon, <1>1, <2>1 DEF IInv, Shape, CopiesInv, Pair
  <2>3. SourceInv' /\ QueryInv' /\ CountInv'
    BY Zenon, <2>1 DEF IInv, ManagerInv, SourceInv, QueryInv, CountInv, With, SettledPcs
  <2>4. StartInv' /\ EndInv' /\ RefsCountReaders'
    BY Zenon, <1>1, <1>2, <2>1 DEF StartInv, EndInv, RefsCountReaders
  <2> QED
    BY ZenonT(60), <2>2, <2>3, <2>4 DEF IInv, ManagerInv
<1>3. CASE ~batch.timeout
  <2>1. ScheduleHelaPcTask(task, batch, disk)
    BY Zenon, <1>3 DEF ScheduleHelaTaskRoutine
  <2>2. task \in [Pcs -> TaskRecords] /\ batch \in BatchRecords /\ disk \in [Disks -> DiskStatuses]
    BY Zenon DEF IInv, Shape
  <2> QED
    BY ZenonT(60), <1>1, <1>3, <2>1, <2>2, ScheduleKeeps
<1> QED
  BY Zenon, <1>2, <1>3

\* A batch with a piece in the works has started and is not completed.
LEMMA BatchGoesOn ==
  ASSUME IInv, NEW pc \in Pcs, task[pc].status \in {"QUERY", "RUNNING"}
  PROVE  batch.started /\ ~batch.completed
<1>1. batch.started
  <2>1. pc \notin With(task, "READY")
    BY Zenon DEF With
  <2> QED
    BY Zenon, <2>1 DEF IInv, ManagerInv, StartInv
<1>2. ~batch.completed
  <2>1. pc \notin SettledPcs
    BY Zenon DEF SettledPcs, Settled
  <2>2. SettledPcs \in SUBSET Pcs /\ SettledPcs # Pcs
    BY Zenon, <2>1 DEF SettledPcs
  <2>3. Cardinality(SettledPcs) # Cardinality(Pcs)
    BY Zenon, <2>2, PcsCount
  <2> QED
    BY Zenon, <2>3 DEF IInv, ManagerInv, EndInv, CountInv
<1> QED
  BY Zenon, <1>1, <1>2

\* The pieces of a query are dispatched, those that were found to a remote chunk.
LEMMA AnswerKeeps ==
  ASSUME IInv, NEW query \in queries, NEW found \in SUBSET query, task' \in [Pcs -> TaskRecords],
         \A pc \in Pcs :
           /\ task'[pc].off = task[pc].off
           /\ pc \notin query => task'[pc].status = task[pc].status
           /\ pc \in query => task'[pc].status = "RUNNING"
           /\ pc \notin found => task'[pc].src = task[pc].src
           /\ pc \in found => task'[pc].src = "REMOTE",
         refs' \in [ChunkSources -> Int], refs'["LOCAL"] = refs["LOCAL"],
         refs'["REMOTE"] = refs["REMOTE"] + Cardinality(found),
         DispatchHelaPcTask(query), queries' = queries \ {query},
         UNCHANGED <<cluster, batch, disk, update>>
  PROVE  IInv'
<1>1. /\ query \subseteq Pcs /\ query # {} /\ \A pc \in query : task[pc].status = "QUERY"
      /\ found \in SUBSET Pcs
  BY Zenon DEF IInv, ManagerInv, QueryInv, With
<1>2. batch.started /\ ~batch.completed
  BY Zenon, <1>1, BatchGoesOn
<1>3. CopiesInv' /\ handle' \in [Pcs -> HandleRecords]
  BY Zenon, DispatchKeeps
<1>4. Shape'
  BY Zenon, <1>3 DEF IInv, Shape
<1>5. SourceInv'
  BY ZenonT(60), <1>1 DEF IInv, ManagerInv, SourceInv
<1>6. QueryInv'
  <2>1. \A other \in queries' : other \in queries /\ other \cap query = {}
    BY Zenon DEF IInv, ManagerInv, QueryInv
  <2>2. \A other \in queries' : other # {} /\ other \subseteq With(task', "QUERY")
    BY ZenonT(60), <2>1 DEF IInv, ManagerInv, QueryInv, With
  <2> QED
    BY Zenon, <2>1, <2>2 DEF IInv, ManagerInv, QueryInv
<1>7. CountInv'
  <2>1. SettledPcs' = SettledPcs
    <3>1. \A pc \in Pcs : task'[pc].status \in Settled <=> task[pc].status \in Settled
      BY Zenon, <1>1 DEF Settled
    <3> QED
      BY Zenon, <3>1 DEF SettledPcs
  <2>2. With(task, "FAIL")' = With(task, "FAIL")
    <3>1. \A pc \in Pcs : task'[pc].status = "FAIL" <=> task[pc].status = "FAIL"
      BY Zenon, <1>1
    <3> QED
      BY Zenon, <3>1 DEF With
  <2> QED
    BY Zenon, <2>1, <2>2 DEF IInv, ManagerInv, CountInv
<1>8. RefsCountReaders'
  <2>1. \A pc \in query : task[pc].src = "KOALA"
    BY Zenon, <1>1 DEF IInv, ManagerInv, SourceInv
  <2>2. ASSUME NEW pc \in Pcs
        PROVE  /\ Reads(task', pc, "REMOTE") <=> Reads(task, pc, "REMOTE") \/ pc \in found
               /\ Reads(task', pc, "LOCAL") <=> Reads(task, pc, "LOCAL")
    <3>1. CASE pc \in found
      BY Zenon, <1>1, <3>1 DEF Reads
    <3>2. CASE pc \in query \ found
      BY ZenonT(60), <1>1, <2>1, <3>2 DEF Reads
    <3>3. CASE pc \notin query
      <4>1. pc \notin found
        BY Zenon, <3>3
      <4>2. task'[pc].status = task[pc].status /\ task'[pc].src = task[pc].src
        BY Zenon, <3>3, <4>1
      <4> QED
        BY Zenon, <4>1, <4>2 DEF Reads
    <3> QED
      BY ZenonT(60), <3>1, <3>2, <3>3
  <2>3. /\ \A pc \in Pcs : Reads(task', pc, "REMOTE") <=> Reads(task, pc, "REMOTE") \/ pc \in found
        /\ \A pc \in Pcs : Reads(task', pc, "LOCAL") <=> Reads(task, pc, "LOCAL")
    BY Zenon, <2>2
  <2>4. \A pc \in found : ~Reads(task, pc, "REMOTE")
    BY ZenonT(60), <1>1 DEF Reads
  <2>5. Cardinality(Readers(task', "REMOTE")) = Cardinality(Readers(task, "REMOTE")) + Cardinality(found)
    BY SMTT(30), <1>1, <2>3, <2>4, ReadersCount
  <2>6. Readers(task', "LOCAL") = Readers(task, "LOCAL")
    BY ZenonT(60), <2>3, ReadersSame
  <2>7. ~batch.timeout => \A s \in ChunkSources : refs[s] = Cardinality(Readers(task, s))
    BY Zenon DEF IInv, ManagerInv, RefsCountReaders, Readers, With
  <2>8. ~batch.timeout => \A s \in ChunkSources : refs'[s] = Cardinality(Readers(task', s))
    BY ZenonT(60), <2>5, <2>6, <2>7 DEF ChunkSources
  <2> QED
    BY Zenon, <2>8 DEF RefsCountReaders, Readers, With
<1>9. StartInv' /\ EndInv'
  BY Zenon, <1>2 DEF StartInv, EndInv
<1> QED
  BY ZenonT(60), <1>3, <1>4, <1>5, <1>6, <1>7, <1>8, <1>9 DEF IInv, ManagerInv

\* idun's answer takes one remote reference for each piece it found.
LEMMA EntryQueryIdunResourceKeeps ==
  ASSUME IInv, NEW query \in queries, EntryQueryIdunResource(query)
  PROVE  IInv'
<1>1. PICK found \in SUBSET query :
        /\ task' = [pc \in Pcs |->
             IF pc \notin query THEN task[pc]
             ELSE [task[pc] EXCEPT !.status = "RUNNING",
                                   !.src = IF pc \in found THEN "REMOTE" ELSE @]]
        /\ refs' = IncResourceRef("REMOTE", found)
  BY Zenon DEF EntryQueryIdunResource
<1>2. /\ DispatchHelaPcTask(query) /\ queries' = queries \ {query}
      /\ UNCHANGED <<cluster, batch, disk, update>>
  BY Zenon DEF EntryQueryIdunResource
<1>3. found \in SUBSET Pcs
  BY Zenon DEF IInv, Shape
<1>4. ASSUME NEW pc \in Pcs
      PROVE  /\ task'[pc] \in TaskRecords /\ task'[pc].off = task[pc].off
             /\ pc \notin query => task'[pc].status = task[pc].status
             /\ pc \in query => task'[pc].status = "RUNNING"
             /\ pc \notin found => task'[pc].src = task[pc].src
             /\ pc \in found => task'[pc].src = "REMOTE"
  <2> DEFINE t == task[pc]
             src == IF pc \in found THEN "REMOTE" ELSE t.src
  <2>1. t \in TaskRecords
    BY Zenon DEF IInv, Shape
  <2>2. CASE pc \notin query
    <3>1. task'[pc] = t /\ pc \notin found
      BY Zenon, <1>1, <2>2
    <3> QED
      BY ZenonT(60), <2>1, <2>2, <3>1
  <2>3. CASE pc \in query
    <3>1. task'[pc] = [t EXCEPT !.status = "RUNNING", !.src = src]
      BY ZenonT(60), <1>1, <2>1, <2>3 DEF TaskRecords
    <3>2. src \in {"KOALA"} \cup ChunkSources
      BY Zenon, <2>1 DEF TaskRecords, ChunkSources
    <3>3. (pc \in found => src = "REMOTE") /\ (pc \notin found => src = t.src)
      BY Zenon
    <3> HIDE DEF t, src
    <3>4. /\ task'[pc] \in TaskRecords /\ task'[pc].off = t.off
          /\ task'[pc].status = "RUNNING" /\ task'[pc].src = src
      BY ZenonT(60), <2>1, <3>1, <3>2 DEF TaskRecords, Statuses
    <3> QED
      BY ZenonT(60), <2>3, <3>3, <3>4 DEF t
  <2> QED
    BY ZenonT(60), <2>2, <2>3
<1>5. task' \in [Pcs -> TaskRecords]
  BY ZenonT(60), <1>1, <1>4
<1>6. /\ refs' \in [ChunkSources -> Int] /\ refs'["LOCAL"] = refs["LOCAL"]
      /\ refs'["REMOTE"] = refs["REMOTE"] + Cardinality(found)
  <2>1. refs' = [refs EXCEPT !["REMOTE"] = @ + Cardinality(found)] /\ refs \in [ChunkSources -> Int]
    BY Zenon, <1>1 DEF IncResourceRef, IInv, Shape
  <2>2. Cardinality(found) \in Nat
    BY Zenon, <1>3, PcsCount
  <2> QED
    BY SMTT(30), <2>1, <2>2 DEF ChunkSources
<1> QED
  BY ZenonT(60), <1>2, <1>4, <1>5, <1>6, AnswerKeeps

\* An unanswered query sends its pieces to koala, which takes no reference.
LEMMA QueryIdunTimeoutKeeps ==
  ASSUME IInv, NEW query \in queries, QueryIdunTimeout(query)
  PROVE  IInv'
<1>1. /\ task' = [pc \in Pcs |-> IF pc \in query THEN [task[pc] EXCEPT !.status = "RUNNING"]
                                ELSE task[pc]]
      /\ DispatchHelaPcTask(query) /\ queries' = queries \ {query} /\ refs' = refs
      /\ UNCHANGED <<cluster, batch, disk, update>>
  BY Zenon DEF QueryIdunTimeout
<1>2. ASSUME NEW pc \in Pcs
      PROVE  /\ task'[pc] \in TaskRecords /\ task'[pc].off = task[pc].off
             /\ pc \notin query => task'[pc].status = task[pc].status
             /\ pc \in query => task'[pc].status = "RUNNING"
             /\ task'[pc].src = task[pc].src
  <2>1. task[pc] \in TaskRecords
    BY Zenon DEF IInv, Shape
  <2>2. CASE pc \notin query
    BY Zenon, <1>1, <2>1, <2>2
  <2>3. CASE pc \in query
    <3>1. task'[pc] = [task[pc] EXCEPT !.status = "RUNNING"]
      BY Zenon, <1>1, <2>3
    <3> QED
      BY ZenonT(60), <2>1, <2>3, <3>1 DEF TaskRecords, Statuses
  <2> QED
    BY Zenon, <2>2, <2>3
<1>3. task' \in [Pcs -> TaskRecords]
  BY Zenon, <1>1, <1>2
<1>4. /\ refs' \in [ChunkSources -> Int] /\ refs'["LOCAL"] = refs["LOCAL"]
      /\ refs'["REMOTE"] = refs["REMOTE"] + Cardinality({})
  <2>1. Cardinality({}) = 0 /\ refs \in [ChunkSources -> Int]
    BY Zenon, PcsCount DEF IInv, Shape
  <2> QED
    BY SMTT(30), <1>1, <2>1 DEF ChunkSources
<1>5. {} \in SUBSET query /\ \A pc \in Pcs : pc \notin {}
  BY Zenon
<1> QED
  BY ZenonT(60), <1>1, <1>2, <1>3, <1>4, <1>5, AnswerKeeps

\* The reference of a transfer that has ended is given back.
LEMMA DecKeeps ==
  ASSUME IInv, NEW pc \in Pcs, task[pc].status = "RUNNING", ~batch.timeout,
         refs' = DecResourceRef(pc), ~(task'[pc].status = "RUNNING" /\ task'[pc].src # "KOALA"),
         \A q \in Pcs \ {pc} : task'[q] = task[q]
  PROVE  RefsCountReaders' /\ refs' \in [ChunkSources -> Int]
<1>1. refs \in [ChunkSources -> Int] /\ \A s \in ChunkSources : refs[s] = Cardinality(Readers(task, s))
  BY Zenon DEF IInv, Shape, ManagerInv, RefsCountReaders, Readers, With
<1>2. \A s \in ChunkSources : ~Reads(task', pc, s) /\ s # "KOALA"
  BY Zenon DEF Reads, ChunkSources
<1>3. ASSUME NEW s \in ChunkSources, s # task[pc].src
      PROVE  Readers(task', s) = Readers(task, s)
  <2>1. \A q \in Pcs : Reads(task', q, s) <=> Reads(task, q, s)
    BY Zenon, <1>2, <1>3 DEF Reads
  <2> QED
    BY Zenon, <2>1, ReadersSame
<1>4. ASSUME NEW s \in ChunkSources, s = task[pc].src
      PROVE  /\ Cardinality(Readers(task, s)) = Cardinality(Readers(task', s)) + 1
             /\ Cardinality(Readers(task', s)) \in Nat
  <2>1. \A q \in Pcs : Reads(task, q, s) <=> Reads(task', q, s) \/ q \in {pc}
    BY Zenon, <1>2, <1>4 DEF Reads
  <2>2. {pc} \in SUBSET Pcs /\ \A q \in {pc} : ~Reads(task', q, s)
    BY Zenon, <1>2
  <2>3. Cardinality({pc}) = 1
    BY ZenonT(60), FS_Singleton
  <2>4. /\ Cardinality(Readers(task, s)) = Cardinality(Readers(task', s)) + Cardinality({pc})
        /\ Cardinality(Readers(task', s)) \in Nat
    BY SMTT(30), <2>1, <2>2, ReadersCount
  <2> QED
    BY Zenon, <2>3, <2>4
<1>5. CASE task[pc].src = "KOALA"
  <2>1. refs' = refs
    BY Zenon, <1>5 DEF DecResourceRef
  <2>2. \A s \in ChunkSources : refs'[s] = Cardinality(Readers(task', s))
    BY ZenonT(60), <1>1, <1>2, <1>3, <1>5, <2>1
  <2> QED
    BY ZenonT(60), <1>1, <2>1, <2>2 DEF RefsCountReaders, Readers, With
<1>6. CASE task[pc].src # "KOALA"
  <2> DEFINE src == task[pc].src
  <2>1. src \in ChunkSources
    <3>1. task[pc] \in TaskRecords
      BY Zenon DEF IInv, Shape
    <3> QED
      BY Zenon, <1>6, <3>1 DEF TaskRecords
  <2>2. refs' = [refs EXCEPT ![src] = @ - 1]
    BY Zenon, <1>6 DEF DecResourceRef
  <2>3. /\ Cardinality(Readers(task, src)) = Cardinality(Readers(task', src)) + 1
        /\ Cardinality(Readers(task', src)) \in Nat
    BY ZenonT(60), <1>4, <2>1
  <2> HIDE DEF src
  <2>4. /\ refs' \in [ChunkSources -> Int] /\ refs'[src] = refs[src] - 1
        /\ \A s \in ChunkSources \ {src} : refs'[s] = refs[s]
    BY SMTT(30), <1>1, <2>1, <2>2
  <2>5. refs'[src] = Cardinality(Readers(task', src))
    <3>1. refs[src] = Cardinality(Readers(task, src))
      BY ZenonT(60), <1>1, <2>1
    <3> QED
      BY SMTT(30), <2>3, <2>4, <3>1
  <2>6. \A s \in ChunkSources : refs'[s] = Cardinality(Readers(task', s))
    BY ZenonT(60), <1>1, <1>3, <2>4, <2>5 DEF src
  <2> QED
    BY ZenonT(60), <2>4, <2>6 DEF RefsCountReaders, Readers, With
<1> QED
  BY Zenon, <1>5, <1>6

\* A piece is settled: the counters follow, and the batch has one less to wait for.
LEMMA SettleKeeps ==
  ASSUME IInv, NEW pc \in Pcs, task[pc].status = "RUNNING", ~batch.timeout, NEW status \in Settled,
         task' = [task EXCEPT ![pc].status = status], handle' = [handle EXCEPT ![pc] = NoHandle],
         batch' \in BatchRecords, batch'.started = batch.started, batch'.completed = batch.completed,
         batch'.timeout = batch.timeout, batch'.finish = batch.finish + 1,
         batch'.fail = IF status = "FAIL" THEN batch.fail + 1 ELSE batch.fail,
         refs' = DecResourceRef(pc), update' \subseteq Pcs, UNCHANGED <<cluster, disk, queries>>
  PROVE  IInv'
<1>1. batch.started /\ ~batch.completed
  BY Zenon, BatchGoesOn
<1>2. task \in [Pcs -> TaskRecords] /\ task[pc] \in TaskRecords /\ handle \in [Pcs -> HandleRecords]
  BY Zenon DEF IInv, Shape
<1>3. LET new == [task[pc] EXCEPT !.status = status]
      IN /\ new \in TaskRecords /\ new.status = status /\ new.src = task[pc].src
         /\ new.off = task[pc].off
  BY Zenon, <1>2 DEF TaskRecords, Statuses
<1>4. task'[pc] = [task[pc] EXCEPT !.status = status] /\ \A q \in Pcs \ {pc} : task'[q] = task[q]
  BY Zenon, <1>2
<1>5. /\ task'[pc] \in TaskRecords /\ task'[pc].status = status /\ task'[pc].src = task[pc].src
      /\ task'[pc].off = task[pc].off
  BY ZenonT(60), <1>3, <1>4
<1>6. task' \in [Pcs -> TaskRecords] /\ \A q \in Pcs : task'[q].off = task[q].off
  BY ZenonT(60), <1>2, <1>3, <1>4, <1>5
<1>7. \A q \in Pcs : handle'[q] \in {handle[q], NoHandle}
  BY Zenon, <1>2
<1>8. CopiesInv' /\ handle' \in [Pcs -> HandleRecords]
  <2>1. CopiesInv'
    BY ZenonT(60), <1>6, <1>7, HandlesKeep
  <2> QED
    BY ZenonT(60), <1>2, <2>1, NewHandle
<1>9. RefsCountReaders' /\ refs' \in [ChunkSources -> Int]
  <2>1. status # "RUNNING"
    BY Zenon DEF Settled
  <2> QED
    BY ZenonT(60), <1>4, <1>5, <2>1, DecKeeps
<1>10. Shape'
  BY ZenonT(60), <1>6, <1>8, <1>9 DEF IInv, Shape
<1>11. SourceInv' /\ QueryInv'
  <2>1. status \notin {"READY", "QUERY"}
    BY Zenon DEF Settled
  <2>2. SourceInv'
    BY ZenonT(60), <1>4, <1>5, <2>1 DEF IInv, ManagerInv, SourceInv
  <2>3. \A q \in Pcs : task[q].status = "QUERY" => task'[q].status = "QUERY"
    BY Zenon, <1>4
  <2>4. QueryInv'
    BY Zenon, <2>3 DEF IInv, ManagerInv, QueryInv, With
  <2> QED
    BY ZenonT(60), <2>2, <2>4
<1>12. Cardinality(SettledPcs') = Cardinality(SettledPcs) + 1
  <2>1. \A q \in Pcs : q \in SettledPcs' <=> q \in SettledPcs \/ q \in {pc}
    BY Zenon, <1>4, <1>5 DEF SettledPcs
  <2>2. /\ SettledPcs \in SUBSET Pcs /\ SettledPcs' \in SUBSET Pcs /\ {pc} \in SUBSET Pcs
        /\ SettledPcs \cap {pc} = {}
    BY Zenon DEF SettledPcs, Settled
  <2>3. Cardinality({pc}) = 1
    BY Zenon, FS_Singleton
  <2> QED
    BY SMTT(30), <2>1, <2>2, <2>3, CountGrows
<1>13. Cardinality(With(task', "FAIL"))
         = IF status = "FAIL" THEN Cardinality(With(task, "FAIL")) + 1 ELSE Cardinality(With(task, "FAIL"))
  <2>1. CASE status = "FAIL"
    <3>1. \A q \in Pcs : q \in With(task', "FAIL") <=> q \in With(task, "FAIL") \/ q \in {pc}
      BY ZenonT(60), <1>4, <1>5, <2>1 DEF With
    <3>2. /\ With(task, "FAIL") \in SUBSET Pcs /\ With(task', "FAIL") \in SUBSET Pcs
          /\ {pc} \in SUBSET Pcs /\ With(task, "FAIL") \cap {pc} = {}
      BY Zenon DEF With
    <3>3. Cardinality({pc}) = 1
      BY Zenon, FS_Singleton
    <3>4. Cardinality(With(task', "FAIL")) = Cardinality(With(task, "FAIL")) + Cardinality({pc})
      BY ZenonT(60), <3>1, <3>2, CountGrows
    <3> QED
      BY ZenonT(60), <2>1, <3>3, <3>4
  <2>2. CASE status # "FAIL"
    <3>1. \A q \in Pcs : task'[q].status = "FAIL" <=> task[q].status = "FAIL"
      BY Zenon, <1>4, <1>5, <2>2
    <3>2. With(task', "FAIL") = With(task, "FAIL")
      BY Zenon, <3>1 DEF With
    <3> QED
      BY Zenon, <2>2, <3>2
  <2> QED
    BY ZenonT(60), <2>1, <2>2
<1>14. CountInv'
  <2>1. With(task, "FAIL")' = With(task', "FAIL")
    BY Zenon DEF With
  <2> QED
    BY ZenonT(60), <1>12, <1>13, <2>1 DEF IInv, ManagerInv, CountInv
<1>15. StartInv' /\ EndInv'
  BY Zenon, <1>1 DEF StartInv, EndInv
<1> QED
  BY ZenonT(60), <1>8, <1>9, <1>10, <1>11, <1>14, <1>15 DEF IInv, ManagerInv

\* A source that turned out to be unavailable: the piece goes to koala.
LEMMA UnavailableKeeps ==
  ASSUME IInv, NEW pc \in Pcs, task[pc].status = "RUNNING", ~batch.timeout,
         task' = [task EXCEPT ![pc].src = "KOALA"], DispatchHelaPcTask({pc}),
         refs' = DecResourceRef(pc), UNCHANGED <<cluster, batch, disk, queries, update>>
  PROVE  IInv'
<1>1. batch.started /\ ~batch.completed
  BY Zenon, BatchGoesOn
<1>2. task \in [Pcs -> TaskRecords] /\ task[pc] \in TaskRecords
  BY Zenon DEF IInv, Shape
<1>3. LET new == [task[pc] EXCEPT !.src = "KOALA"]
      IN /\ new \in TaskRecords /\ new.src = "KOALA" /\ new.status = task[pc].status
         /\ new.off = task[pc].off
  BY Zenon, <1>2 DEF TaskRecords
<1>4. task'[pc] = [task[pc] EXCEPT !.src = "KOALA"] /\ \A q \in Pcs \ {pc} : task'[q] = task[q]
  BY Zenon, <1>2
<1>5. /\ task'[pc] \in TaskRecords /\ task'[pc].status = task[pc].status /\ task'[pc].src = "KOALA"
      /\ task'[pc].off = task[pc].off
  BY ZenonT(60), <1>3, <1>4
<1>6. task' \in [Pcs -> TaskRecords] /\ \A q \in Pcs : task'[q].off = task[q].off
  BY ZenonT(60), <1>2, <1>3, <1>4, <1>5
<1>7. CopiesInv' /\ handle' \in [Pcs -> HandleRecords]
  BY ZenonT(60), <1>6, DispatchKeeps
<1>8. RefsCountReaders' /\ refs' \in [ChunkSources -> Int]
  BY ZenonT(60), <1>4, <1>5, DecKeeps
<1>9. Shape'
  BY ZenonT(60), <1>6, <1>7, <1>8 DEF IInv, Shape
<1>10. \A q \in Pcs : task'[q].status = task[q].status
  BY ZenonT(60), <1>4, <1>5
<1>11. SourceInv'
  BY ZenonT(60), <1>4, <1>5, <1>10 DEF IInv, ManagerInv, SourceInv
<1>12. QueryInv' /\ CountInv'
  <2>1. SettledPcs' = SettledPcs /\ \A status : With(task, status)' = With(task, status)
    BY Zenon, <1>10 DEF SettledPcs, With
  <2> QED
    BY Zenon, <2>1 DEF IInv, ManagerInv, QueryInv, CountInv
<1>13. StartInv' /\ EndInv'
  BY Zenon, <1>1 DEF StartInv, EndInv
<1> QED
  BY ZenonT(60), <1>7, <1>8, <1>9, <1>11, <1>12, <1>13 DEF IInv, ManagerInv

\* The result of a transfer: dropped, a success, a failure, or a switch to koala.
LEMMA HandlePcTaskResultKeeps ==
  ASSUME IInv, NEW pc \in Pcs, HandlePcTaskResult(pc)
  PROVE  IInv'
<1>1. UNCHANGED <<cluster, disk, queries>>
  BY Zenon DEF HandlePcTaskResult
<1>2. batch \in BatchRecords /\ handle \in [Pcs -> HandleRecords] /\ update \subseteq Pcs
  BY Zenon DEF IInv, Shape
<1>3. batch.finish + 1 \in Nat /\ batch.succ + 1 \in Nat /\ batch.fail + 1 \in Nat
  <2>1. batch.finish \in Nat /\ batch.succ \in Nat /\ batch.fail \in Nat
    BY Zenon, <1>2 DEF BatchRecords
  <2> QED
    BY SMTT(30), <2>1
<1>4. CASE UNCHANGED <<task, batch, refs, update>> /\ handle' = [handle EXCEPT ![pc] = NoHandle]
  <2>1. ManagerInv'
    BY ZenonT(60), <1>1, <1>4, SameTasks
  <2>2. \A q \in Pcs : handle'[q] \in {handle[q], NoHandle}
    BY ZenonT(60), <1>2, <1>4
  <2>3. CopiesInv'
    BY ZenonT(60), <1>4, <2>2, HandlesKeep
  <2>4. handle' \in [Pcs -> HandleRecords]
    BY ZenonT(60), <1>2, <1>4, NewHandle
  <2>5. Shape'
    BY ZenonT(60), <1>1, <1>4, <2>4 DEF IInv, Shape
  <2> QED
    BY ZenonT(60), <2>1, <2>3, <2>5 DEF IInv
<1>5. CASE /\ task[pc].status = "RUNNING" /\ ~batch.timeout
           /\ task' = [task EXCEPT ![pc].status = "DONE"]
           /\ batch' = [batch EXCEPT !.finish = @ + 1, !.succ = @ + 1]
           /\ handle' = [handle EXCEPT ![pc] = NoHandle] /\ refs' = DecResourceRef(pc)
           /\ update' = update \cup {pc}
  <2>1. /\ batch' \in BatchRecords /\ batch'.started = batch.started
        /\ batch'.completed = batch.completed /\ batch'.timeout = batch.timeout
        /\ batch'.finish = batch.finish + 1 /\ batch'.fail = batch.fail
    BY ZenonT(60), <1>2, <1>3, <1>5 DEF BatchRecords
  <2>2. "DONE" \in Settled /\ "DONE" # "FAIL" /\ update' \subseteq Pcs
    BY ZenonT(60), <1>2, <1>5 DEF Settled
  <2> QED
    BY ZenonT(60), <1>1, <1>5, <2>1, <2>2, SettleKeeps
<1>6. CASE /\ task[pc].status = "RUNNING" /\ ~batch.timeout
           /\ task' = [task EXCEPT ![pc].src = "KOALA"] /\ DispatchHelaPcTask({pc})
           /\ refs' = DecResourceRef(pc) /\ UNCHANGED <<batch, update>>
  BY ZenonT(60), <1>1, <1>6, UnavailableKeeps
<1>7. CASE /\ task[pc].status = "RUNNING" /\ ~batch.timeout
           /\ task' = [task EXCEPT ![pc].status = "FAIL"]
           /\ batch' = [batch EXCEPT !.finish = @ + 1, !.fail = @ + 1]
           /\ handle' = [handle EXCEPT ![pc] = NoHandle] /\ refs' = DecResourceRef(pc)
           /\ update' = update
  <2>1. /\ batch' \in BatchRecords /\ batch'.started = batch.started
        /\ batch'.completed = batch.completed /\ batch'.timeout = batch.timeout
        /\ batch'.finish = batch.finish + 1 /\ batch'.fail = batch.fail + 1
    BY ZenonT(60), <1>2, <1>3, <1>7 DEF BatchRecords
  <2>2. "FAIL" \in Settled /\ update' \subseteq Pcs
    BY ZenonT(60), <1>2, <1>7 DEF Settled
  <2> QED
    BY ZenonT(60), <1>1, <1>7, <2>1, <2>2, SettleKeeps
<1> QED
  BY ZenonT(60), <1>4, <1>5, <1>6, <1>7 DEF HandlePcTaskResult

\* The timer: from now on the references are no longer counted.
LEMMA TaskTimeOutKeeps ==
  ASSUME IInv, TaskTimeOut
  PROVE  IInv'
<1>1. /\ batch.started /\ ~batch.completed /\ batch' = [batch EXCEPT !.timeout = TRUE]
      /\ refs' = DecAllResourceRef /\ disk' = [d \in Disks |-> "FAIL"]
      /\ UNCHANGED <<task, handle, cluster, queries, update>>
  BY Zenon DEF TaskTimeOut, SetAllTaskFail, pcVars
<1>2. /\ batch' \in BatchRecords /\ batch'.started = batch.started /\ batch'.completed = batch.completed
      /\ batch'.timeout /\ batch'.finish = batch.finish /\ batch'.fail = batch.fail
  <2>1. batch \in BatchRecords
    BY Zenon DEF IInv, Shape
  <2> QED
    BY ZenonT(60), <1>1, <2>1 DEF BatchRecords
<1>3. refs' \in [ChunkSources -> Int]
  <2>1. refs' = [s \in ChunkSources |-> refs[s] - Cardinality(Readers(task, s))]
    BY Zenon, <1>1 DEF DecAllResourceRef, Readers
  <2>2. \A s \in ChunkSources : refs[s] \in Int /\ Cardinality(Readers(task, s)) \in Nat
    <3>1. \A s : Readers(task, s) \in SUBSET Pcs
      BY Zenon DEF Readers, With
    <3>2. \A s \in ChunkSources : refs[s] \in Int
      BY Zenon DEF IInv, Shape
    <3> QED
      BY ZenonT(60), <3>1, <3>2, PcsCount
  <2>3. \A s \in ChunkSources : refs[s] - Cardinality(Readers(task, s)) \in Int
    BY SMTT(30), <2>2
  <2> QED
    BY Zenon, <2>1, <2>3
<1>4. disk' \in [Disks -> DiskStatuses]
  BY Zenon, <1>1 DEF DiskStatuses
<1>5. Shape' /\ CopiesInv'
  BY ZenonT(60), <1>1, <1>2, <1>3, <1>4 DEF IInv, Shape, CopiesInv, Pair
<1>6. SourceInv' /\ QueryInv' /\ CountInv'
  BY ZenonT(60), <1>1, <1>2 DEF IInv, ManagerInv, SourceInv, QueryInv, CountInv, With, SettledPcs
<1>7. StartInv' /\ EndInv' /\ RefsCountReaders'
  BY Zenon, <1>1, <1>2 DEF StartInv, EndInv, RefsCountReaders
<1> QED
  BY ZenonT(60), <1>5, <1>6, <1>7 DEF IInv, ManagerInv

\* A change of the cluster is seen by no task and no handle until it checks.
LEMMA ClusterChangeKeeps ==
  ASSUME IInv, ClusterChange, UNCHANGED manVars
  PROVE  IInv'
<1>1. PICK c \in Chunks \ cluster.offline :
        cluster' = [version |-> cluster.version + 1, offline |-> cluster.offline \cup {c}]
  BY Zenon DEF ClusterChange
<1>2. /\ task' = task /\ handle' = handle /\ batch' = batch /\ disk' = disk /\ refs' = refs
      /\ queries' = queries /\ update' = update
  BY Zenon DEF ClusterChange, manVars
<1>3. cluster' \in [version : Nat, offline : SUBSET Chunks]
  <2>1. cluster.version \in Nat /\ cluster.offline \in SUBSET Chunks
    BY Zenon DEF IInv, Shape
  <2>2. cluster.version + 1 \in Nat
    BY SMTT(30), <2>1
  <2> QED
    BY Zenon, <1>1, <2>1, <2>2
<1>4. Shape' /\ CopiesInv'
  BY ZenonT(60), <1>2, <1>3 DEF IInv, Shape, CopiesInv, Pair
<1>5. ManagerInv'
  BY ZenonT(60), <1>2, SameTasks
<1> QED
  BY Zenon, <1>4, <1>5 DEF IInv

\* The invariant holds of a batch that has not started.
LEMMA InitHolds ==
  ASSUME Init
  PROVE  IInv
<1>1. 0 \in Nat /\ 0 \in Int
  OBVIOUS
<1>2. /\ task = [pc \in Pcs |-> NewTask] /\ handle = [pc \in Pcs |-> NoHandle]
      /\ cluster = [version |-> 0, offline |-> {}]
  BY Zenon DEF Init, PcInit
<1>3. /\ batch = [started |-> FALSE, timeout |-> FALSE, completed |-> FALSE,
                 finish |-> 0, succ |-> 0, fail |-> 0]
      /\ disk = [d \in Disks |-> "READY"] /\ refs = [s \in ChunkSources |-> 0]
      /\ queries = {} /\ update = {}
  BY Zenon DEF Init
<1>4. NewTask \in TaskRecords /\ NewTask.status = "READY" /\ NewTask.src = "KOALA"
  BY Zenon, <1>1 DEF NewTask, TaskRecords, Statuses
<1>5. NoHandle \in HandleRecords /\ NoHandle.at = "none"
  BY Zenon, NewHandle DEF NoHandle
<1>6. \A pc \in Pcs : task[pc] = NewTask /\ handle[pc] = NoHandle
  BY Zenon, <1>2
<1>7. Shape
  <2>1. batch \in BatchRecords
    BY ZenonT(60), <1>1, <1>3 DEF BatchRecords
  <2>2. cluster \in [version : Nat, offline : SUBSET Chunks]
    BY ZenonT(60), <1>1, <1>2
  <2>3. disk \in [Disks -> DiskStatuses] /\ refs \in [ChunkSources -> Int]
    BY ZenonT(60), <1>1, <1>3 DEF DiskStatuses
  <2>4. task \in [Pcs -> TaskRecords] /\ handle \in [Pcs -> HandleRecords]
    BY ZenonT(60), <1>2, <1>4, <1>5
  <2>5. queries \subseteq SUBSET Pcs /\ update \subseteq Pcs
    BY Zenon, <1>3
  <2> QED
    BY ZenonT(60), <2>1, <2>2, <2>3, <2>4, <2>5 DEF Shape
<1>8. CopiesInv
  <2>1. \A pc \in Pcs : Pair(pc).h.at = "none"
    BY ZenonT(60), <1>5, <1>6 DEF Pair
  <2> QED
    BY Zenon, <2>1 DEF CopiesInv, CopyInv, ReadPlaces, WritePlaces
<1>9. SourceInv /\ QueryInv
  BY ZenonT(60), <1>3, <1>4, <1>6 DEF SourceInv, QueryInv
<1>10. StartInv /\ EndInv
  <2>1. With(task, "READY") = Pcs
    BY ZenonT(60), <1>4, <1>6 DEF With
  <2> QED
    BY ZenonT(60), <1>3, <2>1 DEF StartInv, EndInv
<1>11. CountInv
  <2>1. SettledPcs = {} /\ With(task, "FAIL") = {}
    BY ZenonT(60), <1>4, <1>6 DEF SettledPcs, Settled, With
  <2> QED
    BY ZenonT(60), <1>3, <2>1, PcsCount DEF CountInv
<1>12. RefsCountReaders
  <2>1. \A s : {pc \in With(task, "RUNNING") : task[pc].src = s} = {}
    BY ZenonT(60), <1>4, <1>6 DEF With
  <2>2. \A s \in ChunkSources : refs[s] = 0
    BY Zenon, <1>3
  <2>3. Cardinality({}) = 0
    BY Zenon, PcsCount
  <2> QED
    BY ZenonT(60), <2>1, <2>2, <2>3 DEF RefsCountReaders
<1> QED
  BY ZenonT(60), <1>7, <1>8, <1>9, <1>10, <1>11, <1>12 DEF IInv, ManagerInv

-----------------------------------------------------------------------------
(* The theorems. *)

\* The transfers, the counters, the queries and the references stay in step
\* through every handler of both loops.
THEOREM Inductive == Spec => []IInv
<1>1. Init => IInv
  BY Zenon, InitHolds
<1>2. IInv /\ [Next]_vars => IInv'
  <2>1. SUFFICES ASSUME IInv, [Next]_vars PROVE IInv'
    BY Zenon
  <2>2. CASE Next
    <3>1. ASSUME NEW query \in queries, Answer(query) PROVE IInv'
      BY ZenonT(60), <2>1, <3>1, EntryQueryIdunResourceKeeps, QueryIdunTimeoutKeeps DEF Answer
    <3>2. ASSUME NEW pc \in Pcs, Transfer(pc) \/ HandlePcTaskResult(pc) PROVE IInv'
      BY ZenonT(60), <2>1, <3>2, TransferKeeps, HandlePcTaskResultKeeps DEF Kept
    <3> QED
      BY ZenonT(60), <2>1, <2>2, <3>1, <3>2, StartBatchKeeps, RoutineKeeps, TaskTimeOutKeeps,
         ClusterChangeKeeps DEF Next
  <2>3. CASE UNCHANGED vars
    <3>1. /\ task' = task /\ handle' = handle /\ batch' = batch /\ disk' = disk /\ refs' = refs
          /\ queries' = queries /\ update' = update /\ cluster' = cluster
      BY Zenon, <2>3 DEF vars, pcVars, manVars
    <3>2. Shape' /\ CopiesInv'
      BY ZenonT(60), <2>1, <3>1 DEF IInv, Shape, CopiesInv, Pair
    <3>3. ManagerInv'
      BY ZenonT(60), <2>1, <3>1, SameTasks
    <3> QED
      BY ZenonT(60), <3>2, <3>3 DEF IInv
  <2> QED
    BY ZenonT(60), <2>1, <2>2, <2>3
<1> QED
  BY <1>1, <1>2, PTL DEF Spec

\* A transfer that reports success has written every part to every destination
\* still online, through all retries, pendings and cluster changes
\* (HandleWriteChunk, HandleWriteChunkResponse, ReadNextPart).
THEOREM SuccessHasCopied == Spec => []SuccessIsCopied
<1>1. IInv => SuccessIsCopied
  <2>1. SUFFICES ASSUME IInv, NEW pc \in Pcs, handle[pc].at = "finished", handle[pc].ret = "SUCCESS",
                        NEW part \in 1 .. Parts, NEW d \in Disks \ task[pc].off
                 PROVE  <<part, d>> \in handle[pc].copied
    BY Zenon DEF SuccessIsCopied
  <2>2. CopyInv(Pair(pc)) /\ Pair(pc).t = task[pc] /\ Pair(pc).h = handle[pc]
    BY Zenon, <2>1, PairIsPair
  <2>3. Done(Pair(pc), part)
    BY ZenonT(60), <2>1, <2>2 DEF CopyInv
  <2> QED
    BY ZenonT(60), <2>2, <2>3 DEF Done
<1> QED
  BY <1>1, Inductive, PTL

\* Until the batch times out, the references the resource manager holds are
\* those of the transfers still reading from a chunk, neither more nor less
\* (IncResourceRef, DecResourceRef).
THEOREM ReferencesAreExact == Spec => []RefsCountReaders
<1>1. IInv => RefsCountReaders
  BY Zenon DEF IInv, ManagerInv
<1> QED
  BY <1>1, Inductive, PTL

\* When CheckHelaTaskFinish completes the batch every piece is settled, and
\* stays so, and the disks fail exactly when a piece has failed.
THEOREM VerdictHolds == Spec => []VerdictIsRight
<1>1. IInv => VerdictIsRight
  <2>1. SUFFICES ASSUME IInv, batch.completed PROVE VerdictIsRight
    BY Zenon DEF VerdictIsRight
  <2>2. /\ Cardinality(SettledPcs) = Cardinality(Pcs) /\ batch.fail = Cardinality(With(task, "FAIL"))
        /\ \A d \in Disks : disk[d] = "FAIL" <=> batch.fail > 0
    BY Zenon, <2>1 DEF IInv, ManagerInv, EndInv, CountInv
  <2>3. SettledPcs \in SUBSET Pcs /\ With(task, "FAIL") \in SUBSET Pcs
    BY Zenon DEF SettledPcs, With
  <2>4. SettledPcs = Pcs
    BY ZenonT(60), <2>2, <2>3, PcsCount
  <2>5. Cardinality(With(task, "FAIL")) > 0 <=> With(task, "FAIL") # {}
    <3>1. With(task, "FAIL") # {} => Cardinality(With(task, "FAIL")) > 0
      BY Zenon, <2>3, PcsCount
    <3>2. With(task, "FAIL") = {} => Cardinality(With(task, "FAIL")) = 0
      BY Zenon, PcsCount
    <3> QED
      BY SMTT(30), <3>1, <3>2
  <2>6. \A pc \in Pcs : task[pc].status \in Settled
    BY Zenon, <2>4 DEF SettledPcs
  <2> QED
    BY ZenonT(60), <2>2, <2>5, <2>6 DEF VerdictIsRight
<1> QED
  BY <1>1, Inductive, PTL

\* A completed batch keeps no list of copies that idun should hear of: the
\* round that completes it still empties the list, and no result can come after
\* it (ScheduleHelaTaskRoutine, UpdateIdunResource).
THEOREM AllIsPublished == Spec => []NothingLeftToPublish
<1>1. IInv => NothingLeftToPublish
  BY Zenon DEF IInv, ManagerInv, EndInv, NothingLeftToPublish
<1> QED
  BY <1>1, Inductive, PTL

\* When the batch completes the last reader has gone, and with it the last
\* reference (DecResourceRef in HandlePcTaskResult).
THEOREM NoReferenceOutlives == Spec => []CompletedHoldsNothing
<1>1. IInv => CompletedHoldsNothing
  <2>1. SUFFICES ASSUME IInv, batch.completed, NEW s \in ChunkSources PROVE refs[s] = 0
    BY Zenon DEF CompletedHoldsNothing
  <2>2. refs[s] = Cardinality({pc \in With(task, "RUNNING") : task[pc].src = s})
    BY Zenon, <2>1 DEF IInv, ManagerInv, EndInv, RefsCountReaders
  <2>3. \A pc \in Pcs : task[pc].status # "RUNNING"
    BY Zenon, <2>1, BatchGoesOn
  <2>4. {pc \in With(task, "RUNNING") : task[pc].src = s} = {}
    BY Zenon, <2>3 DEF With
  <2>5. Cardinality({}) = 0
    BY Zenon, PcsCount
  <2> QED
    BY Zenon, <2>2, <2>4, <2>5
<1> QED
  BY <1>1, Inductive, PTL

\* Nothing that comes after completion changes the verdict: the timers are
\* cancelled, the last query was answered, since its pieces were settled, and a
\* handle's late result is dropped (CheckHelaTaskFinish, HandlePcTaskResult).
THEOREM VerdictStands == Spec => VerdictIsFinal
<1> DEFINE Final == batch.completed =>
                      /\ UNCHANGED <<batch, disk, refs, queries, update, published>>
                      /\ \A pc \in Pcs : task'[pc].status = task[pc].status
<1>1. IInv /\ [Next]_vars => [Final]_vars
  <2>1. SUFFICES ASSUME IInv, Next, batch.completed PROVE Final
    BY Zenon
  <2>2. batch.started /\ \A pc \in Pcs : task[pc].status \notin {"QUERY", "RUNNING"}
    BY Zenon, <2>1, BatchGoesOn DEF IInv, ManagerInv, StartInv
  <2>3. queries = {}
    <3>1. \A query \in queries : \E pc \in Pcs : task[pc].status = "QUERY"
      BY Zenon, <2>1 DEF IInv, ManagerInv, QueryInv, With
    <3> QED
      BY Zenon, <2>2, <3>1
  <2>4. ~StartBatch /\ ~ScheduleHelaTaskRoutine /\ ~TaskTimeOut
    BY Zenon, <2>1, <2>2 DEF StartBatch, ScheduleHelaTaskRoutine, TaskTimeOut
  <2>5. ASSUME ClusterChange /\ UNCHANGED manVars PROVE Final
    BY Zenon, <2>5 DEF ClusterChange, manVars
  <2>6. ASSUME NEW pc \in Pcs, Transfer(pc) PROVE Final
    <3>1. UNCHANGED manVars
      BY Zenon, <2>6 DEF Transfer
    <3>2. \A q \in Pcs : task'[q].status = task[q].status
      BY Zenon, <2>1, <2>6, TransferKeeps DEF Kept
    <3> QED
      BY Zenon, <3>1, <3>2 DEF manVars
  <2>7. ASSUME NEW pc \in Pcs, HandlePcTaskResult(pc) PROVE Final
    <3>1. UNCHANGED <<disk, queries, published>> /\ UNCHANGED <<task, batch, refs, update>>
      BY Zenon, <2>2, <2>7 DEF HandlePcTaskResult
    <3> QED
      BY Zenon, <3>1
  <2> QED
    BY Zenon, <2>1, <2>3, <2>4, <2>5, <2>6, <2>7 DEF Next
<1> QED
  BY <1>1, Inductive, PTL DEF Spec, VerdictIsFinal

=============================================================================
