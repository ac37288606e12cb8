------------------------------ MODULE HelaTask ------------------------------
(***************************************************************************)
(* DoHelaTaskHandle: a batch of clone tasks (destination disks) of one     *)
(* image, run on the manager loop, composed with the transfers it          *)
(* dispatches to the transmission loops (HelaPcTask).  A schedule timer    *)
(* picks pieces to run, within a concurrency limit; each is dispatched to  *)
(* a local chunk that has it, or after a query to idun to a remote chunk,  *)
(* or to koala.  References keep a chunk source alive while it is read.    *)
(* A timer fails the whole batch when it takes too long.                   *)
(*                                                                         *)
(* Whether the resource manager knows a local chunk, whether idun can be   *)
(* reached and what it answers are choices of the environment.             *)
(***************************************************************************)
EXTENDS HelaPcTask

CONSTANTS
  HasData,           \* the pieces the image has data for
  Dynamic,           \* enable_dynamic_concurence_pc_num
  LcPcs,             \* pieces of the logical disk: lc_size_bytes / pc_size_
  Over40G,           \* lc_size_ > kKoalaImageSize40G
  ConfConcurrence    \* max_concurence_pc_num of the configuration

ASSUME HelaTaskConstants ==
  /\ IsFiniteSet(Pcs) /\ Pcs = 0..Cardinality(Pcs) - 1 /\ Pcs # {}
  /\ HasData \subseteq Pcs /\ Dynamic \in BOOLEAN /\ Over40G \in BOOLEAN
  /\ LcPcs \in Nat /\ ConfConcurrence \in Nat \ {0}

VARIABLES
  batch,      \* started, timeout_, t_completed_ and the counters
  disk,       \* destination -> status of its HelaTask
  iter,       \* schedule_iter_
  refs,       \* source type -> references the resource manager counts
  queries,    \* the queries to idun not yet answered
  update,     \* update_idun_task_
  published   \* pieces whose new copies idun was told of

manVars == <<batch, disk, iter, refs, queries, update, published>>
vars == <<pcVars, manVars>>

Disks == 1..Dests
ChunkSources == {"LOCAL", "REMOTE"}
Settled == {"DONE", "FAIL"}

Init ==
  /\ PcInit
  /\ batch = [started |-> FALSE, timeout |-> FALSE, completed |-> FALSE,
              finish |-> 0, succ |-> 0, fail |-> 0]
  /\ disk = [d \in Disks |-> "READY"]
  /\ iter = 0
  /\ refs = [s \in ChunkSources |-> 0]
  /\ queries = {} /\ update = {} /\ published = {}

-----------------------------------------------------------------------------
max_concurence_num ==
  LET share == LcPcs \div (IF Over40G THEN 20 ELSE 10)
  IN IF Dynamic /\ share > ConfConcurrence THEN share ELSE ConfConcurrence

With(tasks, status) == {pc \in Pcs : tasks[pc].status = status}

ExecutingPcTaskNum(tasks) ==
  Cardinality(With(tasks, "RUNNING") \cup With(tasks, "QUERY"))

\* The pieces a round of the schedule timer takes: the next READY ones in
\* cyclic order from schedule_iter_.
Chosen(tasks) ==
  LET ready == With(tasks, "READY")
      distance(pc) == (pc - iter) % Cardinality(Pcs)
      room == max_concurence_num - ExecutingPcTaskNum(tasks)
      before(pc) == {q \in ready : distance(q) < distance(pc)}
  IN {pc \in ready : Cardinality(before(pc)) < room}

NextIter(chosen) ==
  LET distance(pc) == (pc - iter) % Cardinality(Pcs)
      last == CHOOSE pc \in chosen : \A q \in chosen : distance(q) <= distance(pc)
  IN IF chosen = {} THEN iter ELSE (last + 1) % Cardinality(Pcs)

IncResourceRef(source, pcs) ==
  [refs EXCEPT ![source] = @ + Cardinality(pcs)]

\* A mutant: the source is set to koala before its reference is released.
DecAfterSwitch(pc) ==
  IF task[pc].src = "KOALA" \/ handle[pc].ret = "UNAVAILABLE" THEN refs
  ELSE [refs EXCEPT ![task[pc].src] = @ - 1]

DecResourceRef(pc) ==
  IF task[pc].src = "KOALA" THEN refs ELSE [refs EXCEPT ![task[pc].src] = @ - 1]

DispatchHelaPcTask(pcs) ==
  handle' = [pc \in Pcs |-> IF pc \in pcs THEN [NoHandle EXCEPT !.at = "posted"]
                            ELSE handle[pc]]

\* need_repair is set by other handles at any time, and read only here.
SetAllTaskDone ==
  \E repair \in SUBSET Disks :
    disk' = [d \in Disks |-> IF d \in repair THEN "READY" ELSE "DONE"]

SetAllTaskFail == disk' = [d \in Disks |-> "FAIL"]

\* A mutant: the batch ends when one piece is still missing.
FinishOneEarly(counted, otherwise) ==
  IF counted.finish + 1 >= Cardinality(Pcs)
  THEN /\ batch' = [counted EXCEPT !.completed = TRUE]
       /\ IF counted.fail > 0 THEN SetAllTaskFail ELSE SetAllTaskDone
  ELSE batch' = counted /\ disk' = otherwise

CheckHelaTaskFinish(counted, otherwise) ==
  IF counted.finish = Cardinality(Pcs)
  THEN /\ batch' = [counted EXCEPT !.completed = TRUE]
       /\ IF counted.fail > 0 THEN SetAllTaskFail ELSE SetAllTaskDone
  ELSE batch' = counted /\ disk' = otherwise

\* The pieces put into a query; none when idun has no route or connection.
QueryIdunResource(asked, sent) == IF sent THEN asked ELSE {}

\* HandleHelaPcTask: pieces with a local chunk are dispatched, the others are
\* asked of idun, and dispatched to koala when the query cannot be sent.
ScheduleHelaPcTask(tasks, counted, disks) ==
  LET chosen == Chosen(tasks)
      empty == chosen \ HasData
  IN \E local \in SUBSET (chosen \cap HasData), sent \in BOOLEAN :
       LET asked == (chosen \cap HasData) \ local
           query == QueryIdunResource(asked, sent)
           run == local \cup (asked \ query)
       IN /\ asked = {} => ~sent
          /\ task' = [pc \in Pcs |->
               CASE pc \in empty -> [tasks[pc] EXCEPT !.status = "DONE"]
                 [] pc \in local -> [tasks[pc] EXCEPT !.status = "RUNNING", !.src = "LOCAL"]
                 [] pc \in query -> [tasks[pc] EXCEPT !.status = "QUERY"]
                 [] pc \in run \ local -> [tasks[pc] EXCEPT !.status = "RUNNING"]
                 [] OTHER -> tasks[pc]]
          /\ refs' = IncResourceRef("LOCAL", local)
          /\ queries' = queries \cup ({query} \ {{}})
          /\ DispatchHelaPcTask(run)
          /\ iter' = NextIter(chosen)
          /\ CheckHelaTaskFinish([counted EXCEPT !.finish = @ + Cardinality(empty)], disks)

-----------------------------------------------------------------------------
(* Steps of the manager loop. *)

StartBatch ==
  /\ Alive /\ ~batch.started
  /\ ScheduleHelaPcTask([pc \in Pcs |-> [task[pc] EXCEPT !.version = cluster.version]],
                        [batch EXCEPT !.started = TRUE],
                        [d \in Disks |-> "EXECUTING"])
  /\ UNCHANGED <<cluster, faults, update, published>>

\* Clears the list first, and gives up when idun cannot be reached.
UpdateIdunResource ==
  /\ update' = {}
  /\ \/ published' = published \cup update
     \/ update # {} /\ UNCHANGED published

\* A mutant: the round returns as soon as it has completed the batch.
ReturnWhenCompleted ==
  /\ Alive /\ batch.started /\ ~batch.completed
  /\ IF batch.timeout THEN UNCHANGED <<task, handle, batch, disk, iter, refs, queries>>
     ELSE ScheduleHelaPcTask(task, batch, disk)
  /\ IF batch'.completed THEN UNCHANGED <<update, published>> ELSE UpdateIdunResource
  /\ UNCHANGED <<cluster, faults>>

\* The timer is cancelled with the batch's completion, but not on timeout.
ScheduleHelaTaskRoutine ==
  /\ Alive /\ batch.started /\ ~batch.completed
  /\ IF batch.timeout THEN UNCHANGED <<task, handle, batch, disk, iter, refs, queries>>
     ELSE ScheduleHelaPcTask(task, batch, disk)
  /\ UpdateIdunResource
  /\ UNCHANGED <<cluster, faults>>

\* The answer to a query: a route for the pieces in found, none when the
\* answer is an error.
EntryQueryIdunResource(query) ==
  /\ Alive
  /\ \E found \in SUBSET query :
       /\ task' = [pc \in Pcs |->
            IF pc \notin query THEN task[pc]
            ELSE [task[pc] EXCEPT !.status = "RUNNING",
                                  !.src = IF pc \in found THEN "REMOTE" ELSE @]]
       /\ refs' = IncResourceRef("REMOTE", found)
  /\ DispatchHelaPcTask(query)
  /\ queries' = queries \ {query}
  /\ UNCHANGED <<cluster, faults, batch, disk, iter, update, published>>

\* A mutant: an unanswered query is logged and forgotten.
ForgetQuery(query) ==
  /\ Alive
  /\ queries' = queries \ {query}
  /\ UNCHANGED <<pcVars, batch, disk, iter, refs, update, published>>

QueryIdunTimeout(query) ==
  /\ Alive
  /\ task' = [pc \in Pcs |-> IF pc \in query THEN [task[pc] EXCEPT !.status = "RUNNING"]
                             ELSE task[pc]]
  /\ DispatchHelaPcTask(query)
  /\ queries' = queries \ {query}
  /\ UNCHANGED <<cluster, faults, batch, disk, iter, refs, update, published>>

\* The result a finished handle posts.  t_running_num_ is only logged.
HandlePcTaskResult(pc) ==
  /\ At(pc, "finished")
  /\ UNCHANGED <<cluster, faults, disk, iter, queries, published>>
  /\ LET ret == handle[pc].ret
         settle(status) == [task EXCEPT ![pc].status = status]
         dropped == batch.timeout \/ task[pc].status # "RUNNING"
     IN \/ /\ dropped
           /\ handle' = [handle EXCEPT ![pc] = NoHandle]
           /\ UNCHANGED <<task, batch, refs, update>>
        \/ /\ ~dropped /\ ret = "SUCCESS"
           /\ task' = settle("DONE")
           /\ batch' = [batch EXCEPT !.finish = @ + 1, !.succ = @ + 1]
           /\ handle' = [handle EXCEPT ![pc] = NoHandle]
           /\ refs' = DecResourceRef(pc)
           /\ update' = update \cup {pc}
        \/ /\ ~dropped /\ ret = "UNAVAILABLE"
           /\ task' = [task EXCEPT ![pc].src = "KOALA"]
           /\ DispatchHelaPcTask({pc})
           /\ refs' = DecResourceRef(pc)
           /\ UNCHANGED <<batch, update>>
        \/ /\ ~dropped /\ ret = "FAIL"
           /\ task' = settle("FAIL")
           /\ batch' = [batch EXCEPT !.finish = @ + 1, !.fail = @ + 1]
           /\ handle' = [handle EXCEPT ![pc] = NoHandle]
           /\ refs' = DecResourceRef(pc)
           /\ UNCHANGED update

DecAllResourceRef ==
  [s \in ChunkSources |->
     refs[s] - Cardinality({pc \in With(task, "RUNNING") : task[pc].src = s})]

TaskTimeOut ==
  /\ Alive /\ batch.started /\ ~batch.completed /\ ~batch.timeout
  /\ batch' = [batch EXCEPT !.timeout = TRUE]
  /\ refs' = DecAllResourceRef
  /\ SetAllTaskFail
  /\ UNCHANGED <<pcVars, iter, queries, update, published>>

Transfer(pc) == HandleStep(pc) /\ UNCHANGED manVars

Answer(query) == EntryQueryIdunResource(query) \/ QueryIdunTimeout(query)

Next ==
  \/ StartBatch
  \/ ScheduleHelaTaskRoutine
  \/ TaskTimeOut
  \/ ClusterChange /\ UNCHANGED manVars
  \/ \E query \in queries : Answer(query)
  \/ \E pc \in Pcs : Transfer(pc) \/ HandlePcTaskResult(pc)

Spec == Init /\ [][Next]_vars

\* The loops keep running what is posted to them, requests are answered or
\* time out, and timers fire.  The batch timeout may be as far off as it likes.
FairSpec ==
  /\ Spec
  /\ WF_vars(StartBatch \/ ScheduleHelaTaskRoutine)
  /\ WF_vars(\E query \in queries : Answer(query))
  /\ \A pc \in HasData : WF_vars(Transfer(pc) \/ HandlePcTaskResult(pc))

-----------------------------------------------------------------------------
(* Properties *)

\* A transfer that reports success has written every part it read to every
\* destination that is still online, whatever retries, pendings, changes of
\* route and changes of the cluster came in between (HandleWriteChunk,
\* HandleWriteChunkResponse, ReadNextPart).
SuccessIsCopied ==
  \A pc \in Pcs :
    handle[pc].at = "finished" /\ handle[pc].ret = "SUCCESS"
      => \A part \in 1..Parts, d \in Disks \ task[pc].off : <<part, d>> \in handle[pc].copied

\* While the batch has not timed out, the resource manager counts exactly the
\* transfers dispatched to a chunk source and not yet answered for
\* (IncResourceRef, DecResourceRef, the switch to koala).
RefsCountReaders ==
  ~batch.timeout =>
    \A s \in ChunkSources :
      refs[s] = Cardinality({pc \in With(task, "RUNNING") : task[pc].src = s})

\* A completed batch has settled every piece, and fails its disks exactly
\* when a piece failed (CheckHelaTaskFinish and the counters it trusts).
VerdictIsRight ==
  batch.completed =>
    /\ \A pc \in Pcs : task[pc].status \in Settled
    /\ \A d \in Disks : disk[d] = "FAIL" <=> With(task, "FAIL") # {}

\* When the batch completes the list of copies to report to idun is empty: the
\* round that cancels the schedule timer is also the one that empties the list
\* (what becomes of the report is idun's affair).
NothingLeftToPublish == batch.completed => update = {}

\* A completed batch has given back every reference it took on a chunk source.
CompletedHoldsNothing == batch.completed => \A s \in ChunkSources : refs[s] = 0

\* Once the batch is completed nothing comes after: no late result, answer or
\* timer changes the verdict, the counters, the references, the pieces' status or
\* what idun is told (CheckHelaTaskFinish cancels both timers, HandlePcTaskResult
\* drops what is not running, and no query is left).
VerdictIsFinal ==
  [][batch.completed =>
       /\ UNCHANGED <<batch, disk, refs, queries, update, published>>
       /\ \A pc \in Pcs : task'[pc].status = task[pc].status]_vars

\* A batch ends: it completes unless its timer fires or the process dies.
BatchEnds == <>(batch.completed \/ batch.timeout \/ ~Alive)

\* What TaskTimeOut's comment claims ("clear all the reference counts on local
\* resources"): a batch that timed out holds no references.
TimedOutHoldsNothing ==
  batch.timeout => \A s \in ChunkSources : refs[s] = 0

=============================================================================
