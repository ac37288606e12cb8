----------------------------- MODULE TimingWheel -----------------------------
(***************************************************************************)
(* Timers of my_cyber: timer/timing_wheel.cc and timer/timer.cc.           *)
(*                                                                         *)
(* A thread moves an index round a wheel of buckets, one bucket a tick,    *)
(* and hands the tasks of each bucket to cyber::Async; after a round it    *)
(* takes the next bucket of the assistant wheel and spreads its tasks over *)
(* the work wheel.  Timers are started by their owners, and a periodic     *)
(* task puts itself back when its callback has run.  Whoever adds a task   *)
(* reads the index of the work wheel, twice, without its mutex.            *)
(*                                                                         *)
(* A task is a start of a timer.  The wheels hold weak pointers: a task is *)
(* there as long as its timer, a callback or Stop has a pointer to it.     *)
(* What Async was given points into the task and keeps nothing.            *)
(***************************************************************************)
EXTENDS Integers, FiniteSets

CONSTANTS
  Timers,
  WORK_WHEEL_SIZE, ASSISTANT_WHEEL_SIZE, TIMER_RESOLUTION_MS,
  Periods,             \* the periods timers are started with, in ms
  Delays,              \* run times, and errors, of callbacks in ms
  MaxStarts            \* bound on the starts of each timer

ASSUME WheelConstants ==
  /\ WORK_WHEEL_SIZE \in Nat \ {0} /\ ASSISTANT_WHEEL_SIZE \in Nat \ {0}
  /\ TIMER_RESOLUTION_MS \in Nat \ {0} /\ MaxStarts \in Nat
  /\ Periods \subseteq Nat /\ Delays \subseteq Int

TIMER_MAX_INTERVAL_MS == WORK_WHEEL_SIZE * ASSISTANT_WHEEL_SIZE * TIMER_RESOLUTION_MS
Tasks == Timers \X (1 .. MaxStarts)
NoTask == 0

VARIABLES
  work_wheel_, assistant_wheel_,     \* the tasks in each bucket
  current_work_wheel_index_, current_assistant_wheel_index_,
  running_, stopping,                \* whether Shutdown is waiting for the thread
  tpc,                               \* where the thread of the wheel is
  started_, task_,                   \* of each timer: the number of its task
  pc,                                \* where each task is
  task,                              \* what each task holds, see Fresh
  lambda,                            \* of each task: whether a callback that has begun, or Stop,
                                     \* has its mutex ("locked"), or only a pointer ("unlocked")
  wild,                              \* a task was used after it was freed
  late_runs, caught                  \* history: callbacks begun after Stop, and whether Tick
                                     \* found the task although its timer had dropped it

wheel == <<work_wheel_, assistant_wheel_, current_work_wheel_index_, current_assistant_wheel_index_>>
thread == <<running_, stopping, tpc>>
timer == <<started_, task_>>
history == <<late_runs, caught>>
vars == <<wheel, thread, timer, pc, task, lambda, wild, history>>

Set(f, x, v) == [f EXCEPT ![x] = v]
Goto(k, l) == pc' = Set(pc, k, l)

\* The ticks of next_fire_duration_ms, rounded up.
CeilTicks(ms) == ((ms + TIMER_RESOLUTION_MS) - 1) \div TIMER_RESOLUTION_MS

\* A TimerTask: its period, whether it is of a oneshot timer, next_fire_duration_ms,
\* remainder_interval_ms, which is a bucket in fact, and the index of the work
\* wheel that AddTask read.  History: the ms left until it is due, at the last move
\* of the wheel, and how far the wheel moved while it was added.
Fresh(period, once) ==
  [interval |-> period, oneshot |-> once, duration |-> period,
   remainder |-> 0, index |-> 0, left |-> 0, moved |-> 0]

\* A task that is gone, or that nothing will read again.
Freed == Fresh(0, FALSE)

\* The timer still has the task.
Kept(k) == task_[k[1]] = k[2]

\* Somebody has a pointer to the task, so that a weak pointer can be locked.
Alive(k) == Kept(k) \/ lambda[k] # "none" \/ pc[k] = "held"

-----------------------------------------------------------------------------
(***************************************************************************)
(* Timer::Start and Timer::Stop, called by the owner of the timer, one     *)
(* after the other.                                                        *)
(***************************************************************************)

Adding == {"add", "start", "choose", "work", "assistant"}

\* A timer with a period that InitTimerTask refuses counts as started.
Start(tm) ==
  /\ ~started_[tm]
  /\ started_' = Set(started_, tm, TRUE)
  /\ \E period \in Periods :
       \/ /\ period \notin 1 .. (TIMER_MAX_INTERVAL_MS - 1)
          /\ UNCHANGED <<task_, pc, task>>
       \/ /\ period \in 1 .. (TIMER_MAX_INTERVAL_MS - 1)
          /\ \E k \in {tm} \X (1 .. MaxStarts), once \in BOOLEAN :
               /\ pc[k] = "none" /\ \A i \in 1 .. (k[2] - 1) : pc[<<tm, i>>] # "none"
               /\ task_' = Set(task_, tm, k[2])
               /\ task' = Set(task, k, Fresh(period, once))
               /\ Goto(k, "add")
  /\ UNCHANGED <<wheel, thread, lambda, wild, history>>

\* Mutant: Stop does not reset task_.
StopKeepsTask(tm) ==
  /\ started_[tm]
  /\ \A k \in Tasks : k[1] = tm /\ Kept(k) => lambda[k] # "locked" /\ pc[k] \notin Adding
  /\ started_' = Set(started_, tm, FALSE)
  /\ UNCHANGED <<wheel, thread, task_, pc, task, lambda, wild, history>>

\* Stop takes the mutex of the task, which a callback holds until it has put
\* the task back, and drops the task; its own copy of the pointer is the last to go.
Stop(tm) ==
  /\ started_[tm]
  /\ \A k \in Tasks : k[1] = tm /\ Kept(k) => lambda[k] # "locked" /\ pc[k] \notin Adding
  /\ started_' = Set(started_, tm, FALSE)
  /\ task_' = Set(task_, tm, NoTask)
  /\ lambda' = [k \in Tasks |-> IF k[1] = tm /\ Kept(k) THEN "unlocked" ELSE lambda[k]]
  /\ UNCHANGED <<wheel, thread, pc, task, wild, history>>

-----------------------------------------------------------------------------
(***************************************************************************)
(* TimingWheel::AddTask, called by Start or at the end of a callback.      *)
(***************************************************************************)

\* The wheel may have been sleeping for a while; the task is due from now.
ReadIndex(k) ==
  /\ pc[k] = "add"
  /\ \E since \in IF tpc = "ended" THEN {0} ELSE 0 .. (TIMER_RESOLUTION_MS - 1) :
       task' = [task EXCEPT ![k].index = current_work_wheel_index_,
                            ![k].left = IF Kept(k) THEN since + task[k].duration ELSE 0,
                            ![k].moved = IF Kept(k) /\ tpc \in {"assistant", "cascade"} THEN 1 ELSE 0]
  /\ Goto(k, "start")
  /\ UNCHANGED <<wheel, thread, timer, lambda, wild, history>>

\* Start() waits for the mutex while Shutdown is waiting for the thread.
StartWheel(k) ==
  /\ pc[k] = "start"
  /\ \/ running_ /\ UNCHANGED thread
     \/ ~running_ /\ ~stopping /\ running_' = TRUE /\ tpc' = "loop" /\ UNCHANGED stopping
  /\ Goto(k, "choose")
  /\ UNCHANGED <<wheel, timer, task, lambda, wild, history>>

\* Mutant: the bucket of the current index counts as still to come.
OnWorkWheelOrNow(target) ==
  target >= WORK_WHEEL_SIZE =>
    /\ target \div WORK_WHEEL_SIZE = 1
    /\ target % WORK_WHEEL_SIZE <= current_work_wheel_index_

\* The bucket is one that this round, or the next up to where this one is now, reaches.
OnWorkWheel(target) ==
  target >= WORK_WHEEL_SIZE =>
    /\ target \div WORK_WHEEL_SIZE = 1
    /\ target % WORK_WHEEL_SIZE < current_work_wheel_index_

ChooseWheel(k) ==
  /\ pc[k] = "choose"
  /\ LET target == task[k].index + CeilTicks(task[k].duration) IN
       /\ task' = [task EXCEPT ![k].remainder = target % WORK_WHEEL_SIZE]
       /\ Goto(k, IF OnWorkWheel(target) THEN "work" ELSE "assistant")
  /\ UNCHANGED <<wheel, thread, timer, lambda, wild, history>>

\* The task is on a wheel; its callback, if that put it there, has yet to let go of
\* it.  Of how far the wheel moved, only none, less than a round or more counts now.
Added(k) ==
  /\ task' = [task EXCEPT ![k].index = 0,
                          ![k].moved = IF @ \in {0, WORK_WHEEL_SIZE} THEN @ ELSE 1]
  /\ Goto(k, "armed")
  /\ UNCHANGED <<current_work_wheel_index_, current_assistant_wheel_index_, thread, timer,
                 lambda, wild, history>>

AddToWork(k) ==
  /\ pc[k] = "work"
  /\ work_wheel_' = [work_wheel_ EXCEPT ![task[k].remainder] = @ \union {k}]
  /\ Added(k)
  /\ UNCHANGED assistant_wheel_

AddToBucket(k, assistant_index) ==
  /\ pc[k] = "assistant"
  /\ LET assistant_ticks == (task[k].index + CeilTicks(task[k].duration)) \div WORK_WHEEL_SIZE
         i == (assistant_index + assistant_ticks) % ASSISTANT_WHEEL_SIZE
     IN assistant_wheel_' = [assistant_wheel_ EXCEPT ![i] = @ \union {k}]
  /\ Added(k)
  /\ UNCHANGED work_wheel_

\* Mutant: the index is read before its mutex is taken, and may be that of the round
\* before.
AddWithStaleIndex(k) ==
  \/ AddToBucket(k, current_assistant_wheel_index_)
  \/ /\ current_work_wheel_index_ < task[k].index /\ tpc # "assistant"
     /\ AddToBucket(k, (current_assistant_wheel_index_ + ASSISTANT_WHEEL_SIZE) - 1)

\* The index is read, and the task added, under current_assistant_wheel_index_mutex_.
AddToAssistant(k) == AddToBucket(k, current_assistant_wheel_index_)

-----------------------------------------------------------------------------
(***************************************************************************)
(* TimingWheel::TickFunc, the thread, and Shutdown, which joins it.        *)
(***************************************************************************)

TestRunning ==
  /\ tpc = "loop"
  /\ tpc' = IF running_ THEN "tick" ELSE "ended"
  /\ UNCHANGED <<wheel, running_, stopping, timer, pc, task, lambda, wild, history>>

\* The tasks of a bucket whose weak pointers can be locked.
Locked(bucket) == {k \in bucket : Alive(k)}

Tick ==
  /\ tpc = "tick"
  /\ LET bucket == work_wheel_[current_work_wheel_index_] IN
       /\ pc' = [k \in Tasks |-> IF k \in Locked(bucket) THEN "async"
                                ELSE IF k \in bucket THEN "done" ELSE pc[k]]
       /\ task' = [k \in Tasks |-> IF k \in Locked(bucket) THEN Fresh(task[k].interval, task[k].oneshot)
                                  ELSE task[k]]
       /\ caught' = [k \in Tasks |-> caught[k] \/ (k \in Locked(bucket) /\ ~Kept(k))]
  /\ work_wheel_' = Set(work_wheel_, current_work_wheel_index_, {})
  /\ tpc' = "sleep"
  /\ UNCHANGED <<assistant_wheel_, current_work_wheel_index_, current_assistant_wheel_index_,
                 running_, stopping, timer, lambda, wild, late_runs>>

\* History: a tick has passed, and tasks that are being added notice.  More than a
\* round late, or a round of moves, is not counted further.
Moves ==
  task' = [k \in Tasks |->
    IF Kept(k) /\ pc[k] \in (Adding \ {"add"}) \union {"armed"}
    THEN [task[k] EXCEPT
           !.left = IF @ > -(WORK_WHEEL_SIZE + 1) * TIMER_RESOLUTION_MS THEN @ - TIMER_RESOLUTION_MS ELSE @,
           !.moved = IF pc[k] # "armed" /\ @ < WORK_WHEEL_SIZE THEN @ + 1 ELSE @]
    ELSE task[k]]

\* Mutant: the end of a round is looked for past the last index.
AdvanceNeverWraps ==
  /\ tpc = "sleep"
  /\ current_work_wheel_index_' = (current_work_wheel_index_ + 1) % WORK_WHEEL_SIZE
  /\ tpc' = IF current_work_wheel_index_' = WORK_WHEEL_SIZE THEN "assistant" ELSE "loop"
  /\ Moves
  /\ UNCHANGED <<work_wheel_, assistant_wheel_, current_assistant_wheel_index_,
                 running_, stopping, timer, pc, lambda, wild, history>>

Advance ==
  /\ tpc = "sleep"
  /\ LET i == (current_work_wheel_index_ + 1) % WORK_WHEEL_SIZE IN
       /\ current_work_wheel_index_' = i
       /\ tpc' = IF i = 0 THEN "assistant" ELSE "loop"
  /\ Moves
  /\ UNCHANGED <<work_wheel_, assistant_wheel_, current_assistant_wheel_index_,
                 running_, stopping, timer, pc, lambda, wild, history>>

AdvanceAssistant ==
  /\ tpc = "assistant"
  /\ current_assistant_wheel_index_' = (current_assistant_wheel_index_ + 1) % ASSISTANT_WHEEL_SIZE
  /\ tpc' = "cascade"
  /\ UNCHANGED <<work_wheel_, assistant_wheel_, current_work_wheel_index_,
                 running_, stopping, timer, pc, task, lambda, wild, history>>

Cascade ==
  /\ tpc = "cascade"
  /\ LET bucket == assistant_wheel_[current_assistant_wheel_index_] IN
       /\ work_wheel_' = [i \in DOMAIN work_wheel_ |->
                             work_wheel_[i] \union {k \in Locked(bucket) : task[k].remainder = i}]
       /\ pc' = [k \in Tasks |-> IF k \in bucket \ Locked(bucket) THEN "done" ELSE pc[k]]
  /\ assistant_wheel_' = Set(assistant_wheel_, current_assistant_wheel_index_, {})
  /\ tpc' = "loop"
  /\ UNCHANGED <<current_work_wheel_index_, current_assistant_wheel_index_, running_, stopping,
                 timer, task, lambda, wild, history>>

Shutdown ==
  /\ running_ /\ ~stopping
  /\ running_' = FALSE /\ stopping' = TRUE
  /\ UNCHANGED <<wheel, tpc, timer, pc, task, lambda, wild, history>>

Join ==
  /\ stopping /\ tpc = "ended"
  /\ stopping' = FALSE
  /\ UNCHANGED <<wheel, running_, tpc, timer, pc, task, lambda, wild, history>>

-----------------------------------------------------------------------------
(***************************************************************************)
(* The callback of a task, on a thread of cyber::Async.                    *)
(***************************************************************************)

\* The callback is called through a pointer into the task.  It locks its weak pointer,
\* unless the task was freed in the meantime: then it finds the pointer expired in the
\* memory the task had, or, that memory being used anew, does anything.
RunAsync(k) ==
  /\ pc[k] = "async"
  /\ Goto(k, IF running_ /\ Alive(k) THEN "held" ELSE "done")
  /\ wild' \in IF running_ /\ ~Alive(k) THEN BOOLEAN ELSE {FALSE}
  /\ UNCHANGED <<wheel, thread, timer, task, lambda, history>>

\* next_fire_duration_ms after a callback that took execute_time ms, with an
\* accumulated error of error ms.
NextFire(interval, execute_time, error) ==
  IF /\ execute_time < interval
     /\ (interval - execute_time) - TIMER_RESOLUTION_MS >= error
  THEN (interval - execute_time) - error
  ELSE TIMER_RESOLUTION_MS

\* The mutex of the task is taken, and kept until the task has been put back.
RunCallback(k) ==
  /\ pc[k] = "held" /\ lambda[k] # "locked"
  /\ lambda' = Set(lambda, k, "locked")
  /\ late_runs' = IF (started_[k[1]] /\ Kept(k)) \/ late_runs[k] = 2 THEN late_runs
                  ELSE [late_runs EXCEPT ![k] = @ + 1]
  /\ \/ task[k].oneshot /\ Goto(k, "done") /\ UNCHANGED task
     \/ /\ ~task[k].oneshot
        /\ \E execute_time \in Delays \intersect Nat, error \in Delays :
             task' = [task EXCEPT ![k].duration = NextFire(task[k].interval, execute_time, error)]
        /\ Goto(k, "add")
  /\ UNCHANGED <<wheel, thread, timer, wild, caught>>

\* The end of the callback: the mutex goes first.
Unlock(k) ==
  /\ lambda[k] = "locked" /\ pc[k] \notin Adding
  /\ lambda' = Set(lambda, k, "unlocked")
  /\ UNCHANGED <<wheel, thread, timer, pc, task, wild, history>>

\* Then the pointer; with the last one the task is freed.
Release(k) ==
  /\ lambda[k] = "unlocked"
  /\ lambda' = Set(lambda, k, "none")
  /\ task' = Set(task, k, IF Kept(k) \/ pc[k] = "held" THEN task[k] ELSE Freed)
  /\ UNCHANGED <<wheel, thread, timer, pc, wild, history>>

-----------------------------------------------------------------------------
Init ==
  /\ work_wheel_ = [i \in 0 .. (WORK_WHEEL_SIZE - 1) |-> {}]
  /\ assistant_wheel_ = [i \in 0 .. (ASSISTANT_WHEEL_SIZE - 1) |-> {}]
  /\ current_work_wheel_index_ = 0 /\ current_assistant_wheel_index_ = 0
  /\ running_ = FALSE /\ stopping = FALSE /\ tpc = "ended"
  /\ started_ = [tm \in Timers |-> FALSE] /\ task_ = [tm \in Timers |-> NoTask]
  /\ pc = [k \in Tasks |-> "none"] /\ task = [k \in Tasks |-> Freed]
  /\ lambda = [k \in Tasks |-> "none"] /\ wild = FALSE
  /\ late_runs = [k \in Tasks |-> 0] /\ caught = [k \in Tasks |-> FALSE]

TickFunc == TestRunning \/ Tick \/ Advance \/ AdvanceAssistant \/ Cascade

AddTask(k) == ReadIndex(k) \/ StartWheel(k) \/ ChooseWheel(k) \/ AddToWork(k) \/ AddToAssistant(k)

\* After a use of a freed task nothing can be said.
Next ==
  /\ ~wild
  /\ \/ \E tm \in Timers : Start(tm) \/ Stop(tm)
     \/ \E k \in Tasks : AddTask(k) \/ RunAsync(k) \/ RunCallback(k) \/ Unlock(k) \/ Release(k)
     \/ TickFunc
     \/ Shutdown \/ Join

Spec == Init /\ [][Next]_vars

\* Only the thread of the wheel need go on.
FairSpec == Spec /\ WF_vars(~wild /\ TickFunc)

-----------------------------------------------------------------------------
(***************************************************************************)
(* Properties.                                                             *)
(***************************************************************************)

\* The tasks of running timers that Tick is about to hand to Async.
Firing == IF tpc = "tick" THEN {k \in work_wheel_[current_work_wheel_index_] : Kept(k)} ELSE {}

\* A task fires this close to the time it was due.
Within(k, ticks) ==
  /\ -ticks * TIMER_RESOLUTION_MS < task[k].left
  /\ task[k].left < ticks * TIMER_RESOLUTION_MS

\* A task that was added while the wheel stood still, and not in the middle of
\* going from one round to the next, fires less than a tick from when it is due,
\* whichever wheel it was put on and however long the wheel had slept by then, up to
\* the longest time the wheels span (AddTask, Cascade, TickFunc).  A periodic task
\* close to that may ask for more, to make up for having been early.
OnTime ==
  \A k \in Firing :
    task[k].moved = 0 /\ task[k].duration <= TIMER_MAX_INTERVAL_MS => Within(k, 1)

\* However the wheel moved while AddTask was choosing a bucket, with indexes that it
\* reads apart and in part without their mutexes, the task fires less than a tick
\* further than one round from when it is due: neither lost for a turn of the assistant
\* wheel nor a turn too soon.  This takes an AddTask that is over within a round, and a
\* time a round below the longest (AddTask against TickFunc).
WithinARound ==
  \A k \in Firing :
    /\ task[k].moved < WORK_WHEEL_SIZE
    /\ task[k].duration <= TIMER_MAX_INTERVAL_MS - WORK_WHEEL_SIZE * TIMER_RESOLUTION_MS
    => Within(k, WORK_WHEEL_SIZE + 1)

\* Once its timer has been stopped, a task's callback runs at most once more, unless
\* Tick reaches the task in the moment between a late callback putting it back and
\* letting go of it, or before Stop has let go of it: the wheels only hold weak
\* pointers (Stop, Tick, the callbacks of InitTimerTask).
StoppedRunsOnceMore == \A k \in Tasks : ~caught[k] => late_runs[k] <= 1

\* A task on the wheel is eventually taken off it, unless the wheel is shut down,
\* however long it sat on the assistant wheel.
EntriesFire == \A k \in Tasks : pc[k] = "armed" ~> pc[k] # "armed" \/ ~running_ \/ wild

\* What timer.h promises of a timer: the callback is performed after its cycle.
NeverEarly == \A k \in Firing : task[k].left <= 0

=============================================================================
