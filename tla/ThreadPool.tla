----------------------------- MODULE ThreadPool -----------------------------
(***************************************************************************)
(* The thread pool of hpc/threadpool/threadpool.h, as its one client (the  *)
(* main thread of main_threadpool.cpp) uses it.                            *)
(*                                                                         *)
(* A critical section of tasks_mutex_ touches nothing that another thread  *)
(* changes without the mutex, except time_to_die_.  Every section is one   *)
(* step, therefore, but the one of assign_task, which reads time_to_die_   *)
(* twice and waits in between: it is split at those points, and the thread *)
(* holds the mutex while its pc is in Holding.                             *)
(***************************************************************************)
EXTENDS Integers, Sequences, FiniteSets

CONSTANTS
  NumHot,       \* num_threads of the constructor: threads that never time out
  MaxTasks,     \* bound: how many times add_task is called
  MaxSpurious,  \* bound: how many waits end without a reason
  Endless,      \* the tasks that sleep longer than anyone looks
  Absent,       \* a key tasks_threads_ does not have
  None          \* boost::none

TaskIds == 0 .. MaxTasks - 1
ThreadIds == 0 .. NumHot + MaxTasks - 1

ASSUME ConstantsAssumption ==
  /\ NumHot \in Nat
  /\ MaxTasks \in Nat
  /\ MaxSpurious \in Nat
  /\ Endless \subseteq TaskIds
  /\ Absent # None
  /\ Absent \notin ThreadIds
  /\ None \notin ThreadIds
  /\ None \notin TaskIds

VARIABLES
  pc,               \* where each thread is in thread_run
  task,             \* the id of thread_run's local task
  interrupted,      \* boost's interruption request, per thread
  tasks_threads,    \* task id -> Absent, None (queued) or the thread that runs it
  tasks_queue,      \* ids, oldest first (the functions are abstracted)
  tasks_to_cancel,
  idle_threads,
  next_task_id,
  next_thread_id,   \* threads_ has exactly the keys below it: nothing is erased
  time_to_die,
  main,             \* where the client is: in its loop, or inside cleanup()
  outcome,          \* what run_task returned for a task: the "finished" or
                    \* "canceled" that thread_run prints
  removed,          \* the tasks cancel_task answered REMOVED_FROM_QUEUE for
  terminated,       \* the tasks cancel_task answered TERMINATED for
  spurious          \* spurious wakeups so far

registry == <<tasks_threads, tasks_queue, tasks_to_cancel>>
counters == <<next_task_id, next_thread_id>>
answers == <<removed, terminated>>
vars == <<pc, task, interrupted, registry, idle_threads, counters, time_to_die,
          main, outcome, answers, spurious>>

(***************************************************************************)
(* The definitions marked "mutant" are plausible mistakes in the definition *)
(* below them. Nothing uses them: they show that the properties notice.    *)
(*                                                                         *)
(* thread_run's locations:                                                 *)
(*   none      not created             loop      at the head of the while  *)
(*   enter     before the lock of      pred      holds it, evaluates pred  *)
(*             assign_task             block     pred was false: will wait *)
(*   waiting   in tasks_cond_          woken     notified, wants the lock  *)
(*   timedout  past the deadline,      check     holds it, the wait over   *)
(*             wants the lock          run       in run_task               *)
(*   unassign  run_task returned       leave     out of the while          *)
(*   done      thread_run returned                                         *)
(***************************************************************************)
Holding == {"pred", "block", "check"}
ThreadStates == Holding \cup
  {"none", "loop", "enter", "waiting", "woken", "timedout", "run", "unassign",
   "leave", "done"}

Hot(t) == t < NumHot

MutexFree == \A t \in ThreadIds : pc[t] \notin Holding

InQueue(id) == \E i \in 1 .. Len(tasks_queue) : tasks_queue[i] = id

Goto(t, from, to) ==
  /\ pc[t] = from
  /\ pc' = [pc EXCEPT ![t] = to]

-----------------------------------------------------------------------------
(* The constructor: hot threads, each of them idle from its creation on.   *)

Init ==
  /\ pc = [t \in ThreadIds |-> IF Hot(t) THEN "loop" ELSE "none"]
  /\ task = [t \in ThreadIds |-> None]
  /\ interrupted = [t \in ThreadIds |-> FALSE]
  /\ tasks_threads = [id \in TaskIds |-> Absent]
  /\ tasks_queue = <<>>
  /\ tasks_to_cancel = {}
  /\ idle_threads = 0 .. NumHot - 1
  /\ next_task_id = 0
  /\ next_thread_id = NumHot
  /\ time_to_die = FALSE
  /\ main = "client"
  /\ outcome = [id \in TaskIds |-> "none"]
  /\ removed = {}
  /\ terminated = {}
  /\ spurious = 0

-----------------------------------------------------------------------------
(* The client.                                                             *)

(* boost::condition_variable over the threads' locations p: one thread that
   waits, or none when nobody does.                                        *)
Waiters(p) == {t \in ThreadIds : p[t] = "waiting"}
Wake(p, t) == [p EXCEPT ![t] = "woken"]

NotifyUnlessRunning(p) ==    \* mutant: whoever runs a task will look anyway
  IF Waiters(p) = {} \/ \E t \in ThreadIds : p[t] = "run"
  THEN {p} ELSE {Wake(p, t) : t \in Waiters(p)}

NotifyNobody(p) == {p}    \* mutant: the notification is forgotten
NotifyOne(p) == IF Waiters(p) = {} THEN {p} ELSE {Wake(p, t) : t \in Waiters(p)}

WakeNobody(p) == p    \* mutant: cleanup() does not notify
WakeAll(p) ==
  [t \in ThreadIds |-> IF p[t] = "waiting" THEN "woken" ELSE p[t]]

(* add_task without an idle thread starts a worker, with the timeout. *)
CreateThread == idle_threads = {}

NewTaskIdIncremented == next_task_id + 1    \* mutant: ++next_task_id_
NewTaskId == next_task_id

PushFront(id) == <<id>> \o tasks_queue       \* mutant: last in, first out
Push(id) == Append(tasks_queue, id)

AddTask ==
  /\ main = "client"
  /\ MutexFree
  /\ next_task_id < MaxTasks
  /\ next_task_id' = next_task_id + 1
  /\ tasks_threads' = [tasks_threads EXCEPT ![NewTaskId] = None]
  /\ tasks_queue' = Push(NewTaskId)
  /\ IF CreateThread
     THEN /\ next_thread_id' = next_thread_id + 1
          /\ idle_threads' = idle_threads \cup {next_thread_id}
          /\ pc' \in NotifyOne([pc EXCEPT ![next_thread_id] = "loop"])
     ELSE /\ pc' \in NotifyOne(pc)
          /\ UNCHANGED <<next_thread_id, idle_threads>>
  /\ UNCHANGED <<task, interrupted, tasks_to_cancel, time_to_die, main, outcome,
                 answers, spurious>>

(* cancel_task looks only at tasks_threads_ and tasks_to_cancel_, under the
   mutex; each of its three answers is an action.                          *)
OnlyAssigned(id) ==    \* mutant: the thread is looked up, not the task
  tasks_threads[id] \in ThreadIds /\ id \notin tasks_to_cancel
Cancellable(id) == tasks_threads[id] # Absent /\ id \notin tasks_to_cancel

CancelNotFound(id) ==
  /\ main = "client"
  /\ MutexFree
  /\ ~Cancellable(id)
  /\ UNCHANGED vars

InterruptLost(t) == interrupted    \* mutant: the thread does not hear of it
Interrupt(t) == [interrupted EXCEPT ![t] = TRUE]

CancelRunning(id) ==
  /\ main = "client"
  /\ MutexFree
  /\ Cancellable(id)
  /\ tasks_threads[id] # None
  /\ interrupted' = Interrupt(tasks_threads[id])
  /\ terminated' = terminated \cup {id}
  /\ UNCHANGED <<pc, task, registry, idle_threads, counters, time_to_die, main,
                 outcome, removed, spurious>>

CancelQueued(id) ==
  /\ main = "client"
  /\ MutexFree
  /\ Cancellable(id)
  /\ tasks_threads[id] = None
  /\ tasks_to_cancel' = tasks_to_cancel \cup {id}
  /\ removed' = removed \cup {id}
  /\ UNCHANGED <<pc, task, interrupted, tasks_threads, tasks_queue, idle_threads,
                 counters, time_to_die, main, outcome, terminated, spurious>>

(* cleanup(): clear_queue takes the mutex; the flag, the notification and
   the joins do not.                                                       *)
ClearQueue ==
  /\ main = "client"
  /\ MutexFree
  /\ main' = "die"
  /\ tasks_queue' = <<>>
  /\ UNCHANGED <<pc, task, interrupted, tasks_threads, tasks_to_cancel,
                 idle_threads, counters, time_to_die, outcome, answers, spurious>>

SetTimeToDie ==
  /\ main = "die"
  /\ main' = "notify"
  /\ time_to_die' = TRUE
  /\ UNCHANGED <<pc, task, interrupted, registry, idle_threads, counters,
                 outcome, answers, spurious>>

NotifyAll ==
  /\ main = "notify"
  /\ main' = "join"
  /\ pc' = WakeAll(pc)
  /\ UNCHANGED <<task, interrupted, registry, idle_threads, counters,
                 time_to_die, outcome, answers, spurious>>

(* The loop over threads_: nobody creates a thread any more, so that joining
   them one by one is to wait for all.                                     *)
Join ==
  /\ main = "join"
  /\ \A t \in 0 .. next_thread_id - 1 : pc[t] = "done"
  /\ main' = "gone"
  /\ UNCHANGED <<pc, task, interrupted, registry, idle_threads, counters,
                 time_to_die, outcome, answers, spurious>>

-----------------------------------------------------------------------------
(* A thread.                                                               *)

threadRest == <<registry, idle_threads, counters, time_to_die, main, outcome,
                answers>>

(* while (!time_to_die_) { interruption_point(); ... : a request that came
   too late for the last task is forgotten here.                           *)
KeepInterruption(t) == interrupted    \* mutant: no interruption_point
ForgetInterruption(t) == [interrupted EXCEPT ![t] = FALSE]

EnterLoop(t) ==
  /\ ~time_to_die
  /\ Goto(t, "loop", "enter")
  /\ interrupted' = ForgetInterruption(t)
  /\ UNCHANGED <<task, threadRest, spurious>>

LeaveLoop(t) ==
  /\ time_to_die
  /\ Goto(t, "loop", "leave")
  /\ UNCHANGED <<task, interrupted, threadRest, spurious>>

Lock(t) ==
  /\ MutexFree
  /\ Goto(t, "enter", "pred")
  /\ UNCHANGED <<task, interrupted, threadRest, spurious>>

(* pred of assign_task: time_to_die_ is read here, and again in "check". *)
StopWaiting == time_to_die \/ tasks_queue # <<>>

EvalPred(t) ==
  /\ IF StopWaiting THEN Goto(t, "pred", "check") ELSE Goto(t, "pred", "block")
  /\ UNCHANGED <<task, interrupted, threadRest, spurious>>

(* Only here, on tasks_cond_ and without the mutex, can it be notified. *)
Wait(t) ==
  /\ Goto(t, "block", "waiting")
  /\ UNCHANGED <<task, interrupted, threadRest, spurious>>

SpuriousWakeup(t) ==
  /\ spurious < MaxSpurious
  /\ Goto(t, "waiting", "woken")
  /\ spurious' = spurious + 1
  /\ UNCHANGED <<task, interrupted, threadRest>>

TimeOut(t) ==
  /\ ~Hot(t)
  /\ Goto(t, "waiting", "timedout")
  /\ UNCHANGED <<task, interrupted, threadRest, spurious>>

(* wait(lock, pred) looks at pred again; timed_wait(lock, ., pred) returns
   pred() past the deadline, which assign_task does not look at.           *)
TrustWakeup == "check"     \* mutant: pred is not evaluated again
WaitAgain == "pred"        \* mutant: a timeout starts the wait anew
ReturnAtOnce == "done"     \* mutant: a timed-out thread skips its last section
AfterWakeup == "pred"
AfterTimeout == "check"

Relock(t) ==
  /\ MutexFree
  /\ Goto(t, "woken", AfterWakeup) \/ Goto(t, "timedout", AfterTimeout)
  /\ UNCHANGED <<task, interrupted, threadRest, spurious>>

(* assign_task from line 199 on: boost::none, or the next task that is not to
   be cancelled. An entry of tasks_threads_ outlives the cancelled task.     *)
ReturnNone(t) ==
  /\ time_to_die \/ tasks_queue = <<>>
  /\ Goto(t, "check", "leave")
  /\ UNCHANGED <<task, interrupted, threadRest, spurious>>

NeverCancelled(id) == FALSE    \* mutant: the queue is not filtered
ToBeCancelled(id) == id \in tasks_to_cancel

SkipCancelled(t) ==
  /\ ~time_to_die
  /\ tasks_queue # <<>>
  /\ ToBeCancelled(Head(tasks_queue))
  /\ Goto(t, "check", "pred")
  /\ tasks_queue' = Tail(tasks_queue)
  /\ tasks_to_cancel' = tasks_to_cancel \ {Head(tasks_queue)}
  /\ UNCHANGED <<task, interrupted, tasks_threads, idle_threads, counters,
                 time_to_die, main, outcome, answers, spurious>>

AssignTask(t) ==
  /\ ~time_to_die
  /\ tasks_queue # <<>>
  /\ ~ToBeCancelled(Head(tasks_queue))
  /\ Goto(t, "check", "run")
  /\ task' = [task EXCEPT ![t] = Head(tasks_queue)]
  /\ tasks_queue' = Tail(tasks_queue)
  /\ tasks_threads' = [tasks_threads EXCEPT ![Head(tasks_queue)] = t]
  /\ idle_threads' = idle_threads \ {t}
  /\ UNCHANGED <<interrupted, tasks_to_cancel, counters, time_to_die, main,
                 outcome, answers, spurious>>

(* run_task: the sleep ends with an interruption point, where a request that
   has arrived by then is taken.                                            *)
Finish(t) ==
  /\ ~interrupted[t]
  /\ task[t] \notin Endless
  /\ Goto(t, "run", "unassign")
  /\ outcome' = [outcome EXCEPT ![task[t]] = "finished"]
  /\ UNCHANGED <<task, interrupted, registry, idle_threads, counters,
                 time_to_die, main, answers, spurious>>

TakeInterruption(t) ==
  /\ interrupted[t]
  /\ Goto(t, "run", "unassign")
  /\ interrupted' = [interrupted EXCEPT ![t] = FALSE]
  /\ outcome' = [outcome EXCEPT ![task[t]] = "canceled"]
  /\ UNCHANGED <<task, registry, idle_threads, counters, time_to_die, main,
                 answers, spurious>>

KeepEntry(id) == tasks_threads    \* mutant: the task is not erased
EraseEntry(id) == [tasks_threads EXCEPT ![id] = Absent]

UnassignTask(t) ==
  /\ MutexFree
  /\ Goto(t, "unassign", "loop")
  /\ idle_threads' = idle_threads \cup {t}
  /\ tasks_threads' = EraseEntry(task[t])
  /\ task' = [task EXCEPT ![t] = None]
  /\ UNCHANGED <<interrupted, tasks_queue, tasks_to_cancel, counters,
                 time_to_die, main, outcome, answers, spurious>>

(* The last section of thread_run. Until then the thread counts as idle,
   though it has stopped looking at the queue.                             *)
Leave(t) ==
  /\ MutexFree
  /\ Goto(t, "leave", "done")
  /\ idle_threads' = idle_threads \ {t}
  /\ UNCHANGED <<task, interrupted, registry, counters, time_to_die, main,
                 outcome, answers, spurious>>

-----------------------------------------------------------------------------

ClientStep ==
  \/ AddTask
  \/ \E id \in TaskIds :
       CancelNotFound(id) \/ CancelRunning(id) \/ CancelQueued(id)
  \/ ClearQueue

CleanupStep == SetTimeToDie \/ NotifyAll \/ Join

ThreadStep(t) ==
  \/ EnterLoop(t) \/ LeaveLoop(t) \/ Lock(t) \/ EvalPred(t) \/ Wait(t)
  \/ TimeOut(t) \/ Relock(t)
  \/ ReturnNone(t) \/ SkipCancelled(t) \/ AssignTask(t)
  \/ Finish(t) \/ TakeInterruption(t) \/ UnassignTask(t) \/ Leave(t)

Next ==
  \/ ClientStep
  \/ CleanupStep
  \/ \E t \in ThreadIds : ThreadStep(t) \/ SpuriousWakeup(t)

(* Threads run, deadlines pass, tasks but the endless ones end, and a client
   inside cleanup() goes on. Nobody has to add, cancel or quit, and no wait
   has to end without a notification. Weak fairness is enough for the mutex:
   see the README.                                                          *)
Fairness ==
  /\ WF_vars(CleanupStep)
  /\ \A t \in ThreadIds : WF_vars(ThreadStep(t))

Spec == Init /\ [][Next]_vars /\ Fairness

-----------------------------------------------------------------------------
(* What the pool keeps true.                                               *)

TypeOK ==
  /\ pc \in [ThreadIds -> ThreadStates]
  /\ task \in [ThreadIds -> TaskIds \cup {None}]
  /\ interrupted \in [ThreadIds -> BOOLEAN]
  /\ tasks_threads \in [TaskIds -> ThreadIds \cup {Absent, None}]
  /\ tasks_queue \in Seq(TaskIds)
  /\ tasks_to_cancel \subseteq TaskIds
  /\ idle_threads \subseteq ThreadIds
  /\ next_task_id \in 0 .. MaxTasks
  /\ next_thread_id \in NumHot .. NumHot + MaxTasks
  /\ time_to_die \in BOOLEAN
  /\ main \in {"client", "die", "notify", "join", "gone"}
  /\ outcome \in [TaskIds -> {"none", "finished", "canceled"}]
  /\ removed \subseteq TaskIds
  /\ terminated \subseteq TaskIds
  /\ spurious \in 0 .. MaxSpurious

(* idle_threads_ is exactly the threads between tasks, which the assertions
   at lines 154, 177 and 231 rely on, though it is written in three sections
   of two functions and by the client.                                      *)
IdleIsExact ==
  idle_threads =
    {t \in ThreadIds : pc[t] \notin {"none", "run", "unassign", "done"}}

(* tasks_threads_ names a thread for a task exactly while that thread has it
   (lines 219 and 234), so that cancel_task interrupts the right one.        *)
AssignmentIsExact ==
  \A id \in TaskIds, t \in ThreadIds :
    tasks_threads[id] = t <=> pc[t] \in {"run", "unassign"} /\ task[t] = id

(* A task that cancel_task answered REMOVED_FROM_QUEUE for never runs,
   however the cancellation and the draining of the queue interleave.      *)
RemovedNeverRuns ==
  \A id \in removed :
    outcome[id] = "none" /\ \A t \in ThreadIds : task[t] # id

(* An interruption hits only the task it was meant for: nothing ends as
   "canceled" that cancel_task did not answer TERMINATED for. This is what
   the late interruption handling at line 116 is there for.                *)
CanceledWasAsked ==
  \A id \in TaskIds : outcome[id] = "canceled" => id \in terminated

(* tasks_cond_.wait is an interruption point outside of any try block: a
   request that is still there when a thread waits would end thread_run
   behind the pool's back.                                                 *)
InterruptionNeverReachesWait ==
  \A t \in ThreadIds :
    interrupted[t] => pc[t] \in {"run", "unassign", "loop", "leave", "done"}

(* The assertions at lines 128 and 204: only a thread with a timeout gives up
   while the pool is alive.                                                 *)
HotThreadsStay ==
  \A t \in ThreadIds :
    Hot(t) /\ pc[t] \in {"leave", "done"} => time_to_die

(* On the way to the queue: the locations from which a thread that has no task
   looks at the queue before it waits.                                      *)
Approaching == {"loop", "enter", "pred", "check", "woken", "timedout"}

Underway == {t \in ThreadIds : pc[t] \in Approaching}

(* The same, and those that have a task to end first. *)
Attentive == Approaching \cup {"run", "unassign"}

(* No lost notification while the pool is alive: add_task notifies one thread
   for each task, so that nobody sleeps unless there are at least as many on
   their way to the queue as there are tasks in it. Whoever runs a task counts
   for none.                                                                *)
NoMissedWakeup ==
  ~time_to_die /\ (\E t \in ThreadIds : pc[t] = "waiting")
    => Len(tasks_queue) <= Cardinality(Underway)

(* add_task asserts, at line 73, that there is an idle thread for its task:
   a queued task has a thread that will come to it.                         *)
QueueHasTaker ==
  ~time_to_die /\ tasks_queue # <<>> =>
    \E t \in ThreadIds : pc[t] \in Attentive

(* What cancel_task answers REMOVED_FROM_QUEUE for is in the queue: the name of
   the answer, which main prints (lines 29 and 102).                        *)
RemovalsAreFromQueue ==
  [][\A id \in TaskIds : CancelQueued(id) => InQueue(id)]_vars

(* In a task that does not end, and that nobody has cancelled. *)
Engaged(t) == pc[t] = "run" /\ task[t] \in Endless /\ ~interrupted[t]

(* A task waits for ever only if all the threads there are, the hot ones among
   them, are in tasks that do not end. This can happen while the pool would have
   created a worker: of two tasks added while one thread counts as idle the
   second has no thread of its own, and waits behind the first (line 70).   *)
TasksAreServed ==
  \A id \in TaskIds :
    InQueue(id) ~>
      ~InQueue(id) \/ \A t \in ThreadIds : pc[t] \in {"none", "done"} \/ Engaged(t)

(* cancel_task ends a task that would not end by itself, wherever between
   assign_task and run_task's first interruption point it finds the thread. *)
TerminatedTasksEnd ==
  \A id \in TaskIds : id \in terminated ~> outcome[id] # "none"

(* A worker without a task retires: its timeout is not postponed for ever,
   with and without a shutdown.                                             *)
WorkersRetire ==
  \A t \in ThreadIds : ~Hot(t) => <>[](pc[t] \in {"none", "run", "done"})

(* After cleanup() has set the flag every thread ends that does not sit in an
   endless task, unless notify_all found it between pred and the wait (block,
   lines 185-197). A thread that waited by then is woken.                   *)
ToldThreadsLeave ==
  \A t \in ThreadIds :
    \/ main = "notify" /\ pc[t] # "block"
    \/ main = "join" /\ pc[t] \notin {"block", "waiting"}
    ~> pc[t] \in {"none", "done"} \/ Engaged(t)

(* cleanup() sets the flag that pred tests and notifies everybody (lines 253
   and 254), for the joins to return: the destructor ends.                  *)
CleanupEnds == main = "die" ~> main = "gone"

=============================================================================
