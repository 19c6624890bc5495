---------------------------- MODULE ThreadPoolInv ---------------------------
(***************************************************************************)
(* The inductive invariants of the thread pool: what has to hold besides   *)
(* the properties of ThreadPool for one step to preserve them, and for one *)
(* step to be one of the board's.                                          *)
(***************************************************************************)
EXTENDS ThreadPool

(* Each add_task creates at most one thread, so that next_thread_id_ stays
   within ThreadIds; the threads created are those below it.                *)
ThreadsAreCounted ==
  /\ next_thread_id <= NumHot + next_task_id
  /\ \A t \in ThreadIds : pc[t] = "none" <=> t >= next_thread_id

(* tasks_mutex_ has one owner. *)
MutualExclusion ==
  \A s, t \in ThreadIds : pc[s] \in Holding /\ pc[t] \in Holding => s = t

(* An id that was not given out yet has left no trace. *)
IdsAreFresh ==
  \A id \in TaskIds :
    id >= next_task_id =>
      /\ tasks_threads[id] = Absent
      /\ outcome[id] = "none"
      /\ id \notin removed

(* A task is removed, or assigned, before it has an outcome. *)
OutcomeComesLast ==
  \A id \in TaskIds : tasks_threads[id] = None => outcome[id] = "none"

(* The queue holds every id once, and only ids without a thread. *)
QueueIsFresh ==
  /\ \A i \in 1 .. Len(tasks_queue) :
       /\ tasks_queue[i] < next_task_id
       /\ tasks_threads[tasks_queue[i]] = None
  /\ \A i, j \in 1 .. Len(tasks_queue) :
       tasks_queue[i] = tasks_queue[j] => i = j

(* The local variable task of thread_run. *)
TaskIsLocal ==
  \A t \in ThreadIds : task[t] # None <=> pc[t] \in {"run", "unassign"}

(* A removed task keeps its entry in tasks_threads_, and its mark for as long
   as it is in the queue.                                                   *)
RemovedIsMarked ==
  \A id \in removed :
    /\ outcome[id] = "none"
    /\ tasks_threads[id] = None
    /\ \A i \in 1 .. Len(tasks_queue) :
         tasks_queue[i] = id => id \in tasks_to_cancel

(* The request that run_task will hear of is for its own task. *)
RequestIsForTask ==
  \A t \in ThreadIds :
    interrupted[t] /\ pc[t] = "run" => task[t] \in terminated

(* What a thread inside assign_task knows of the queue while it holds the
   mutex, and who comes back from a timed_wait.                             *)
HoldersKnow ==
  \A t \in ThreadIds :
    /\ pc[t] = "block" => tasks_queue = <<>>
    /\ pc[t] = "timedout" => ~Hot(t)
    /\ pc[t] = "check" /\ Hot(t) => time_to_die \/ tasks_queue # <<>>

(* The conjunction that every step of the pool preserves, whatever the
   interleaving of the critical sections of tasks_mutex_.                   *)
IInv ==
  /\ TypeOK
  /\ ThreadsAreCounted
  /\ MutualExclusion
  /\ IdleIsExact
  /\ TaskIsLocal
  /\ AssignmentIsExact
  /\ IdsAreFresh
  /\ OutcomeComesLast
  /\ QueueIsFresh
  /\ RemovedIsMarked
  /\ InterruptionNeverReachesWait
  /\ RequestIsForTask
  /\ CanceledWasAsked
  /\ HoldersKnow
  /\ HotThreadsStay
  /\ NoMissedWakeup

-----------------------------------------------------------------------------
(* What ThreadPoolBoard's mapping needs besides IInv for a step of the pool to be
   a step of the board, or none at all.                                     *)

(* First in, first out: the ids of the queue ascend. *)
QueueAscends ==
  \A i, j \in 1 .. Len(tasks_queue) : i < j => tasks_queue[i] < tasks_queue[j]

(* A task without a thread waits in the queue, unless it was removed or the
   queue was cleared.                                                       *)
NothingIsLost ==
  main = "client" =>
    \A id \in TaskIds : tasks_threads[id] = None => InQueue(id) \/ id \in removed

(* Only what was answered REMOVED_FROM_QUEUE is skipped. *)
MarksAreRemovals == tasks_to_cancel \subseteq removed

(* The answer TERMINATED is for a task that got a thread, which has heard of it
   while it is in run_task.                                                  *)
TerminatedHasThread ==
  /\ \A id \in terminated : id < next_task_id /\ tasks_threads[id] # None
  /\ \A t \in ThreadIds :
       pc[t] = "run" /\ task[t] \in terminated => interrupted[t]

(* A task has an outcome from the end of run_task on. *)
OutcomeIsTimely ==
  \A t \in ThreadIds :
    /\ pc[t] = "run" => outcome[task[t]] = "none"
    /\ pc[t] = "unassign" => outcome[task[t]] # "none"

(* The queue, the table, the marks and the answers given agree, after every step,
   on where each task is.                                                   *)
BoardInv ==
  /\ IInv
  /\ QueueAscends
  /\ NothingIsLost
  /\ MarksAreRemovals
  /\ TerminatedHasThread
  /\ OutcomeIsTimely

=============================================================================
