--------------------------- MODULE ThreadPoolBoard --------------------------
(***************************************************************************)
(* The thread pool implements TaskBoard: a client cannot tell the two      *)
(* apart, whatever the interleaving of the threads.                        *)
(*                                                                         *)
(* cancel_task answers without changing anything, or with a change that    *)
(* does not tell what it answered. So a history variable is added to the   *)
(* pool, which holds the answer for one step.                              *)
(***************************************************************************)
EXTENDS ThreadPoolInv

VARIABLE answer

(* The mapping. run_task's return decides between "finished" and "canceled";
   the thread clears tasks_threads_ later.                                  *)
Status(id) ==
  IF outcome[id] # "none" THEN outcome[id]
  ELSE IF tasks_threads[id] \in ThreadIds THEN "running"
  ELSE IF id \in removed THEN "removed"
  ELSE IF InQueue(id) THEN "queued"
  ELSE IF id < next_task_id THEN "dropped"
  ELSE "unknown"

Board == INSTANCE TaskBoard WITH
  Ids <- TaskIds,
  status <- [id \in TaskIds |-> Status(id)],
  requested <- terminated,
  closed <- main # "client"

(* cancel_task, with what it returns. *)
CancelTask(id) ==
  \/ CancelNotFound(id) /\ Board!Answer(id, "NOT_FOUND")
  \/ CancelRunning(id) /\ Board!Answer(id, "TERMINATED")
  \/ CancelQueued(id) /\ Board!Answer(id, "REMOVED_FROM_QUEUE")

OtherStep ==
  /\ \/ AddTask \/ ClearQueue \/ CleanupStep
     \/ \E t \in ThreadIds : ThreadStep(t) \/ SpuriousWakeup(t)
  /\ Board!NoAnswer

AnsweredInit == Init /\ answer = Board!NoReply
AnsweredNext == OtherStep \/ \E id \in TaskIds : CancelTask(id)
AnsweredSpec == AnsweredInit /\ [][AnsweredNext]_<<vars, answer>>

(* Every behaviour of the pool with its answers is one of TaskBoard: the start
   order, the effect of the destructor, and for each answer of cancel_task what
   the task it is given for was, and what can become of it.                 *)
ImplementsBoard == Board!Spec

=============================================================================
