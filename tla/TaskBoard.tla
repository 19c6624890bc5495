------------------------------ MODULE TaskBoard -----------------------------
(***************************************************************************)
(* What a client of the thread pool may rely on, without threads, locks or *)
(* wakeups: the life of every task, and what each answer of cancel_task    *)
(* means for it. The answer is part of the state, so that a step that      *)
(* gives one is a step of the board even if it changes nothing else.       *)
(*                                                                         *)
(*   - Tasks start in the order they were added, each of them once.        *)
(*   - REMOVED_FROM_QUEUE: the task never starts. It was waiting until     *)
(*     now, or else it had been removed before: the answer does not tell.  *)
(*   - TERMINATED: the task had started. If it was still running it is     *)
(*     canceled, not finished; a later request changes nothing.            *)
(*   - NOT_FOUND: the task neither waits nor runs.                         *)
(*   - A task is canceled only on request.                                 *)
(*   - Closing the pool drops what still waits, and what runs runs on.     *)
(***************************************************************************)
EXTENDS Integers

CONSTANT Ids    \* the task ids, integers, in the order they are given out

VARIABLES
  status,     \* task id -> one of Statuses
  requested,  \* the started tasks whose cancellation was asked for
  closed,     \* the pool is being destroyed
  answer      \* what the last step has returned, if it was a call of cancel_task

boardVars == <<status, requested, closed, answer>>

Statuses == {"unknown", "queued", "removed", "dropped", "running", "finished",
             "canceled"}

Reply(id, result) == [task |-> id, result |-> result]
NoReply == Reply(-1, "none")

Answer(id, result) == answer' = Reply(id, result)
NoAnswer == answer' = NoReply

Move(id, from, to) ==
  /\ status[id] = from
  /\ status' = [status EXCEPT ![id] = to]

Init ==
  /\ status = [id \in Ids |-> "unknown"]
  /\ requested = {}
  /\ closed = FALSE
  /\ answer = NoReply

(* Ids are given out in ascending order. *)
Submit(id) ==
  /\ ~closed
  /\ \A j \in Ids : j < id => status[j] # "unknown"
  /\ Move(id, "unknown", "queued")
  /\ NoAnswer
  /\ UNCHANGED <<requested, closed>>

Remove(id) ==
  /\ ~closed
  /\ Move(id, "queued", "removed")
  /\ Answer(id, "REMOVED_FROM_QUEUE")
  /\ UNCHANGED <<requested, closed>>

(* The answer that a task which is in no queue should not get, but may: the
   entry of tasks_threads_ outlives it.                                     *)
RemoveAgain(id) ==
  /\ ~closed
  /\ status[id] = "removed"
  /\ Answer(id, "REMOVED_FROM_QUEUE")
  /\ UNCHANGED <<status, requested, closed>>

Request(id) ==
  /\ ~closed
  /\ status[id] \in {"running", "finished", "canceled"}
  /\ Answer(id, "TERMINATED")
  /\ requested' = requested \cup {id}
  /\ UNCHANGED <<status, closed>>

Miss(id) ==
  /\ ~closed
  /\ status[id] \notin {"queued", "running"}
  /\ Answer(id, "NOT_FOUND")
  /\ UNCHANGED <<status, requested, closed>>

(* First in, first out: a removed task lets the next one pass. *)
Start(id) ==
  /\ \A j \in Ids : j < id => status[j] # "queued"
  /\ Move(id, "queued", "running")
  /\ NoAnswer
  /\ UNCHANGED <<requested, closed>>

Complete(id) ==
  /\ id \notin requested
  /\ Move(id, "running", "finished")
  /\ NoAnswer
  /\ UNCHANGED <<requested, closed>>

Abort(id) ==
  /\ id \in requested
  /\ Move(id, "running", "canceled")
  /\ NoAnswer
  /\ UNCHANGED <<requested, closed>>

Close ==
  /\ ~closed
  /\ closed' = TRUE
  /\ NoAnswer
  /\ status' = [id \in Ids |-> IF status[id] = "queued" THEN "dropped"
                                                        ELSE status[id]]
  /\ UNCHANGED requested

(* An answer is there for one step: then the client, or a thread, goes on. *)
GoOn == NoAnswer /\ UNCHANGED <<status, requested, closed>>

Next ==
  \/ Close \/ GoOn
  \/ \E id \in Ids :
       \/ Submit(id) \/ Start(id) \/ Complete(id) \/ Abort(id)
       \/ Remove(id) \/ RemoveAgain(id) \/ Request(id) \/ Miss(id)

Spec == Init /\ [][Next]_boardVars

=============================================================================
