-------------------------- MODULE ThreadPoolProofs --------------------------
(***************************************************************************)
(* Theorems about the thread pool, for every number of hot threads and of  *)
(* tasks. IInv of ThreadPoolInv is inductive: the lemmas show one conjunct *)
(* each to be preserved by every step, and the theorems read off the       *)
(* properties.                                                             *)
(*                                                                         *)
(* Then BoardInv of ThreadPoolBoard is inductive, and from it each step of *)
(* the pool is one step of TaskBoard or leaves the board as it is.         *)
(***************************************************************************)
EXTENDS ThreadPoolBoard, FiniteSetTheorems, TLAPS

(* What notify_one may do to the locations of the threads. *)
LEMMA NotifyOneWakes ==
  ASSUME NEW p \in [ThreadIds -> ThreadStates], NEW q \in NotifyOne(p)
  PROVE  \/ /\ q = p
            /\ \A t \in ThreadIds : p[t] # "waiting"
         \/ \E w \in ThreadIds : p[w] = "waiting" /\ q = [p EXCEPT ![w] = "woken"]
BY DEF NotifyOne, Waiters, Wake

LEMMA NotifyOneType ==
  ASSUME NEW p \in [ThreadIds -> ThreadStates], NEW q \in NotifyOne(p)
  PROVE  q \in [ThreadIds -> ThreadStates]
BY NotifyOneWakes DEF ThreadStates

(* A new thread gets an id of ThreadIds. *)
LEMMA NewThreadId ==
  ASSUME TypeOK, ThreadsAreCounted, next_task_id < MaxTasks
  PROVE  next_thread_id \in ThreadIds
BY ConstantsAssumption DEF TypeOK, ThreadsAreCounted, ThreadIds

LEMMA TypeStep ==
  ASSUME TypeOK, ThreadsAreCounted, [Next]_vars
  PROVE  TypeOK'
<1> USE DEF TypeOK
<1>1. CASE AddTask
  <2>1. next_task_id \in TaskIds
    BY <1>1, ConstantsAssumption DEF AddTask, TaskIds
  <2>2. pc' \in [ThreadIds -> ThreadStates]
    <3>1. [pc EXCEPT ![next_thread_id] = "loop"] \in [ThreadIds -> ThreadStates]
      BY DEF ThreadStates
    <3> QED BY <1>1, <3>1, NotifyOneType DEF AddTask
  <2>3. tasks_queue' \in Seq(TaskIds)
    BY <1>1, <2>1 DEF AddTask, Push, NewTaskId
  <2>4. next_thread_id' \in NumHot .. NumHot + MaxTasks /\ idle_threads' \subseteq ThreadIds
    <3>1. next_task_id < MaxTasks
      BY <1>1 DEF AddTask
    <3>2. next_thread_id \in ThreadIds
      BY <3>1, NewThreadId
    <3>3. next_thread_id + 1 \in NumHot .. NumHot + MaxTasks
      BY <3>1, ConstantsAssumption DEF ThreadsAreCounted
    <3> QED BY <1>1, <3>2, <3>3 DEF AddTask
  <2> QED
    BY <1>1, <2>1, <2>2, <2>3, <2>4, ConstantsAssumption DEF AddTask, NewTaskId, answers
<1>2. CASE \E id \in TaskIds : CancelRunning(id) \/ CancelQueued(id)
  BY <1>2 DEF CancelRunning, CancelQueued, Interrupt, registry, counters, answers
<1>3. CASE ClearQueue \/ CleanupStep
  <2>1. CASE ClearQueue
    BY <2>1 DEF ClearQueue, counters, answers
  <2>2. CASE SetTimeToDie \/ Join
    BY <2>2 DEF SetTimeToDie, Join, registry, counters, answers
  <2>3. CASE NotifyAll
    BY <2>3 DEF NotifyAll, WakeAll, ThreadStates, registry, counters, answers
  <2> QED BY <1>3, <2>1, <2>2, <2>3 DEF CleanupStep
<1>4. ASSUME NEW t \in ThreadIds, ThreadStep(t) \/ SpuriousWakeup(t) PROVE TypeOK'
  <2>1. CASE EnterLoop(t) \/ LeaveLoop(t) \/ Lock(t) \/ EvalPred(t) \/ Wait(t)
               \/ TimeOut(t) \/ Relock(t) \/ ReturnNone(t)
    BY <2>1 DEF EnterLoop, LeaveLoop, Lock, EvalPred, Wait, TimeOut, Relock,
                ReturnNone, Goto, ForgetInterruption, AfterWakeup, AfterTimeout,
                ThreadStates, Holding, threadRest, registry, counters, answers
  <2>2. CASE SpuriousWakeup(t)
    BY <2>2, ConstantsAssumption
       DEF SpuriousWakeup, Goto, ThreadStates, threadRest, registry, counters, answers
  <2>3. CASE SkipCancelled(t) \/ AssignTask(t)
    <3>1. Head(tasks_queue) \in TaskIds /\ Tail(tasks_queue) \in Seq(TaskIds)
      BY <2>3 DEF SkipCancelled, AssignTask
    <3>2. CASE SkipCancelled(t)
      BY <3>1, <3>2 DEF SkipCancelled, Goto, ThreadStates, Holding, counters, answers
    <3>3. CASE AssignTask(t)
      BY <3>1, <3>3 DEF AssignTask, Goto, ThreadStates, counters, answers
    <3> QED BY <2>3, <3>2, <3>3
  <2>4. CASE Finish(t) \/ TakeInterruption(t) \/ UnassignTask(t) \/ Leave(t)
    BY <2>4 DEF Finish, TakeInterruption, UnassignTask, EraseEntry, Leave, Goto,
                ThreadStates, registry, counters, answers
  <2> QED BY <1>4, <2>1, <2>2, <2>3, <2>4 DEF ThreadStep
<1>5. CASE UNCHANGED vars
  BY <1>5 DEF vars, registry, counters, answers
<1> QED
  BY <1>1, <1>2, <1>3, <1>4, <1>5 DEF Next, ClientStep, CancelNotFound

-----------------------------------------------------------------------------
(* What the steps do to the locations of the threads. *)

(* add_task wakes a waiting thread or starts a new one; it moves no other. *)
LEMMA AddTaskMoves ==
  ASSUME TypeOK, ThreadsAreCounted, AddTask, NEW t \in ThreadIds
  PROVE  \/ pc'[t] = pc[t] /\ ~(CreateThread /\ t = next_thread_id)
         \/ pc[t] = "waiting" /\ pc'[t] = "woken"
         \/ CreateThread /\ t = next_thread_id /\ pc[t] = "none" /\ pc'[t] = "loop"
<1>1. next_thread_id \in ThreadIds
  BY NewThreadId DEF AddTask
<1>2. pc[next_thread_id] = "none"
  BY <1>1 DEF ThreadsAreCounted, TypeOK
<1>3. CASE CreateThread
  <2> DEFINE p == [pc EXCEPT ![next_thread_id] = "loop"]
  <2>1. p \in [ThreadIds -> ThreadStates] /\ pc' \in NotifyOne(p)
    BY <1>3 DEF AddTask, TypeOK, ThreadStates
  <2>2. p[t] = IF t = next_thread_id THEN "loop" ELSE pc[t]
    BY DEF TypeOK
  <2> HIDE DEF p
  <2>3. pc'[t] = p[t] \/ (p[t] = "waiting" /\ pc'[t] = "woken")
    BY <2>1, NotifyOneWakes
  <2> QED BY <1>2, <1>3, <2>2, <2>3
<1>4. CASE ~CreateThread
  BY <1>4, NotifyOneWakes DEF AddTask, TypeOK
<1> QED BY <1>3, <1>4

(* A step of a thread moves this thread only, and not from nor to "none". *)
LEMMA OthersStay ==
  ASSUME TypeOK, NEW t \in ThreadIds, ThreadStep(t) \/ SpuriousWakeup(t)
  PROVE  /\ pc' = [pc EXCEPT ![t] = pc'[t]]
         /\ pc[t] # "none" /\ pc'[t] # "none"
         /\ UNCHANGED <<next_task_id, next_thread_id, time_to_die, removed, terminated>>
BY DEF TypeOK, ThreadStep, SpuriousWakeup, EnterLoop, LeaveLoop, Lock, EvalPred,
       Wait, TimeOut, Relock, ReturnNone, SkipCancelled, AssignTask, Finish,
       TakeInterruption, UnassignTask, Leave, Goto, AfterWakeup, AfterTimeout,
       threadRest, counters, answers

(* Nobody gets the mutex while somebody else has it. *)
LEMMA AcquiresFreeMutex ==
  ASSUME NEW t \in ThreadIds, TypeOK, ThreadStep(t) \/ SpuriousWakeup(t),
         pc'[t] \in Holding
  PROVE  pc[t] \in Holding \/ MutexFree
BY DEF TypeOK, ThreadStep, SpuriousWakeup, EnterLoop, LeaveLoop, Lock, EvalPred,
       Wait, TimeOut, Relock, ReturnNone, SkipCancelled, AssignTask, Finish,
       TakeInterruption, UnassignTask, Leave, Goto, AfterWakeup, AfterTimeout,
       Holding

(* The client moves no thread outside add_task and the notify_all of cleanup. *)
LEMMA ClientMovesNobody ==
  ASSUME \/ \E id \in TaskIds : CancelRunning(id) \/ CancelQueued(id)
         \/ ClearQueue \/ SetTimeToDie \/ Join
         \/ UNCHANGED vars
  PROVE  /\ pc' = pc /\ task' = task
         /\ UNCHANGED <<next_task_id, next_thread_id, idle_threads, outcome,
                        tasks_threads>>
BY DEF CancelRunning, CancelQueued, ClearQueue, SetTimeToDie, Join, vars,
       registry, counters

-----------------------------------------------------------------------------
(* One conjunct of IInv after the other. *)

LEMMA CountedStep ==
  ASSUME TypeOK, ThreadsAreCounted, [Next]_vars
  PROVE  ThreadsAreCounted'
<1>1. CASE AddTask
  <2>1. next_thread_id' \in {next_thread_id, next_thread_id + 1}
    BY <1>1 DEF AddTask
  <2>2. next_thread_id' <= NumHot + next_task_id'
    BY <1>1, <2>1, ConstantsAssumption DEF AddTask, TypeOK, ThreadsAreCounted
  <2>3. ASSUME NEW t \in ThreadIds
        PROVE  pc'[t] = "none" <=> t >= next_thread_id'
    <3>1. CASE CreateThread
      <4>1. next_thread_id' = next_thread_id + 1
        BY <1>1, <3>1 DEF AddTask
      <4> QED
        BY <1>1, <3>1, <4>1, AddTaskMoves, ConstantsAssumption
           DEF ThreadsAreCounted, TypeOK, ThreadIds
    <3>2. CASE ~CreateThread
      <4>1. next_thread_id' = next_thread_id
        BY <1>1, <3>2 DEF AddTask
      <4> QED
        BY <1>1, <3>2, <4>1, AddTaskMoves DEF ThreadsAreCounted
    <3> QED BY <3>1, <3>2
  <2> QED BY <2>2, <2>3 DEF ThreadsAreCounted
<1>2. CASE NotifyAll
  BY <1>2 DEF NotifyAll, WakeAll, TypeOK, ThreadsAreCounted, counters
<1>3. ASSUME NEW t \in ThreadIds, ThreadStep(t) \/ SpuriousWakeup(t)
      PROVE  ThreadsAreCounted'
  BY <1>3, OthersStay DEF ThreadsAreCounted, TypeOK
<1>4. CASE \/ \E id \in TaskIds : CancelRunning(id) \/ CancelQueued(id)
           \/ ClearQueue \/ SetTimeToDie \/ Join
           \/ UNCHANGED vars
  BY <1>4, ClientMovesNobody DEF ThreadsAreCounted
<1> QED
  BY <1>1, <1>2, <1>3, <1>4 DEF Next, ClientStep, CancelNotFound, CleanupStep

LEMMA MutexStep ==
  ASSUME TypeOK, ThreadsAreCounted, MutualExclusion, [Next]_vars
  PROVE  MutualExclusion'
<1>1. CASE AddTask
  <2>1. \A t \in ThreadIds : pc'[t] \in Holding => pc[t] \in Holding
    BY <1>1, AddTaskMoves DEF Holding
  <2> QED BY <2>1 DEF MutualExclusion
<1>2. CASE NotifyAll
  BY <1>2 DEF NotifyAll, WakeAll, MutualExclusion, Holding
<1>3. ASSUME NEW t \in ThreadIds, ThreadStep(t) \/ SpuriousWakeup(t)
      PROVE  MutualExclusion'
  <2>1. \A s \in ThreadIds : s # t => pc'[s] = pc[s]
    BY <1>3, OthersStay DEF TypeOK
  <2>2. pc'[t] \in Holding => pc[t] \in Holding \/ MutexFree
    BY <1>3, AcquiresFreeMutex
  <2> QED BY <2>1, <2>2 DEF MutualExclusion, MutexFree
<1>4. CASE \/ \E id \in TaskIds : CancelRunning(id) \/ CancelQueued(id)
           \/ ClearQueue \/ SetTimeToDie \/ Join
           \/ UNCHANGED vars
  BY <1>4, ClientMovesNobody DEF MutualExclusion
<1> QED
  BY <1>1, <1>2, <1>3, <1>4 DEF Next, ClientStep, CancelNotFound, CleanupStep

LEMMA IdleStep ==
  ASSUME TypeOK, ThreadsAreCounted, IdleIsExact, [Next]_vars
  PROVE  IdleIsExact'
<1> DEFINE Away == {"none", "run", "unassign", "done"}
<1> SUFFICES ASSUME NEW s \in ThreadIds
             PROVE  s \in idle_threads' <=> pc'[s] \notin Away
  BY TypeStep DEF TypeOK, IdleIsExact
<1>0. s \in idle_threads <=> pc[s] \notin Away
  BY DEF IdleIsExact
<1>1. CASE AddTask
  <2>1. CASE CreateThread
    <3>1. idle_threads' = idle_threads \cup {next_thread_id}
      BY <1>1, <2>1 DEF AddTask
    <3> QED BY <1>0, <1>1, <2>1, <3>1, AddTaskMoves
  <2>2. CASE ~CreateThread
    <3>1. idle_threads' = idle_threads
      BY <1>1, <2>2 DEF AddTask
    <3> QED BY <1>0, <1>1, <2>2, <3>1, AddTaskMoves
  <2> QED BY <2>1, <2>2
<1>2. CASE NotifyAll
  BY <1>0, <1>2 DEF NotifyAll, WakeAll
<1>3. ASSUME NEW t \in ThreadIds, ThreadStep(t) \/ SpuriousWakeup(t)
      PROVE  s \in idle_threads' <=> pc'[s] \notin Away
  <2>1. CASE EnterLoop(t) \/ LeaveLoop(t) \/ Lock(t) \/ EvalPred(t) \/ Wait(t)
               \/ TimeOut(t) \/ Relock(t) \/ ReturnNone(t) \/ SpuriousWakeup(t)
    BY <1>0, <2>1
       DEF EnterLoop, LeaveLoop, Lock, EvalPred, Wait, TimeOut, Relock, ReturnNone,
           SpuriousWakeup, Goto, AfterWakeup, AfterTimeout, threadRest, TypeOK
  <2>2. CASE SkipCancelled(t) \/ AssignTask(t)
    BY <1>0, <2>2 DEF SkipCancelled, AssignTask, Goto, TypeOK
  <2>3. CASE Finish(t) \/ TakeInterruption(t) \/ UnassignTask(t) \/ Leave(t)
    BY <1>0, <2>3 DEF Finish, TakeInterruption, UnassignTask, Leave, Goto, TypeOK
  <2> QED BY <1>3, <2>1, <2>2, <2>3 DEF ThreadStep
<1>4. CASE \/ \E id \in TaskIds : CancelRunning(id) \/ CancelQueued(id)
           \/ ClearQueue \/ SetTimeToDie \/ Join
           \/ UNCHANGED vars
  BY <1>0, <1>4, ClientMovesNobody
<1> QED
  BY <1>1, <1>2, <1>3, <1>4 DEF Next, ClientStep, CancelNotFound, CleanupStep

(* Only assign_task and unassign_task write a thread's local task. *)
LEMMA TaskIsLocalStep ==
  ASSUME TypeOK, ThreadsAreCounted, TaskIsLocal, [Next]_vars
  PROVE  TaskIsLocal'
<1>1. CASE AddTask
  <2>1. task' = task
    BY <1>1 DEF AddTask
  <2> QED BY <1>1, <2>1, AddTaskMoves DEF TaskIsLocal
<1>2. CASE NotifyAll
  BY <1>2 DEF NotifyAll, WakeAll, TaskIsLocal
<1>3. ASSUME NEW t \in ThreadIds, ThreadStep(t) \/ SpuriousWakeup(t)
      PROVE  TaskIsLocal'
  <2>1. CASE EnterLoop(t) \/ LeaveLoop(t) \/ Lock(t) \/ EvalPred(t) \/ Wait(t)
               \/ TimeOut(t) \/ Relock(t) \/ ReturnNone(t) \/ SpuriousWakeup(t)
    BY <2>1
       DEF EnterLoop, LeaveLoop, Lock, EvalPred, Wait, TimeOut, Relock, ReturnNone,
           SpuriousWakeup, Goto, AfterWakeup, AfterTimeout, TypeOK, TaskIsLocal
  <2>2. CASE SkipCancelled(t) \/ Finish(t) \/ TakeInterruption(t) \/ Leave(t)
    BY <2>2 DEF SkipCancelled, Finish, TakeInterruption, Leave, Goto, TypeOK,
                TaskIsLocal
  <2>3. CASE AssignTask(t)
    <3>1. Head(tasks_queue) \in TaskIds
      BY <2>3 DEF AssignTask, TypeOK
    <3>2. Head(tasks_queue) # None
      BY <3>1, ConstantsAssumption
    <3> QED BY <2>3, <3>2 DEF AssignTask, Goto, TypeOK, TaskIsLocal
  <2>4. CASE UnassignTask(t)
    BY <2>4 DEF UnassignTask, Goto, TypeOK, TaskIsLocal
  <2> QED BY <1>3, <2>1, <2>2, <2>3, <2>4 DEF ThreadStep
<1>4. CASE \/ \E id \in TaskIds : CancelRunning(id) \/ CancelQueued(id)
           \/ ClearQueue \/ SetTimeToDie \/ Join
           \/ UNCHANGED vars
  BY <1>4, ClientMovesNobody DEF TaskIsLocal
<1> QED
  BY <1>1, <1>2, <1>3, <1>4 DEF Next, ClientStep, CancelNotFound, CleanupStep

(* The front of a queue without duplicates, as assign_task meets it. *)
LEMMA QueueFront ==
  ASSUME TypeOK, QueueIsFresh, tasks_queue # <<>>
  PROVE  /\ Head(tasks_queue) \in TaskIds
         /\ Head(tasks_queue) < next_task_id
         /\ tasks_threads[Head(tasks_queue)] = None
         /\ Tail(tasks_queue) \in Seq(TaskIds)
         /\ Len(Tail(tasks_queue)) = Len(tasks_queue) - 1
         /\ Len(Tail(tasks_queue)) \in Nat
         /\ \A i \in 1 .. Len(Tail(tasks_queue)) :
              /\ i + 1 \in 1 .. Len(tasks_queue)
              /\ Tail(tasks_queue)[i] = tasks_queue[i + 1]
              /\ Tail(tasks_queue)[i] # Head(tasks_queue)
<1>1. Len(tasks_queue) \in Nat /\ Len(tasks_queue) > 0
  BY DEF TypeOK
<1>2. Head(tasks_queue) = tasks_queue[1]
  BY DEF TypeOK
<1>3. /\ Head(tasks_queue) \in TaskIds
      /\ Tail(tasks_queue) \in Seq(TaskIds)
      /\ Len(Tail(tasks_queue)) = Len(tasks_queue) - 1
  BY DEF TypeOK
<1>4. Head(tasks_queue) < next_task_id /\ tasks_threads[Head(tasks_queue)] = None
  BY <1>1, <1>2 DEF QueueIsFresh
<1>5. ASSUME NEW i \in 1 .. Len(Tail(tasks_queue))
      PROVE  /\ i + 1 \in 1 .. Len(tasks_queue)
             /\ Tail(tasks_queue)[i] = tasks_queue[i + 1]
             /\ Tail(tasks_queue)[i] # Head(tasks_queue)
  <2>1. i + 1 \in 1 .. Len(tasks_queue) /\ i + 1 # 1 /\ 1 \in 1 .. Len(tasks_queue)
    BY <1>1, <1>3
  <2>2. Tail(tasks_queue)[i] = tasks_queue[i + 1]
    BY <1>3, <2>1 DEF TypeOK
  <2> QED BY <1>2, <2>1, <2>2 DEF QueueIsFresh
<1> QED BY <1>1, <1>3, <1>4, <1>5

LEMMA AssignmentStep ==
  ASSUME TypeOK, ThreadsAreCounted, TaskIsLocal, AssignmentIsExact, IdsAreFresh,
         QueueIsFresh, [Next]_vars
  PROVE  AssignmentIsExact'
<1> SUFFICES ASSUME NEW id \in TaskIds, NEW s \in ThreadIds
             PROVE  tasks_threads'[id] = s
                      <=> pc'[s] \in {"run", "unassign"} /\ task'[s] = id
  BY DEF AssignmentIsExact
<1>0. tasks_threads[id] = s <=> pc[s] \in {"run", "unassign"} /\ task[s] = id
  BY DEF AssignmentIsExact
<1>1. CASE AddTask
  <2>1. task' = task /\ tasks_threads' = [tasks_threads EXCEPT ![next_task_id] = None]
    BY <1>1 DEF AddTask, NewTaskId
  <2>2. pc'[s] \in {"run", "unassign"} <=> pc[s] \in {"run", "unassign"}
    BY <1>1, AddTaskMoves
  <2>3. CASE id = next_task_id
    <3>1. tasks_threads[id] = Absent
      BY <2>3 DEF IdsAreFresh, TypeOK
    <3> QED BY <1>0, <2>1, <2>2, <2>3, <3>1, ConstantsAssumption DEF TypeOK
  <2>4. CASE id # next_task_id
    BY <1>0, <2>1, <2>2, <2>4 DEF TypeOK
  <2> QED BY <2>3, <2>4
<1>2. CASE NotifyAll
  BY <1>0, <1>2 DEF NotifyAll, WakeAll, registry
<1>3. ASSUME NEW t \in ThreadIds, ThreadStep(t) \/ SpuriousWakeup(t)
      PROVE  tasks_threads'[id] = s
               <=> pc'[s] \in {"run", "unassign"} /\ task'[s] = id
  <2>1. CASE EnterLoop(t) \/ LeaveLoop(t) \/ Lock(t) \/ EvalPred(t) \/ Wait(t)
               \/ TimeOut(t) \/ Relock(t) \/ ReturnNone(t) \/ SpuriousWakeup(t)
    BY <1>0, <2>1
       DEF EnterLoop, LeaveLoop, Lock, EvalPred, Wait, TimeOut, Relock, ReturnNone,
           SpuriousWakeup, Goto, AfterWakeup, AfterTimeout, threadRest, registry, TypeOK
  <2>2. CASE SkipCancelled(t) \/ Finish(t) \/ TakeInterruption(t) \/ Leave(t)
    BY <1>0, <2>2 DEF SkipCancelled, Finish, TakeInterruption, Leave, Goto, registry,
                      TypeOK
  <2>3. CASE AssignTask(t)
    <3> DEFINE h == Head(tasks_queue)
    <3>1. h \in TaskIds /\ tasks_threads[h] = None /\ None \notin ThreadIds
      BY <2>3, QueueFront, ConstantsAssumption DEF AssignTask
    <3>2. /\ pc[t] = "check" /\ pc' = [pc EXCEPT ![t] = "run"]
          /\ task' = [task EXCEPT ![t] = h]
          /\ tasks_threads' = [tasks_threads EXCEPT ![h] = t]
      BY <2>3 DEF AssignTask, Goto
    <3> HIDE DEF h
    <3> QED BY <1>0, <3>1, <3>2 DEF TypeOK, AssignmentIsExact
  <2>4. CASE UnassignTask(t)
    <3>1. task[t] \in TaskIds
      BY <2>4 DEF UnassignTask, Goto, TaskIsLocal, TypeOK
    <3>2. tasks_threads[task[t]] = t
      BY <2>4, <3>1 DEF UnassignTask, Goto, AssignmentIsExact
    <3> QED
      BY <1>0, <2>4, <3>1, <3>2, ConstantsAssumption
         DEF UnassignTask, EraseEntry, Goto, TypeOK
  <2> QED BY <1>3, <2>1, <2>2, <2>3, <2>4 DEF ThreadStep
<1>4. CASE \/ \E i \in TaskIds : CancelRunning(i) \/ CancelQueued(i)
           \/ ClearQueue \/ SetTimeToDie \/ Join
           \/ UNCHANGED vars
  BY <1>0, <1>4, ClientMovesNobody
<1> QED
  BY <1>1, <1>2, <1>3, <1>4 DEF Next, ClientStep, CancelNotFound, CleanupStep

(* The steps of a thread that do not touch a task nor the registry. *)
LEMMA QuietSteps ==
  ASSUME NEW t \in ThreadIds,
         EnterLoop(t) \/ LeaveLoop(t) \/ Lock(t) \/ EvalPred(t) \/ Wait(t)
           \/ TimeOut(t) \/ Relock(t) \/ ReturnNone(t) \/ SpuriousWakeup(t)
  PROVE  UNCHANGED <<task, tasks_threads, tasks_queue, tasks_to_cancel, next_task_id,
                     next_thread_id, outcome, removed, terminated, main>>
BY DEF EnterLoop, LeaveLoop, Lock, EvalPred, Wait, TimeOut, Relock, ReturnNone,
       SpuriousWakeup, threadRest, registry, counters, answers

LEMMA FreshStep ==
  ASSUME TypeOK, TaskIsLocal, AssignmentIsExact, IdsAreFresh, QueueIsFresh, [Next]_vars
  PROVE  IdsAreFresh'
<1> SUFFICES ASSUME NEW id \in TaskIds, id >= next_task_id'
             PROVE  /\ tasks_threads'[id] = Absent
                    /\ outcome'[id] = "none"
                    /\ id \notin removed'
  BY DEF IdsAreFresh
<1>0. id >= next_task_id =>
        tasks_threads[id] = Absent /\ outcome[id] = "none" /\ id \notin removed
  BY DEF IdsAreFresh
<1>1. CASE AddTask
  BY <1>0, <1>1 DEF AddTask, NewTaskId, TaskIds, TypeOK, answers
<1>2. CASE NotifyAll
  BY <1>0, <1>2 DEF NotifyAll, registry, counters, answers
<1>3. ASSUME NEW t \in ThreadIds, ThreadStep(t) \/ SpuriousWakeup(t)
      PROVE  /\ tasks_threads'[id] = Absent
             /\ outcome'[id] = "none"
             /\ id \notin removed'
  <2>0. next_task_id' = next_task_id /\ removed' = removed
    BY <1>3, OthersStay
  <2>1. CASE EnterLoop(t) \/ LeaveLoop(t) \/ Lock(t) \/ EvalPred(t) \/ Wait(t)
               \/ TimeOut(t) \/ Relock(t) \/ ReturnNone(t) \/ SpuriousWakeup(t)
    BY <1>0, <2>1, QuietSteps
  <2>2. CASE SkipCancelled(t) \/ Leave(t)
    BY <1>0, <2>0, <2>2 DEF SkipCancelled, Leave, registry
  <2>3. CASE AssignTask(t)
    <3>1. Head(tasks_queue) # id
      BY <2>0, <2>3, QueueFront DEF AssignTask, TaskIds, TypeOK
    <3> QED BY <1>0, <2>0, <2>3, <3>1 DEF AssignTask, TypeOK
  <2>4. CASE Finish(t) \/ TakeInterruption(t)
    <3>1. pc[t] = "run"
      BY <2>4 DEF Finish, TakeInterruption, Goto
    <3>2. task[t] = id => tasks_threads[id] = t
      BY <3>1 DEF AssignmentIsExact
    <3>3. task[t] # id
      BY <1>0, <2>0, <3>2, ConstantsAssumption
    <3> QED
      BY <1>0, <2>0, <2>4, <3>3 DEF Finish, TakeInterruption, registry, TypeOK
  <2>5. CASE UnassignTask(t)
    BY <1>0, <2>0, <2>5 DEF UnassignTask, EraseEntry, TypeOK
  <2> QED BY <1>3, <2>1, <2>2, <2>3, <2>4, <2>5 DEF ThreadStep
<1>4. CASE \/ \E i \in TaskIds : CancelRunning(i)
           \/ ClearQueue \/ SetTimeToDie \/ Join
           \/ UNCHANGED vars
  <2>1. removed' = removed
    BY <1>4 DEF CancelRunning, ClearQueue, SetTimeToDie, Join, vars, answers
  <2> QED BY <1>0, <1>4, <2>1, ClientMovesNobody
<1>5. ASSUME NEW i \in TaskIds, CancelQueued(i)
      PROVE  /\ tasks_threads'[id] = Absent
             /\ outcome'[id] = "none"
             /\ id \notin removed'
  BY <1>0, <1>5 DEF CancelQueued, Cancellable, counters
<1> QED
  BY <1>1, <1>2, <1>3, <1>4, <1>5 DEF Next, ClientStep, CancelNotFound, CleanupStep

LEMMA OutcomeStep ==
  ASSUME TypeOK, TaskIsLocal, AssignmentIsExact, IdsAreFresh, OutcomeComesLast,
         QueueIsFresh, [Next]_vars
  PROVE  OutcomeComesLast'
<1> SUFFICES ASSUME NEW id \in TaskIds, tasks_threads'[id] = None
             PROVE  outcome'[id] = "none"
  BY DEF OutcomeComesLast
<1>0. tasks_threads[id] = None => outcome[id] = "none"
  BY DEF OutcomeComesLast
<1>1. CASE AddTask
  BY <1>0, <1>1 DEF AddTask, NewTaskId, TypeOK, IdsAreFresh
<1>2. CASE NotifyAll
  BY <1>0, <1>2 DEF NotifyAll, registry
<1>3. ASSUME NEW t \in ThreadIds, ThreadStep(t) \/ SpuriousWakeup(t)
      PROVE  outcome'[id] = "none"
  <2>1. CASE EnterLoop(t) \/ LeaveLoop(t) \/ Lock(t) \/ EvalPred(t) \/ Wait(t)
               \/ TimeOut(t) \/ Relock(t) \/ ReturnNone(t) \/ SpuriousWakeup(t)
    BY <1>0, <2>1, QuietSteps
  <2>2. CASE SkipCancelled(t) \/ Leave(t)
    BY <1>0, <2>2 DEF SkipCancelled, Leave, registry
  <2>3. CASE AssignTask(t) \/ UnassignTask(t)
    BY <1>0, <2>3, ConstantsAssumption DEF AssignTask, UnassignTask, EraseEntry, TypeOK
  <2>4. CASE Finish(t) \/ TakeInterruption(t)
    <3>1. pc[t] = "run" /\ tasks_threads' = tasks_threads
      BY <2>4 DEF Finish, TakeInterruption, Goto, registry
    <3>2. task[t] = id => tasks_threads[id] = t
      BY <3>1 DEF AssignmentIsExact
    <3>3. task[t] # id
      BY <3>1, <3>2, ConstantsAssumption
    <3> QED BY <1>0, <2>4, <3>1, <3>3 DEF Finish, TakeInterruption, TypeOK
  <2> QED BY <1>3, <2>1, <2>2, <2>3, <2>4 DEF ThreadStep
<1>4. CASE \/ \E i \in TaskIds : CancelRunning(i) \/ CancelQueued(i)
           \/ ClearQueue \/ SetTimeToDie \/ Join
           \/ UNCHANGED vars
  BY <1>0, <1>4, ClientMovesNobody
<1> QED
  BY <1>1, <1>2, <1>3, <1>4 DEF Next, ClientStep, CancelNotFound, CleanupStep

LEMMA QueueStep ==
  ASSUME TypeOK, TaskIsLocal, AssignmentIsExact, QueueIsFresh, [Next]_vars
  PROVE  QueueIsFresh'
<1>1. CASE AddTask
  <2> DEFINE n == next_task_id
             q == tasks_queue
  <2>1. /\ tasks_queue' = Append(q, n) /\ next_task_id' = n + 1
        /\ tasks_threads' = [tasks_threads EXCEPT ![n] = None]
        /\ n \in TaskIds /\ Len(q) \in Nat /\ q \in Seq(TaskIds) /\ n \in Nat
    BY <1>1, ConstantsAssumption DEF AddTask, Push, NewTaskId, TypeOK, TaskIds
  <2>2. Len(tasks_queue') = Len(q) + 1
    BY <2>1
  <2>3. ASSUME NEW i \in 1 .. Len(tasks_queue')
        PROVE  \/ i \in 1 .. Len(q) /\ tasks_queue'[i] = q[i]
               \/ i = Len(q) + 1 /\ tasks_queue'[i] = n
    BY <2>1, <2>2
  <2>4. ASSUME NEW i \in 1 .. Len(q)
        PROVE  q[i] < n /\ q[i] \in TaskIds /\ q[i] \in Nat /\ tasks_threads[q[i]] = None
    <3>1. q[i] \in TaskIds
      BY <2>1
    <3>2. q[i] < n /\ tasks_threads[q[i]] = None
      BY DEF QueueIsFresh
    <3> QED BY <3>1, <3>2, ConstantsAssumption DEF TaskIds
  <2>5. \A i, j \in 1 .. Len(q) : q[i] = q[j] => i = j
    BY DEF QueueIsFresh
  <2> HIDE DEF n, q
  <2>6. ASSUME NEW i \in 1 .. Len(tasks_queue')
        PROVE  /\ tasks_queue'[i] < next_task_id'
               /\ tasks_threads'[tasks_queue'[i]] = None
    BY <2>1, <2>3, <2>4 DEF TypeOK
  <2>7. ASSUME NEW i \in 1 .. Len(tasks_queue'), NEW j \in 1 .. Len(tasks_queue'),
               tasks_queue'[i] = tasks_queue'[j]
        PROVE  i = j
    BY <2>1, <2>3, <2>4, <2>5, <2>7
  <2> QED BY <2>6, <2>7 DEF QueueIsFresh
<1>2. CASE NotifyAll
  BY <1>2 DEF NotifyAll, registry, counters, QueueIsFresh
<1>3. CASE ClearQueue
  BY <1>3 DEF ClearQueue, QueueIsFresh
<1>4. ASSUME NEW t \in ThreadIds, ThreadStep(t) \/ SpuriousWakeup(t)
      PROVE  QueueIsFresh'
  <2>0. next_task_id' = next_task_id
    BY <1>4, OthersStay
  <2>1. CASE EnterLoop(t) \/ LeaveLoop(t) \/ Lock(t) \/ EvalPred(t) \/ Wait(t)
               \/ TimeOut(t) \/ Relock(t) \/ ReturnNone(t) \/ SpuriousWakeup(t)
    BY <2>1, QuietSteps DEF QueueIsFresh
  <2>2. CASE Finish(t) \/ TakeInterruption(t) \/ Leave(t)
    BY <2>0, <2>2 DEF Finish, TakeInterruption, Leave, registry, QueueIsFresh
  <2>3. CASE SkipCancelled(t) \/ AssignTask(t)
    <3> DEFINE h == Head(tasks_queue)
               r == Tail(tasks_queue)
    <3>1. /\ tasks_queue' = r
          /\ \/ tasks_threads' = tasks_threads
             \/ tasks_threads' = [tasks_threads EXCEPT ![h] = t]
      BY <2>3 DEF SkipCancelled, AssignTask
    <3>2. /\ h \in TaskIds /\ r \in Seq(TaskIds) /\ Len(r) \in Nat
          /\ \A i \in 1 .. Len(r) :
               i + 1 \in 1 .. Len(tasks_queue) /\ r[i] = tasks_queue[i + 1] /\ r[i] # h
      BY <2>3, QueueFront DEF SkipCancelled, AssignTask
    <3> HIDE DEF h, r
    <3>3. ASSUME NEW i \in 1 .. Len(r)
          PROVE  r[i] \in TaskIds /\ r[i] < next_task_id /\ tasks_threads'[r[i]] = None
      <4>1. r[i] \in TaskIds /\ r[i] < next_task_id /\ tasks_threads[r[i]] = None /\ r[i] # h
        BY <3>2 DEF QueueIsFresh
      <4> QED BY <3>1, <4>1 DEF TypeOK
    <3>4. ASSUME NEW i \in 1 .. Len(r), NEW j \in 1 .. Len(r), r[i] = r[j]
          PROVE  i = j
      <4>1. i + 1 = j + 1
        BY <3>2, <3>4 DEF QueueIsFresh
      <4> QED BY <4>1
    <3> QED BY <2>0, <3>1, <3>3, <3>4 DEF QueueIsFresh
  <2>4. CASE UnassignTask(t)
    <3>1. task[t] \in TaskIds /\ tasks_threads[task[t]] = t
      BY <2>4 DEF UnassignTask, Goto, TaskIsLocal, TypeOK, AssignmentIsExact
    <3>2. tasks_queue' = tasks_queue /\ tasks_threads' = [tasks_threads EXCEPT ![task[t]] = Absent]
      BY <2>4 DEF UnassignTask, EraseEntry
    <3>3. ASSUME NEW i \in 1 .. Len(tasks_queue)
          PROVE  tasks_threads'[tasks_queue[i]] = None
      <4>1. tasks_threads[tasks_queue[i]] = None /\ tasks_queue[i] \in TaskIds
        BY DEF QueueIsFresh, TypeOK
      <4> QED BY <3>1, <3>2, <4>1, ConstantsAssumption DEF TypeOK
    <3> QED BY <2>0, <3>2, <3>3 DEF QueueIsFresh
  <2> QED BY <1>4, <2>1, <2>2, <2>3, <2>4 DEF ThreadStep
<1>5. CASE \/ \E i \in TaskIds : CancelRunning(i) \/ CancelQueued(i)
           \/ SetTimeToDie \/ Join
           \/ UNCHANGED vars
  <2>1. tasks_queue' = tasks_queue
    BY <1>5 DEF CancelRunning, CancelQueued, SetTimeToDie, Join, vars, registry
  <2> QED BY <1>5, <2>1, ClientMovesNobody DEF QueueIsFresh
<1> QED
  BY <1>1, <1>2, <1>3, <1>4, <1>5 DEF Next, ClientStep, CancelNotFound, CleanupStep

LEMMA RemovedStep ==
  ASSUME TypeOK, ThreadsAreCounted, AssignmentIsExact, IdsAreFresh, OutcomeComesLast,
         QueueIsFresh, RemovedIsMarked, [Next]_vars
  PROVE  RemovedIsMarked'
<1> SUFFICES ASSUME NEW id \in TaskIds, id \in removed'
             PROVE  /\ outcome'[id] = "none"
                    /\ tasks_threads'[id] = None
                    /\ \A i \in 1 .. Len(tasks_queue') :
                         tasks_queue'[i] = id => id \in tasks_to_cancel'
  BY TypeStep, ConstantsAssumption DEF RemovedIsMarked, TypeOK
<1> DEFINE Marked == /\ outcome'[id] = "none"
                     /\ tasks_threads'[id] = None
                     /\ \A i \in 1 .. Len(tasks_queue') :
                          tasks_queue'[i] = id => id \in tasks_to_cancel'
<1>0. id \in removed =>
        /\ outcome[id] = "none"
        /\ tasks_threads[id] = None
        /\ \A i \in 1 .. Len(tasks_queue) :
             tasks_queue[i] = id => id \in tasks_to_cancel
  BY DEF RemovedIsMarked
<1>1. CASE AddTask
  <2>1. id \in removed /\ outcome' = outcome /\ tasks_to_cancel' = tasks_to_cancel
    BY <1>1 DEF AddTask, answers
  <2>2. id # next_task_id
    BY <1>0, <2>1, ConstantsAssumption DEF IdsAreFresh, TypeOK
  <2>3. /\ tasks_threads' = [tasks_threads EXCEPT ![next_task_id] = None]
        /\ tasks_queue' = Append(tasks_queue, next_task_id)
    BY <1>1 DEF AddTask, NewTaskId, Push
  <2>4. \A i \in 1 .. Len(tasks_queue') :
          \/ i \in 1 .. Len(tasks_queue) /\ tasks_queue'[i] = tasks_queue[i]
          \/ tasks_queue'[i] = next_task_id
    BY <2>3 DEF TypeOK
  <2> QED BY <1>0, <2>1, <2>2, <2>3, <2>4 DEF TypeOK
<1>2. CASE ClearQueue
  BY <1>0, <1>2 DEF ClearQueue, answers
<1>3. ASSUME NEW t \in ThreadIds, ThreadStep(t) \/ SpuriousWakeup(t)
      PROVE  Marked
  <2>0. id \in removed
    BY <1>3, OthersStay
  <2>1. CASE EnterLoop(t) \/ LeaveLoop(t) \/ Lock(t) \/ EvalPred(t) \/ Wait(t)
               \/ TimeOut(t) \/ Relock(t) \/ ReturnNone(t) \/ SpuriousWakeup(t)
    BY <1>0, <2>0, <2>1, QuietSteps
  <2>2. CASE Leave(t)
    BY <1>0, <2>0, <2>2 DEF Leave, registry
  <2>3. CASE SkipCancelled(t) \/ AssignTask(t)
    <3> DEFINE h == Head(tasks_queue)
               r == Tail(tasks_queue)
    <3>1. /\ tasks_queue' = r /\ outcome' = outcome
          /\ tasks_queue # <<>>
          /\ \/ tasks_threads' = tasks_threads /\ tasks_to_cancel' = tasks_to_cancel \ {h}
             \/ /\ tasks_threads' = [tasks_threads EXCEPT ![h] = t]
                /\ tasks_to_cancel' = tasks_to_cancel
                /\ h \notin tasks_to_cancel
      BY <2>3 DEF SkipCancelled, AssignTask, ToBeCancelled
    <3>2. /\ h \in TaskIds
          /\ \A i \in 1 .. Len(r) :
               i + 1 \in 1 .. Len(tasks_queue) /\ r[i] = tasks_queue[i + 1] /\ r[i] # h
      BY <3>1, QueueFront
    <3>3. h = tasks_queue[1] /\ 1 \in 1 .. Len(tasks_queue)
      BY <3>1 DEF TypeOK
    <3> HIDE DEF h, r
    <3>4. \A i \in 1 .. Len(tasks_queue') :
            tasks_queue'[i] = id => id \in tasks_to_cancel'
      BY <1>0, <2>0, <3>1, <3>2
    <3>5. tasks_threads'[id] = None
      BY <1>0, <2>0, <3>1, <3>3 DEF TypeOK
    <3> QED BY <1>0, <2>0, <3>1, <3>4, <3>5
  <2>4. CASE Finish(t) \/ TakeInterruption(t) \/ UnassignTask(t)
    <3>1. pc[t] \in {"run", "unassign"}
      BY <2>4 DEF Finish, TakeInterruption, UnassignTask, Goto
    <3>2. task[t] # id
      BY <1>0, <2>0, <3>1, ConstantsAssumption DEF AssignmentIsExact
    <3> QED
      BY <1>0, <2>0, <2>4, <3>2
         DEF Finish, TakeInterruption, UnassignTask, EraseEntry, registry, TypeOK
  <2> QED BY <1>3, <2>1, <2>2, <2>3, <2>4 DEF ThreadStep
<1>4. CASE \/ \E i \in TaskIds : CancelRunning(i)
           \/ SetTimeToDie \/ NotifyAll \/ Join
           \/ UNCHANGED vars
  BY <1>0, <1>4 DEF CancelRunning, SetTimeToDie, NotifyAll, Join, vars, registry, answers
<1>5. ASSUME NEW i \in TaskIds, CancelQueued(i)
      PROVE  Marked
  <2>1. CASE i = id
    BY <1>5, <2>1 DEF CancelQueued, OutcomeComesLast
  <2>2. CASE i # id
    BY <1>0, <1>5, <2>2 DEF CancelQueued
  <2> QED BY <2>1, <2>2
<1> QED
  BY <1>1, <1>2, <1>3, <1>4, <1>5 DEF Next, ClientStep, CancelNotFound, CleanupStep

(* A request goes to a thread with a task, is taken in run_task or comes too
   late, and is forgotten before the thread asks for the next task.         *)
LEMMA InterruptionStep ==
  ASSUME TypeOK, ThreadsAreCounted, AssignmentIsExact, InterruptionNeverReachesWait,
         RequestIsForTask, [Next]_vars
  PROVE  InterruptionNeverReachesWait' /\ RequestIsForTask'
<1> SUFFICES ASSUME NEW s \in ThreadIds, interrupted'[s]
             PROVE  /\ pc'[s] \in {"run", "unassign", "loop", "leave", "done"}
                    /\ pc'[s] = "run" => task'[s] \in terminated'
  BY DEF InterruptionNeverReachesWait, RequestIsForTask
<1>0. interrupted[s] => /\ pc[s] \in {"run", "unassign", "loop", "leave", "done"}
                        /\ pc[s] = "run" => task[s] \in terminated
  BY DEF InterruptionNeverReachesWait, RequestIsForTask
<1>1. CASE AddTask
  BY <1>0, <1>1, AddTaskMoves DEF AddTask, answers
<1>2. CASE NotifyAll
  BY <1>0, <1>2 DEF NotifyAll, WakeAll, answers
<1>3. ASSUME NEW t \in ThreadIds, ThreadStep(t) \/ SpuriousWakeup(t)
      PROVE  /\ pc'[s] \in {"run", "unassign", "loop", "leave", "done"}
             /\ pc'[s] = "run" => task'[s] \in terminated'
  <2>0. terminated' = terminated
    BY <1>3, OthersStay
  <2>1. CASE EnterLoop(t) \/ LeaveLoop(t) \/ Lock(t) \/ EvalPred(t) \/ Wait(t)
               \/ TimeOut(t) \/ Relock(t) \/ ReturnNone(t) \/ SpuriousWakeup(t)
    BY <1>0, <2>0, <2>1
       DEF EnterLoop, ForgetInterruption, LeaveLoop, Lock, EvalPred, Wait, TimeOut,
           Relock, ReturnNone, SpuriousWakeup, Goto, TypeOK
  <2>2. CASE SkipCancelled(t) \/ AssignTask(t)
    BY <1>0, <2>0, <2>2 DEF SkipCancelled, AssignTask, Goto, TypeOK
  <2>3. CASE Finish(t) \/ TakeInterruption(t) \/ UnassignTask(t) \/ Leave(t)
    BY <1>0, <2>0, <2>3 DEF Finish, TakeInterruption, UnassignTask, Leave, Goto, TypeOK
  <2> QED BY <1>3, <2>1, <2>2, <2>3 DEF ThreadStep
<1>4. ASSUME NEW id \in TaskIds, CancelRunning(id)
      PROVE  /\ pc'[s] \in {"run", "unassign", "loop", "leave", "done"}
             /\ pc'[s] = "run" => task'[s] \in terminated'
  <2>1. tasks_threads[id] \in ThreadIds
    BY <1>4 DEF CancelRunning, Cancellable, TypeOK
  <2>2. /\ pc[tasks_threads[id]] \in {"run", "unassign"}
        /\ task[tasks_threads[id]] = id
    BY <2>1 DEF AssignmentIsExact
  <2> QED BY <1>0, <1>4, <2>1, <2>2 DEF CancelRunning, Interrupt, TypeOK
<1>5. CASE \/ \E id \in TaskIds : CancelQueued(id)
           \/ ClearQueue \/ SetTimeToDie \/ Join
           \/ UNCHANGED vars
  BY <1>0, <1>5 DEF CancelQueued, ClearQueue, SetTimeToDie, Join, vars, answers
<1> QED
  BY <1>1, <1>2, <1>3, <1>4, <1>5 DEF Next, ClientStep, CancelNotFound, CleanupStep

LEMMA CanceledStep ==
  ASSUME TypeOK, TaskIsLocal, RequestIsForTask, CanceledWasAsked, [Next]_vars
  PROVE  CanceledWasAsked'
<1> SUFFICES ASSUME NEW id \in TaskIds, outcome'[id] = "canceled"
             PROVE  id \in terminated'
  BY DEF CanceledWasAsked
<1>0. outcome[id] = "canceled" => id \in terminated
  BY DEF CanceledWasAsked
<1>1. ASSUME NEW t \in ThreadIds, ThreadStep(t) \/ SpuriousWakeup(t)
      PROVE  id \in terminated'
  <2>0. terminated' = terminated
    BY <1>1, OthersStay
  <2>1. CASE EnterLoop(t) \/ LeaveLoop(t) \/ Lock(t) \/ EvalPred(t) \/ Wait(t)
               \/ TimeOut(t) \/ Relock(t) \/ ReturnNone(t) \/ SpuriousWakeup(t)
    BY <1>0, <2>0, <2>1, QuietSteps
  <2>2. CASE SkipCancelled(t) \/ AssignTask(t) \/ UnassignTask(t) \/ Leave(t)
    BY <1>0, <2>0, <2>2 DEF SkipCancelled, AssignTask, UnassignTask, Leave
  <2>3. CASE Finish(t)
    BY <1>0, <2>0, <2>3 DEF Finish, TypeOK
  <2>4. CASE TakeInterruption(t)
    <3>1. task[t] \in terminated
      BY <2>4 DEF TakeInterruption, Goto, RequestIsForTask
    <3> QED BY <1>0, <2>0, <2>4, <3>1 DEF TakeInterruption, TypeOK
  <2> QED BY <1>1, <2>1, <2>2, <2>3, <2>4 DEF ThreadStep
<1>2. CASE AddTask \/ NotifyAll
  BY <1>0, <1>2 DEF AddTask, NotifyAll, answers
<1>3. CASE \/ \E i \in TaskIds : CancelRunning(i) \/ CancelQueued(i)
           \/ ClearQueue \/ SetTimeToDie \/ Join
           \/ UNCHANGED vars
  BY <1>0, <1>3 DEF CancelRunning, CancelQueued, ClearQueue, SetTimeToDie, Join, vars,
                    answers
<1> QED
  BY <1>1, <1>2, <1>3 DEF Next, ClientStep, CancelNotFound, CleanupStep

(* The queue changes only under the mutex, so that what a thread saw of it is
   still true while the thread holds the mutex.                             *)
LEMMA HoldersStep ==
  ASSUME TypeOK, ThreadsAreCounted, MutualExclusion, HoldersKnow, [Next]_vars
  PROVE  HoldersKnow'
<1> SUFFICES ASSUME NEW s \in ThreadIds
             PROVE  /\ pc'[s] = "block" => tasks_queue' = <<>>
                    /\ pc'[s] = "timedout" => ~Hot(s)
                    /\ pc'[s] = "check" /\ Hot(s) => time_to_die' \/ tasks_queue' # <<>>
  BY DEF HoldersKnow, Hot
<1> DEFINE Knows == /\ pc'[s] = "block" => tasks_queue' = <<>>
                    /\ pc'[s] = "timedout" => ~Hot(s)
                    /\ pc'[s] = "check" /\ Hot(s) => time_to_die' \/ tasks_queue' # <<>>
<1>0. /\ pc[s] = "block" => tasks_queue = <<>>
      /\ pc[s] = "timedout" => ~Hot(s)
      /\ pc[s] = "check" /\ Hot(s) => time_to_die \/ tasks_queue # <<>>
  BY DEF HoldersKnow
<1>1. CASE AddTask
  <2>1. pc[s] \notin Holding
    BY <1>1 DEF AddTask, MutexFree
  <2> QED BY <1>0, <1>1, <2>1, AddTaskMoves DEF Holding
<1>2. CASE ClearQueue
  <2>1. pc'[s] \notin {"block", "check"} /\ pc' = pc
    BY <1>2 DEF ClearQueue, MutexFree, Holding
  <2> QED BY <1>0, <2>1
<1>3. CASE NotifyAll
  BY <1>0, <1>3 DEF NotifyAll, WakeAll, registry
<1>4. ASSUME NEW t \in ThreadIds, ThreadStep(t) \/ SpuriousWakeup(t)
      PROVE  Knows
  <2>0. time_to_die' = time_to_die /\ pc' = [pc EXCEPT ![t] = pc'[t]]
    BY <1>4, OthersStay
  <2>1. CASE SkipCancelled(t) \/ AssignTask(t)
    <3>1. pc[t] \in Holding /\ pc'[t] \in {"pred", "run"}
      BY <2>1 DEF SkipCancelled, AssignTask, Goto, Holding, TypeOK
    <3>2. s # t => pc[s] \notin Holding
      BY <3>1 DEF MutualExclusion
    <3> QED BY <1>0, <2>0, <3>1, <3>2 DEF TypeOK, Holding
  <2>2. CASE EnterLoop(t) \/ LeaveLoop(t) \/ Lock(t) \/ Wait(t) \/ TimeOut(t)
               \/ ReturnNone(t) \/ SpuriousWakeup(t)
    <3>1. tasks_queue' = tasks_queue
      BY <2>2, QuietSteps
    <3>2. pc'[t] \notin {"block", "check"} /\ (pc'[t] = "timedout" => ~Hot(t))
      BY <2>2 DEF EnterLoop, LeaveLoop, Lock, Wait, TimeOut, ReturnNone,
                  SpuriousWakeup, Goto, TypeOK
    <3> QED BY <1>0, <2>0, <3>1, <3>2 DEF TypeOK
  <2>3. CASE EvalPred(t)
    <3>1. tasks_queue' = tasks_queue
      BY <2>3, QuietSteps
    <3> QED BY <1>0, <2>0, <2>3, <3>1 DEF EvalPred, StopWaiting, Goto, TypeOK
  <2>4. CASE Relock(t)
    <3>1. tasks_queue' = tasks_queue
      BY <2>4, QuietSteps
    <3>2. pc'[t] = "pred" \/ (pc'[t] = "check" /\ pc[t] = "timedout")
      BY <2>4 DEF Relock, Goto, AfterWakeup, AfterTimeout, TypeOK
    <3> QED BY <1>0, <2>0, <3>1, <3>2 DEF TypeOK
  <2>5. CASE Finish(t) \/ TakeInterruption(t) \/ UnassignTask(t) \/ Leave(t)
    BY <1>0, <2>0, <2>5
       DEF Finish, TakeInterruption, UnassignTask, Leave, Goto, registry, TypeOK
  <2> QED BY <1>4, <2>1, <2>2, <2>3, <2>4, <2>5 DEF ThreadStep
<1>5. CASE \/ \E id \in TaskIds : CancelRunning(id) \/ CancelQueued(id)
           \/ SetTimeToDie \/ Join
           \/ UNCHANGED vars
  BY <1>0, <1>5 DEF CancelRunning, CancelQueued, SetTimeToDie, Join, vars, registry
<1> QED
  BY <1>1, <1>2, <1>3, <1>4, <1>5 DEF Next, ClientStep, CancelNotFound, CleanupStep

LEMMA HotStep ==
  ASSUME TypeOK, ThreadsAreCounted, HoldersKnow, HotThreadsStay, [Next]_vars
  PROVE  HotThreadsStay'
<1> SUFFICES ASSUME NEW s \in ThreadIds, Hot(s), pc'[s] \in {"leave", "done"}
             PROVE  time_to_die'
  BY DEF HotThreadsStay, Hot
<1>0. pc[s] \in {"leave", "done"} => time_to_die
  BY DEF HotThreadsStay
<1>1. CASE AddTask
  BY <1>0, <1>1, AddTaskMoves DEF AddTask
<1>2. CASE NotifyAll
  BY <1>0, <1>2 DEF NotifyAll, WakeAll
<1>3. ASSUME NEW t \in ThreadIds, ThreadStep(t) \/ SpuriousWakeup(t)
      PROVE  time_to_die'
  <2>0. time_to_die' = time_to_die
    BY <1>3, OthersStay
  <2>1. CASE LeaveLoop(t)
    BY <2>0, <2>1 DEF LeaveLoop
  <2>2. CASE ReturnNone(t)
    BY <1>0, <2>0, <2>2 DEF ReturnNone, Goto, HoldersKnow, TypeOK
  <2>3. CASE ~LeaveLoop(t) /\ ~ReturnNone(t)
    <3>1. pc'[t] \notin {"leave", "done"} \/ pc[t] = "leave"
      BY <1>3, <2>3
         DEF ThreadStep, SpuriousWakeup, EnterLoop, Lock, EvalPred, Wait, TimeOut,
             Relock, SkipCancelled, AssignTask, Finish, TakeInterruption,
             UnassignTask, Leave, Goto, AfterWakeup, AfterTimeout, TypeOK
    <3>2. pc' = [pc EXCEPT ![t] = pc'[t]]
      BY <1>3, OthersStay
    <3> QED BY <1>0, <2>0, <3>1, <3>2 DEF TypeOK
  <2> QED BY <2>1, <2>2, <2>3
<1>4. CASE \/ \E id \in TaskIds : CancelRunning(id) \/ CancelQueued(id)
           \/ ClearQueue \/ SetTimeToDie \/ Join
           \/ UNCHANGED vars
  BY <1>0, <1>4 DEF CancelRunning, CancelQueued, ClearQueue, SetTimeToDie, Join, vars
<1> QED
  BY <1>1, <1>2, <1>3, <1>4 DEF Next, ClientStep, CancelNotFound, CleanupStep

(* Sets of threads are finite: how many there are in two of them. *)
LEMMA ThreadsCount ==
  ASSUME NEW S \in SUBSET ThreadIds, NEW T \in SUBSET ThreadIds, NEW v
  PROVE  /\ Cardinality(S) \in Nat
         /\ S \subseteq T => Cardinality(S) <= Cardinality(T)
         /\ v \notin S /\ S \cup {v} \subseteq T => Cardinality(S) + 1 <= Cardinality(T)
         /\ S \ {v} \subseteq T => Cardinality(S) - 1 <= Cardinality(T)
<1>1. IsFiniteSet(ThreadIds)
  BY FS_Interval, ConstantsAssumption DEF ThreadIds
<1>2. IsFiniteSet(S) /\ IsFiniteSet(T)
  BY <1>1, FS_Subset
<1>3. Cardinality(S) \in Nat /\ Cardinality(T) \in Nat
  BY <1>2, FS_CardinalityType
<1>4. S \subseteq T => Cardinality(S) <= Cardinality(T)
  BY <1>2, FS_Subset
<1>5. ASSUME v \notin S, S \cup {v} \subseteq T
      PROVE  Cardinality(S) + 1 <= Cardinality(T)
  <2>1. Cardinality(S \cup {v}) = Cardinality(S) + 1
    BY <1>2, <1>5, FS_AddElement
  <2>2. Cardinality(S \cup {v}) <= Cardinality(T)
    BY <1>2, <1>5, FS_Subset
  <2> QED BY <2>1, <2>2
<1>6. ASSUME S \ {v} \subseteq T
      PROVE  Cardinality(S) - 1 <= Cardinality(T)
  <2>1. Cardinality(S \ {v}) \in {Cardinality(S), Cardinality(S) - 1}
    BY <1>2, FS_RemoveElement
  <2>2. Cardinality(S \ {v}) <= Cardinality(T)
    BY <1>2, <1>6, FS_Subset
  <2> QED BY <1>3, <2>1, <2>2
<1> QED BY <1>3, <1>4, <1>5, <1>6

(* add_task finds a sleeper: it wakes one, whom nobody has counted. *)
LEMMA AddTaskWakes ==
  ASSUME TypeOK, ThreadsAreCounted, AddTask,
         NEW w \in ThreadIds, pc'[w] = "waiting"
  PROVE  /\ pc[w] = "waiting"
         /\ \E v \in ThreadIds : v \notin Underway /\ v \in Underway'
         /\ Underway \subseteq Underway'
<1>1. pc[w] = "waiting"
  BY AddTaskMoves
<1> DEFINE p == IF CreateThread THEN [pc EXCEPT ![next_thread_id] = "loop"] ELSE pc
<1>2. p \in [ThreadIds -> ThreadStates] /\ pc' \in NotifyOne(p)
  BY DEF AddTask, TypeOK, ThreadStates
<1>3. \A t \in ThreadIds : p[t] = "waiting" <=> pc[t] = "waiting"
  <2>1. \A t \in ThreadIds : t = next_thread_id => pc[t] = "none"
    BY ConstantsAssumption DEF ThreadsAreCounted, TypeOK, ThreadIds
  <2> QED BY <2>1 DEF TypeOK
<1> HIDE DEF p
<1>4. PICK v \in ThreadIds : p[v] = "waiting" /\ pc' = [p EXCEPT ![v] = "woken"]
  BY <1>1, <1>2, <1>3, NotifyOneWakes
<1>5. pc[v] = "waiting" /\ pc'[v] = "woken"
  BY <1>2, <1>3, <1>4
<1>6. Underway \subseteq Underway'
  BY AddTaskMoves DEF Underway, Approaching
<1> QED BY <1>1, <1>5, <1>6 DEF Underway, Approaching

(* Who leaves the way to the queue takes a task from it, or has found it empty,
   or the pool at its end; and nobody else moves.                           *)
LEMMA LeavesWithTask ==
  ASSUME TypeOK, NEW t \in ThreadIds, ThreadStep(t) \/ SpuriousWakeup(t)
  PROVE  /\ Len(tasks_queue') <= Len(tasks_queue)
         /\ \/ Underway \subseteq Underway'
            \/ time_to_die
            \/ tasks_queue' = <<>>
            \/ /\ Underway \ {t} \subseteq Underway'
               /\ Len(tasks_queue') = Len(tasks_queue) - 1
<1>0. pc' = [pc EXCEPT ![t] = pc'[t]]
  BY OthersStay
<1>1. Underway \ {t} \subseteq Underway'
  BY <1>0 DEF Underway, TypeOK
<1>2. CASE SkipCancelled(t) \/ AssignTask(t)
  <2>1. Len(tasks_queue') = Len(tasks_queue) - 1
    BY <1>2 DEF SkipCancelled, AssignTask, TypeOK
  <2> QED BY <1>1, <2>1 DEF TypeOK
<1>3. CASE ~(SkipCancelled(t) \/ AssignTask(t))
  <2>1. tasks_queue' = tasks_queue
    BY <1>3
       DEF ThreadStep, SpuriousWakeup, EnterLoop, LeaveLoop, Lock, EvalPred, Wait,
           TimeOut, Relock, ReturnNone, Finish, TakeInterruption, UnassignTask,
           Leave, threadRest, registry
  <2>2. \/ pc'[t] \in Approaching \/ pc[t] \notin Approaching
        \/ time_to_die \/ tasks_queue = <<>>
    BY <1>3
       DEF ThreadStep, SpuriousWakeup, EnterLoop, LeaveLoop, Lock, EvalPred, Wait,
           TimeOut, Relock, ReturnNone, Finish, TakeInterruption, UnassignTask,
           Leave, Goto, AfterWakeup, AfterTimeout, StopWaiting, Approaching, TypeOK
  <2>3. pc'[t] \in Approaching \/ pc[t] \notin Approaching => Underway \subseteq Underway'
    BY <1>1 DEF Underway
  <2> QED BY <2>1, <2>2, <2>3 DEF TypeOK
<1> QED BY <1>2, <1>3

LEMMA WakeupStep ==
  ASSUME TypeOK, TypeOK', ThreadsAreCounted, HoldersKnow, NoMissedWakeup, [Next]_vars
  PROVE  NoMissedWakeup'
<1> SUFFICES ASSUME ~time_to_die', NEW w \in ThreadIds, pc'[w] = "waiting"
             PROVE  Len(tasks_queue') <= Cardinality(Underway')
  BY DEF NoMissedWakeup
<1>0. ~time_to_die /\ pc[w] = "waiting" => Len(tasks_queue) <= Cardinality(Underway)
  BY DEF NoMissedWakeup
<1>n. /\ Underway \in SUBSET ThreadIds /\ Underway' \in SUBSET ThreadIds
      /\ Len(tasks_queue) \in Nat /\ Len(tasks_queue') \in Nat
      /\ Cardinality(Underway) \in Nat /\ Cardinality(Underway') \in Nat
  <2>1. Underway \in SUBSET ThreadIds /\ Underway' \in SUBSET ThreadIds
    BY DEF Underway
  <2>2. Len(tasks_queue) \in Nat /\ Len(tasks_queue') \in Nat
    BY DEF TypeOK
  <2> QED BY <2>1, <2>2, ThreadsCount
<1>e. tasks_queue' = <<>> => Len(tasks_queue') <= Cardinality(Underway')
  BY <1>n
<1>1. CASE AddTask
  <2>1. ~time_to_die /\ Len(tasks_queue') = Len(tasks_queue) + 1
    BY <1>1 DEF AddTask, Push, TypeOK
  <2>2. Cardinality(Underway) + 1 <= Cardinality(Underway')
    BY <1>1, <1>n, AddTaskWakes, ThreadsCount
  <2>3. pc[w] = "waiting"
    BY <1>1, AddTaskWakes
  <2> QED BY <1>0, <1>n, <2>1, <2>2, <2>3
<1>2. CASE NotifyAll
  BY <1>2 DEF NotifyAll, WakeAll
<1>3. ASSUME NEW t \in ThreadIds, ThreadStep(t) \/ SpuriousWakeup(t)
      PROVE  Len(tasks_queue') <= Cardinality(Underway')
  <2>0. time_to_die' = time_to_die /\ pc' = [pc EXCEPT ![t] = pc'[t]]
    BY <1>3, OthersStay
  <2>1. CASE w = t
    <3>1. Wait(t)
      BY <1>3, <2>1
         DEF ThreadStep, SpuriousWakeup, EnterLoop, LeaveLoop, Lock, EvalPred, TimeOut,
             Relock, ReturnNone, SkipCancelled, AssignTask, Finish, TakeInterruption,
             UnassignTask, Leave, Goto, AfterWakeup, AfterTimeout, TypeOK
    <3>2. tasks_queue' = <<>>
      BY <3>1 DEF Wait, Goto, HoldersKnow, threadRest, registry
    <3> QED BY <1>e, <3>2
  <2>2. CASE w # t
    <3>1. Len(tasks_queue) <= Cardinality(Underway)
      BY <1>0, <2>0, <2>2 DEF TypeOK
    <3>2. CASE Underway \subseteq Underway'
      <4>1. Cardinality(Underway) <= Cardinality(Underway')
        BY <1>n, <3>2, ThreadsCount
      <4>2. Len(tasks_queue') <= Len(tasks_queue)
        BY <1>3, LeavesWithTask
      <4> QED BY <1>n, <3>1, <4>1, <4>2
    <3>3. CASE Underway \ {t} \subseteq Underway' /\ Len(tasks_queue') = Len(tasks_queue) - 1
      <4>1. Cardinality(Underway) - 1 <= Cardinality(Underway')
        BY <1>n, <3>3, ThreadsCount
      <4> QED BY <1>n, <3>1, <3>3, <4>1
    <3> QED BY <1>3, <1>e, <2>0, <3>2, <3>3, LeavesWithTask
  <2> QED BY <2>1, <2>2
<1>4. CASE ClearQueue
  BY <1>4, <1>e DEF ClearQueue
<1>5. CASE \/ \E id \in TaskIds : CancelRunning(id) \/ CancelQueued(id)
           \/ SetTimeToDie \/ Join
           \/ UNCHANGED vars
  <2>1. UNCHANGED <<pc, tasks_queue>> /\ ~time_to_die
    BY <1>5 DEF CancelRunning, CancelQueued, SetTimeToDie, Join, vars, registry
  <2>2. Underway' = Underway
    BY <2>1 DEF Underway
  <2> QED BY <1>0, <2>1, <2>2
<1> QED
  BY <1>1, <1>2, <1>3, <1>4, <1>5 DEF Next, ClientStep, CancelNotFound, CleanupStep

-----------------------------------------------------------------------------
(* The invariant, and what it says. *)

LEMMA InitEstablishes == Init => IInv
<1> SUFFICES ASSUME Init PROVE IInv
  OBVIOUS
<1>0. \A t \in ThreadIds : t \in Nat /\ (t \in 0 .. NumHot - 1 <=> Hot(t))
  BY ConstantsAssumption DEF ThreadIds, Hot
<1>1. TypeOK
  <2>1. pc \in [ThreadIds -> ThreadStates]
    BY DEF Init, ThreadStates
  <2>2. idle_threads \subseteq ThreadIds
    BY ConstantsAssumption DEF Init, ThreadIds
  <2>3. /\ next_task_id \in 0 .. MaxTasks
        /\ next_thread_id \in NumHot .. NumHot + MaxTasks
        /\ spurious \in 0 .. MaxSpurious
    BY ConstantsAssumption DEF Init
  <2>4. tasks_queue \in Seq(TaskIds)
    BY DEF Init
  <2>5. /\ task \in [ThreadIds -> TaskIds \cup {None}]
        /\ interrupted \in [ThreadIds -> BOOLEAN]
        /\ tasks_threads \in [TaskIds -> ThreadIds \cup {Absent, None}]
        /\ outcome \in [TaskIds -> {"none", "finished", "canceled"}]
    BY DEF Init
  <2>6. /\ time_to_die \in BOOLEAN
        /\ main \in {"client", "die", "notify", "join", "gone"}
        /\ removed \subseteq TaskIds /\ terminated \subseteq TaskIds
        /\ tasks_to_cancel \subseteq TaskIds
    BY DEF Init
  <2> QED BY <2>1, <2>2, <2>3, <2>4, <2>5, <2>6 DEF TypeOK
<1>2. ThreadsAreCounted /\ IdleIsExact
  <2>1. ThreadsAreCounted
    BY <1>0, ConstantsAssumption DEF Init, ThreadsAreCounted, Hot
  <2>2. \A t \in ThreadIds :
          t \in idle_threads <=> pc[t] \notin {"none", "run", "unassign", "done"}
    BY <1>0 DEF Init
  <2> QED BY <1>1, <2>1, <2>2 DEF IdleIsExact, TypeOK
<1>3. MutualExclusion /\ TaskIsLocal /\ HotThreadsStay /\ HoldersKnow
  BY DEF Init, MutualExclusion, TaskIsLocal, HotThreadsStay, HoldersKnow, Holding, Hot
<1>4. AssignmentIsExact /\ OutcomeComesLast /\ IdsAreFresh
  BY ConstantsAssumption DEF Init, AssignmentIsExact, OutcomeComesLast, IdsAreFresh
<1>5. QueueIsFresh /\ RemovedIsMarked /\ NoMissedWakeup
  BY DEF Init, QueueIsFresh, RemovedIsMarked, NoMissedWakeup
<1>6. InterruptionNeverReachesWait /\ RequestIsForTask /\ CanceledWasAsked
  BY DEF Init, InterruptionNeverReachesWait, RequestIsForTask, CanceledWasAsked
<1> QED BY <1>1, <1>2, <1>3, <1>4, <1>5, <1>6 DEF IInv

LEMMA StepPreserves == IInv /\ [Next]_vars => IInv'
<1> SUFFICES ASSUME IInv, [Next]_vars PROVE IInv'
  OBVIOUS
<1> QED
  BY TypeStep, CountedStep, MutexStep, IdleStep, TaskIsLocalStep, AssignmentStep,
     FreshStep, OutcomeStep, QueueStep, RemovedStep, InterruptionStep, CanceledStep,
     HoldersStep, HotStep, WakeupStep
     DEF IInv

(* IInv holds in every state of the pool. *)
THEOREM InvariantHolds == Spec => []IInv
BY InitEstablishes, StepPreserves, PTL DEF Spec

(* The state of the pool has the types of its declarations, with no more
   threads than the hot ones and one per call of add_task.                  *)
THEOREM TypeCorrect == Spec => []TypeOK
<1>1. IInv => TypeOK
  BY DEF IInv
<1> QED BY <1>1, InvariantHolds, PTL

(* The assertions at lines 154, 177 and 231 never fail. *)
THEOREM IdleThreadsAreExact == Spec => []IdleIsExact
<1>1. IInv => IdleIsExact
  BY DEF IInv
<1> QED BY <1>1, InvariantHolds, PTL

(* cancel_task interrupts the thread that runs the task, and no other. *)
THEOREM AssignmentsAreExact == Spec => []AssignmentIsExact
<1>1. IInv => AssignmentIsExact
  BY DEF IInv
<1> QED BY <1>1, InvariantHolds, PTL

(* REMOVED_FROM_QUEUE is a promise: the task does not run. *)
THEOREM RemovedTasksNeverRun == Spec => []RemovedNeverRuns
<1>1. IInv => RemovedNeverRuns
  <2> SUFFICES ASSUME IInv, NEW id \in removed
               PROVE  outcome[id] = "none" /\ \A t \in ThreadIds : task[t] # id
    BY DEF RemovedNeverRuns
  <2>1. id \in TaskIds /\ outcome[id] = "none" /\ tasks_threads[id] = None
    BY DEF IInv, RemovedIsMarked, TypeOK
  <2>2. ASSUME NEW t \in ThreadIds, task[t] = id
        PROVE  FALSE
    <3>1. pc[t] \in {"run", "unassign"}
      BY <2>1, <2>2, ConstantsAssumption DEF IInv, TaskIsLocal
    <3>2. tasks_threads[id] = t
      BY <2>1, <2>2, <3>1 DEF IInv, AssignmentIsExact
    <3> QED BY <2>1, <3>2, ConstantsAssumption
  <2> QED BY <2>1, <2>2
<1> QED BY <1>1, InvariantHolds, PTL

(* Only what the client terminated is reported as canceled: the handling of
   late interruptions works.                                                *)
THEOREM OnlyTerminatedIsCanceled == Spec => []CanceledWasAsked
<1>1. IInv => CanceledWasAsked
  BY DEF IInv
<1> QED BY <1>1, InvariantHolds, PTL

(* No thread_interrupted escapes from assign_task. *)
THEOREM WaitIsNeverInterrupted == Spec => []InterruptionNeverReachesWait
<1>1. IInv => InterruptionNeverReachesWait
  BY DEF IInv
<1> QED BY <1>1, InvariantHolds, PTL

(* The assertions at lines 128 and 204 never fail. *)
THEOREM HotThreadsNeverRetire == Spec => []HotThreadsStay
<1>1. IInv => HotThreadsStay
  BY DEF IInv
<1> QED BY <1>1, InvariantHolds, PTL

(* One notify_one per add_task is enough while the pool is alive: nobody sleeps
   with fewer threads underway than tasks in the queue.                     *)
THEOREM NoWakeupIsMissed == Spec => []NoMissedWakeup
<1>1. IInv => NoMissedWakeup
  BY DEF IInv
<1> QED BY <1>1, InvariantHolds, PTL

(* With a hot thread, a queued task has a thread that will come to it. The
   run v_stranded shows that without one this fails.                        *)
THEOREM EveryTaskHasATaker ==
  ASSUME NumHot > 0
  PROVE  Spec => []QueueHasTaker
<1>1. IInv => QueueHasTaker
  <2> SUFFICES ASSUME IInv, ~time_to_die, tasks_queue # <<>>
               PROVE  \E t \in ThreadIds : pc[t] \in Attentive
    BY DEF QueueHasTaker
  <2>1. 0 \in ThreadIds /\ Hot(0)
    BY ConstantsAssumption DEF ThreadIds, Hot
  <2>2. pc[0] \in ThreadStates \ {"none", "leave", "done", "block"}
    <3>1. pc[0] # "none"
      BY <2>1, ConstantsAssumption DEF IInv, ThreadsAreCounted, TypeOK
    <3>2. pc[0] \notin {"leave", "done", "block"}
      BY <2>1 DEF IInv, HotThreadsStay, HoldersKnow
    <3> QED BY <2>1, <3>1, <3>2 DEF IInv, TypeOK
  <2>3. CASE pc[0] = "waiting"
    <3>1. Len(tasks_queue) \in Nat \ {0} /\ Len(tasks_queue) <= Cardinality(Underway)
      BY <2>1, <2>3 DEF IInv, NoMissedWakeup, TypeOK
    <3>2. Underway # {}
      BY <3>1, FS_EmptySet
    <3> QED BY <3>2 DEF Underway, Attentive
  <2>4. CASE pc[0] # "waiting"
    BY <2>1, <2>2, <2>4 DEF ThreadStates, Holding, Attentive, Approaching
  <2> QED BY <2>3, <2>4
<1> QED BY <1>1, InvariantHolds, PTL

-----------------------------------------------------------------------------
(* What enters and what leaves the queue. *)

(* A section of assign_task that takes the first id from the queue. *)
Pops(t) == SkipCancelled(t) \/ AssignTask(t)

(* add_task puts the new id behind all others. *)
LEMMA AddTaskPushes ==
  ASSUME TypeOK, QueueIsFresh, AddTask
  PROVE  /\ next_task_id \in TaskIds
         /\ next_task_id' = next_task_id + 1
         /\ tasks_threads' = [tasks_threads EXCEPT ![next_task_id] = None]
         /\ Len(tasks_queue) \in Nat
         /\ Len(tasks_queue') = Len(tasks_queue) + 1
         /\ \A i \in 1 .. Len(tasks_queue) :
              /\ tasks_queue'[i] = tasks_queue[i]
              /\ tasks_queue[i] \in TaskIds
              /\ tasks_queue[i] < next_task_id
         /\ tasks_queue'[Len(tasks_queue) + 1] = next_task_id
         /\ \A id \in TaskIds : InQueue(id)' <=> InQueue(id) \/ id = next_task_id
<1> DEFINE n == next_task_id
           q == tasks_queue
<1>1. /\ n \in TaskIds /\ q \in Seq(TaskIds) /\ Len(q) \in Nat
      /\ tasks_queue' = Append(q, n)
      /\ next_task_id' = n + 1
      /\ tasks_threads' = [tasks_threads EXCEPT ![n] = None]
  BY ConstantsAssumption DEF AddTask, Push, NewTaskId, TypeOK, TaskIds
<1>2. /\ Len(tasks_queue') = Len(q) + 1
      /\ tasks_queue'[Len(q) + 1] = n
      /\ \A i \in 1 .. Len(q) : tasks_queue'[i] = q[i]
  BY <1>1
<1>3. \A i \in 1 .. Len(q) : q[i] \in TaskIds /\ q[i] < n
  BY <1>1 DEF QueueIsFresh
<1> HIDE DEF n, q
<1>4. ASSUME NEW id \in TaskIds
      PROVE  InQueue(id)' <=> InQueue(id) \/ id = n
  <2>1. InQueue(id) <=> \E i \in 1 .. Len(q) : q[i] = id
    BY DEF InQueue, q
  <2>2. InQueue(id)' <=> \E i \in 1 .. Len(q) + 1 : tasks_queue'[i] = id
    BY <1>2 DEF InQueue
  <2>3. \A i \in 1 .. Len(q) + 1 : i \in 1 .. Len(q) \/ i = Len(q) + 1
    BY <1>1
  <2>4. Len(q) + 1 \in 1 .. Len(q) + 1 /\ \A i \in 1 .. Len(q) : i \in 1 .. Len(q) + 1
    BY <1>1
  <2> QED BY <1>2, <2>1, <2>2, <2>3, <2>4
<1> QED BY <1>1, <1>2, <1>3, <1>4 DEF n, q

LEMMA PopsFront ==
  ASSUME TypeOK, QueueIsFresh, NEW t \in ThreadIds, Pops(t)
  PROVE  /\ Head(tasks_queue) \in TaskIds
         /\ Head(tasks_queue) = tasks_queue[1]
         /\ 1 \in 1 .. Len(tasks_queue)
         /\ tasks_threads[Head(tasks_queue)] = None
         /\ \A i \in 1 .. Len(tasks_queue') :
              i + 1 \in 1 .. Len(tasks_queue) /\ tasks_queue'[i] = tasks_queue[i + 1]
         /\ \A id \in TaskIds :
              InQueue(id)' <=> InQueue(id) /\ id # Head(tasks_queue)
<1>1. tasks_queue # <<>> /\ tasks_queue' = Tail(tasks_queue)
  BY DEF Pops, SkipCancelled, AssignTask
<1>2. /\ Len(tasks_queue) \in Nat /\ Len(tasks_queue) > 0
      /\ Head(tasks_queue) = tasks_queue[1]
  BY <1>1 DEF TypeOK
<1>3. /\ Len(tasks_queue') = Len(tasks_queue) - 1
      /\ \A i \in 1 .. Len(tasks_queue') :
           /\ i + 1 \in 1 .. Len(tasks_queue)
           /\ tasks_queue'[i] = tasks_queue[i + 1]
           /\ tasks_queue'[i] # Head(tasks_queue)
  BY <1>1, QueueFront
<1>4. ASSUME NEW id \in TaskIds
      PROVE  InQueue(id)' <=> InQueue(id) /\ id # Head(tasks_queue)
  <2>1. ASSUME InQueue(id), id # Head(tasks_queue)
        PROVE  InQueue(id)'
    <3>1. PICK i \in 1 .. Len(tasks_queue) : tasks_queue[i] = id
      BY <2>1 DEF InQueue
    <3>2. i - 1 \in 1 .. Len(tasks_queue') /\ (i - 1) + 1 = i
      BY <1>2, <1>3, <2>1, <3>1
    <3> QED BY <1>3, <3>1, <3>2 DEF InQueue
  <2>2. ASSUME InQueue(id)'
        PROVE  InQueue(id) /\ id # Head(tasks_queue)
    BY <1>3, <2>2 DEF InQueue
  <2> QED BY <2>1, <2>2
<1> QED BY <1>1, <1>2, <1>3, <1>4, QueueFront

(* No other step of a thread touches the queue, the marks or the entries of the
   ids that wait.                                                           *)
LEMMA OthersLeaveQueue ==
  ASSUME NEW t \in ThreadIds, ThreadStep(t) \/ SpuriousWakeup(t), ~Pops(t)
  PROVE  /\ UNCHANGED <<tasks_queue, tasks_to_cancel, removed, terminated,
                        next_task_id, main>>
         /\ \/ UNCHANGED tasks_threads
            \/ UnassignTask(t)
BY DEF Pops, ThreadStep, SpuriousWakeup, EnterLoop, LeaveLoop, Lock, EvalPred, Wait,
       TimeOut, Relock, ReturnNone, Finish, TakeInterruption, UnassignTask, Leave,
       threadRest, registry, counters, answers

(* Nor do the steps of the client that are not about the queue. *)
LEMMA ClientLeavesQueue ==
  ASSUME \/ \E id \in TaskIds : CancelNotFound(id) \/ CancelRunning(id)
         \/ SetTimeToDie \/ NotifyAll \/ Join
         \/ UNCHANGED vars
  PROVE  /\ UNCHANGED <<tasks_queue, tasks_to_cancel, removed, next_task_id,
                        tasks_threads, outcome, task>>
         /\ main' = "client" => main = "client"
BY DEF CancelNotFound, CancelRunning, SetTimeToDie, NotifyAll, Join, vars, registry,
       counters, answers

-----------------------------------------------------------------------------
(* BoardInv, one conjunct after the other. *)

LEMMA AscendsStep ==
  ASSUME TypeOK, QueueIsFresh, QueueAscends, [Next]_vars
  PROVE  QueueAscends'
<1>1. CASE AddTask
  <2> SUFFICES ASSUME NEW i \in 1 .. Len(tasks_queue'), NEW j \in 1 .. Len(tasks_queue'),
                      i < j
               PROVE  tasks_queue'[i] < tasks_queue'[j]
    BY DEF QueueAscends
  <2>1. i \in 1 .. Len(tasks_queue) /\ (j \in 1 .. Len(tasks_queue) \/ j = Len(tasks_queue) + 1)
    BY <1>1, AddTaskPushes
  <2> QED BY <1>1, <2>1, AddTaskPushes DEF QueueAscends
<1>2. ASSUME NEW t \in ThreadIds, Pops(t)
      PROVE  QueueAscends'
  <2> SUFFICES ASSUME NEW i \in 1 .. Len(tasks_queue'), NEW j \in 1 .. Len(tasks_queue'),
                      i < j
               PROVE  tasks_queue'[i] < tasks_queue'[j]
    BY DEF QueueAscends
  <2>1. i + 1 < j + 1
    OBVIOUS
  <2> QED BY <1>2, <2>1, PopsFront DEF QueueAscends
<1>3. CASE ClearQueue
  BY <1>3 DEF ClearQueue, QueueAscends
<1>4. CASE tasks_queue' = tasks_queue
  BY <1>4 DEF QueueAscends
<1> QED
  BY <1>1, <1>2, <1>3, <1>4, OthersLeaveQueue, ClientLeavesQueue
     DEF Next, ClientStep, CleanupStep, CancelQueued, registry

LEMMA MarksStep ==
  ASSUME TypeOK, MarksAreRemovals, [Next]_vars
  PROVE  MarksAreRemovals'
<1> USE DEF MarksAreRemovals
<1>1. CASE AddTask \/ ClearQueue
  BY <1>1 DEF AddTask, ClearQueue, answers
<1>2. ASSUME NEW t \in ThreadIds, Pops(t)
      PROVE  MarksAreRemovals'
  BY <1>2 DEF Pops, SkipCancelled, AssignTask, answers
<1>3. ASSUME NEW id \in TaskIds, CancelQueued(id)
      PROVE  MarksAreRemovals'
  BY <1>3 DEF CancelQueued
<1> QED
  BY <1>1, <1>2, <1>3, OthersLeaveQueue, ClientLeavesQueue
     DEF Next, ClientStep, CleanupStep

LEMMA NothingLostStep ==
  ASSUME TypeOK, TaskIsLocal, AssignmentIsExact, QueueIsFresh, MarksAreRemovals,
         NothingIsLost, [Next]_vars
  PROVE  NothingIsLost'
<1> SUFFICES ASSUME main' = "client", NEW id \in TaskIds, tasks_threads'[id] = None
             PROVE  InQueue(id)' \/ id \in removed'
  BY DEF NothingIsLost
<1>0. main = "client" /\ tasks_threads[id] = None => InQueue(id) \/ id \in removed
  BY DEF NothingIsLost
<1>1. CASE AddTask
  BY <1>0, <1>1, AddTaskPushes DEF AddTask, answers, TypeOK
<1>2. ASSUME NEW t \in ThreadIds, Pops(t)
      PROVE  InQueue(id)' \/ id \in removed'
  <2>1. CASE id = Head(tasks_queue)
    <3>1. CASE SkipCancelled(t)
      BY <2>1, <3>1 DEF SkipCancelled, ToBeCancelled, MarksAreRemovals, answers
    <3>2. CASE AssignTask(t)
      BY <1>2, <2>1, <3>2, PopsFront, ConstantsAssumption DEF AssignTask, TypeOK
    <3> QED BY <1>2, <3>1, <3>2 DEF Pops
  <2>2. CASE id # Head(tasks_queue)
    <3>1. tasks_threads[id] = None /\ main = "client" /\ removed' = removed
      BY <1>2, <2>2, PopsFront DEF Pops, SkipCancelled, AssignTask, TypeOK, answers
    <3> QED BY <1>0, <1>2, <2>2, <3>1, PopsFront
  <2> QED BY <2>1, <2>2
<1>3. ASSUME NEW t \in ThreadIds, UnassignTask(t)
      PROVE  InQueue(id)' \/ id \in removed'
  <2>1. tasks_threads[id] = None
    BY <1>3, ConstantsAssumption DEF UnassignTask, EraseEntry, TypeOK
  <2> QED BY <1>0, <1>3, <2>1 DEF UnassignTask, answers, InQueue
<1>4. ASSUME NEW i \in TaskIds, CancelQueued(i)
      PROVE  InQueue(id)' \/ id \in removed'
  BY <1>0, <1>4 DEF CancelQueued, InQueue
<1>5. CASE ClearQueue
  BY <1>5 DEF ClearQueue
<1>6. CASE UNCHANGED <<tasks_queue, removed, tasks_threads>> /\ main = "client"
  BY <1>0, <1>6 DEF InQueue
<1> QED
  BY <1>1, <1>2, <1>3, <1>4, <1>5, <1>6, OthersLeaveQueue, ClientLeavesQueue
     DEF Next, ClientStep, CleanupStep

(* The client sends no thread to a task and takes none away from it. *)
LEMMA ClientKeepsRunning ==
  ASSUME TypeOK, ThreadsAreCounted, ClientStep \/ CleanupStep \/ UNCHANGED vars,
         NEW t \in ThreadIds
  PROVE  /\ UNCHANGED <<task, outcome>>
         /\ pc'[t] = "run" <=> pc[t] = "run"
         /\ pc'[t] = "unassign" <=> pc[t] = "unassign"
<1>1. CASE AddTask
  BY <1>1, AddTaskMoves DEF AddTask
<1>2. CASE NotifyAll
  BY <1>2 DEF NotifyAll, WakeAll
<1>3. CASE pc' = pc
  BY <1>3 DEF ClientStep, CleanupStep, AddTask, CancelNotFound, CancelRunning,
              CancelQueued, ClearQueue, SetTimeToDie, NotifyAll, Join, vars
<1> QED
  BY <1>1, <1>2, <1>3 DEF ClientStep, CleanupStep, CancelNotFound, CancelRunning,
                          CancelQueued, ClearQueue, SetTimeToDie, Join, vars

(* A thread changes what is its own, and is sent to a task by assign_task. *)
LEMMA ThreadsKeepToThemselves ==
  ASSUME TypeOK, NEW s \in ThreadIds, ThreadStep(s) \/ SpuriousWakeup(s)
  PROVE  /\ \A t \in ThreadIds \ {s} :
              /\ pc'[t] = pc[t] /\ task'[t] = task[t]
              /\ interrupted'[t] = interrupted[t]
         /\ pc'[s] = "run" => AssignTask(s)
         /\ pc'[s] = "unassign" => Finish(s) \/ TakeInterruption(s)
         /\ outcome' # outcome => Finish(s) \/ TakeInterruption(s)
BY DEF TypeOK, ThreadStep, SpuriousWakeup, EnterLoop, LeaveLoop, Lock, EvalPred, Wait,
       TimeOut, Relock, ReturnNone, SkipCancelled, AssignTask, Finish,
       TakeInterruption, UnassignTask, Leave, Goto, AfterWakeup, AfterTimeout,
       ForgetInterruption, threadRest

LEMMA TerminatedStep ==
  ASSUME TypeOK, ThreadsAreCounted, TaskIsLocal, AssignmentIsExact, IdsAreFresh,
         QueueIsFresh, TerminatedHasThread, [Next]_vars
  PROVE  TerminatedHasThread'
<1>0. /\ terminated \subseteq TaskIds /\ TaskIds \subseteq Int /\ next_task_id \in Int
      /\ \A id \in terminated : id < next_task_id /\ tasks_threads[id] # None
      /\ \A t \in ThreadIds :
           pc[t] = "run" /\ task[t] \in terminated => interrupted[t]
  BY ConstantsAssumption DEF TypeOK, TaskIds, TerminatedHasThread
<1>1. ASSUME NEW id \in TaskIds, CancelRunning(id)
      PROVE  TerminatedHasThread'
  <2>1. /\ tasks_threads[id] \in ThreadIds /\ tasks_threads[id] # None
        /\ terminated' = terminated \cup {id}
        /\ interrupted' = [interrupted EXCEPT ![tasks_threads[id]] = TRUE]
        /\ UNCHANGED <<pc, task, tasks_threads, next_task_id>>
    BY <1>1 DEF CancelRunning, Cancellable, Interrupt, registry, counters, TypeOK
  <2>2. id < next_task_id
    BY <1>0, <2>1, ConstantsAssumption DEF IdsAreFresh
  <2>3. ASSUME NEW t \in ThreadIds, pc[t] = "run", task[t] = id
        PROVE  tasks_threads[id] = t
    BY <2>3 DEF AssignmentIsExact
  <2>4. ASSUME NEW t \in ThreadIds, pc[t] = "run", task[t] \in terminated'
        PROVE  interrupted'[t]
    BY <1>0, <2>1, <2>3, <2>4 DEF TypeOK
  <2> QED BY <1>0, <2>1, <2>2, <2>4 DEF TerminatedHasThread
<1>2. CASE /\ ClientStep \/ CleanupStep \/ UNCHANGED vars
           /\ UNCHANGED <<terminated, interrupted>>
  <2>1. \A t \in ThreadIds : pc'[t] = "run" /\ task'[t] \in terminated' => interrupted'[t]
    BY <1>0, <1>2, ClientKeepsRunning
  <2>2. CASE AddTask
    <3>1. \A id \in terminated : id < next_task_id' /\ tasks_threads'[id] # None
      BY <1>0, <2>2, AddTaskPushes DEF TypeOK
    <3> QED BY <1>2, <2>1, <3>1 DEF TerminatedHasThread
  <2>3. CASE UNCHANGED <<next_task_id, tasks_threads>>
    BY <1>0, <1>2, <2>1, <2>3 DEF TerminatedHasThread
  <2> QED
    BY <1>2, <2>2, <2>3, ClientLeavesQueue
       DEF ClientStep, CleanupStep, CancelQueued, ClearQueue, registry, counters
<1>3. ASSUME NEW s \in ThreadIds, ThreadStep(s) \/ SpuriousWakeup(s)
      PROVE  TerminatedHasThread'
  <2>1. terminated' = terminated /\ next_task_id' = next_task_id
    BY <1>3, OthersStay
  <2>2. \A id \in terminated : tasks_threads'[id] # None
    <3>1. CASE UnassignTask(s)
      BY <1>0, <3>1, ConstantsAssumption DEF UnassignTask, EraseEntry, TypeOK
    <3>2. CASE Pops(s)
      BY <1>0, <3>2, ConstantsAssumption DEF Pops, SkipCancelled, AssignTask, TypeOK
    <3> QED BY <1>0, <1>3, <3>1, <3>2, OthersLeaveQueue
  <2>3. ASSUME NEW t \in ThreadIds, pc'[t] = "run", task'[t] \in terminated
        PROVE  interrupted'[t]
    <3>1. CASE t = s
      <4>1. AssignTask(s)
        BY <1>3, <2>3, <3>1, ThreadsKeepToThemselves
      <4>2. task'[s] = Head(tasks_queue) /\ tasks_threads[Head(tasks_queue)] = None
        BY <4>1, PopsFront DEF Pops, AssignTask, TypeOK
      <4> QED BY <1>0, <2>3, <3>1, <4>2
    <3>2. CASE t # s
      BY <1>0, <1>3, <2>3, <3>2, ThreadsKeepToThemselves
    <3> QED BY <3>1, <3>2
  <2> QED BY <1>0, <2>1, <2>2, <2>3 DEF TerminatedHasThread
<1> QED
  BY <1>1, <1>2, <1>3
     DEF Next, ClientStep, CleanupStep, AddTask, CancelNotFound, CancelQueued,
         ClearQueue, SetTimeToDie, NotifyAll, Join, vars, answers

LEMMA TimelyStep ==
  ASSUME TypeOK, ThreadsAreCounted, TaskIsLocal, AssignmentIsExact, OutcomeComesLast,
         QueueIsFresh, OutcomeIsTimely, [Next]_vars
  PROVE  OutcomeIsTimely'
<1> SUFFICES ASSUME NEW t \in ThreadIds
             PROVE  /\ pc'[t] = "run" => outcome'[task'[t]] = "none"
                    /\ pc'[t] = "unassign" => outcome'[task'[t]] # "none"
  BY DEF OutcomeIsTimely
<1>0. /\ pc[t] = "run" => outcome[task[t]] = "none"
      /\ pc[t] = "unassign" => outcome[task[t]] # "none"
  BY DEF OutcomeIsTimely
<1>1. CASE ClientStep \/ CleanupStep \/ UNCHANGED vars
  BY <1>0, <1>1, ClientKeepsRunning
<1>2. ASSUME NEW s \in ThreadIds, ThreadStep(s) \/ SpuriousWakeup(s)
      PROVE  /\ pc'[t] = "run" => outcome'[task'[t]] = "none"
             /\ pc'[t] = "unassign" => outcome'[task'[t]] # "none"
  <2>1. CASE t # s
    <3>1. pc'[t] = pc[t] /\ task'[t] = task[t]
      BY <1>2, <2>1, ThreadsKeepToThemselves
    <3>2. CASE outcome' = outcome
      BY <1>0, <3>1, <3>2
    <3>3. CASE Finish(s) \/ TakeInterruption(s)
      <4>1. pc[s] = "run" /\ task[s] \in TaskIds
        BY <3>3 DEF Finish, TakeInterruption, Goto, TaskIsLocal, TypeOK
      <4>2. pc[t] \in {"run", "unassign"} => task[t] # task[s]
        BY <2>1, <4>1 DEF AssignmentIsExact
      <4>3. \E o \in {"finished", "canceled"} : outcome' = [outcome EXCEPT ![task[s]] = o]
        BY <3>3 DEF Finish, TakeInterruption
      <4> QED BY <1>0, <3>1, <4>1, <4>2, <4>3 DEF TypeOK
    <3> QED BY <1>2, <3>2, <3>3, ThreadsKeepToThemselves
  <2>2. CASE t = s /\ pc'[t] = "run"
    <3>1. AssignTask(s)
      BY <1>2, <2>2, ThreadsKeepToThemselves
    <3>2. task'[s] = Head(tasks_queue) /\ outcome' = outcome
      BY <3>1 DEF AssignTask, TypeOK
    <3>3. outcome[Head(tasks_queue)] = "none"
      BY <3>1, PopsFront DEF Pops, OutcomeComesLast
    <3> QED BY <2>2, <3>2, <3>3
  <2>3. CASE t = s /\ pc'[t] = "unassign"
    <3>1. Finish(s) \/ TakeInterruption(s)
      BY <1>2, <2>3, ThreadsKeepToThemselves
    <3>2. pc[s] = "run" /\ task[s] \in TaskIds /\ task' = task
      BY <3>1 DEF Finish, TakeInterruption, Goto, TaskIsLocal, TypeOK
    <3> QED BY <2>3, <3>1, <3>2 DEF Finish, TakeInterruption, TypeOK
  <2> QED BY <2>1, <2>2, <2>3
<1> QED BY <1>1, <1>2 DEF Next

LEMMA BoardInit == Init => BoardInv
<1> SUFFICES ASSUME Init PROVE BoardInv
  OBVIOUS
<1>1. IInv
  BY InitEstablishes
<1>2. QueueAscends
  BY DEF Init, QueueAscends
<1>3. NothingIsLost /\ MarksAreRemovals
  BY ConstantsAssumption DEF Init, NothingIsLost, MarksAreRemovals
<1>4. TerminatedHasThread /\ OutcomeIsTimely
  BY DEF Init, TerminatedHasThread, OutcomeIsTimely
<1> QED BY <1>1, <1>2, <1>3, <1>4 DEF BoardInv

LEMMA BoardStep == BoardInv /\ [Next]_vars => BoardInv'
BY StepPreserves, AscendsStep, MarksStep, NothingLostStep, TerminatedStep, TimelyStep
   DEF BoardInv, IInv

-----------------------------------------------------------------------------
(* The steps, on the board. *)

(* The status the board shows for each task. *)
Shown == [id \in TaskIds |-> Status(id)]

LEMMA InitShows == AnsweredInit => Board!Init
<1> SUFFICES ASSUME AnsweredInit PROVE Board!Init
  OBVIOUS
<1>1. ASSUME NEW id \in TaskIds PROVE Status(id) = "unknown"
  <2>1. id >= 0
    BY DEF TaskIds
  <2> QED BY <2>1, ConstantsAssumption DEF AnsweredInit, Init, Status, InQueue, TaskIds
<1> QED BY <1>1 DEF AnsweredInit, Init, Board!Init

(* What makes no difference to any Status. *)
LEMMA NothingShown ==
  ASSUME \A id \in TaskIds : Status(id)' = Status(id),
         UNCHANGED terminated,
         (main # "client")' <=> main # "client",
         Board!NoAnswer
  PROVE  Board!GoOn
<1>1. Shown' = Shown
  BY DEF Shown
<1> QED BY <1>1 DEF Board!GoOn, Shown

(* One task moves on the board, and no other. *)
LEMMA OneMoves ==
  ASSUME NEW id \in TaskIds, NEW from, NEW to,
         Status(id) = from, Status(id)' = to,
         \A j \in TaskIds \ {id} : Status(j)' = Status(j)
  PROVE  Board!Move(id, from, to)
<1>1. Shown' = [Shown EXCEPT ![id] = to]
  BY DEF Shown
<1> QED BY <1>1 DEF Board!Move, Shown

LEMMA AddTaskSubmits ==
  ASSUME BoardInv, AddTask, Board!NoAnswer
  PROVE  \E id \in TaskIds : Board!Submit(id)
<1>1. TypeOK /\ QueueIsFresh /\ IdsAreFresh
  BY DEF BoardInv, IInv
<1>2. PICK n \in TaskIds : n = next_task_id
  BY <1>1, AddTaskPushes
<1>3. /\ next_task_id' = n + 1 /\ TaskIds \subseteq Int
      /\ tasks_threads' = [tasks_threads EXCEPT ![n] = None]
      /\ \A id \in TaskIds : InQueue(id)' <=> InQueue(id) \/ id = n
      /\ UNCHANGED <<outcome, removed, terminated, main>> /\ main = "client"
  BY <1>1, <1>2, AddTaskPushes, ConstantsAssumption DEF AddTask, answers, TaskIds
<1>4. outcome[n] = "none" /\ tasks_threads[n] = Absent /\ n \notin removed /\ ~InQueue(n)
  BY <1>1, <1>2, <1>3 DEF IdsAreFresh, QueueIsFresh, InQueue
<1>5. Status(n) = "unknown" /\ Status(n)' = "queued"
  BY <1>1, <1>2, <1>3, <1>4, ConstantsAssumption DEF Status, TypeOK
<1>6. ASSUME NEW j \in TaskIds \ {n} PROVE Status(j)' = Status(j)
  BY <1>1, <1>2, <1>3 DEF Status, TypeOK
<1>7. ASSUME NEW j \in TaskIds, j < n PROVE Status(j) # "unknown"
  BY <1>1, <1>2, <1>7 DEF Status, TypeOK
<1>8. Board!Move(n, "unknown", "queued")
  BY <1>5, <1>6, OneMoves
<1> QED BY <1>3, <1>7, <1>8 DEF Board!Submit

LEMMA CancelRunningRequests ==
  ASSUME BoardInv, NEW id \in TaskIds, CancelRunning(id), Board!Answer(id, "TERMINATED")
  PROVE  Board!Request(id)
<1>1. tasks_threads[id] \in ThreadIds
  BY DEF CancelRunning, Cancellable, BoardInv, IInv, TypeOK
<1>2. Status(id) \in {"running", "finished", "canceled"}
  BY <1>1 DEF Status, BoardInv, IInv, TypeOK
<1>3. \A j \in TaskIds : Status(j)' = Status(j)
  BY DEF CancelRunning, Status, InQueue, registry, counters
<1>4. Shown' = Shown
  BY <1>3 DEF Shown
<1> QED BY <1>2, <1>4 DEF Board!Request, CancelRunning, Shown

(* NOT_FOUND: the table does not have the task, which is over or has never been,
   or the task is marked, and so removed.                                   *)
LEMMA CancelNotFoundMisses ==
  ASSUME BoardInv, NEW id \in TaskIds, CancelNotFound(id), Board!Answer(id, "NOT_FOUND")
  PROVE  Board!Miss(id)
<1>1. main = "client" /\ main' = main /\ terminated' = terminated
  BY DEF CancelNotFound, vars, answers
<1>2. \A j \in TaskIds : Status(j)' = Status(j)
  BY DEF CancelNotFound, vars, registry, counters, answers, Status, InQueue
<1>3. Shown' = Shown
  BY <1>2 DEF Shown
<1>4. Status(id) \notin {"queued", "running"}
  <2>1. outcome[id] \in {"none", "finished", "canceled"}
    BY DEF BoardInv, IInv, TypeOK
  <2>2. CASE tasks_threads[id] = Absent
    <3>1. ~InQueue(id)
      BY <2>2, ConstantsAssumption DEF BoardInv, IInv, QueueIsFresh, InQueue
    <3> QED BY <2>1, <2>2, <3>1, ConstantsAssumption DEF Status
  <2>3. CASE id \in tasks_to_cancel
    <3>1. id \in removed /\ tasks_threads[id] = None
      BY <2>3 DEF BoardInv, MarksAreRemovals, IInv, RemovedIsMarked
    <3> QED BY <2>1, <3>1, ConstantsAssumption DEF Status
  <2> QED BY <2>2, <2>3 DEF CancelNotFound, Cancellable
<1> QED BY <1>1, <1>3, <1>4 DEF Board!Miss, Shown

(* The second cancel_task for a task that has been skipped is answered like the
   first one.                                                               *)
LEMMA CancelQueuedRemoves ==
  ASSUME BoardInv, NEW id \in TaskIds, CancelQueued(id),
         Board!Answer(id, "REMOVED_FROM_QUEUE")
  PROVE  Board!Remove(id) \/ Board!RemoveAgain(id)
<1>1. /\ main = "client" /\ tasks_threads[id] = None /\ removed' = removed \cup {id}
      /\ UNCHANGED <<tasks_threads, tasks_queue, next_task_id, outcome, terminated, main>>
      /\ outcome[id] = "none"
  BY DEF CancelQueued, counters, BoardInv, IInv, OutcomeComesLast
<1>2. ASSUME NEW j \in TaskIds \ {id} PROVE Status(j)' = Status(j)
  BY <1>1 DEF Status, InQueue
<1>3. Status(id)' = "removed"
  BY <1>1, ConstantsAssumption DEF Status
<1>4. CASE id \in removed
  <2>1. Status(id) = "removed"
    BY <1>1, <1>4, ConstantsAssumption DEF Status
  <2>2. Shown' = Shown
    BY <1>2, <1>3, <2>1 DEF Shown
  <2> QED BY <1>1, <2>1, <2>2 DEF Board!RemoveAgain, Shown
<1>5. CASE id \notin removed
  <2>1. InQueue(id)
    BY <1>1, <1>5 DEF BoardInv, NothingIsLost
  <2>2. Status(id) = "queued"
    BY <1>1, <1>5, <2>1, ConstantsAssumption DEF Status
  <2>3. Board!Move(id, "queued", "removed")
    BY <1>2, <1>3, <2>2, OneMoves
  <2> QED BY <1>1, <2>3 DEF Board!Remove
<1> QED BY <1>4, <1>5

LEMMA ClearQueueCloses ==
  ASSUME BoardInv, ClearQueue, Board!NoAnswer
  PROVE  Board!Close
<1>1. /\ main = "client" /\ main' = "die"
      /\ UNCHANGED <<tasks_threads, next_task_id, outcome, removed, terminated>>
      /\ \A id \in TaskIds : ~InQueue(id)'
  BY DEF ClearQueue, counters, answers, InQueue
<1>2. ASSUME NEW id \in TaskIds
      PROVE  Status(id)' = IF Status(id) = "queued" THEN "dropped" ELSE Status(id)
  <2>1. InQueue(id) => id < next_task_id
    BY DEF InQueue, BoardInv, IInv, QueueIsFresh
  <2>2. outcome[id] \in {"none", "finished", "canceled"}
    BY DEF BoardInv, IInv, TypeOK
  <2> QED BY <1>1, <2>1, <2>2 DEF Status
<1> QED BY <1>1, <1>2 DEF Board!Close

(* A task that is skipped was removed from the board before. *)
LEMMA SkipIsSilent ==
  ASSUME BoardInv, NEW t \in ThreadIds, SkipCancelled(t), Board!NoAnswer
  PROVE  Board!GoOn
<1> DEFINE h == Head(tasks_queue)
<1>1. h \in removed
  BY DEF SkipCancelled, ToBeCancelled, BoardInv, MarksAreRemovals
<1>2. \A id \in TaskIds : InQueue(id)' <=> InQueue(id) /\ id # h
  BY PopsFront DEF Pops, BoardInv, IInv
<1>3. UNCHANGED <<tasks_threads, next_task_id, outcome, removed, terminated, main>>
  BY DEF SkipCancelled, counters, answers
<1> HIDE DEF h
<1>4. ASSUME NEW id \in TaskIds PROVE Status(id)' = Status(id)
  BY <1>1, <1>2, <1>3 DEF Status
<1> QED BY <1>3, <1>4, NothingShown

LEMMA AssignTaskStarts ==
  ASSUME BoardInv, NEW t \in ThreadIds, AssignTask(t), Board!NoAnswer
  PROVE  \E id \in TaskIds : Board!Start(id)
<1>1. /\ TypeOK /\ QueueIsFresh /\ OutcomeComesLast /\ RemovedIsMarked /\ QueueAscends
  BY DEF BoardInv, IInv
<1>2. PICK h \in TaskIds : h = Head(tasks_queue)
  BY <1>1, PopsFront DEF Pops
<1>3. /\ h = tasks_queue[1] /\ 1 \in 1 .. Len(tasks_queue)
      /\ tasks_threads[h] = None
      /\ \A id \in TaskIds : InQueue(id)' <=> InQueue(id) /\ id # h
  BY <1>1, <1>2, PopsFront DEF Pops
<1>4. /\ h \notin tasks_to_cancel
      /\ tasks_threads' = [tasks_threads EXCEPT ![h] = t]
      /\ UNCHANGED <<next_task_id, outcome, removed, terminated, main>>
  BY <1>2 DEF AssignTask, ToBeCancelled, counters, answers
<1>5. outcome[h] = "none" /\ h \notin removed /\ InQueue(h)
  BY <1>1, <1>3, <1>4 DEF OutcomeComesLast, RemovedIsMarked, InQueue
<1>6. ASSUME NEW j \in TaskIds, j < h PROVE Status(j) # "queued"
  <2>1. ASSUME NEW i \in 1 .. Len(tasks_queue), tasks_queue[i] = j
        PROVE  FALSE
    <3>1. i = 1 \/ 1 < i
      OBVIOUS
    <3> QED
      BY <1>1, <1>3, <1>6, <2>1, <3>1, ConstantsAssumption DEF QueueAscends, TaskIds
  <2>2. ~InQueue(j)
    BY <2>1 DEF InQueue
  <2>3. outcome[j] # "queued"
    BY <1>1 DEF TypeOK
  <2> QED BY <2>2, <2>3 DEF Status
<1>7. Status(h) = "queued" /\ Status(h)' = "running"
  BY <1>1, <1>3, <1>4, <1>5, ConstantsAssumption DEF Status, TypeOK
<1>8. ASSUME NEW j \in TaskIds \ {h} PROVE Status(j)' = Status(j)
  BY <1>1, <1>3, <1>4 DEF Status, TypeOK
<1>9. Board!Move(h, "queued", "running")
  BY <1>7, <1>8, OneMoves
<1> QED BY <1>4, <1>6, <1>9 DEF Board!Start

(* The end of run_task is what the board knows of the end of a task. *)
LEMMA RunTaskEnds ==
  ASSUME BoardInv, NEW t \in ThreadIds, Finish(t) \/ TakeInterruption(t),
         Board!NoAnswer
  PROVE  \E id \in TaskIds : Board!Complete(id) \/ Board!Abort(id)
<1>1. TypeOK /\ TaskIsLocal /\ AssignmentIsExact /\ RequestIsForTask
  BY DEF BoardInv, IInv
<1>2. pc[t] = "run" /\ task[t] \in TaskIds
  BY <1>1 DEF Finish, TakeInterruption, Goto, TaskIsLocal, TypeOK
<1>3. PICK id \in TaskIds : id = task[t]
  BY <1>2
<1>4. /\ tasks_threads[id] = t
      /\ UNCHANGED <<registry, next_task_id, removed, terminated, main>>
  BY <1>1, <1>2, <1>3 DEF Finish, TakeInterruption, AssignmentIsExact, counters, answers
<1>5. outcome[id] = "none"
  BY <1>2, <1>3 DEF BoardInv, OutcomeIsTimely
<1>6. Status(id) = "running"
  BY <1>4, <1>5 DEF Status
<1>7. ASSUME NEW j \in TaskIds \ {id} PROVE Status(j)' = Status(j)
  BY <1>1, <1>3, <1>4 DEF Finish, TakeInterruption, Status, InQueue, registry, TypeOK
<1>8. CASE Finish(t)
  <2>1. id \notin terminated
    BY <1>2, <1>3, <1>8 DEF Finish, BoardInv, TerminatedHasThread
  <2>2. Status(id)' = "finished"
    BY <1>1, <1>3, <1>8 DEF Finish, Status, TypeOK
  <2>3. Board!Move(id, "running", "finished")
    BY <1>6, <1>7, <2>2, OneMoves
  <2> QED BY <1>4, <2>1, <2>3 DEF Board!Complete
<1>9. CASE TakeInterruption(t)
  <2>1. id \in terminated
    BY <1>1, <1>2, <1>3, <1>9 DEF TakeInterruption, RequestIsForTask
  <2>2. Status(id)' = "canceled"
    BY <1>1, <1>3, <1>9 DEF TakeInterruption, Status, TypeOK
  <2>3. Board!Move(id, "running", "canceled")
    BY <1>6, <1>7, <2>2, OneMoves
  <2> QED BY <1>4, <2>1, <2>3 DEF Board!Abort
<1> QED BY <1>8, <1>9

LEMMA UnassignIsSilent ==
  ASSUME BoardInv, NEW t \in ThreadIds, UnassignTask(t), Board!NoAnswer
  PROVE  Board!GoOn
<1> DEFINE id == task[t]
<1>1. /\ TypeOK /\ id \in TaskIds /\ outcome[id] # "none"
      /\ tasks_threads' = [tasks_threads EXCEPT ![id] = Absent]
      /\ UNCHANGED <<tasks_queue, next_task_id, outcome, removed, terminated, main>>
  BY DEF UnassignTask, EraseEntry, Goto, BoardInv, IInv, OutcomeIsTimely, TaskIsLocal,
         TypeOK, counters, answers
<1> HIDE DEF id
<1>2. ASSUME NEW j \in TaskIds PROVE Status(j)' = Status(j)
  BY <1>1 DEF Status, InQueue, TypeOK
<1> QED BY <1>1, <1>2, NothingShown

(* Waiting, waking and leaving, and the joins, are the pool's own business. *)
LEMMA RestIsSilent ==
  ASSUME BoardInv, Board!NoAnswer,
         \/ CleanupStep
         \/ \E t \in ThreadIds :
              EnterLoop(t) \/ LeaveLoop(t) \/ Lock(t) \/ EvalPred(t) \/ Wait(t)
                \/ TimeOut(t) \/ Relock(t) \/ ReturnNone(t) \/ SpuriousWakeup(t)
                \/ Leave(t)
  PROVE  Board!GoOn
<1>1. /\ UNCHANGED <<tasks_threads, tasks_queue, next_task_id, outcome, removed,
                     terminated>>
      /\ (main # "client")' <=> main # "client"
  BY QuietSteps
     DEF CleanupStep, SetTimeToDie, NotifyAll, Join, Leave, registry, counters, answers
<1>2. ASSUME NEW j \in TaskIds PROVE Status(j)' = Status(j)
  BY <1>1 DEF Status, InQueue
<1> QED BY <1>1, <1>2, NothingShown

(* Neither the pool nor its client does anything. *)
LEMMA StutterIsShown ==
  ASSUME UNCHANGED <<vars, answer>>
  PROVE  UNCHANGED Board!boardVars
<1>1. \A j \in TaskIds : Status(j)' = Status(j)
  BY DEF vars, registry, counters, answers, Status, InQueue
<1>2. Shown' = Shown
  BY <1>1 DEF Shown
<1> QED BY <1>2 DEF Board!boardVars, Shown, vars, answers

LEMMA StepIsShown ==
  BoardInv /\ [AnsweredNext]_<<vars, answer>> => [Board!Next]_(Board!boardVars)
<1>1. ASSUME BoardInv, NEW id \in TaskIds, CancelTask(id) PROVE Board!Next
  BY <1>1, CancelNotFoundMisses, CancelRunningRequests, CancelQueuedRemoves
     DEF CancelTask, Board!Next
<1>2. ASSUME BoardInv, OtherStep PROVE Board!Next
  <2>1. Board!NoAnswer
    BY <1>2 DEF OtherStep
  <2>2. CASE AddTask
    BY <1>2, <2>1, <2>2, AddTaskSubmits DEF Board!Next
  <2>3. CASE ClearQueue
    BY <1>2, <2>1, <2>3, ClearQueueCloses DEF Board!Next
  <2>4. ASSUME NEW t \in ThreadIds, SkipCancelled(t) \/ AssignTask(t) PROVE Board!Next
    BY <1>2, <2>1, <2>4, SkipIsSilent, AssignTaskStarts DEF Board!Next
  <2>5. ASSUME NEW t \in ThreadIds, Finish(t) \/ TakeInterruption(t) PROVE Board!Next
    BY <1>2, <2>1, <2>5, RunTaskEnds DEF Board!Next
  <2>6. ASSUME NEW t \in ThreadIds, UnassignTask(t) PROVE Board!Next
    BY <1>2, <2>1, <2>6, UnassignIsSilent DEF Board!Next
  <2>7. CASE \/ CleanupStep
             \/ \E t \in ThreadIds :
                  EnterLoop(t) \/ LeaveLoop(t) \/ Lock(t) \/ EvalPred(t) \/ Wait(t)
                    \/ TimeOut(t) \/ Relock(t) \/ ReturnNone(t) \/ SpuriousWakeup(t)
                    \/ Leave(t)
    BY <1>2, <2>1, <2>7, RestIsSilent DEF Board!Next
  <2> QED
    BY <1>2, <2>2, <2>3, <2>4, <2>5, <2>6, <2>7 DEF OtherStep, ThreadStep
<1> QED BY <1>1, <1>2, StutterIsShown DEF AnsweredNext

(* The answers are an observer's: without them it is the pool. *)
LEMMA AnswersObserve ==
  [AnsweredNext]_<<vars, answer>> => [Next]_vars
BY DEF AnsweredNext, OtherStep, CancelTask, Next, ClientStep

-----------------------------------------------------------------------------

(* The invariant of the refinement holds in every state of the pool. *)
THEOREM BoardInvariantHolds == Spec => []BoardInv
BY BoardInit, BoardStep, PTL DEF Spec

(* A client cannot tell the pool from the board: tasks start in the order of
   their ids and at most once; the task that cancel_task answers for, each time
   that it answers, neither waits nor runs (NOT_FOUND), has started and ends as
   canceled if it has not ended (TERMINATED), or never starts
   (REMOVED_FROM_QUEUE); and the destructor drops what waits.               *)
THEOREM PoolImplementsBoard == AnsweredSpec => ImplementsBoard
<1>1. AnsweredInit => BoardInv
  BY BoardInit DEF AnsweredInit
<1>2. BoardInv /\ [AnsweredNext]_<<vars, answer>> => BoardInv'
  BY BoardStep, AnswersObserve
<1>3. AnsweredSpec => []BoardInv
  BY <1>1, <1>2, PTL DEF AnsweredSpec
<1> QED
  BY <1>3, InitShows, StepIsShown, PTL DEF AnsweredSpec, ImplementsBoard, Board!Spec

=============================================================================
