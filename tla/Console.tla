------------------------------- MODULE Console ------------------------------
(***************************************************************************)
(* main_threadpool.cpp: main's loop calls the pool that the global pointer *)
(* names, until "quit" or SIGINT destroys it. POSIX runs the handler on    *)
(* main's thread, at any point and even inside a call; Windows runs it in  *)
(* a thread of its own, next to main.                                      *)
(*                                                                         *)
(* Of the pool there is what the two can get entangled in: its life, its   *)
(* mutex, the console's mutex, and the threads that take them, one at a    *)
(* time, and that sleep, run tasks and have to be joined. The queue is     *)
(* ThreadPool's matter.                                                    *)
(***************************************************************************)
EXTENDS Integers

CONSTANTS
  Workers,    \* the threads the pool may create
  Hot,        \* those of them that the constructor creates, without a timeout
  Nobody

ASSUME NobodyIsNoThread == Nobody \notin Workers \cup {"main", "own"}
ASSUME HotAreWorkers == Hot \subseteq Workers

VARIABLES
  platform,
  pool,          \* the global pointer is not null
  object,        \* the pool: "none", "alive", "dying", "gone"
  loc,           \* where the code of main and of the handler is
  old,           \* whether reset's temporary is not null, for each of the two
  interrupted,   \* where main was when SIGINT came, then when the handler
                 \* cleared the pointer
  ended,         \* "no", "exit", or "crash": undefined behaviour
  mutex,         \* the holders of tasks_mutex_ and cout_mutex
  time_to_die,
  worker,        \* what each thread of the pool is at
  missed         \* the threads that notify_all came too early for

flow == <<platform, pool, object, old, interrupted, ended>>
threads == <<time_to_die, worker, missed>>
vars == <<flow, loc, mutex, threads>>

(* Where they can be. pool.reset() is the same code for both.
     start     before line 53         made      the pool exists, not the pointer
     test      while (pool)           read      in getline
     retest    at line 59             command   knows what to do
     call      at pool->              wait      wants tasks_mutex_
     inside    add or cancel, has it  report    wants cout_mutex
     printing  has it                 over      behind the loop
     raised    the handler's start    exiting   at exit(0)                     *)
MainOnly == {"start", "made", "test", "read", "retest", "command", "call", "wait",
             "inside", "report", "printing", "over"}
HandlerOnly == {"none", "raised", "exiting"}
(*   swap      in reset, old is read
     cleanup   wants cout_mutex       cleaning  has it
     clear     wants tasks_mutex_     clearing  has it
     die       to set the flag        notify    to notify all
     join      waits for the threads                                           *)
Destructor == {"cleanup", "cleaning", "clear", "clearing", "die", "notify", "join"}

(* A thread of the pool.
     none      not created            live      in thread_run, but for
     blocking  has tasks_mutex_, and  asleep    in tasks_cond_
               pred was false         busy      has a task
     done      returned                                                        *)
WorkerStates == {"none", "live", "blocking", "asleep", "busy", "done"}

Init ==
  /\ platform \in {"posix", "windows"}
  /\ pool = FALSE
  /\ object = "none"
  /\ loc = [main |-> "start", handler |-> "none"]
  /\ old = [main |-> FALSE, handler |-> FALSE]
  /\ interrupted = "never"
  /\ ended = "no"
  /\ mutex = [tasks |-> Nobody, cout |-> Nobody]
  /\ time_to_die = FALSE
  /\ worker = [w \in Workers |-> "none"]
  /\ missed = {}

ThreadOf(a) == IF a = "handler" /\ platform = "windows" THEN "own" ELSE "main"

(* main stands still while the handler is on its thread: it does not return. *)
At(a, from) ==
  /\ loc[a] = from
  /\ a = "main" => platform = "windows" \/ loc.handler = "none"

Goto(a, to) == loc' = [loc EXCEPT ![a] = to]
Move(a, from, to) == At(a, from) /\ Goto(a, to) /\ UNCHANGED flow

Acquire(a, m, from, to) ==
  /\ mutex[m] = Nobody
  /\ Move(a, from, to)
  /\ mutex' = [mutex EXCEPT ![m] = ThreadOf(a)]
  /\ UNCHANGED threads

Release(a, m, from, to) ==
  /\ Move(a, from, to)
  /\ mutex' = [mutex EXCEPT ![m] = Nobody]

Crash ==
  /\ ended' = "crash"
  /\ UNCHANGED <<platform, pool, object, loc, old, interrupted, mutex, threads>>

-----------------------------------------------------------------------------
(* main *)

(* new threadpool: with any of the hot threads. *)
Construct ==
  /\ At("main", "start") /\ Goto("main", "made")
  /\ object' = "alive"
  /\ \E created \in SUBSET Hot :
       worker' = [w \in Workers |-> IF w \in created THEN "live" ELSE "none"]
  /\ UNCHANGED <<platform, pool, old, interrupted, ended, mutex, time_to_die, missed>>

Publish ==
  /\ At("main", "made") /\ Goto("main", "test")
  /\ pool' = TRUE
  /\ UNCHANGED <<platform, object, old, interrupted, ended, mutex, threads>>

TestPool ==
  /\ Move("main", "test", IF pool THEN "read" ELSE "over")
  /\ UNCHANGED <<mutex, threads>>

ReadLine == Move("main", "read", "retest") /\ UNCHANGED <<mutex, threads>>

NoTest == TRUE    \* mutant: line 59 is missing
PoolLeft == pool

TestPoolAgain ==
  /\ Move("main", "retest", IF PoolLeft THEN "command" ELSE "over")
  /\ UNCHANGED <<mutex, threads>>

(* add and cancel go through the pool; whatever is unknown is an "Error". *)
Dispatch ==
  /\ \E to \in {"call", "report"} : Move("main", "command", to)
  /\ UNCHANGED <<mutex, threads>>

(* scoped_ptr's operator-> asserts that the pointer is not null. *)
Dereference ==
  \/ pool /\ Move("main", "call", "wait") /\ UNCHANGED <<mutex, threads>>
  \/ ~pool /\ At("main", "call") /\ Crash

EnterCall ==
  \/ object # "gone" /\ Acquire("main", "tasks", "wait", "inside")
  \/ object = "gone" /\ At("main", "wait") /\ Crash

(* The destructor goes through threads_ without tasks_mutex_. *)
Joining == \E a \in DOMAIN loc : loc[a] = "join"

(* add_task may have created a thread, which it must not while they are joined;
   nor can the mutex of a pool that is gone be released.                      *)
LeaveCall ==
  \/ /\ object # "gone"
     /\ Release("main", "tasks", "inside", "report")
     /\ \/ UNCHANGED worker
        \/ /\ ~Joining
           /\ \E w \in Workers \ Hot :
                worker[w] = "none" /\ worker' = [worker EXCEPT ![w] = "live"]
     /\ UNCHANGED <<time_to_die, missed>>
  \/ /\ object = "gone" \/ Joining
     /\ At("main", "inside")
     /\ Crash

Report == Acquire("main", "cout", "report", "printing")
Printed == Release("main", "cout", "printing", "test") /\ UNCHANGED threads

Return ==
  /\ At("main", "over")
  /\ ended' = "exit"
  /\ UNCHANGED <<platform, pool, object, loc, old, interrupted, mutex, threads>>

-----------------------------------------------------------------------------
(* pool.reset(), of "quit" and of the handler; a is "main" or "handler". *)

ExitFromLoop(a) == "exiting"    \* mutant: "quit" exits, too
AfterReset(a) == IF a = "main" THEN "test" ELSE "exiting"

Reset(a) ==
  /\ At(a, IF a = "main" THEN "command" ELSE "raised")
  /\ Goto(a, "swap")
  /\ old' = [old EXCEPT ![a] = pool]
  /\ UNCHANGED <<platform, pool, object, interrupted, ended, mutex, threads>>

(* The pointer is cleared first; a pool that two of them found is destroyed
   twice.                                                                  *)
Swap(a) ==
  \/ /\ old[a] => object = "alive"
     /\ At(a, "swap") /\ Goto(a, IF old[a] THEN "cleanup" ELSE AfterReset(a))
     /\ pool' = FALSE
     /\ object' = IF old[a] THEN "dying" ELSE object
     /\ interrupted' = IF a = "handler" THEN loc.main ELSE interrupted
     /\ UNCHANGED <<platform, old, ended, mutex, threads>>
  \/ old[a] /\ object # "alive" /\ At(a, "swap") /\ Crash

NotJoined == TRUE    \* mutant: the destructor does not wait
AllJoined == \A w \in Workers : worker[w] \in {"none", "done"}

WakeNobody == worker    \* mutant: nobody is notified
WakeAll == [w \in Workers |-> IF worker[w] = "asleep" THEN "live" ELSE worker[w]]

Destroy(a) ==
  \/ Acquire(a, "cout", "cleanup", "cleaning")
  \/ Release(a, "cout", "cleaning", "clear") /\ UNCHANGED threads
  \/ Acquire(a, "tasks", "clear", "clearing")
  \/ Release(a, "tasks", "clearing", "die") /\ UNCHANGED threads
  \/ /\ Move(a, "die", "notify")
     /\ time_to_die' = TRUE
     /\ UNCHANGED <<mutex, worker, missed>>
  \/ /\ Move(a, "notify", "join")
     /\ worker' = WakeAll
     /\ missed' = {w \in Workers : worker[w] = "blocking"}
     /\ UNCHANGED <<mutex, time_to_die>>
  \/ /\ AllJoined
     /\ At(a, "join") /\ Goto(a, AfterReset(a))
     /\ object' = "gone"
     /\ UNCHANGED <<platform, pool, old, interrupted, ended, mutex, threads>>

-----------------------------------------------------------------------------
(* SIGINT, and the pool's threads *)

Interrupt ==
  /\ loc.handler = "none" /\ Goto("handler", "raised")
  /\ interrupted' = loc.main
  /\ UNCHANGED <<platform, pool, object, old, ended, mutex, threads>>

Exit ==
  /\ At("handler", "exiting")
  /\ ended' = "exit"
  /\ UNCHANGED <<platform, pool, object, loc, old, interrupted, mutex, threads>>

Holds(t) == \E m \in DOMAIN mutex : mutex[m] = t

Becomes(w, from, to) ==
  /\ worker[w] = from
  /\ worker' = [worker EXCEPT ![w] = to]
  /\ UNCHANGED <<flow, loc, time_to_die, missed>>

(* With a task in hand a thread only prints. *)
WorkerTakes(w, m) ==
  /\ worker[w] \in IF m = "cout" THEN {"live", "busy"} ELSE {"live"}
  /\ ~Holds(w)
  /\ mutex[m] = Nobody
  /\ mutex' = [mutex EXCEPT ![m] = w]
  /\ UNCHANGED <<flow, loc, threads>>

WorkerReleases(w, m) ==
  /\ worker[w] # "blocking"
  /\ mutex[m] = w
  /\ mutex' = [mutex EXCEPT ![m] = Nobody]
  /\ UNCHANGED <<flow, loc, threads>>

(* assign_task: the wait, between whose test of the flag and whose sleep there
   is room for the flag and notify_all; or a task.                            *)
SeesNothing(w) ==
  /\ mutex.tasks = w /\ ~time_to_die
  /\ Becomes(w, "live", "blocking")
  /\ UNCHANGED mutex

Sleep(w) ==
  /\ Becomes(w, "blocking", "asleep")
  /\ mutex' = [mutex EXCEPT !.tasks = Nobody]

(* A notification of add_task, a timeout, or nothing at all. *)
WakeUp(w) == Becomes(w, "asleep", "live") /\ UNCHANGED mutex

GetsTask(w) ==
  /\ mutex.tasks = w /\ ~time_to_die
  /\ Becomes(w, "live", "busy")
  /\ mutex' = [mutex EXCEPT !.tasks = Nobody]

EndsTask(w) == ~Holds(w) /\ Becomes(w, "busy", "live") /\ UNCHANGED mutex

(* After a timeout, which hot threads do not have, or at the end of the pool. *)
WorkerLeaves(w) ==
  /\ ~Holds(w)
  /\ w \in Hot => time_to_die
  /\ Becomes(w, "live", "done")
  /\ UNCHANGED mutex

WorkerStep(w) ==
  \/ SeesNothing(w) \/ Sleep(w) \/ WakeUp(w) \/ GetsTask(w) \/ EndsTask(w)
  \/ WorkerLeaves(w)
  \/ \E m \in DOMAIN mutex : WorkerTakes(w, m) \/ WorkerReleases(w, m)

MainLoop ==
  \/ Construct \/ Publish \/ TestPool \/ ReadLine \/ TestPoolAgain \/ Dispatch
  \/ Dereference \/ EnterCall \/ LeaveCall \/ Report \/ Printed \/ Return

HandlerStep == Reset("handler") \/ Swap("handler") \/ Destroy("handler") \/ Exit

Next ==
  /\ ended = "no"
  /\ \/ MainLoop
     \/ Reset("main") \/ Swap("main") \/ Destroy("main")
     \/ Interrupt
     \/ HandlerStep
     \/ \E w \in Workers : WorkerStep(w)

(* The handler goes on, and gets a mutex that is free again and again: strong
   fairness, as nobody computes or waits with a mutex in hand. Who holds one
   goes on as well, unless the handler has stopped it, and timeouts pass. A
   thread that is awake, has no task and finds the flag set leaves: what it
   locks on its way out are finitely many mutexes, each of which it gets. That
   a sleeping thread wakes, or that a task ends, is assumed of nobody.       *)
Fairness ==
  /\ SF_vars(ended = "no" /\ HandlerStep)
  /\ WF_vars(ended = "no" /\ Holds("main") /\ (LeaveCall \/ Printed \/ Destroy("main")))
  /\ \A w \in Workers :
       /\ SF_vars(ended = "no" /\ time_to_die /\ WorkerLeaves(w))
       /\ WF_vars(ended = "no" /\ (Sleep(w) \/ \E m \in DOMAIN mutex : WorkerReleases(w, m)))
  /\ \A w \in Workers \ Hot : WF_vars(ended = "no" /\ WakeUp(w))

Spec == Init /\ [][Next]_vars /\ Fairness

-----------------------------------------------------------------------------
(* Properties. *)

TypeOK ==
  /\ platform \in {"posix", "windows"}
  /\ pool \in BOOLEAN /\ time_to_die \in BOOLEAN
  /\ object \in {"none", "alive", "dying", "gone"}
  /\ loc \in [main : MainOnly \cup {"swap"} \cup Destructor,
             handler : HandlerOnly \cup {"swap"} \cup Destructor]
  /\ old \in [main : BOOLEAN, handler : BOOLEAN]
  /\ interrupted \in {"never", "swap"} \cup MainOnly \cup Destructor
  /\ ended \in {"no", "exit", "crash"}
  /\ mutex \in [tasks : Workers \cup {Nobody, "main", "own"},
               cout : Workers \cup {Nobody, "main", "own"}]
  /\ worker \in [Workers -> WorkerStates]
  /\ missed \subseteq Workers

(* Nobody uses a pool that is gone, or destroys it again: on one thread the
   handler gives main no chance to. With two threads main may, but not if main
   was before the test of line 59 when the handler cleared the pointer: all the
   time that main waits for its user is covered.                            *)
CrashIsRace ==
  ended = "crash" =>
    /\ platform = "windows"
    /\ loc.main \in {"call", "wait", "inside"} =>
         interrupted \notin {"start", "made", "test", "read", "retest"}

(* The program does not end over running tasks: its threads have been joined,
   unless SIGINT has come while main itself was creating or destroying the pool,
   or main, on a thread of its own, returned before the handler was done.   *)
ExitJoinsThreads ==
  ended = "exit" /\ (\E w \in Workers : worker[w] \notin {"none", "done"}) =>
    \/ interrupted \in Destructor \cup {"made"}
    \/ platform = "windows" /\ interrupted # "never"

(* The join of the handler waits for ever for a task that does not end, which
   the destructor does not interrupt, and for a hot thread that went to sleep
   after notify_all, having looked at the flag before it was set.            *)
JoinIsStuck ==
  /\ loc.handler = "join"
  /\ \E w \in Workers :
       \/ worker[w] = "busy"
       \/ w \in Hot \cap missed /\ worker[w] = "asleep"

(* SIGINT ends the program, unless it stops main while main has one of the two
   mutexes that the destructor, on the same thread, then waits for, or the join
   is stuck: no other thread, asleep or awake, and no mutex keeps it.        *)
SigintEnds ==
  loc.handler # "none" ~>
    \/ ended # "no"
    \/ platform = "posix" /\ interrupted \in {"inside", "printing"}
    \/ JoinIsStuck

=============================================================================
