---------------------------- MODULE ConsoleProofs ---------------------------
(***************************************************************************)
(* The safety properties of Console for every set of pool threads, on both *)
(* platforms. The invariant says how far main can rely on the pointer:     *)
(* wholly until the handler has cleared it, and afterwards only if main    *)
(* was not in the loop at that moment.                                     *)
(***************************************************************************)
EXTENDS Console, TLAPS

(* The handler has not cleared the pointer. *)
Pending == loc.handler \in {"none", "raised", "swap"}

(* Between the tests of pool and the ends of its loop. *)
InLoop == {"read", "retest", "command", "call", "wait", "inside", "report", "printing"}

(* The pointer and the pool as main alone makes them, by where main is. *)
MainAlone ==
  /\ loc.main = "start" => ~pool /\ object = "none"
  /\ loc.main = "made" => ~pool /\ object = "alive"
  /\ loc.main = "test" => object = IF pool THEN "alive" ELSE "gone"
  /\ loc.main \in InLoop => pool /\ object = "alive"
  /\ loc.main = "swap" => pool /\ object = "alive" /\ old.main
  /\ loc.main \in Destructor => ~pool /\ object = "dying"
  /\ loc.main = "over" => ~pool /\ object = "gone"

(* A handler that came before the pool was published has found nothing. *)
EarlyHandlerFindsNothing ==
  /\ loc.handler = "swap" /\ loc.main \in {"start", "made"} => ~old.handler
  /\ ~Pending /\ interrupted \in {"start", "made"} => loc.handler = "exiting"

MainIsUndisturbed == Pending \/ interrupted \in {"start", "made"} => MainAlone

(* One of the two tests of pool is still ahead of main, and fails. *)
TestIsAhead ==
  ~Pending /\ interrupted \in {"test", "read", "retest"} =>
    ~pool /\ loc.main \in {"test", "read", "retest", "over"}

(* On main's thread the handler finds what main left, where main stands. *)
MainStands ==
  /\ loc.handler # "none" => interrupted # "never"
  /\ platform = "posix" /\ loc.handler # "none" => interrupted = loc.main
  /\ platform = "posix" /\ loc.handler = "swap" => old.handler = pool
  /\ platform = "posix" /\ loc.handler = "exiting" =>
       object = "gone" \/ loc.main \in {"start", "made"} \cup Destructor

(* No thread before the pool, and none after it. *)
ThreadsHaveAPool == object = "gone" \/ loc.main = "start" => AllJoined

(* What the pointer is worth to main. *)
PointerInv ==
  /\ EarlyHandlerFindsNothing
  /\ MainIsUndisturbed
  /\ TestIsAhead
  /\ MainStands

(* What the ends of the program are like. *)
EndInv ==
  /\ ThreadsHaveAPool
  /\ CrashIsRace
  /\ ExitJoinsThreads

(* What every step of the program preserves. *)
IInv == TypeOK /\ PointerInv /\ EndInv

-----------------------------------------------------------------------------

(* The program starts before the pool and its pointer. *)
LEMMA InitEstablishes == Init => IInv
<1> SUFFICES ASSUME Init PROVE IInv
  OBVIOUS
<1> USE DEF Init
<1>1. TypeOK
  BY DEF TypeOK, MainOnly, HandlerOnly, WorkerStates
<1>2. PointerInv
  BY DEF PointerInv, EarlyHandlerFindsNothing, MainIsUndisturbed, MainAlone,
         Pending, InLoop, TestIsAhead, MainStands, Destructor
<1>3. EndInv
  BY DEF EndInv, ThreadsHaveAPool, AllJoined, CrashIsRace, ExitJoinsThreads
<1> QED BY <1>1, <1>2, <1>3 DEF IInv

-----------------------------------------------------------------------------

(* The two steps of a reset that are the same code for main and the handler. *)
LEMMA SwapType ==
  ASSUME TypeOK, NEW a \in {"main", "handler"}, Swap(a)
  PROVE  TypeOK'
<1> USE DEF TypeOK, At, Goto, Move, Crash, Acquire, Release, flow, threads
<1>1. CASE Crash
  BY <1>1
<1>2. CASE ~Crash
  <2>1. /\ loc' = [loc EXCEPT ![a] = IF old[a] THEN "cleanup" ELSE AfterReset(a)]
        /\ pool' = FALSE
        /\ object' \in {"dying", object}
        /\ interrupted' \in {loc.main, interrupted}
        /\ UNCHANGED <<platform, old, ended, mutex, threads>>
    BY <1>2 DEF Swap
  <2>2. loc' \in [main : MainOnly \cup {"swap"} \cup Destructor,
                  handler : HandlerOnly \cup {"swap"} \cup Destructor]
    BY <2>1 DEF AfterReset, MainOnly, HandlerOnly, Destructor
  <2>3. /\ interrupted' \in {"never", "swap"} \cup MainOnly \cup Destructor
        /\ pool' \in BOOLEAN /\ object' \in {"none", "alive", "dying", "gone"}
    BY <2>1
  <2>4. UNCHANGED <<platform, old, ended, mutex, time_to_die, worker, missed>>
    BY <2>1
  <2> QED BY <2>2, <2>3, <2>4
<1> QED BY <1>1, <1>2

LEMMA DestroyType ==
  ASSUME TypeOK, NEW a \in {"main", "handler"}, Destroy(a)
  PROVE  TypeOK'
<1> USE DEF TypeOK, At, Goto, Move, Crash, Acquire, Release, flow, threads
<1>1. CASE \/ Acquire(a, "cout", "cleanup", "cleaning")
           \/ Acquire(a, "tasks", "clear", "clearing")
  BY <1>1 DEF ThreadOf, Destructor
<1>2. CASE \/ Release(a, "cout", "cleaning", "clear") /\ UNCHANGED threads
           \/ Release(a, "tasks", "clearing", "die") /\ UNCHANGED threads
  BY <1>2 DEF Destructor
<1>3. CASE Move(a, "die", "notify") /\ time_to_die' = TRUE
             /\ UNCHANGED <<mutex, worker, missed>>
  BY <1>3 DEF Destructor
<1>4. CASE Move(a, "notify", "join") /\ worker' = WakeAll
             /\ missed' = {w \in Workers : worker[w] = "blocking"}
             /\ UNCHANGED <<mutex, time_to_die>>
  BY <1>4 DEF WakeAll, WorkerStates, Destructor
<1>5. CASE At(a, "join") /\ Goto(a, AfterReset(a)) /\ object' = "gone"
             /\ UNCHANGED <<platform, pool, old, interrupted, ended, mutex, threads>>
  BY <1>5 DEF AfterReset, MainOnly, HandlerOnly, Destructor
<1> QED BY <1>1, <1>2, <1>3, <1>4, <1>5 DEF Destroy

(* main, outside of reset. *)
LEMMA MainLoopKeeps ==
  ASSUME IInv, ended = "no", MainLoop
  PROVE  IInv'
<1> USE DEF IInv, TypeOK, At, Goto, Move, Crash, Acquire, Release, flow, threads,
        MainOnly, HandlerOnly, Destructor, WorkerStates, PointerInv, EarlyHandlerFindsNothing,
        MainIsUndisturbed, MainAlone, InLoop, Pending, TestIsAhead, MainStands,
        EndInv, ThreadsHaveAPool, AllJoined, CrashIsRace, ExitJoinsThreads
<1>1. CASE Construct
  BY <1>1 DEF Construct
<1>2. CASE Publish
  <2>1. TypeOK'
    BY <1>2 DEF Publish, ThreadOf
  <2>2. PointerInv'
    BY <1>2, ZenonT(40) DEF Publish
  <2>3. EndInv'
    BY <1>2 DEF Publish
  <2> QED BY <2>1, <2>2, <2>3
<1>3. CASE TestPool
  BY <1>3 DEF TestPool
<1>4. CASE ReadLine
  BY <1>4 DEF ReadLine
<1>5. CASE TestPoolAgain
  BY <1>5 DEF TestPoolAgain, PoolLeft
<1>6. CASE Dispatch
  BY <1>6 DEF Dispatch
<1>7. CASE Dereference
  BY <1>7 DEF Dereference
<1>8. CASE EnterCall
  BY <1>8 DEF EnterCall, ThreadOf
<1>9. CASE LeaveCall
  BY <1>9 DEF LeaveCall, Joining
<1>10. CASE Report
  BY <1>10 DEF Report, ThreadOf
<1>11. CASE Printed
  BY <1>11 DEF Printed
<1>12. CASE Return
  BY <1>12 DEF Return
<1> QED
  BY <1>1, <1>2, <1>3, <1>4, <1>5, <1>6, <1>7, <1>8, <1>9, <1>10, <1>11, <1>12
     DEF MainLoop

(* reset, called by "quit" and by the handler. *)
LEMMA ResetKeeps ==
  ASSUME IInv, ended = "no",
         \E a \in {"main", "handler"} : Reset(a) \/ Swap(a) \/ Destroy(a)
  PROVE  IInv'
<1> USE DEF IInv, TypeOK, At, Goto, Move, Crash, Acquire, Release, flow, threads,
        MainOnly, HandlerOnly, Destructor, WorkerStates, PointerInv, EarlyHandlerFindsNothing,
        MainIsUndisturbed, MainAlone, InLoop, Pending, TestIsAhead, MainStands,
        EndInv, ThreadsHaveAPool, AllJoined, CrashIsRace, ExitJoinsThreads
<1>1. CASE Reset("main")
  BY <1>1 DEF Reset
<1>2. CASE Reset("handler")
  BY <1>2 DEF Reset
<1>3. CASE Swap("main")
  <2>1. TypeOK'
    BY <1>3, SwapType
  <2>2. PointerInv'
    BY <1>3 DEF Swap, AfterReset
  <2>3. EndInv'
    BY <1>3 DEF Swap, AfterReset
  <2> QED BY <2>1, <2>2, <2>3
<1>4. CASE Swap("handler")
  <2>1. TypeOK'
    BY <1>4, SwapType
  <2>2. PointerInv'
    BY <1>4 DEF Swap, AfterReset
  <2>3. EndInv'
    BY <1>4 DEF Swap, AfterReset
  <2> QED BY <2>1, <2>2, <2>3
<1>5. CASE Destroy("main")
  <2>1. TypeOK'
    BY <1>5, DestroyType
  <2>2. PointerInv'
    BY <1>5 DEF Destroy, AfterReset
  <2>3. EndInv'
    BY <1>5 DEF Destroy, AfterReset, WakeAll
  <2> QED BY <2>1, <2>2, <2>3
<1>6. CASE Destroy("handler")
  <2>1. TypeOK'
    BY <1>6, DestroyType
  <2>2. PointerInv'
    BY <1>6 DEF Destroy, AfterReset
  <2>3. EndInv'
    BY <1>6 DEF Destroy, AfterReset, WakeAll
  <2> QED BY <2>1, <2>2, <2>3
<1> QED BY <1>1, <1>2, <1>3, <1>4, <1>5, <1>6

(* SIGINT, and exit in the handler. *)
LEMMA SignalKeeps ==
  ASSUME IInv, ended = "no", Interrupt \/ Exit
  PROVE  IInv'
<1> USE DEF IInv, TypeOK, At, Goto, Move, Crash, Acquire, Release, flow, threads,
        MainOnly, HandlerOnly, Destructor, WorkerStates, PointerInv, EarlyHandlerFindsNothing,
        MainIsUndisturbed, MainAlone, InLoop, Pending, TestIsAhead, MainStands,
        EndInv, ThreadsHaveAPool, AllJoined, CrashIsRace, ExitJoinsThreads
<1>1. CASE Interrupt
  BY <1>1 DEF Interrupt
<1>2. CASE Exit
  BY <1>2 DEF Exit
<1> QED BY <1>1, <1>2

(* The threads of the pool: they come with add_task only. *)
LEMMA WorkersKeep ==
  ASSUME IInv, ended = "no", NEW w \in Workers, WorkerStep(w)
  PROVE  IInv'
<1> USE DEF IInv, flow, threads
<1>1. /\ UNCHANGED <<flow, loc, time_to_die, missed>>
      /\ \A v \in Workers : worker[v] \in {"none", "done"} => worker'[v] = worker[v]
      /\ worker' \in [Workers -> WorkerStates]
      /\ mutex' \in [tasks : Workers \cup {Nobody, "main", "own"},
                     cout : Workers \cup {Nobody, "main", "own"}]
  <2> USE DEF TypeOK, Becomes, WorkerStates
  <2>1. CASE SeesNothing(w) \/ WakeUp(w) \/ EndsTask(w) \/ WorkerLeaves(w)
    BY <2>1 DEF SeesNothing, WakeUp, EndsTask, WorkerLeaves
  <2>2. CASE Sleep(w) \/ GetsTask(w)
    BY <2>2 DEF Sleep, GetsTask
  <2>3. CASE \E m \in DOMAIN mutex : WorkerTakes(w, m) \/ WorkerReleases(w, m)
    BY <2>3 DEF WorkerTakes, WorkerReleases
  <2> QED BY <2>1, <2>2, <2>3 DEF WorkerStep
<1>2. TypeOK'
  BY <1>1 DEF TypeOK
<1>3. PointerInv'
  BY <1>1 DEF PointerInv, EarlyHandlerFindsNothing, MainIsUndisturbed, MainAlone,
         InLoop, Pending, TestIsAhead, MainStands
<1>4. EndInv'
  BY <1>1 DEF EndInv, ThreadsHaveAPool, AllJoined, CrashIsRace, ExitJoinsThreads
<1> QED BY <1>2, <1>3, <1>4

(* What nobody's step can break. *)
LEMMA StepPreserves == IInv /\ [Next]_vars => IInv'
<1> SUFFICES ASSUME IInv, [Next]_vars PROVE IInv'
  OBVIOUS
<1>1. CASE Next
  BY <1>1, MainLoopKeeps, ResetKeeps, SignalKeeps, WorkersKeep DEF Next, HandlerStep
<1>2. CASE UNCHANGED vars
  <2> USE <1>2 DEF IInv, vars, flow, threads
  <2>1. TypeOK'
    BY DEF TypeOK
  <2>2. PointerInv'
    BY DEF PointerInv, EarlyHandlerFindsNothing, MainIsUndisturbed, MainAlone,
         InLoop, Pending, TestIsAhead, MainStands
  <2>3. EndInv'
    BY DEF PointerInv, MainIsUndisturbed, MainAlone, InLoop, Pending, MainStands,
           EndInv, ThreadsHaveAPool, AllJoined, CrashIsRace, ExitJoinsThreads
  <2> QED BY <2>1, <2>2, <2>3
<1> QED BY <1>1, <1>2

-----------------------------------------------------------------------------
(* The invariant, and the properties of Console that are read off it. *)

(* IInv holds in every state of the program. *)
THEOREM InvariantHolds == Spec => []IInv
BY InitEstablishes, StepPreserves, PTL DEF Spec

(* The variables have the types that TypeOK gives them. *)
THEOREM TypeCorrect == Spec => []TypeOK
<1>1. IInv => TypeOK
  BY DEF IInv
<1> QED BY <1>1, InvariantHolds, PTL

(* Nobody uses or destroys a pool that is gone, except main of Windows, once it
   is behind the test of line 59 when SIGINT comes.                         *)
THEOREM NoUseAfterReset == Spec => []CrashIsRace
<1>1. IInv => CrashIsRace
  BY DEF IInv, EndInv
<1> QED BY <1>1, InvariantHolds, PTL

(* The program ends when its threads have been joined, unless SIGINT has come
   while main created or destroyed the pool or, on Windows, before main ended. *)
THEOREM ThreadsAreJoined == Spec => []ExitJoinsThreads
<1>1. IInv => ExitJoinsThreads
  BY DEF IInv, EndInv
<1> QED BY <1>1, InvariantHolds, PTL

=============================================================================
